--------------------------- MODULE SwdLine_proofs ---------------------------
(***************************************************************************)
(* For every board, every turnaround, every list of entries, any length of *)
(* a request and of a word and any number of failed ioctls: SWDIO has one   *)
(* driver at a time, the host and the target agree where they are, and the  *)
(* host has the line when it should.                                        *)
(***************************************************************************)
EXTENDS SwdLine, InductionFacts, SequenceTheorems, TLAPS

USE LineAssumption

-----------------------------------------------------------------------------
(* Steps, and what they do to the lines.  The driver's own note of whose line *)
(* SWDIO is counts as one.                                                    *)

Lines == {"clk", "dout", "dir", "low", "note"}
Pins == {"clk", "dout", "dir", "low"}
Line(l) == IF l = "note" THEN flags.driving ELSE pins[l]

Kinds == {"write", "cycle", "read", "in", "out", "reset", "raw"}
PutSteps == [do : {"put"}, pin : Pins, v : BOOLEAN]
ConfigSteps == [do : {"config"}, lines : SUBSET Pins, v : BOOLEAN]
NoteSteps == [do : {"note"}, driving : BOOLEAN]
CycleSteps == [do : {"cycles"}, n : Nat \ {0}, as : Kinds]
Step == PutSteps \cup ConfigSteps \cup NoteSteps \cup CycleSteps \cup {Hear, Level}

Sets(s, l, v) ==
  \/ s.do = "put" /\ s.pin = l /\ s.v = v
  \/ s.do = "config" /\ l \in s.lines /\ s.v = v
  \/ s.do = "note" /\ l = "note" /\ s.driving = v
Moves(s) == s.do \in {"put", "config", "note"}

\* What a step of each call may be.
Turns(s) ==
  \/ s.do \in {"note", "cycles", "level", "hear"}
  \/ s.do = "put" /\ (s.pin = "low" \/ (s.pin = "dout" /\ board.shared))
  \/ s.do = "config" /\ s.lines = {"dout"} /\ board.shared
Clocks(s, as) == s.do = "cycles" /\ s.as = as
OnlyOn(s) == Moves(s) /\ \A l \in Lines : ~ Sets(s, l, FALSE)
OnlyOff(s) == Moves(s) /\ (\A l \in Lines : ~ Sets(s, l, TRUE)) /\ ~ Sets(s, "low", FALSE)
Fits(op, s) ==
  /\ op = "connect" => OnlyOn(s)
  /\ op = "disconnect" => OnlyOff(s)
  /\ op = "transfer" => Turns(s)
  /\ op = "sequences" => Turns(s) /\ s.do # "hear" /\ ~ Clocks(s, "write")
  /\ op = "sequence" => Clocks(s, "reset")
  /\ op = "pins" => s.do = "level" \/ Clocks(s, "raw")
  /\ op = "calibrate" => Clocks(s, "raw") \/ (s.do = "config" /\ s.lines = {"clk"})
  /\ op = "close" => s.do = "config" /\ s.lines = {"clk", "dout", "dir"} /\ ~ s.v

\* The steps t leave line l on.
EndsOn(t, l, was) ==
  \/ was /\ \A j \in DOMAIN t : ~ Sets(t[j], l, FALSE)
  \/ \E i \in DOMAIN t : Sets(t[i], l, TRUE) /\ \A j \in DOMAIN t : j > i => ~ Sets(t[j], l, FALSE)

\* What the host needs to speak after a call, besides the lines only PortOn sets.
Held(op) ==
  {l \in Lines : \/ l = "note" /\ Linux
                 \/ l = "dout" /\ (board.shared \/ op = "connect")
                 \/ l = "low" /\ board.dir
                 \/ l = "clk" /\ op = "connect"
                 \/ l = "dir" /\ board.dir /\ op = "connect"}

Both == board.shared /\ board.dir
Turned == call.op \in {"transfer", "sequences"}

-----------------------------------------------------------------------------
(* The invariant: of the lines.                                               *)

Ops == {"none", "connect", "disconnect", "transfer", "sequence", "sequences", "pins",
        "calibrate", "close"}
Call == [op : Ops, rnw : BOOLEAN, bad : BOOLEAN]
Phases == {"idle", "request", "turn", "ack", "data", "turnback", "take"}
Said == {"OK", "WAIT", "FAULT"}
Levels == [clk : BOOLEAN, dout : BOOLEAN, dir : BOOLEAN, low : BOOLEAN]
Flags == [driving : BOOLEAN, mask : BOOLEAN, err : BOOLEAN]
Cfg == [turnaround : Turnarounds, dataPhase : BOOLEAN]
Target == [at : Phases, left : Nat, said : Said \cup {"none"}]

Typed ==
  /\ board \in Boards /\ pins \in Levels /\ flags \in Flags
  /\ cfg \in Cfg
  /\ call \in Call /\ last \in Call /\ todo \in Seq(Step)
  /\ target \in Target
  /\ faults \in Nat /\ trust \in {"none", "pins", "all"}

\* A fault is remembered, and the call it came in knows of it.
Remembered ==
  /\ trust # "all" => flags.err
  /\ flags.mask => flags.driving
  /\ (call.bad /\ call.op # "sequences") => trust = "none"

\* The steps left are the call's, and only the ACK has more to come after it.
Suited ==
  /\ call.op = "none" => todo = <<>>
  /\ \A i \in DOMAIN todo : Fits(call.op, todo[i])
  /\ \A i \in DOMAIN todo : todo[i].do = "hear" => i = Len(todo)

\* The host ends up with the line.
Ending ==
  call.op \in {"connect", "transfer", "sequences"} /\ ~ call.bad
    /\ (\A i \in DOMAIN todo : todo[i].do # "hear")
  => \A l \in Held(call.op) : EndsOn(todo, l, Line(l))
Rested ==
  call.op = "none" /\ last.op \in {"connect", "transfer", "sequences"} /\ ~ last.bad
  => \A l \in Held(last.op) : Line(l)

\* SWCLK is driven while something else of the port may be off.
Warming ==
  \/ call.op = "connect"
  \/ call.op = "calibrate" /\ \E i \in DOMAIN todo : Sets(todo[i], "clk", FALSE)
\* measure gives SWCLK back.
GivesBack(t) ==
  \A i \in DOMAIN t : Sets(t[i], "clk", TRUE) =>
    \E j \in DOMAIN t : j > i /\ Sets(t[j], "clk", FALSE)
GoesOff ==
  /\ (call.op = "disconnect" /\ trust # "none" /\ pins.clk) =>
       todo # <<>> /\ Sets(todo[1], "clk", FALSE)
  /\ call.op = "calibrate" => GivesBack(todo)
Powered ==
  trust # "none" /\ ~ Warming /\ pins.clk =>
    (board.dir => pins.dir) /\ (~ board.shared => pins.dout)

\* The buffer is turned before the pin drives it and after it stopped, and
\* linuxgpiod's note follows the pin.
Link(p, s) ==
  /\ Both => /\ Sets(s, "low", FALSE) => Sets(p, "dout", FALSE)
             /\ Sets(s, "dout", TRUE) => Sets(p, "low", TRUE)
  /\ Linux /\ board.shared => (Sets(s, "note", TRUE) => Sets(p, "dout", TRUE))
NoteSoon(t, k) ==
  \/ k \in DOMAIN t /\ Sets(t[k], "note", FALSE)
  \/ k \in DOMAIN t /\ k + 1 \in DOMAIN t /\ Sets(t[k], "low", FALSE) /\ Sets(t[k + 1], "note", FALSE)
Chained(t) ==
  /\ \A i, j \in DOMAIN t : j = i + 1 => Link(t[i], t[j])
  /\ Linux => \A i \in DOMAIN t : Sets(t[i], "dout", FALSE) => NoteSoon(t, i + 1)
SafeNow(s) ==
  /\ Both => /\ Sets(s, "low", FALSE) => ~ pins.dout
             /\ Sets(s, "dout", TRUE) => pins.low
  /\ Linux /\ board.shared => (Sets(s, "note", TRUE) => pins.dout)
Orderly ==
  Turned => Chained(todo) /\ (trust # "none" /\ todo # <<>> => SafeNow(todo[1]))

Netted ==
  trust # "none" /\ call.op # "connect" /\ Both /\ pins.dir /\ pins.dout => pins.low
Noted ==
  trust # "none" /\ ~ Warming /\ Linux /\ pins.clk /\ flags.driving /\ ~ pins.dout =>
    Turned /\ board.shared /\ NoteSoon(todo, 1)

-----------------------------------------------------------------------------
(* And of the two sides.                                                      *)

\* The line that, off, keeps the host from driving.
Gate == IF board.dir THEN "low" ELSE "dout"
GateOff == ~ pins[Gate]
Silent == target = Quiet
In(at, n) == \E a \in Said : target = Phase(at, n, a)

AckRest == <<Cycles(AckBits, "read")>> \o <<Hear>>
TurnRest == <<Cycles(cfg.turnaround, "cycle")>> \o AckRest
GiveRest == <<Cycles(DataBits, "write")>> \o <<Level>>
IgnoreRest == <<Cycles(DataBits, "cycle")>> \o <<Level>>
SkipRest == <<Level>> \o IgnoreRest
AskForm(n) == <<Cycles(n, "write")>> \o (Release \o TurnRest)
BackForm(n, r) == <<Cycles(n, "cycle")>> \o (Take \o r)
DataForm(n, as) == <<Cycles(n, as)>> \o BackForm(cfg.turnaround, <<Level>>)

Asking(n) ==
  /\ todo = AskForm(n)
  /\ \/ Silent /\ (n = RequestBits \/ ~ (pins.clk /\ HostSpeaks))
     \/ n < RequestBits /\ target = Phase("request", n, "none")
Releasing(s) ==
  /\ todo = s \o TurnRest /\ s # <<>>
  /\ \A i \in DOMAIN s : Moves(s[i]) /\ ~ Sets(s[i], Gate, TRUE)
  /\ GateOff \/ \E i \in DOMAIN s : Sets(s[i], Gate, FALSE)
  /\ Silent \/ In("turn", cfg.turnaround)
Turning(n) ==
  /\ todo = <<Cycles(n, "cycle")>> \o AckRest /\ GateOff
  /\ Silent \/ In("turn", n)
Reading(n) ==
  /\ todo = <<Cycles(n, "read")>> \o <<Hear>> /\ GateOff
  /\ Silent \/ In("ack", n)
Hearing ==
  /\ todo = <<Hear>> /\ GateOff
  /\ \/ Silent
     \/ call.rnw /\ HasData(target.said) /\ In("data", DataBits)
     \/ ~ (call.rnw /\ HasData(target.said)) /\ In("turnback", cfg.turnaround)
DataIn(n, as) ==
  /\ todo = DataForm(n, as)
  /\ GateOff /\ call.rnw /\ In("data", n)
\* How many cycles the target goes on for without the host.
Over(n) ==
  \/ Silent
  \/ target.at = "data" /\ call.rnw /\ target.left + cfg.turnaround <= n
  \/ /\ target.at = "turnback" /\ target.left <= n
     /\ (~ call.rnw /\ HasData(target.said)) => target.left + DataBits <= n
  \/ target.at = "take" /\ target.left <= n
Goes(r) ==
  \/ r = <<Level>>
  \/ r = GiveRest /\ ~ call.rnw /\ target.said = "OK"
  \/ r = SkipRest /\ ~ call.rnw /\ target.said # "OK" /\ cfg.dataPhase
Back(n, r) ==
  /\ todo = BackForm(n, r) /\ GateOff /\ Goes(r)
  /\ IF r = <<Level>> THEN Over(n) /\ (target.left > 0 \/ Silent) ELSE In("turnback", n)
Taking(s, r) ==
  /\ todo = s \o r /\ s # <<>> /\ Goes(r)
  /\ \A i \in DOMAIN s : Moves(s[i])
  /\ IF r = <<Level>> THEN Silent ELSE In("take", DataBits)
Giving(n) == todo = <<Cycles(n, "write")>> \o <<Level>> /\ target = Phase("take", n, "OK")
Skipping == todo = SkipRest /\ In("take", DataBits) /\ target.said # "OK"
Ignoring(n) ==
  todo = <<Cycles(n, "cycle")>> \o <<Level>> /\ In("take", n) /\ target.said # "OK"
Levelling == todo = <<Level>> /\ Silent
Done == todo = <<>> /\ Silent

Count == Nat \ {0}
Places ==
  \/ \E n \in 1..RequestBits : Asking(n)
  \/ \E s \in Seq(Step) : Releasing(s)
  \/ \E n \in Count : Turning(n) \/ Reading(n) \/ Giving(n) \/ Ignoring(n)
  \/ Hearing \/ Skipping \/ Levelling \/ Done
  \/ \E n \in Count, as \in {"read", "cycle"} : DataIn(n, as)
  \/ \E n \in Count, r \in Seq(Step) : Back(n, r)
  \/ \E s, r \in Seq(Step) : Taking(s, r)

InStep ==
  trust = "all" =>
    /\ target # Quiet => pins.clk /\ target.left > 0
    /\ IF call.op = "transfer" THEN Places ELSE Silent
\* A line reset brings the target to rest.
Resets ==
  call.op = "sequence" /\ trust # "none" /\ pins.clk /\ HostSpeaks
    /\ todo # << Cycles(2, "reset") >>
  => Silent

IInv == /\ Typed /\ Remembered /\ Suited /\ Ending /\ Rested /\ GoesOff /\ Powered
        /\ Orderly /\ Netted /\ Noted /\ InStep /\ Resets

-----------------------------------------------------------------------------
(* Sequences. *)

LEMMA ConcatAt ==
  ASSUME NEW S, NEW a \in Seq(S), NEW b \in Seq(S)
  PROVE  /\ a \o b \in Seq(S) /\ Len(a \o b) = Len(a) + Len(b)
         /\ \A i \in DOMAIN a : i \in DOMAIN (a \o b) /\ (a \o b)[i] = a[i]
         /\ \A i \in DOMAIN b : Len(a) + i \in DOMAIN (a \o b) /\ (a \o b)[Len(a) + i] = b[i]
         /\ \A i \in DOMAIN (a \o b) : i \in DOMAIN a \/ (i - Len(a) \in DOMAIN b /\ i > Len(a))
OBVIOUS

LEMMA ConcatAssoc ==
  ASSUME NEW S, NEW a \in Seq(S), NEW b \in Seq(S), NEW c \in Seq(S)
  PROVE  (a \o b) \o c = a \o (b \o c)
BY SMTT(30)

Assoc(a, b, c) == (a \o b) \o c = a \o (b \o c)
LEMMA ConcatIsAssoc ==
  ASSUME NEW S, NEW a \in Seq(S), NEW b \in Seq(S), NEW c \in Seq(S)
  PROVE  Assoc(a, b, c)
BY ConcatAssoc DEF Assoc

AssocFour(a, b, c, d) == ((a \o b) \o c) \o d = a \o (b \o (c \o d))
LEMMA ConcatFour ==
  ASSUME NEW S, NEW a \in Seq(S), NEW b \in Seq(S), NEW c \in Seq(S), NEW d \in Seq(S)
  PROVE  AssocFour(a, b, c, d)
<1>1. a \o b \in Seq(S) /\ c \o d \in Seq(S)
  OBVIOUS
<1>2. Assoc(a, b, c \o d) /\ Assoc(a \o b, c, d)
  BY <1>1, ConcatIsAssoc
<1>3. (a \o b) \o (c \o d) = a \o (b \o (c \o d))
  BY <1>2, Zenon DEF Assoc
<1>4. ((a \o b) \o c) \o d = (a \o b) \o (c \o d)
  BY <1>2, Zenon DEF Assoc
<1> QED BY <1>3, <1>4, Zenon DEF AssocFour

LEMMA FirstOff ==
  ASSUME NEW S, NEW s \in S, NEW r \in Seq(S)
  PROVE  /\ <<s>> \o r \in Seq(S) /\ <<s>> \o r # <<>>
         /\ (<<s>> \o r)[1] = s /\ Tail(<<s>> \o r) = r
OBVIOUS

LEMMA PrefixOff ==
  ASSUME NEW S, NEW s \in Seq(S), s # <<>>, NEW r \in Seq(S)
  PROVE  /\ s \o r \in Seq(S) /\ s \o r # <<>> /\ (s \o r)[1] = s[1]
         /\ Tail(s) \in Seq(S) /\ Tail(s \o r) = Tail(s) \o r
OBVIOUS

LEMMA EmptyConcat ==
  ASSUME NEW S, NEW s \in Seq(S)
  PROVE  <<>> \o s = s /\ s \o <<>> = s
OBVIOUS

LEMMA TailAt ==
  ASSUME NEW S, NEW t \in Seq(S), t # <<>>
  PROVE  /\ 1 \in DOMAIN t /\ t[1] \in S /\ Tail(t) \in Seq(S) /\ Len(t) = Len(Tail(t)) + 1
         /\ \A i \in DOMAIN Tail(t) : i + 1 \in DOMAIN t /\ Tail(t)[i] = t[i + 1]
         /\ \A i \in DOMAIN t : i = 1 \/ (i - 1 \in DOMAIN Tail(t) /\ Tail(t)[i - 1] = t[i])
<1>1. Tail(t) \in Seq(S) /\ 1 \in DOMAIN t /\ t[1] \in S /\ Len(t) \in Nat
  OBVIOUS
<1>2. Len(Tail(t)) = Len(t) - 1 /\ Len(t) > 0
  OBVIOUS
<1>3. \A i \in 1..Len(Tail(t)) : Tail(t)[i] = t[i + 1]
  OBVIOUS
<1>4. DOMAIN t = 1..Len(t) /\ DOMAIN Tail(t) = 1..Len(Tail(t))
  BY <1>1
<1> DEFINE u == Tail(t)
           n == Len(t)
           m == Len(u)
<1> HIDE DEF u, n, m
<1>5. n \in Nat /\ n > 0 /\ m = n - 1 /\ DOMAIN t = 1..n /\ DOMAIN u = 1..m
      /\ \A i \in 1..m : u[i] = t[i + 1]
  BY <1>1, <1>2, <1>3, <1>4 DEF u, n, m
<1>6. /\ \A i \in DOMAIN u : i + 1 \in DOMAIN t /\ u[i] = t[i + 1]
      /\ \A i \in DOMAIN t : i = 1 \/ (i - 1 \in DOMAIN u /\ u[i - 1] = t[i])
  <2>1. \A i \in 1..m : i + 1 \in 1..n
    BY <1>5
  <2>2. \A i \in 1..n : i = 1 \/ (i - 1 \in 1..m /\ (i - 1) + 1 = i)
    BY <1>5
  <2> QED BY <1>5, <2>1, <2>2
<1> QED BY <1>1, <1>5, <1>6 DEF u, n, m

-----------------------------------------------------------------------------
(* What each step is and sets.                                               *)

LEMMA PutIs ==
  ASSUME NEW p \in Pins, NEW v \in BOOLEAN
  PROVE  /\ Put(p, v) \in Step /\ Put(p, v).do = "put" /\ Put(p, v).pin = p /\ Put(p, v).v = v
         /\ Moves(Put(p, v)) /\ \A l, w : Sets(Put(p, v), l, w) <=> l = p /\ w = v
<1>1. Put(p, v) \in PutSteps
  BY DEF Put, PutSteps
<1>2. Put(p, v).do = "put" /\ Put(p, v).pin = p /\ Put(p, v).v = v
  BY DEF Put
<1> QED BY <1>1, <1>2 DEF Step, Moves, Sets

LEMMA ConfigIs ==
  ASSUME NEW L \in SUBSET Pins, NEW v \in BOOLEAN
  PROVE  /\ Config(L, v) \in Step /\ Config(L, v).do = "config"
         /\ Config(L, v).lines = L /\ Config(L, v).v = v
         /\ Moves(Config(L, v)) /\ \A l, w : Sets(Config(L, v), l, w) <=> l \in L /\ w = v
<1>1. Config(L, v) \in ConfigSteps
  BY DEF Config, ConfigSteps
<1>2. Config(L, v).do = "config" /\ Config(L, v).lines = L /\ Config(L, v).v = v
  BY DEF Config
<1> QED BY <1>1, <1>2 DEF Step, Moves, Sets

LEMMA NoteIs ==
  ASSUME NEW v \in BOOLEAN
  PROVE  /\ Note(v) \in Step /\ Note(v).do = "note" /\ Note(v).driving = v
         /\ Moves(Note(v)) /\ \A l, w : Sets(Note(v), l, w) <=> l = "note" /\ w = v
<1>1. Note(v) \in NoteSteps
  BY DEF Note, NoteSteps
<1>2. Note(v).do = "note" /\ Note(v).driving = v
  BY DEF Note
<1> QED BY <1>1, <1>2 DEF Step, Moves, Sets

LEMMA CyclesIs ==
  ASSUME NEW n \in Nat \ {0}, NEW kind \in Kinds
  PROVE  /\ Cycles(n, kind) \in Step /\ Cycles(n, kind).do = "cycles"
         /\ Cycles(n, kind).n = n /\ Cycles(n, kind).as = kind
         /\ ~ Moves(Cycles(n, kind)) /\ Turns(Cycles(n, kind))
         /\ \A l, w : ~ Sets(Cycles(n, kind), l, w)
<1>1. Cycles(n, kind) \in CycleSteps
  BY DEF Cycles, CycleSteps
<1>2. Cycles(n, kind).do = "cycles" /\ Cycles(n, kind).n = n /\ Cycles(n, kind).as = kind
  BY DEF Cycles
<1> QED BY <1>1, <1>2 DEF Step, Moves, Sets, Turns

LEMMA OthersAre ==
  /\ Hear \in Step /\ Hear.do = "hear" /\ ~ Moves(Hear) /\ Turns(Hear)
  /\ Level \in Step /\ Level.do = "level" /\ ~ Moves(Level) /\ Turns(Level)
  /\ \A l, w : ~ Sets(Hear, l, w) /\ ~ Sets(Level, l, w)
<1>1. Hear.do = "hear" /\ Level.do = "level"
  BY DEF Hear, Level
<1> QED BY <1>1 DEF Step, Moves, Sets, Turns

-----------------------------------------------------------------------------
(* Chains of steps that can follow one another.                              *)

\* A step that may come after any.
Free(s) ==
  /\ Both => ~ Sets(s, "low", FALSE) /\ ~ Sets(s, "dout", TRUE)
  /\ Linux /\ board.shared => ~ Sets(s, "note", TRUE)
Good(t) ==
  /\ t \in Seq(Step) /\ Chained(t) /\ (t # <<>> => Free(t[1]))
  /\ \A i \in DOMAIN t : Turns(t[i])

LEMMA GoodOne ==
  ASSUME NEW a \in Step, Free(a), Turns(a), Linux => ~ Sets(a, "dout", FALSE)
  PROVE  Good(<<a>>)
<1> DEFINE t == <<a>>
<1>1. t \in Seq(Step) /\ DOMAIN t = {1} /\ t[1] = a
  OBVIOUS
<1> HIDE DEF t
<1>2. \A i, j \in DOMAIN t : j = i + 1 => Link(t[i], t[j])
  BY <1>1
<1>3. ASSUME Linux, NEW i \in DOMAIN t, Sets(t[i], "dout", FALSE)
      PROVE  NoteSoon(t, i + 1)
  BY <1>1, <1>3
<1>4. \A i \in DOMAIN t : Turns(t[i])
  BY <1>1
<1>5. Good(t)
  BY <1>1, <1>2, <1>3, <1>4 DEF Good, Chained
<1> QED BY <1>5 DEF t

LEMMA GoodTwo ==
  ASSUME NEW a \in Step, NEW b \in Step, Free(a), Turns(a), Turns(b), Link(a, b),
         Linux => /\ Sets(a, "dout", FALSE) => Sets(b, "note", FALSE)
                  /\ ~ Sets(b, "dout", FALSE)
  PROVE  Good(<<a, b>>)
<1> DEFINE t == <<a, b>>
<1>1. t \in Seq(Step) /\ DOMAIN t = {1, 2} /\ t[1] = a /\ t[2] = b
  OBVIOUS
<1> HIDE DEF t
<1>2. \A i, j \in DOMAIN t : j = i + 1 => Link(t[i], t[j])
  BY <1>1
<1>3. ASSUME Linux, NEW i \in DOMAIN t, Sets(t[i], "dout", FALSE)
      PROVE  NoteSoon(t, i + 1)
  <2>1. i = 1 /\ Sets(t[2], "note", FALSE)
    BY <1>1, <1>3
  <2>2. NoteSoon(t, 2)
    BY <1>1, <2>1 DEF NoteSoon
  <2>3. i + 1 = 2
    BY <2>1
  <2> QED BY <2>2, <2>3
<1>4. \A i \in DOMAIN t : Turns(t[i])
  BY <1>1
<1>5. Good(t)
  BY <1>1, <1>2, <1>3, <1>4 DEF Good, Chained
<1> QED BY <1>5 DEF t

LEMMA GoodThree ==
  ASSUME NEW a \in Step, NEW b \in Step, NEW c \in Step,
         Free(a), Turns(a), Turns(b), Turns(c), Link(a, b), Link(b, c),
         Linux => /\ Sets(a, "dout", FALSE) => Sets(b, "low", FALSE) /\ Sets(c, "note", FALSE)
                  /\ ~ Sets(b, "dout", FALSE) /\ ~ Sets(c, "dout", FALSE)
  PROVE  Good(<<a, b, c>>)
<1> DEFINE t == <<a, b, c>>
<1>1. t \in Seq(Step) /\ DOMAIN t = {1, 2, 3} /\ t[1] = a /\ t[2] = b /\ t[3] = c
  OBVIOUS
<1> HIDE DEF t
<1>2. \A i, j \in DOMAIN t : j = i + 1 => Link(t[i], t[j])
  BY <1>1
<1>3. ASSUME Linux, NEW i \in DOMAIN t, Sets(t[i], "dout", FALSE)
      PROVE  NoteSoon(t, i + 1)
  <2>1. i = 1 /\ Sets(t[2], "low", FALSE) /\ Sets(t[3], "note", FALSE)
    BY <1>1, <1>3
  <2>2. NoteSoon(t, 2)
    <3>1. 2 + 1 = 3
      OBVIOUS
    <3> QED BY <1>1, <2>1, <3>1 DEF NoteSoon
  <2>3. i + 1 = 2
    BY <2>1
  <2> QED BY <2>2, <2>3
<1>4. \A i \in DOMAIN t : Turns(t[i])
  BY <1>1
<1>5. Good(t)
  BY <1>1, <1>2, <1>3, <1>4 DEF Good, Chained
<1> QED BY <1>5 DEF t

LEMMA NoteSoonIn ==
  ASSUME NEW t \in Seq(Step), NEW u \in Seq(Step), NEW d \in Nat, NEW k \in Nat,
         \A i \in DOMAIN t : d + i \in DOMAIN u /\ u[d + i] = t[i], NoteSoon(t, k)
  PROVE  NoteSoon(u, d + k)
<1>1. d + (k + 1) = (d + k) + 1
  OBVIOUS
<1> QED BY <1>1 DEF NoteSoon

LEMMA GoodConcat ==
  ASSUME NEW a, NEW b, Good(a), Good(b)
  PROVE  Good(a \o b)
<1> DEFINE t == a \o b
           n == Len(a)
<1>1. a \in Seq(Step) /\ b \in Seq(Step) /\ n \in Nat
  BY DEF Good
<1>2. /\ DOMAIN a = 1..n /\ DOMAIN b = 1..Len(b) /\ Len(b) \in Nat
      /\ (a # <<>> => 1 \in DOMAIN a) /\ (a = <<>> => n = 0) /\ (1 \in DOMAIN b => b # <<>>)
  BY <1>1
<1>3. /\ t \in Seq(Step)
      /\ \A i \in DOMAIN a : i \in DOMAIN t /\ t[i] = a[i]
      /\ \A i \in DOMAIN b : n + i \in DOMAIN t /\ t[n + i] = b[i]
      /\ \A i \in DOMAIN t : i \in DOMAIN a \/ (i - n \in DOMAIN b /\ i > n)
  BY <1>1, ConcatAt
<1>4. t # <<>> => t[1] = IF a # <<>> THEN a[1] ELSE b[1]
  <2>1. CASE a # <<>>
    BY <2>1, <1>2, <1>3
  <2>2. CASE a = <<>>
    BY <2>2, <1>1, EmptyConcat
  <2> QED BY <2>1, <2>2
<1>5. t # <<>> => a # <<>> \/ b # <<>>
  BY <1>1, EmptyConcat
<1> HIDE DEF t, n
<1>6. \A i \in DOMAIN t : i \in Nat /\ i >= 1
  BY <1>3
<1>7. \A i \in DOMAIN t : i \in DOMAIN a \/ \E k \in DOMAIN b : i = n + k
  <2> SUFFICES ASSUME NEW i \in DOMAIN t, i \notin DOMAIN a PROVE \E k \in DOMAIN b : i = n + k
    OBVIOUS
  <2>1. i - n \in DOMAIN b /\ i = n + (i - n)
    BY <1>1, <1>3, <1>6
  <2> QED BY <2>1
<1>8. \A i \in DOMAIN t : Turns(t[i])
  BY <1>3, <1>7 DEF Good
<1>9. t # <<>> => Free(t[1])
  BY <1>4, <1>5 DEF Good
<1>10. ASSUME NEW i \in DOMAIN t, NEW j \in DOMAIN t, j = i + 1
       PROVE  Link(t[i], t[j])
  <2>1. CASE i \in DOMAIN a /\ j \in DOMAIN a
    BY <2>1, <1>3, <1>10 DEF Good, Chained
  <2>2. CASE i \in DOMAIN a /\ j \notin DOMAIN a
    <3>1. PICK k \in DOMAIN b : j = n + k
      BY <2>2, <1>7
    <3>2. i \in 1..n /\ k \in 1..Len(b) /\ j = i + 1 /\ j = n + k
      BY <2>2, <3>1, <1>2, <1>10
    <3>3. k = 1
      BY <3>2, <1>1, <1>2
    <3>4. t[j] = b[1] /\ b # <<>>
      BY <3>1, <3>3, <1>3, <1>2
    <3> QED BY <3>4 DEF Good, Free, Link
  <2>3. CASE i \notin DOMAIN a
    <3>1. PICK k \in DOMAIN b : i = n + k
      BY <2>3, <1>7
    <3>2. j \notin DOMAIN a
      BY <2>3, <1>1, <1>2, <1>6, <1>10
    <3>3. PICK m \in DOMAIN b : j = n + m
      BY <3>2, <1>7
    <3>4. m = k + 1
      BY <3>1, <3>3, <1>1, <1>2, <1>10
    <3> QED BY <3>1, <3>3, <3>4, <1>3 DEF Good, Chained
  <2> QED BY <2>1, <2>2, <2>3
<1>11. ASSUME Linux, NEW i \in DOMAIN t, Sets(t[i], "dout", FALSE)
       PROVE  NoteSoon(t, i + 1)
  <2>1. CASE i \in DOMAIN a
    <3>1. NoteSoon(a, i + 1)
      BY <2>1, <1>3, <1>11 DEF Good, Chained
    <3>2. \A j \in DOMAIN a : 0 + j = j
      BY <1>2
    <3>3. \A j \in DOMAIN a : 0 + j \in DOMAIN t /\ t[0 + j] = a[j]
      BY <3>2, <1>3
    <3>4. i + 1 \in Nat /\ 0 + (i + 1) = i + 1
      BY <1>6
    <3> QED BY <3>1, <3>3, <3>4, <1>1, <1>3, NoteSoonIn
  <2>2. CASE i \notin DOMAIN a
    <3>1. PICK k \in DOMAIN b : i = n + k
      BY <2>2, <1>7
    <3>2. NoteSoon(b, k + 1) /\ k + 1 \in Nat
      <4>1. t[i] = b[k] /\ k \in Nat
        BY <3>1, <1>2, <1>3
      <4>2. Sets(b[k], "dout", FALSE)
        BY <4>1, <1>11
      <4>3. \A m \in DOMAIN b : Sets(b[m], "dout", FALSE) => NoteSoon(b, m + 1)
        BY <1>11 DEF Good, Chained
      <4>4. k + 1 \in Nat
        BY <4>1
      <4>5. NoteSoon(b, k + 1)
        BY <3>1, <4>2, <4>3
      <4> QED BY <4>4, <4>5
    <3>3. NoteSoon(t, n + (k + 1))
      BY <3>2, <1>1, <1>3, NoteSoonIn
    <3>4. n + (k + 1) = i + 1
      BY <3>1, <1>1, <1>2
    <3> QED BY <3>3, <3>4
  <2> QED BY <2>1, <2>2
<1>12. Good(t)
  BY <1>3, <1>8, <1>9, <1>10, <1>11 DEF Good, Chained
<1> QED BY <1>12 DEF t

-----------------------------------------------------------------------------
(* Turning the line, whichever board it is.                                  *)

LEMMA BoardIs ==
  ASSUME board \in Boards
  PROVE  /\ board.shared \in BOOLEAN /\ board.dir \in BOOLEAN /\ (board.shared \/ board.dir)
         /\ board.chip \in [{"clk", "dout", "dir"} -> Nat] /\ Linux \in BOOLEAN
BY DEF Board, Linux

LEMMA Joins ==
  ASSUME NEW a, NEW b, NEW c
  PROVE  /\ <<>> \o <<a>> = <<a>> /\ <<a>> \o <<>> = <<a>>
         /\ <<a>> \o <<b>> = <<a, b>> /\ <<a, b>> \o <<c>> = <<a, b, c>>
<1>1. <<a>> \in Seq({a, b, c}) /\ <<b>> \in Seq({a, b, c}) /\ <<c>> \in Seq({a, b, c})
      /\ <<a, b>> \in Seq({a, b, c})
  OBVIOUS
<1>2. <<>> \o <<a>> = <<a>> /\ <<a>> \o <<>> = <<a>>
  BY <1>1, EmptyConcat
<1> DEFINE S == {a, b, c}
<1>3. <<a>> \o <<b>> = <<a, b>>
  <2> DEFINE s == <<a>> \o <<b>>
             t == <<a, b>>
  <2>1. s \in Seq(S) /\ t \in Seq(S) /\ Len(s) = 2 /\ Len(t) = 2
    OBVIOUS
  <2>2. s[1] = t[1] /\ s[2] = t[2]
    OBVIOUS
  <2> HIDE DEF s, t, S
  <2>3. \A i \in 1..Len(s) : s[i] = t[i]
    BY <2>1, <2>2
  <2>4. s = t
    BY <2>1, <2>3, SeqEqual
  <2> QED BY <2>4 DEF s, t
<1>4. <<a, b>> \o <<c>> = <<a, b, c>>
  <2> DEFINE s == <<a, b>> \o <<c>>
             t == <<a, b, c>>
  <2>1. s \in Seq(S) /\ t \in Seq(S) /\ Len(s) = 3 /\ Len(t) = 3
    OBVIOUS
  <2>2. s[1] = t[1] /\ s[2] = t[2] /\ s[3] = t[3]
    OBVIOUS
  <2> HIDE DEF s, t, S
  <2>3. \A i \in 1..Len(s) : s[i] = t[i]
    BY <2>1, <2>2
  <2>4. s = t
    BY <2>1, <2>3, SeqEqual
  <2> QED BY <2>4 DEF s, t
<1> QED BY <1>2, <1>3, <1>4

LEMMA TakeIs ==
  ASSUME board \in Boards
  PROVE  /\ Linux /\ Both =>
              Take = <<Put("low", TRUE), Config({"dout"}, TRUE), Note(TRUE)>>
         /\ Linux /\ ~ board.shared => Take = <<Put("low", TRUE), Note(TRUE)>>
         /\ Linux /\ ~ board.dir => Take = <<Config({"dout"}, TRUE), Note(TRUE)>>
         /\ ~ Linux /\ Both => Take = <<Put("low", TRUE), Put("dout", TRUE)>>
         /\ ~ Linux /\ ~ board.shared => Take = <<Put("low", TRUE)>>
         /\ ~ Linux /\ ~ board.dir => Take = <<Put("dout", TRUE)>>
<1>1. \A a, b, c : /\ <<>> \o <<a>> = <<a>> /\ <<a>> \o <<>> = <<a>>
                   /\ <<a>> \o <<b>> = <<a, b>> /\ <<a, b>> \o <<c>> = <<a, b, c>>
  BY Joins
<1>2. Linux => Take = LinuxTake
  BY DEF Take, Driver, LinuxDriver
<1>3. CASE Linux
  <2>1. Take = LinuxTake
    BY <1>2, <1>3
  <2>2. CASE Both
    <3> HIDE DEF Linux
    <3>1. board.shared /\ board.dir
      BY <2>2 DEF Both
    <3>2. Take = (<<Put("low", TRUE)>> \o <<Config({"dout"}, TRUE)>>) \o <<Note(TRUE)>>
      BY <2>1, <3>1 DEF LinuxTake, If
    <3>3. Take = <<Put("low", TRUE), Config({"dout"}, TRUE), Note(TRUE)>>
      BY <3>2, Joins
    <3> QED BY <3>1, <3>3, <1>3
  <2>3. CASE ~ board.shared
    <3>1. board.dir
      BY <2>3, BoardIs
    <3> QED BY <2>1, <2>3, <3>1, <1>1, <1>3 DEF LinuxTake, If, Both
  <2>4. CASE ~ board.dir
    <3>1. board.shared
      BY <2>4, BoardIs
    <3> QED BY <2>1, <2>4, <3>1, <1>1, <1>3 DEF LinuxTake, If, Both
  <2> QED BY <2>2, <2>3, <2>4, <1>3, BoardIs DEF Both
<1>4. CASE ~ Linux
  BY <1>4, BoardIs
     DEF Take, Driver, DriverBidir, DriverBidirBuffered, DriverSplit, BufferedTake, Both
<1> QED BY <1>3, <1>4

LEMMA ReleaseIs ==
  ASSUME board \in Boards
  PROVE  /\ Linux /\ Both =>
              Release = <<Config({"dout"}, FALSE), Put("low", FALSE), Note(FALSE)>>
         /\ Linux /\ ~ board.shared => Release = <<Put("low", FALSE), Note(FALSE)>>
         /\ Linux /\ ~ board.dir => Release = <<Config({"dout"}, FALSE), Note(FALSE)>>
         /\ ~ Linux /\ Both => Release = <<Put("dout", FALSE), Put("low", FALSE)>>
         /\ ~ Linux /\ ~ board.shared => Release = <<Put("low", FALSE)>>
         /\ ~ Linux /\ ~ board.dir => Release = <<Put("dout", FALSE)>>
<1>1. \A a, b, c : /\ <<>> \o <<a>> = <<a>> /\ <<a>> \o <<>> = <<a>>
                   /\ <<a>> \o <<b>> = <<a, b>> /\ <<a, b>> \o <<c>> = <<a, b, c>>
  BY Joins
<1>2. Linux => Release = LinuxRelease
  BY DEF Release, Driver, LinuxDriver
<1>3. CASE Linux
  <2>1. Release = LinuxRelease
    BY <1>2, <1>3
  <2>2. CASE Both
    <3> HIDE DEF Linux
    <3>1. board.shared /\ board.dir
      BY <2>2 DEF Both
    <3>2. Release = (<<Config({"dout"}, FALSE)>> \o <<Put("low", FALSE)>>) \o <<Note(FALSE)>>
      BY <2>1, <3>1 DEF LinuxRelease, If
    <3>3. Release = <<Config({"dout"}, FALSE), Put("low", FALSE), Note(FALSE)>>
      BY <3>2, Joins
    <3> QED BY <3>1, <3>3, <1>3
  <2>3. CASE ~ board.shared
    <3>1. board.dir
      BY <2>3, BoardIs
    <3> QED BY <2>1, <2>3, <3>1, <1>1, <1>3 DEF LinuxRelease, If, Both
  <2>4. CASE ~ board.dir
    <3>1. board.shared
      BY <2>4, BoardIs
    <3> QED BY <2>1, <2>4, <3>1, <1>1, <1>3 DEF LinuxRelease, If, Both
  <2> QED BY <2>2, <2>3, <2>4, <1>3, BoardIs DEF Both
<1>4. CASE ~ Linux
  BY <1>4, BoardIs
     DEF Release, Driver, DriverBidir, DriverBidirBuffered, DriverSplit, Both
<1> QED BY <1>3, <1>4

LEMMA TakeGood ==
  ASSUME board \in Boards
  PROVE  /\ Good(Take) /\ Take # <<>> /\ \A i \in DOMAIN Take : Moves(Take[i])
         /\ \A l \in Held("transfer") : EndsOn(Take, l, FALSE)
<1> DEFINE p == Put("low", TRUE)
           q == Put("dout", TRUE)
           c == Config({"dout"}, TRUE)
           n == Note(TRUE)
<1>1. /\ p \in Step /\ Moves(p) /\ Turns(p) /\ \A l, w : Sets(p, l, w) <=> l = "low" /\ w = TRUE
      /\ q \in Step /\ Moves(q) /\ (board.shared => Turns(q))
      /\ \A l, w : Sets(q, l, w) <=> l = "dout" /\ w = TRUE
      /\ c \in Step /\ Moves(c) /\ (board.shared => Turns(c))
      /\ \A l, w : Sets(c, l, w) <=> l = "dout" /\ w = TRUE
      /\ n \in Step /\ Moves(n) /\ Turns(n) /\ \A l, w : Sets(n, l, w) <=> l = "note" /\ w = TRUE
  <2>1. "low" \in Pins /\ "dout" \in Pins /\ TRUE \in BOOLEAN /\ {"dout"} \in SUBSET Pins
    BY DEF Pins
  <2>2. p \in Step /\ Moves(p) /\ Turns(p) /\ \A l, w : Sets(p, l, w) <=> l = "low" /\ w = TRUE
    BY <2>1, PutIs DEF Turns
  <2>3. q \in Step /\ Moves(q) /\ (board.shared => Turns(q))
        /\ \A l, w : Sets(q, l, w) <=> l = "dout" /\ w = TRUE
    BY <2>1, PutIs DEF Turns
  <2>4. c \in Step /\ Moves(c) /\ (board.shared => Turns(c))
        /\ \A l, w : Sets(c, l, w) <=> l = "dout" /\ w = TRUE
    <3> DEFINE L == {"dout"}
    <3>1. L \in SUBSET Pins /\ TRUE \in BOOLEAN /\ \A l : l \in L <=> l = "dout"
      BY <2>1
    <3> HIDE DEF L
    <3>2. Config(L, TRUE).do = "config" /\ Config(L, TRUE).lines = L /\ Config(L, TRUE) \in Step
          /\ Moves(Config(L, TRUE)) /\ \A l, w : Sets(Config(L, TRUE), l, w) <=> l \in L /\ w = TRUE
      BY <3>1, ConfigIs
    <3>3. c = Config(L, TRUE)
      BY DEF L
    <3>4. board.shared => Turns(c)
      BY <3>2, <3>3 DEF Turns, L
    <3> HIDE DEF c
    <3> QED BY <3>1, <3>2, <3>3, <3>4
  <2>5. n \in Step /\ Moves(n) /\ Turns(n) /\ \A l, w : Sets(n, l, w) <=> l = "note" /\ w = TRUE
    BY <2>1, NoteIs DEF Turns
  <2> HIDE DEF p, q, c, n
  <2> QED BY <2>2, <2>3, <2>4, <2>5
<1> HIDE DEF p, q, c, n
<1>2. Held("transfer") = {l \in Lines : \/ l = "note" /\ Linux
                                        \/ l = "dout" /\ board.shared
                                        \/ l = "low" /\ board.dir}
  BY DEF Held
<1>3. CASE Linux /\ Both
  <2>1. Take = <<p, c, n>> /\ board.shared /\ board.dir
    BY <1>3, TakeIs DEF p, c, n, Both
  <2>2. Good(<<p, c, n>>)
    BY <1>1, <2>1, GoodThree DEF Free, Link
  <2> DEFINE t == <<p, c, n>>
  <2>3. t # <<>> /\ DOMAIN t = {1, 2, 3} /\ t[1] = p /\ t[2] = c /\ t[3] = n
    OBVIOUS
  <2> HIDE DEF t
  <2>4. \A i \in DOMAIN t : Moves(t[i])
    BY <1>1, <2>3
  <2>5. \A l \in Held("transfer") : EndsOn(t, l, FALSE)
    BY <1>1, <1>2, <2>3 DEF EndsOn
  <2> QED BY <2>1, <2>2, <2>3, <2>4, <2>5 DEF t
<1>4. CASE Linux /\ ~ board.shared
  <2>1. Take = <<p, n>> /\ ~ Both
    BY <1>4, TakeIs DEF p, n, Both
  <2>2. Good(<<p, n>>)
    BY <1>1, <1>4, <2>1, GoodTwo DEF Free, Link
  <2> DEFINE t == <<p, n>>
  <2>3. t # <<>> /\ DOMAIN t = {1, 2} /\ t[1] = p /\ t[2] = n
    OBVIOUS
  <2> HIDE DEF t
  <2>4. \A i \in DOMAIN t : Moves(t[i])
    BY <1>1, <2>3
  <2>5. \A l \in Held("transfer") : EndsOn(t, l, FALSE)
    BY <1>1, <1>2, <1>4, <2>3 DEF EndsOn
  <2> QED BY <2>1, <2>2, <2>3, <2>4, <2>5 DEF t
<1>5. CASE Linux /\ ~ board.dir
  <2>1. Take = <<c, n>> /\ board.shared /\ ~ Both
    BY <1>5, TakeIs, BoardIs DEF c, n, Both
  <2>2. Good(<<c, n>>)
    BY <1>1, <2>1, GoodTwo DEF Free, Link
  <2> DEFINE t == <<c, n>>
  <2>3. t # <<>> /\ DOMAIN t = {1, 2} /\ t[1] = c /\ t[2] = n
    OBVIOUS
  <2> HIDE DEF t
  <2>4. \A i \in DOMAIN t : Moves(t[i])
    BY <1>1, <2>3
  <2>5. \A l \in Held("transfer") : EndsOn(t, l, FALSE)
    BY <1>1, <1>2, <1>5, <2>3 DEF EndsOn
  <2> QED BY <2>1, <2>2, <2>3, <2>4, <2>5 DEF t
<1>6. CASE ~ Linux /\ Both
  <2>1. Take = <<p, q>> /\ board.shared /\ board.dir
    BY <1>6, TakeIs DEF p, q, Both
  <2>2. Good(<<p, q>>)
    BY <1>1, <1>6, <2>1, GoodTwo DEF Free, Link
  <2> DEFINE t == <<p, q>>
  <2>3. t # <<>> /\ DOMAIN t = {1, 2} /\ t[1] = p /\ t[2] = q
    OBVIOUS
  <2> HIDE DEF t
  <2>4. \A i \in DOMAIN t : Moves(t[i])
    BY <1>1, <2>3
  <2>5. \A l \in Held("transfer") : EndsOn(t, l, FALSE)
    BY <1>1, <1>2, <1>6, <2>3 DEF EndsOn
  <2> QED BY <2>1, <2>2, <2>3, <2>4, <2>5 DEF t
<1>7. CASE ~ Linux /\ ~ Both
  <2> DEFINE x == IF board.dir THEN p ELSE q
             t == <<x>>
  <2>1. Take = <<x>> /\ ~ Both /\ x \in Step /\ Moves(x) /\ Turns(x)
        /\ \A l, w : Sets(x, l, w) <=> l = Gate /\ w = TRUE
    BY <1>1, <1>7, TakeIs, BoardIs DEF p, q, Both, Gate
  <2>2. Good(<<x>>)
    <3> HIDE DEF x
    <3> QED BY <1>7, <2>1, GoodOne DEF Free
  <2>3. t # <<>> /\ DOMAIN t = {1} /\ t[1] = x
    BY <2>1
  <2> HIDE DEF x, t
  <2>4. \A i \in DOMAIN t : Moves(t[i])
    BY <2>1, <2>3
  <2>5. \A l \in Held("transfer") : l = Gate
    BY <1>2, <1>7, BoardIs DEF Both, Gate
  <2>6. \A l \in Held("transfer") : EndsOn(t, l, FALSE)
    BY <2>1, <2>3, <2>5 DEF EndsOn
  <2> QED BY <2>1, <2>2, <2>3, <2>4, <2>6 DEF t
<1> QED BY <1>3, <1>4, <1>5, <1>6, <1>7, BoardIs DEF Both

LEMMA ReleaseGood ==
  ASSUME board \in Boards
  PROVE  /\ Good(Release) /\ Release # <<>>
         /\ \A i \in DOMAIN Release : Moves(Release[i]) /\ ~ Sets(Release[i], Gate, TRUE)
         /\ \E i \in DOMAIN Release : Sets(Release[i], Gate, FALSE)
<1> DEFINE p == Put("low", FALSE)
           q == Put("dout", FALSE)
           c == Config({"dout"}, FALSE)
           n == Note(FALSE)
<1>1. /\ p \in Step /\ Moves(p) /\ Turns(p) /\ \A l, w : Sets(p, l, w) <=> l = "low" /\ w = FALSE
      /\ q \in Step /\ Moves(q) /\ (board.shared => Turns(q))
      /\ \A l, w : Sets(q, l, w) <=> l = "dout" /\ w = FALSE
      /\ c \in Step /\ Moves(c) /\ (board.shared => Turns(c))
      /\ \A l, w : Sets(c, l, w) <=> l = "dout" /\ w = FALSE
      /\ n \in Step /\ Moves(n) /\ Turns(n) /\ \A l, w : Sets(n, l, w) <=> l = "note" /\ w = FALSE
  <2>1. "low" \in Pins /\ "dout" \in Pins /\ FALSE \in BOOLEAN /\ {"dout"} \in SUBSET Pins
    BY DEF Pins
  <2>2. p \in Step /\ Moves(p) /\ Turns(p) /\ \A l, w : Sets(p, l, w) <=> l = "low" /\ w = FALSE
    BY <2>1, PutIs DEF Turns
  <2>3. q \in Step /\ Moves(q) /\ (board.shared => Turns(q))
        /\ \A l, w : Sets(q, l, w) <=> l = "dout" /\ w = FALSE
    BY <2>1, PutIs DEF Turns
  <2>4. c \in Step /\ Moves(c) /\ (board.shared => Turns(c))
        /\ \A l, w : Sets(c, l, w) <=> l = "dout" /\ w = FALSE
    <3> DEFINE L == {"dout"}
    <3>1. L \in SUBSET Pins /\ FALSE \in BOOLEAN /\ \A l : l \in L <=> l = "dout"
      BY <2>1
    <3> HIDE DEF L
    <3>2. Config(L, FALSE).do = "config" /\ Config(L, FALSE).lines = L /\ Config(L, FALSE) \in Step
          /\ Moves(Config(L, FALSE)) /\ \A l, w : Sets(Config(L, FALSE), l, w) <=> l \in L /\ w = FALSE
      BY <3>1, ConfigIs
    <3>3. c = Config(L, FALSE)
      BY DEF L
    <3>4. board.shared => Turns(c)
      BY <3>2, <3>3 DEF Turns, L
    <3> HIDE DEF c
    <3> QED BY <3>1, <3>2, <3>3, <3>4
  <2>5. n \in Step /\ Moves(n) /\ Turns(n) /\ \A l, w : Sets(n, l, w) <=> l = "note" /\ w = FALSE
    BY <2>1, NoteIs DEF Turns
  <2> HIDE DEF p, q, c, n
  <2> QED BY <2>2, <2>3, <2>4, <2>5
<1> HIDE DEF p, q, c, n
<1>2. Gate = IF board.dir THEN "low" ELSE "dout"
  BY DEF Gate
<1>3. CASE Linux /\ Both
  <2>1. Release = <<c, p, n>> /\ board.shared /\ board.dir
    BY <1>3, ReleaseIs DEF p, c, n, Both
  <2>2. Good(<<c, p, n>>)
    BY <1>1, <2>1, GoodThree DEF Free, Link
  <2> DEFINE t == <<c, p, n>>
  <2>3. t # <<>> /\ DOMAIN t = {1, 2, 3} /\ t[1] = c /\ t[2] = p /\ t[3] = n
    OBVIOUS
  <2> HIDE DEF t
  <2>4. \A i \in DOMAIN t : Moves(t[i]) /\ ~ Sets(t[i], Gate, TRUE)
    BY <1>1, <1>2, <2>3
  <2>5. \E i \in DOMAIN t : Sets(t[i], Gate, FALSE)
    BY <1>1, <1>2, <2>3
  <2> QED BY <2>1, <2>2, <2>3, <2>4, <2>5 DEF t
<1>4. CASE Linux /\ ~ board.shared
  <2>1. Release = <<p, n>> /\ ~ Both
    BY <1>4, ReleaseIs DEF p, n, Both
  <2>2. Good(<<p, n>>)
    BY <1>1, <1>4, <2>1, GoodTwo DEF Free, Link
  <2> DEFINE t == <<p, n>>
  <2>3. t # <<>> /\ DOMAIN t = {1, 2} /\ t[1] = p /\ t[2] = n
    OBVIOUS
  <2> HIDE DEF t
  <2>4. \A i \in DOMAIN t : Moves(t[i]) /\ ~ Sets(t[i], Gate, TRUE)
    BY <1>1, <1>2, <2>3
  <2>5. \E i \in DOMAIN t : Sets(t[i], Gate, FALSE)
    BY <1>1, <1>2, <1>4, <2>3
  <2> QED BY <2>1, <2>2, <2>3, <2>4, <2>5 DEF t
<1>5. CASE Linux /\ ~ board.dir
  <2>1. Release = <<c, n>> /\ board.shared /\ ~ Both
    BY <1>5, ReleaseIs, BoardIs DEF c, n, Both
  <2>2. Good(<<c, n>>)
    BY <1>1, <2>1, GoodTwo DEF Free, Link
  <2> DEFINE t == <<c, n>>
  <2>3. t # <<>> /\ DOMAIN t = {1, 2} /\ t[1] = c /\ t[2] = n
    OBVIOUS
  <2> HIDE DEF t
  <2>4. \A i \in DOMAIN t : Moves(t[i]) /\ ~ Sets(t[i], Gate, TRUE)
    BY <1>1, <1>2, <2>3
  <2>5. \E i \in DOMAIN t : Sets(t[i], Gate, FALSE)
    BY <1>1, <1>2, <1>5, <2>3
  <2> QED BY <2>1, <2>2, <2>3, <2>4, <2>5 DEF t
<1>6. CASE ~ Linux /\ Both
  <2>1. Release = <<q, p>> /\ board.shared /\ board.dir
    BY <1>6, ReleaseIs DEF p, q, Both
  <2>2. Good(<<q, p>>)
    BY <1>1, <1>6, <2>1, GoodTwo DEF Free, Link
  <2> DEFINE t == <<q, p>>
  <2>3. t # <<>> /\ DOMAIN t = {1, 2} /\ t[1] = q /\ t[2] = p
    OBVIOUS
  <2> HIDE DEF t
  <2>4. \A i \in DOMAIN t : Moves(t[i]) /\ ~ Sets(t[i], Gate, TRUE)
    BY <1>1, <1>2, <2>3
  <2>5. \E i \in DOMAIN t : Sets(t[i], Gate, FALSE)
    BY <1>1, <1>2, <1>6, <2>3
  <2> QED BY <2>1, <2>2, <2>3, <2>4, <2>5 DEF t
<1>7. CASE ~ Linux /\ ~ Both
  <2> DEFINE x == IF board.dir THEN p ELSE q
             t == <<x>>
  <2>1. Release = <<x>> /\ ~ Both /\ x \in Step /\ Moves(x) /\ Turns(x)
        /\ \A l, w : Sets(x, l, w) <=> l = Gate /\ w = FALSE
    BY <1>1, <1>7, ReleaseIs, BoardIs DEF p, q, Both, Gate
  <2>2. Good(<<x>>)
    <3> HIDE DEF x
    <3> QED BY <1>7, <2>1, GoodOne DEF Free
  <2>3. t # <<>> /\ DOMAIN t = {1} /\ t[1] = x
    BY <2>1
  <2> HIDE DEF x, t
  <2>4. \A i \in DOMAIN t : Moves(t[i]) /\ ~ Sets(t[i], Gate, TRUE)
    BY <2>1, <2>3
  <2>6. \E i \in DOMAIN t : Sets(t[i], Gate, FALSE)
    BY <2>1, <2>3
  <2> QED BY <2>1, <2>2, <2>3, <2>4, <2>6 DEF t
<1> QED BY <1>3, <1>4, <1>5, <1>6, <1>7, BoardIs DEF Both

-----------------------------------------------------------------------------
(* What a call is made of, put together.                                     *)

NoHear(t) == \A i \in DOMAIN t : t[i].do # "hear"
HearLast(t) == \A i \in DOMAIN t : t[i].do = "hear" => i = Len(t)
Calm(t) == \A i \in DOMAIN t : ~ Clocks(t[i], "write")
Still(t) == \A i \in DOMAIN t, l \in Lines, v \in BOOLEAN : ~ Sets(t[i], l, v)

LEMMA Counts ==
  ASSUME cfg \in Cfg
  PROVE  /\ cfg.turnaround \in Nat \ {0} /\ cfg.turnaround + DataBits \in Nat \ {0}
         /\ AckBits \in Nat \ {0} /\ DataBits \in Nat \ {0} /\ RequestBits \in Nat \ {0}
         /\ cfg.dataPhase \in BOOLEAN
<1> DEFINE n == cfg.turnaround
<1>1. n \in 1..4 /\ cfg.dataPhase \in BOOLEAN
  BY DEF Cfg
<1> HIDE DEF n
<1>2. n \in Nat \ {0} /\ n + DataBits \in Nat \ {0}
  BY <1>1
<1> QED BY <1>1, <1>2 DEF n, AckBits

LEMMA NoHearConcat ==
  ASSUME NEW a \in Seq(Step), NEW b \in Seq(Step), NoHear(a)
  PROVE  (NoHear(b) => NoHear(a \o b)) /\ (HearLast(b) => HearLast(a \o b))
<1>1. /\ \A i \in DOMAIN a : i \in DOMAIN (a \o b) /\ (a \o b)[i] = a[i]
      /\ \A i \in DOMAIN b : Len(a) + i \in DOMAIN (a \o b) /\ (a \o b)[Len(a) + i] = b[i]
      /\ \A i \in DOMAIN (a \o b) : i \in DOMAIN a \/ (i - Len(a) \in DOMAIN b /\ i > Len(a))
      /\ Len(a \o b) = Len(a) + Len(b) /\ a \o b \in Seq(Step)
  BY ConcatAt
<1> DEFINE u == a \o b
           n == Len(a)
<1>2. n \in Nat /\ DOMAIN a = 1..n /\ \A i \in DOMAIN u : i \in Nat
  BY <1>1
<1> HIDE DEF u, n
<1>3. \A i \in DOMAIN u : i \in DOMAIN a \/ \E k \in DOMAIN b : i = n + k /\ u[i] = b[k]
  <2> SUFFICES ASSUME NEW i \in DOMAIN u, i \notin DOMAIN a
               PROVE  \E k \in DOMAIN b : i = n + k /\ u[i] = b[k]
    OBVIOUS
  <2> DEFINE k == i - n
  <2>1. k \in DOMAIN b
    BY <1>1 DEF u, n
  <2>2. i = n + k
    BY <1>2
  <2> HIDE DEF k
  <2>3. u[i] = b[k]
    BY <1>1, <2>1, <2>2 DEF u, n
  <2> QED BY <2>1, <2>2, <2>3
<1>4. NoHear(b) => NoHear(u)
  BY <1>1, <1>3 DEF NoHear, u
<1>5. HearLast(b) => HearLast(u)
  <2> SUFFICES ASSUME HearLast(b), NEW i \in DOMAIN u, u[i].do = "hear" PROVE i = Len(u)
    BY DEF HearLast
  <2>1. i \notin DOMAIN a
    BY <1>1 DEF NoHear, u
  <2>2. PICK k \in DOMAIN b : i = n + k /\ u[i] = b[k]
    BY <2>1, <1>3
  <2>3. k = Len(b)
    BY <2>2 DEF HearLast
  <2> QED BY <1>1, <2>2, <2>3 DEF u, n
<1> QED BY <1>4, <1>5 DEF u

LEMMA CalmConcat ==
  ASSUME NEW a \in Seq(Step), NEW b \in Seq(Step), Calm(a), Calm(b)
  PROVE  Calm(a \o b)
<1>1. /\ \A i \in DOMAIN a : i \in DOMAIN (a \o b) /\ (a \o b)[i] = a[i]
      /\ \A i \in DOMAIN b : Len(a) + i \in DOMAIN (a \o b) /\ (a \o b)[Len(a) + i] = b[i]
      /\ \A i \in DOMAIN (a \o b) : i \in DOMAIN a \/ (i - Len(a) \in DOMAIN b /\ i > Len(a))
      /\ Len(a \o b) = Len(a) + Len(b) /\ a \o b \in Seq(Step)
  BY ConcatAt
<1> DEFINE u == a \o b
           n == Len(a)
<1>2. n \in Nat /\ \A i \in DOMAIN u : i \in Nat
  BY <1>1
<1> SUFFICES ASSUME NEW i \in DOMAIN u, Clocks(u[i], "write") PROVE FALSE
  BY DEF Calm
<1> HIDE DEF u, n
<1>3. CASE i \in DOMAIN a
  BY <1>1, <1>3 DEF Calm, u
<1>4. CASE i \notin DOMAIN a
  <2> DEFINE k == i - n
  <2>1. k \in DOMAIN b
    BY <1>1, <1>4 DEF u, n
  <2>2. i = n + k
    BY <1>2
  <2> HIDE DEF k
  <2>3. u[i] = b[k]
    BY <1>1, <2>1, <2>2 DEF u, n
  <2> QED BY <2>1, <2>3 DEF Calm
<1> QED BY <1>3, <1>4

LEMMA EndsOnAfter ==
  ASSUME NEW a \in Seq(Step), NEW b \in Seq(Step), NEW l, EndsOn(b, l, FALSE), NEW w
  PROVE  EndsOn(a \o b, l, w)
<1>1. /\ \A i \in DOMAIN a : i \in DOMAIN (a \o b) /\ (a \o b)[i] = a[i]
      /\ \A i \in DOMAIN b : Len(a) + i \in DOMAIN (a \o b) /\ (a \o b)[Len(a) + i] = b[i]
      /\ \A i \in DOMAIN (a \o b) : i \in DOMAIN a \/ (i - Len(a) \in DOMAIN b /\ i > Len(a))
      /\ Len(a \o b) = Len(a) + Len(b) /\ a \o b \in Seq(Step)
  BY ConcatAt
<1> DEFINE u == a \o b
           n == Len(a)
<1>2. n \in Nat /\ DOMAIN a = 1..n /\ (\A i \in DOMAIN u : i \in Nat) /\ \A i \in DOMAIN b : i \in Nat
  BY <1>1
<1>3. PICK k \in DOMAIN b : Sets(b[k], l, TRUE) /\ \A j \in DOMAIN b : j > k => ~ Sets(b[j], l, FALSE)
  BY DEF EndsOn
<1> HIDE DEF u, n
<1> DEFINE i == n + k
<1>4. i \in DOMAIN u /\ Sets(u[i], l, TRUE)
  BY <1>1, <1>3 DEF u, n
<1>5. ASSUME NEW j \in DOMAIN u, j > i, Sets(u[j], l, FALSE)
      PROVE  FALSE
  <2>1. j \notin DOMAIN a
    BY <1>2, <1>5
  <2> DEFINE m == j - n
  <2>2. m \in DOMAIN b
    BY <1>1, <2>1 DEF u, n
  <2>3. j = n + m /\ m > k
    BY <1>2, <1>5
  <2> HIDE DEF m
  <2>4. u[j] = b[m]
    BY <1>1, <2>2, <2>3 DEF u, n
  <2> QED BY <1>3, <1>5, <2>2, <2>3, <2>4
<1> HIDE DEF i
<1>6. EndsOn(u, l, w)
  BY <1>4, <1>5 DEF EndsOn
<1> QED BY <1>6 DEF u

LEMMA EndsOnBefore ==
  ASSUME NEW a \in Seq(Step), NEW b \in Seq(Step), NEW l \in Lines, EndsOn(a, l, FALSE), Still(b)
  PROVE  EndsOn(a \o b, l, FALSE)
<1>1. /\ \A i \in DOMAIN a : i \in DOMAIN (a \o b) /\ (a \o b)[i] = a[i]
      /\ \A i \in DOMAIN b : Len(a) + i \in DOMAIN (a \o b) /\ (a \o b)[Len(a) + i] = b[i]
      /\ \A i \in DOMAIN (a \o b) : i \in DOMAIN a \/ (i - Len(a) \in DOMAIN b /\ i > Len(a))
      /\ Len(a \o b) = Len(a) + Len(b) /\ a \o b \in Seq(Step)
  BY ConcatAt
<1> DEFINE u == a \o b
           n == Len(a)
<1>2. n \in Nat /\ DOMAIN a = 1..n /\ (\A i \in DOMAIN u : i \in Nat) /\ \A i \in DOMAIN b : i \in Nat
  BY <1>1
<1>3. PICK k \in DOMAIN a : Sets(a[k], l, TRUE) /\ \A j \in DOMAIN a : j > k => ~ Sets(a[j], l, FALSE)
  BY DEF EndsOn
<1> HIDE DEF u, n
<1>4. k \in DOMAIN u /\ Sets(u[k], l, TRUE)
  BY <1>1, <1>3 DEF u
<1>5. ASSUME NEW j \in DOMAIN u, j > k, Sets(u[j], l, FALSE)
      PROVE  FALSE
  <2>1. CASE j \in DOMAIN a
    BY <1>1, <1>3, <1>5, <2>1 DEF u
  <2>2. CASE j \notin DOMAIN a
    <3> DEFINE m == j - n
    <3>1. m \in DOMAIN b
      BY <1>1, <2>2 DEF u, n
    <3>2. j = n + m
      BY <1>2
    <3> HIDE DEF m
    <3>3. u[j] = b[m]
      BY <1>1, <3>1, <3>2 DEF u, n
    <3> QED BY <1>5, <3>1, <3>3 DEF Still
  <2> QED BY <2>1, <2>2
<1>6. EndsOn(u, l, FALSE)
  BY <1>4, <1>5 DEF EndsOn
<1> QED BY <1>6 DEF u

LEMMA StillConcat ==
  ASSUME NEW a \in Seq(Step), NEW b \in Seq(Step), Still(a), Still(b)
  PROVE  Still(a \o b)
<1>1. /\ \A i \in DOMAIN a : i \in DOMAIN (a \o b) /\ (a \o b)[i] = a[i]
      /\ \A i \in DOMAIN b : Len(a) + i \in DOMAIN (a \o b) /\ (a \o b)[Len(a) + i] = b[i]
      /\ \A i \in DOMAIN (a \o b) : i \in DOMAIN a \/ (i - Len(a) \in DOMAIN b /\ i > Len(a))
      /\ Len(a \o b) = Len(a) + Len(b) /\ a \o b \in Seq(Step)
  BY ConcatAt
<1> DEFINE u == a \o b
           n == Len(a)
<1>2. n \in Nat /\ \A i \in DOMAIN u : i \in Nat
  BY <1>1
<1> SUFFICES ASSUME NEW i \in DOMAIN u, NEW l \in Lines, NEW v \in BOOLEAN, Sets(u[i], l, v)
             PROVE  FALSE
  BY DEF Still
<1> HIDE DEF u, n
<1>3. CASE i \in DOMAIN a
  BY <1>1, <1>3 DEF Still, u
<1>4. CASE i \notin DOMAIN a
  <2> DEFINE k == i - n
  <2>1. k \in DOMAIN b
    BY <1>1, <1>4 DEF u, n
  <2>2. i = n + k
    BY <1>2
  <2> HIDE DEF k
  <2>3. u[i] = b[k]
    BY <1>1, <2>1, <2>2 DEF u, n
  <2> QED BY <2>1, <2>3 DEF Still
<1> QED BY <1>3, <1>4

LEMMA OneGood ==
  /\ \A n \in Nat \ {0}, kind \in Kinds :
       /\ <<Cycles(n, kind)>> \in Seq(Step) /\ Good(<<Cycles(n, kind)>>)
       /\ NoHear(<<Cycles(n, kind)>>) /\ Still(<<Cycles(n, kind)>>)
       /\ (kind # "write" => Calm(<<Cycles(n, kind)>>))
  /\ <<Level>> \in Seq(Step) /\ Good(<<Level>>) /\ NoHear(<<Level>>) /\ Still(<<Level>>)
  /\ <<Hear>> \in Seq(Step) /\ Good(<<Hear>>) /\ HearLast(<<Hear>>)
<1>1. ASSUME NEW s \in Step, Turns(s), \A l, w : ~ Sets(s, l, w)
      PROVE  <<s>> \in Seq(Step) /\ Good(<<s>>) /\ Still(<<s>>)
  <2>1. Good(<<s>>)
    BY <1>1, GoodOne DEF Free
  <2> QED BY <1>1, <2>1 DEF Still
<1>2. ASSUME NEW n \in Nat \ {0}, NEW kind \in Kinds
      PROVE  /\ <<Cycles(n, kind)>> \in Seq(Step) /\ Good(<<Cycles(n, kind)>>)
             /\ NoHear(<<Cycles(n, kind)>>) /\ Still(<<Cycles(n, kind)>>)
             /\ (kind # "write" => Calm(<<Cycles(n, kind)>>))
  <2> DEFINE c == Cycles(n, kind)
  <2>1. c \in Step /\ c.do = "cycles" /\ c.as = kind /\ Turns(c) /\ \A l, w : ~ Sets(c, l, w)
    BY CyclesIs
  <2> HIDE DEF c
  <2>2. <<c>> \in Seq(Step) /\ Good(<<c>>) /\ Still(<<c>>)
    BY <1>1, <2>1
  <2>3. NoHear(<<c>>) /\ (kind # "write" => Calm(<<c>>))
    <3> DEFINE t == <<c>>
    <3>1. DOMAIN t = {1} /\ t[1] = c
      OBVIOUS
    <3> HIDE DEF t
    <3>2. NoHear(t) /\ (kind # "write" => Calm(t))
      BY <2>1, <3>1 DEF NoHear, Calm, Clocks
    <3> QED BY <3>2 DEF t
  <2> QED BY <2>2, <2>3 DEF c
<1>3. <<Level>> \in Seq(Step) /\ Good(<<Level>>) /\ NoHear(<<Level>>) /\ Still(<<Level>>)
  <2>1. <<Level>> \in Seq(Step) /\ Good(<<Level>>) /\ Still(<<Level>>)
    BY <1>1, OthersAre
  <2>2. NoHear(<<Level>>)
    BY OthersAre DEF NoHear
  <2> QED BY <2>1, <2>2
<1>4. <<Hear>> \in Seq(Step) /\ Good(<<Hear>>) /\ HearLast(<<Hear>>)
  <2>1. <<Hear>> \in Seq(Step) /\ Good(<<Hear>>)
    BY <1>1, OthersAre
  <2>2. HearLast(<<Hear>>)
    BY DEF HearLast
  <2> QED BY <2>1, <2>2
<1> QED BY <1>2, <1>3, <1>4

LEMMA MovesNoHear ==
  ASSUME NEW t, \A i \in DOMAIN t : Moves(t[i])
  PROVE  NoHear(t) /\ Calm(t)
BY DEF NoHear, Calm, Moves, Clocks

LEMMA Triple ==
  ASSUME NEW a \in Step, NEW b \in Step, NEW c \in Step
  PROVE  <<a, b>> = <<a>> \o <<b>> /\ <<a, b, c>> = <<a>> \o (<<b>> \o <<c>>)
<1>1. <<a>> \in Seq(Step) /\ <<b>> \in Seq(Step) /\ <<c>> \in Seq(Step)
  OBVIOUS
<1> DEFINE A == <<a>>
           B == <<b>>
           C == <<c>>
<1>2. <<a, b, c>> = (A \o B) \o C /\ <<a, b>> = A \o B
  BY Joins
<1>3. A \in Seq(Step) /\ B \in Seq(Step) /\ C \in Seq(Step)
  BY <1>1
<1> HIDE DEF A, B, C
<1>4. (A \o B) \o C = A \o (B \o C)
  BY <1>3, ConcatAssoc
<1>5. <<a, b, c>> = A \o (B \o C) /\ <<a, b>> = A \o B
  BY <1>2, <1>4
<1> QED BY <1>5 DEF A, B, C

\* What is left of a transfer is made of these.
LEMMA RestsGood ==
  ASSUME board \in Boards, cfg \in Cfg
  PROVE  /\ Good(AckRest) /\ HearLast(AckRest) /\ AckRest \in Seq(Step)
         /\ Good(TurnRest) /\ HearLast(TurnRest) /\ TurnRest \in Seq(Step)
         /\ \A r \in {<<Level>>, GiveRest, IgnoreRest, SkipRest} :
              Good(r) /\ NoHear(r) /\ Still(r) /\ r \in Seq(Step) /\ r # <<>>
<1>1. /\ cfg.turnaround \in Nat \ {0} /\ AckBits \in Nat \ {0} /\ DataBits \in Nat \ {0}
      /\ {"read", "cycle", "write"} \subseteq Kinds
  BY Counts DEF Kinds
<1>2. Good(AckRest) /\ HearLast(AckRest) /\ AckRest \in Seq(Step)
  <2> DEFINE c == <<Cycles(AckBits, "read")>>
  <2>1. c \in Seq(Step) /\ Good(c) /\ NoHear(c)
    BY <1>1, OneGood
  <2> HIDE DEF c
  <2>2. Good(c \o <<Hear>>) /\ HearLast(c \o <<Hear>>)
    BY <2>1, OneGood, GoodConcat, NoHearConcat
  <2> QED BY <2>2 DEF AckRest, Good, c
<1>3. Good(TurnRest) /\ HearLast(TurnRest) /\ TurnRest \in Seq(Step)
  <2> DEFINE c == <<Cycles(cfg.turnaround, "cycle")>>
  <2>1. c \in Seq(Step) /\ Good(c) /\ NoHear(c)
    BY <1>1, OneGood
  <2> HIDE DEF c
  <2>2. Good(c \o AckRest) /\ HearLast(c \o AckRest)
    BY <2>1, <1>2, GoodConcat, NoHearConcat
  <2> QED BY <2>2 DEF TurnRest, Good, c
<1>4. ASSUME NEW a \in Step, NEW b \in Seq(Step), Good(<<a>>), NoHear(<<a>>), Still(<<a>>),
             Good(b), NoHear(b), Still(b)
      PROVE  Good(<<a>> \o b) /\ NoHear(<<a>> \o b) /\ Still(<<a>> \o b)
             /\ <<a>> \o b \in Seq(Step) /\ <<a>> \o b # <<>>
  <2> DEFINE s == <<a>>
  <2>1. s \in Seq(Step) /\ s # <<>> /\ Good(s) /\ NoHear(s) /\ Still(s)
    BY <1>4
  <2> HIDE DEF s
  <2>2. Good(s \o b) /\ NoHear(s \o b)
    BY <2>1, <1>4, GoodConcat, NoHearConcat
  <2>3. s \o b \in Seq(Step) /\ s \o b # <<>>
    BY <2>1, PrefixOff
  <2>4. Still(s \o b)
    BY <2>1, <1>4, ConcatAt, StillConcat
  <2> QED BY <2>2, <2>3, <2>4 DEF s
<1>5. Good(<<Level>>) /\ NoHear(<<Level>>) /\ Still(<<Level>>) /\ <<Level>> \in Seq(Step)
      /\ <<Level>> # <<>> /\ Level \in Step
  BY OneGood, OthersAre
<1>6. ASSUME NEW kind \in {"write", "cycle"}
      PROVE  LET r == <<Cycles(DataBits, kind)>> \o <<Level>>
             IN  Good(r) /\ NoHear(r) /\ Still(r) /\ r \in Seq(Step) /\ r # <<>>
  <2> DEFINE c == Cycles(DataBits, kind)
  <2>1. c \in Step /\ Good(<<c>>) /\ NoHear(<<c>>) /\ Still(<<c>>)
    BY <1>1, OneGood, CyclesIs
  <2> HIDE DEF c
  <2>2. LET r == <<c>> \o <<Level>>
        IN  Good(r) /\ NoHear(r) /\ Still(r) /\ r \in Seq(Step) /\ r # <<>>
    BY <2>1, <1>4, <1>5
  <2> QED BY <2>2 DEF c
<1>7. Good(SkipRest) /\ NoHear(SkipRest) /\ Still(SkipRest) /\ SkipRest \in Seq(Step)
      /\ SkipRest # <<>>
  <2>1. Good(IgnoreRest) /\ NoHear(IgnoreRest) /\ Still(IgnoreRest) /\ IgnoreRest \in Seq(Step)
    BY <1>6 DEF IgnoreRest
  <2> QED BY <2>1, <1>4, <1>5 DEF SkipRest
<1> QED BY <1>2, <1>3, <1>5, <1>6, <1>7 DEF GiveRest, IgnoreRest

\* A transfer up to the ACK.
LEMMA RequestIs ==
  ASSUME board \in Boards, cfg \in Cfg
  PROVE  Request = AskForm(RequestBits)
<1> DEFINE a == <<Cycles(RequestBits, "write")>>
           x == Cycles(cfg.turnaround, "cycle")
           y == Cycles(AckBits, "read")
<1>1. a \in Seq(Step) /\ x \in Step /\ y \in Step /\ Hear \in Step
  <2>1. "write" \in Kinds /\ "cycle" \in Kinds /\ "read" \in Kinds
    BY DEF Kinds
  <2> QED BY <2>1, Counts, OneGood, CyclesIs, OthersAre
<1>2. Release \in Seq(Step)
  BY ReleaseGood DEF Good
<1>3. Request = (a \o Release) \o <<x, y, Hear>>
  BY DEF Request
<1>4. TurnRest = <<x>> \o (<<y>> \o <<Hear>>)
  BY DEF TurnRest, AckRest
<1> HIDE DEF a, x, y
<1>5. <<x, y, Hear>> = TurnRest
  BY <1>1, <1>4, Triple
<1>6. TurnRest \in Seq(Step)
  BY RestsGood
<1>7. (a \o Release) \o TurnRest = a \o (Release \o TurnRest)
  BY <1>1, <1>2, <1>6, ConcatAssoc
<1> QED BY <1>3, <1>5, <1>7 DEF AskForm, a

LEMMA RequestGood ==
  ASSUME board \in Boards, cfg \in Cfg
  PROVE  Good(Request) /\ HearLast(Request) /\ \E i \in DOMAIN Request : Request[i].do = "hear"
<1> DEFINE a == <<Cycles(RequestBits, "write")>>
           b == Release \o TurnRest
<1>1. a \in Seq(Step) /\ Good(a) /\ NoHear(a)
  <2>1. "write" \in Kinds
    BY DEF Kinds
  <2> QED BY <2>1, Counts, OneGood
<1>2. Good(Release) /\ NoHear(Release) /\ Release \in Seq(Step)
  BY ReleaseGood, MovesNoHear DEF Good
<1>3. Good(b) /\ HearLast(b) /\ b \in Seq(Step)
  <2>1. Good(TurnRest) /\ HearLast(TurnRest) /\ TurnRest \in Seq(Step)
    BY RestsGood
  <2> QED BY <1>2, <2>1, GoodConcat, NoHearConcat DEF Good
<1> HIDE DEF a, b
<1>4. Good(a \o b) /\ HearLast(a \o b)
  BY <1>1, <1>3, GoodConcat, NoHearConcat
<1>5. Request = a \o b
  BY RequestIs DEF AskForm, a, b
<1>6. \E i \in DOMAIN b : b[i].do = "hear"
  <2> DEFINE d == <<Cycles(cfg.turnaround, "cycle")>>
             e == <<Cycles(AckBits, "read")>>
             h == <<Hear>>
  <2>1. Release \in Seq(Step) /\ d \in Seq(Step) /\ e \in Seq(Step) /\ h \in Seq(Step)
    <3>1. "cycle" \in Kinds /\ "read" \in Kinds
      BY DEF Kinds
    <3> QED BY <1>2, <3>1, Counts, OneGood
  <2>2. b = Release \o (d \o (e \o h))
    BY DEF b, TurnRest, AckRest
  <2>3. 1 \in DOMAIN h /\ h[1].do = "hear"
    BY OthersAre
  <2> HIDE DEF d, e, h
  <2>4. /\ e \o h \in Seq(Step) /\ d \o (e \o h) \in Seq(Step)
        /\ \A i \in DOMAIN h : (e \o h)[Len(e) + i] = h[i] /\ Len(e) + i \in DOMAIN (e \o h)
    <3> DEFINE g == e \o h
    <3>1. /\ g \in Seq(Step)
          /\ \A i \in DOMAIN h : g[Len(e) + i] = h[i] /\ Len(e) + i \in DOMAIN g
      BY <2>1, ConcatAt
    <3> HIDE DEF g
    <3>2. d \o g \in Seq(Step)
      BY <2>1, <3>1, ConcatAt
    <3> QED BY <3>1, <3>2 DEF g
  <2>5. \E i \in DOMAIN (e \o h) : (e \o h)[i].do = "hear"
    BY <2>3, <2>4
  <2>6. \E i \in DOMAIN (d \o (e \o h)) : (d \o (e \o h))[i].do = "hear"
    <3> DEFINE g == e \o h
    <3>1. g \in Seq(Step) /\ \E i \in DOMAIN g : g[i].do = "hear"
      BY <2>4, <2>5
    <3> HIDE DEF g
    <3>2. \A i \in DOMAIN g : (d \o g)[Len(d) + i] = g[i] /\ Len(d) + i \in DOMAIN (d \o g)
      BY <2>1, <3>1, ConcatAt
    <3>3. \E i \in DOMAIN (d \o g) : (d \o g)[i].do = "hear"
      BY <3>1, <3>2
    <3> QED BY <3>3 DEF g
  <2> DEFINE g == d \o (e \o h)
  <2>7. g \in Seq(Step) /\ \E i \in DOMAIN g : g[i].do = "hear"
    BY <2>4, <2>6
  <2> HIDE DEF g
  <2>8. \A i \in DOMAIN g : (Release \o g)[Len(Release) + i] = g[i]
                            /\ Len(Release) + i \in DOMAIN (Release \o g)
    BY <2>1, <2>7, ConcatAt
  <2>9. \E i \in DOMAIN (Release \o g) : (Release \o g)[i].do = "hear"
    BY <2>7, <2>8
  <2> QED BY <2>2, <2>9 DEF g
<1>7. \E i \in DOMAIN (a \o b) : (a \o b)[i].do = "hear"
  <2>1. \A i \in DOMAIN b : (a \o b)[Len(a) + i] = b[i] /\ Len(a) + i \in DOMAIN (a \o b)
    BY <1>1, <1>3, ConcatAt
  <2> QED BY <1>6, <2>1
<1> QED BY <1>4, <1>5, <1>7

\* And what comes after it.
LEMMA AfterAckIs ==
  ASSUME board \in Boards, cfg \in Cfg, NEW rnw \in BOOLEAN, NEW ack
  PROVE  /\ ack = "OK" /\ rnw => AfterAck(ack, rnw) = DataForm(DataBits, "read")
         /\ ack = "OK" /\ ~ rnw => AfterAck(ack, rnw) = BackForm(cfg.turnaround, GiveRest)
         /\ ack \in {"WAIT", "FAULT"} /\ cfg.dataPhase /\ rnw =>
              AfterAck(ack, rnw) = DataForm(DataBits, "cycle")
         /\ ack \in {"WAIT", "FAULT"} /\ cfg.dataPhase /\ ~ rnw =>
              AfterAck(ack, rnw) = BackForm(cfg.turnaround, SkipRest)
         /\ ack \in {"WAIT", "FAULT"} /\ ~ cfg.dataPhase =>
              AfterAck(ack, rnw) = BackForm(cfg.turnaround, <<Level>>)
         /\ ack = "none" =>
              AfterAck(ack, rnw) = BackForm(cfg.turnaround + DataBits, <<Level>>)
<1> DEFINE R == Cycles(DataBits, "read")
           W == Cycles(DataBits, "write")
           C == Cycles(DataBits, "cycle")
           T == Cycles(cfg.turnaround, "cycle")
           N == Cycles(cfg.turnaround + DataBits, "cycle")
           L == Level
           t == <<T>>
           d == IF ack = "OK" THEN <<R>> ELSE <<C>>
           l == <<L>>
           w == <<W>>
           c == <<C>>
           n == <<N>>
<1>1. R \in Step /\ W \in Step /\ C \in Step /\ T \in Step /\ N \in Step /\ L \in Step
  <2>1. "cycle" \in Kinds /\ "read" \in Kinds /\ "write" \in Kinds
    BY DEF Kinds
  <2> QED BY <2>1, Counts, CyclesIs, OthersAre
<1>2. /\ Take \in Seq(Step) /\ t \in Seq(Step) /\ d \in Seq(Step) /\ l \in Seq(Step)
      /\ w \in Seq(Step) /\ c \in Seq(Step) /\ n \in Seq(Step)
  <2> HIDE DEF R, W, C, T, N, L
  <2> QED BY <1>1, TakeGood DEF Good
<1>3. DataForm(DataBits, "read") = <<R>> \o (t \o (Take \o l))
      /\ DataForm(DataBits, "cycle") = <<C>> \o (t \o (Take \o l))
  BY DEF DataForm, BackForm
<1>4. /\ BackForm(cfg.turnaround, GiveRest) = t \o (Take \o (w \o l))
      /\ BackForm(cfg.turnaround, SkipRest) = t \o (Take \o (l \o (c \o l)))
      /\ BackForm(cfg.turnaround, <<Level>>) = t \o (Take \o l)
      /\ BackForm(cfg.turnaround + DataBits, <<Level>>) = n \o (Take \o l)
  BY DEF BackForm, GiveRest, SkipRest, IgnoreRest
<1>5. CASE ack = "OK" /\ rnw
  <2>1. AfterAck(ack, rnw) = (<<R, T>> \o Take) \o l
    BY <1>5 DEF AfterAck, AfterOk
  <2>2. <<R, T>> = d \o t
    <3> HIDE DEF R, T
    <3> QED BY <1>1, <1>5, Triple
  <2>3. DataForm(DataBits, "read") = d \o (t \o (Take \o l))
    BY <1>3, <1>5
  <2> HIDE DEF d, t, l
  <2>4. ((d \o t) \o Take) \o l = d \o (t \o (Take \o l))
    <3>1. AssocFour(d, t, Take, l)
      BY <1>2, ConcatFour
    <3> QED BY <3>1, Zenon DEF AssocFour
  <2> QED BY <1>5, <2>1, <2>2, <2>3, <2>4
<1>6. CASE ack = "OK" /\ ~ rnw
  <2>1. AfterAck(ack, rnw) = ((t \o Take) \o w) \o l
    BY <1>6 DEF AfterAck, AfterOk
  <2> HIDE DEF t, w, l
  <2>2. ((t \o Take) \o w) \o l = t \o (Take \o (w \o l))
    <3>1. AssocFour(t, Take, w, l)
      BY <1>2, ConcatFour
    <3> QED BY <3>1, Zenon DEF AssocFour
  <2> QED BY <1>4, <1>6, <2>1, <2>2
<1>7. CASE ack \in {"WAIT", "FAULT"} /\ cfg.dataPhase /\ rnw
  <2>1. AfterAck(ack, rnw) = (((d \o t) \o Take) \o <<>>) \o l
    BY <1>7 DEF AfterAck, AfterRefusal, If
  <2>3. DataForm(DataBits, "cycle") = d \o (t \o (Take \o l))
    BY <1>3, <1>7
  <2> HIDE DEF d, t, l
  <2>4. ((d \o t) \o Take) \o <<>> = (d \o t) \o Take
    BY <1>2
  <2>5. ((d \o t) \o Take) \o l = d \o (t \o (Take \o l))
    <3>1. AssocFour(d, t, Take, l)
      BY <1>2, ConcatFour
    <3> QED BY <3>1, Zenon DEF AssocFour
  <2> QED BY <1>7, <2>1, <2>3, <2>4, <2>5
<1>8. CASE ack \in {"WAIT", "FAULT"} /\ cfg.dataPhase /\ ~ rnw
  <2>1. AfterAck(ack, rnw) = (((<<>> \o t) \o Take) \o <<L, C>>) \o l
    BY <1>8 DEF AfterAck, AfterRefusal, If
  <2>2. <<L, C>> = l \o c
    <3> HIDE DEF L, C
    <3> QED BY <1>1, Triple
  <2> HIDE DEF t, c, l
  <2> DEFINE k == l \o c
  <2>3. <<>> \o t = t /\ k \in Seq(Step)
    BY <1>2
  <2>4. k \o l = l \o (c \o l)
    BY <1>2, ConcatAssoc
  <2> HIDE DEF k
  <2>5. ((t \o Take) \o k) \o l = t \o (Take \o (k \o l))
    <3>1. AssocFour(t, Take, k, l)
      BY <2>3, <1>2, ConcatFour
    <3> QED BY <3>1, Zenon DEF AssocFour
  <2>6. AfterAck(ack, rnw) = t \o (Take \o (l \o (c \o l)))
    BY <2>1, <2>2, <2>3, <2>4, <2>5 DEF k
  <2> QED BY <1>4, <1>8, <2>6
<1>9. CASE ack \in {"WAIT", "FAULT"} /\ ~ cfg.dataPhase
  <2>1. AfterAck(ack, rnw) = (((<<>> \o t) \o Take) \o <<>>) \o l
    BY <1>9 DEF AfterAck, AfterRefusal, If
  <2> HIDE DEF t, l
  <2>2. <<>> \o t = t /\ t \o Take \in Seq(Step) /\ (t \o Take) \o <<>> = t \o Take
    BY <1>2
  <2>3. (t \o Take) \o l = t \o (Take \o l)
    <3>1. Assoc(t, Take, l)
      BY <1>2, ConcatIsAssoc
    <3> QED BY <3>1, Zenon DEF Assoc
  <2> QED BY <1>4, <1>9, <2>1, <2>2, <2>3
<1>10. CASE ack = "none"
  <2>1. AfterAck(ack, rnw) = (n \o Take) \o l
    BY <1>10 DEF AfterAck, AfterNothing
  <2> HIDE DEF n, l
  <2>2. (n \o Take) \o l = n \o (Take \o l)
    BY <1>2, ConcatAssoc
  <2> QED BY <1>4, <1>10, <2>1, <2>2
<1> HIDE DEF R, W, C, T, N, L, t, d, l, w, c, n
<1> QED BY <1>5, <1>6, <1>7, <1>8, <1>9, <1>10

Rests == {<<Level>>, GiveRest, SkipRest}
LEMMA BackGood ==
  ASSUME board \in Boards, cfg \in Cfg, NEW n \in Nat \ {0}, NEW r \in Rests
  PROVE  /\ Good(BackForm(n, r)) /\ NoHear(BackForm(n, r)) /\ BackForm(n, r) \in Seq(Step)
         /\ \A l \in Held("transfer"), w \in BOOLEAN : EndsOn(BackForm(n, r), l, w)
<1> DEFINE a == <<Cycles(n, "cycle")>>
           b == Take \o r
<1>1. a \in Seq(Step) /\ Good(a) /\ NoHear(a)
  <2>1. "cycle" \in Kinds
    BY DEF Kinds
  <2> QED BY <2>1, OneGood
<1>2. Good(r) /\ NoHear(r) /\ Still(r) /\ r \in Seq(Step)
  BY RestsGood DEF Rests
<1>3. Good(Take) /\ NoHear(Take) /\ Take \in Seq(Step)
      /\ \A l \in Held("transfer") : EndsOn(Take, l, FALSE)
  BY TakeGood, MovesNoHear DEF Good
<1>4. Good(b) /\ NoHear(b) /\ b \in Seq(Step)
  BY <1>2, <1>3, GoodConcat, NoHearConcat DEF Good
<1>5. \A l \in Held("transfer") : EndsOn(b, l, FALSE)
  BY <1>2, <1>3, EndsOnBefore DEF Held
<1> HIDE DEF a, b
<1>6. Good(a \o b) /\ NoHear(a \o b)
  BY <1>1, <1>4, GoodConcat, NoHearConcat
<1>7. \A l \in Held("transfer"), w \in BOOLEAN : EndsOn(a \o b, l, w)
  BY <1>1, <1>4, <1>5, EndsOnAfter
<1> QED BY <1>6, <1>7 DEF BackForm, Good, a, b

LEMMA DataGood ==
  ASSUME board \in Boards, cfg \in Cfg, NEW n \in Nat \ {0}, NEW kind \in Kinds
  PROVE  /\ Good(DataForm(n, kind)) /\ NoHear(DataForm(n, kind)) /\ DataForm(n, kind) \in Seq(Step)
         /\ \A l \in Held("transfer"), w \in BOOLEAN : EndsOn(DataForm(n, kind), l, w)
<1> DEFINE a == <<Cycles(n, kind)>>
           b == BackForm(cfg.turnaround, <<Level>>)
<1>1. a \in Seq(Step) /\ Good(a) /\ NoHear(a)
  BY OneGood
<1>2. Good(b) /\ NoHear(b) /\ b \in Seq(Step)
      /\ \A l \in Held("transfer") : EndsOn(b, l, FALSE)
  BY BackGood, Counts DEF Rests
<1> HIDE DEF a, b
<1>3. Good(a \o b) /\ NoHear(a \o b)
  BY <1>1, <1>2, GoodConcat, NoHearConcat
<1>4. \A l \in Held("transfer"), w \in BOOLEAN : EndsOn(a \o b, l, w)
  BY <1>1, <1>2, EndsOnAfter
<1> QED BY <1>3, <1>4 DEF DataForm, Good, a, b

LEMMA AfterAckGood ==
  ASSUME board \in Boards, cfg \in Cfg, NEW rnw \in BOOLEAN,
         NEW ack \in {"OK", "WAIT", "FAULT", "none"}
  PROVE  /\ Good(AfterAck(ack, rnw)) /\ NoHear(AfterAck(ack, rnw))
         /\ \A l \in Held("transfer"), w \in BOOLEAN : EndsOn(AfterAck(ack, rnw), l, w)
<1> DEFINE t == AfterAck(ack, rnw)
<1>1. \/ \E kind \in {"read", "cycle"} : t = DataForm(DataBits, kind)
      \/ \E n \in {cfg.turnaround, cfg.turnaround + DataBits}, r \in Rests : t = BackForm(n, r)
  BY AfterAckIs, Counts DEF Rests
<1> HIDE DEF t
<1>2. CASE \E kind \in {"read", "cycle"} : t = DataForm(DataBits, kind)
  <2>1. {"read", "cycle"} \subseteq Kinds
    BY DEF Kinds
  <2> QED BY <1>2, <2>1, DataGood, Counts DEF t
<1>3. CASE \E n \in {cfg.turnaround, cfg.turnaround + DataBits}, r \in Rests : t = BackForm(n, r)
  BY <1>3, BackGood, Counts DEF t
<1> QED BY <1>1, <1>2, <1>3

-----------------------------------------------------------------------------
(* SWDSequence's entries.                                                    *)

LEMMA EntryGood ==
  ASSUME board \in Boards, NEW s
  PROVE  /\ Good(Entry(s)) /\ NoHear(Entry(s)) /\ Calm(Entry(s)) /\ Entry(s) \in Seq(Step)
<1>1. ASSUME NEW a \in Seq(Step), Good(a), \A i \in DOMAIN a : Moves(a[i]), NEW kind \in {"in", "out"}
      PROVE  LET t == a \o <<Cycles(1, kind)>> IN Good(t) /\ NoHear(t) /\ Calm(t)
  <2> DEFINE c == <<Cycles(1, kind)>>
  <2>1. c \in Seq(Step) /\ Good(c) /\ NoHear(c) /\ Calm(c)
    <3>1. kind \in Kinds
      BY DEF Kinds
    <3>2. kind # "write"
      OBVIOUS
    <3>3. 1 \in Nat \ {0}
      OBVIOUS
    <3> QED BY <3>1, <3>2, <3>3, OneGood
  <2>2. NoHear(a) /\ Calm(a)
    BY <1>1, MovesNoHear
  <2> HIDE DEF c
  <2>3. Good(a \o c) /\ NoHear(a \o c) /\ Calm(a \o c)
    BY <1>1, <2>1, <2>2, GoodConcat, NoHearConcat, CalmConcat
  <2> QED BY <2>3 DEF c
<1>2. CASE s = "in"
  <2>1. Good(Release) /\ Release \in Seq(Step) /\ \A i \in DOMAIN Release : Moves(Release[i])
    BY ReleaseGood DEF Good
  <2>2. Good(Entry(s)) /\ NoHear(Entry(s)) /\ Calm(Entry(s))
    BY <1>1, <1>2, <2>1 DEF Entry
  <2> QED BY <2>2 DEF Good
<1>3. CASE s # "in"
  <2>1. Good(Take) /\ Take \in Seq(Step) /\ \A i \in DOMAIN Take : Moves(Take[i])
    BY TakeGood DEF Good
  <2>2. Good(Entry(s)) /\ NoHear(Entry(s)) /\ Calm(Entry(s))
    BY <1>1, <1>3, <2>1 DEF Entry
  <2> QED BY <2>2 DEF Good
<1> QED BY <1>2, <1>3

EntriesTo(seqs, n) == FlattenSeq([i \in 1..n |-> Entry(seqs[i])])
Well(t) == Good(t) /\ NoHear(t) /\ Calm(t)
LEMMA EntriesGood ==
  ASSUME board \in Boards, NEW seqs, NEW n \in Nat
  PROVE  Well(EntriesTo(seqs, n))
<1> DEFINE T == {k \in Nat : ~ Well(EntriesTo(seqs, k))}
<1> SUFFICES ASSUME T # {} PROVE FALSE
  OBVIOUS
<1>1. PICK k \in T : \A y \in T : k <= y
  <2>1. T \subseteq Nat
    OBVIOUS
  <2> HIDE DEF T
  <2> QED BY <2>1, Least
<1>2. k # 0
  <2>1. EntriesTo(seqs, 0) = <<>>
    <3>1. [i \in 1..0 |-> Entry(seqs[i])] = <<>>
      OBVIOUS
    <3> QED BY <3>1, FlattenEmpty DEF EntriesTo
  <2>2. Well(<<>>)
    BY DEF Well, Good, Chained, NoHear, Calm
  <2> QED BY <2>1, <2>2
<1> DEFINE m == k - 1
<1>3. m \in Nat /\ k = m + 1 /\ k \in Nat /\ Well(EntriesTo(seqs, m))
  BY <1>1, <1>2
<1>4. ~ Well(EntriesTo(seqs, k))
  BY <1>1
<1> HIDE DEF T, m
<1>5. EntriesTo(seqs, k) = EntriesTo(seqs, m) \o Entry(seqs[k])
  <2> DEFINE s == [i \in 1..(m + 1) |-> Entry(seqs[i])]
             t == [i \in 1..m |-> Entry(seqs[i])]
  <2>1. \A i \in 1..(m + 1) : Entry(seqs[i]) \in Seq(Step)
    BY EntryGood
  <2>2. s \in [1..(m + 1) -> Seq(Step)]
    BY <2>1
  <2>3. t = [i \in 1..m |-> s[i]]
    <3>1. \A i \in 1..m : i \in 1..(m + 1)
      BY <1>3
    <3>2. \A i \in 1..m : s[i] = Entry(seqs[i])
      BY <3>1
    <3> QED BY <3>2
  <2>4. s[m + 1] = Entry(seqs[k])
    <3>1. m + 1 \in 1..(m + 1)
      BY <1>3
    <3> QED BY <1>3, <3>1
  <2> HIDE DEF s, t
  <2>5. FlattenSeq(s) = FlattenSeq(t) \o s[m + 1]
    BY <1>3, <2>2, <2>3, FlattenStep
  <2> QED BY <1>3, <2>4, <2>5 DEF EntriesTo, s, t
<1> DEFINE a == EntriesTo(seqs, m)
           b == Entry(seqs[k])
<1>6. a \in Seq(Step) /\ b \in Seq(Step) /\ Well(a) /\ Well(b)
  BY <1>3, EntryGood DEF Well, Good
<1> HIDE DEF a, b
<1>7. Well(a \o b)
  BY <1>6, GoodConcat, NoHearConcat, CalmConcat DEF Well
<1> QED BY <1>4, <1>5, <1>7 DEF a, b

LEMMA SequenceGood ==
  ASSUME board \in Boards, NEW seqs \in SeqRuns
  PROVE  /\ Well(SequenceSteps(seqs))
         /\ (~ \E i \in 1..Len(seqs) : seqs[i] = "bad") =>
              \A l \in Held("sequences"), w \in BOOLEAN : EndsOn(SequenceSteps(seqs), l, w)
<1> DEFINE n == Max(Accepted(seqs))
           a == EntriesTo(seqs, n)
           ok == Len(seqs) \in Accepted(seqs)
<1>1. Len(seqs) \in Nat
  OBVIOUS
<1>2. n \in Nat
  <2>1. Accepted(seqs) \subseteq 0..Len(seqs) /\ Accepted(seqs) # {}
    <3>1. 0 \in Accepted(seqs)
      BY <1>1 DEF Accepted
    <3> QED BY <3>1 DEF Accepted
  <2> QED BY <1>1, <2>1, Greatest
<1>3. SequenceSteps(seqs) = a \o (IF ok THEN Take ELSE <<>>)
  BY DEF SequenceSteps, EntrySteps, EntriesTo, If
<1> HIDE DEF n
<1>4. Well(a) /\ a \in Seq(Step)
  BY <1>2, EntriesGood DEF Well, Good
<1>5. Well(Take) /\ Take \in Seq(Step)
  BY TakeGood, MovesNoHear DEF Well, Good
<1>6. (~ \E i \in 1..Len(seqs) : seqs[i] = "bad") => ok
  BY <1>1 DEF Accepted
<1> HIDE DEF a, ok
<1>7. Well(SequenceSteps(seqs))
  <2>1. Well(a \o Take)
    BY <1>4, <1>5, GoodConcat, NoHearConcat, CalmConcat DEF Well
  <2>2. a \o <<>> = a
    BY <1>4
  <2> QED BY <1>3, <1>4, <2>1, <2>2
<1>8. ok => \A l \in Held("sequences"), w \in BOOLEAN : EndsOn(SequenceSteps(seqs), l, w)
  <2>1. Held("sequences") = Held("transfer")
    BY DEF Held
  <2>2. \A l \in Held("sequences"), w \in BOOLEAN : EndsOn(a \o Take, l, w)
    BY <1>4, <1>5, <2>1, TakeGood, EndsOnAfter
  <2> QED BY <1>3, <2>2
<1> QED BY <1>6, <1>7, <1>8

-----------------------------------------------------------------------------
(* The port, on and off.                                                     *)

\* A chip in the order its first line is named.
LEMMA RequestsAre ==
  ASSUME board \in Boards
  PROVE  /\ Len(Requests) \in 1..3 /\ DOMAIN Requests = 1..Len(Requests)
         /\ \A k \in DOMAIN Requests : Requests[k] \subseteq {"clk", "dout", "dir"}
         /\ "clk" \in Requests[1] /\ (\E k \in DOMAIN Requests : "dout" \in Requests[k])
         /\ board.dir => \E k \in DOMAIN Requests : "dir" \in Requests[k]
<1> DEFINE A == OnChipOf("clk")
           B == OnChipOf("dout")
           C == OnChipOf("dir")
           new == board.dir /\ board.chip.dir \notin {board.chip.clk, board.chip.dout}
           S == SUBSET {"clk", "dout", "dir"}
<1>1. A \in S /\ B \in S /\ C \in S
  BY DEF OnChipOf
<1>2. "clk" \in A /\ "dout" \in B /\ (Fused => "dout" \in A) /\ (board.dir => "dir" \in C)
      /\ (board.dir /\ ~ new => "dir" \in A \/ "dir" \in B) /\ (Fused => A = B)
  BY DEF OnChipOf, Fused
<1>3. Requests = (<<A>> \o (IF Fused THEN <<>> ELSE <<B>>)) \o (IF new THEN <<C>> ELSE <<>>)
  BY DEF Requests, If
<1> HIDE DEF A, B, C, new, S
<1>4. /\ <<A>> \o <<>> = <<A>> /\ <<A>> \o <<B>> = <<A, B>>
      /\ <<A>> \o <<C>> = <<A, C>> /\ <<A, B>> \o <<C>> = <<A, B, C>>
      /\ <<A, B>> \o <<>> = <<A, B>>
  <2>1. <<A, B>> \in Seq(S)
    BY <1>1
  <2>2. <<A, B>> \o <<>> = <<A, B>>
    BY <2>1, EmptyConcat
  <2> QED BY <2>2, Joins
<1> DEFINE R == Requests
<1>5. \/ R = <<A>> /\ Fused /\ ~ new
      \/ R = <<A, C>> /\ Fused /\ new
      \/ R = <<A, B>> /\ ~ Fused /\ ~ new
      \/ R = <<A, B, C>> /\ ~ Fused /\ new
  <2> HIDE DEF Fused
  <2>1. CASE Fused /\ ~ new
    BY <2>1, <1>3, <1>4
  <2>2. CASE Fused /\ new
    BY <2>2, <1>3, <1>4
  <2>3. CASE ~ Fused /\ ~ new
    BY <2>3, <1>3, <1>4
  <2>4. CASE ~ Fused /\ new
    BY <2>4, <1>3, <1>4
  <2> QED BY <2>1, <2>2, <2>3, <2>4
<1> HIDE DEF R
<1> DEFINE Goal == /\ Len(R) \in 1..3 /\ DOMAIN R = 1..Len(R)
                   /\ \A k \in DOMAIN R : R[k] \in S
                   /\ "clk" \in R[1] /\ (\E k \in DOMAIN R : "dout" \in R[k])
                   /\ (board.dir => \E k \in DOMAIN R : "dir" \in R[k])
<1>6. ASSUME R = <<A>> /\ Fused /\ ~ new PROVE Goal
  <2>1. Len(R) = 1 /\ DOMAIN R = 1..1 /\ R[1] = A
    BY <1>6
  <2> QED BY <2>1, <1>1, <1>2, <1>6
<1>7. ASSUME R = <<A, C>> /\ Fused /\ new PROVE Goal
  <2>1. Len(R) = 2 /\ DOMAIN R = 1..2 /\ R[1] = A /\ R[2] = C
    BY <1>7
  <2> QED BY <2>1, <1>1, <1>2, <1>7
<1>8. ASSUME R = <<A, B>> /\ ~ Fused /\ ~ new PROVE Goal
  <2>1. Len(R) = 2 /\ DOMAIN R = 1..2 /\ R[1] = A /\ R[2] = B
    BY <1>8
  <2> QED BY <2>1, <1>1, <1>2, <1>8
<1>9. ASSUME R = <<A, B, C>> /\ ~ Fused /\ new PROVE Goal
  <2>1. Len(R) = 3 /\ DOMAIN R = 1..3 /\ R[1] = A /\ R[2] = B /\ R[3] = C
    BY <1>9
  <2> QED BY <2>1, <1>1, <1>2, <1>9
<1>10. Goal
  <2> HIDE DEF Goal
  <2> QED BY <1>5, <1>6, <1>7, <1>8, <1>9
<1> QED BY <1>10 DEF R, S

ConfigsAll(t, on) ==
  /\ t \in Seq(Step) /\ DOMAIN t = 1..Len(t) /\ Len(t) \in 1..3 /\ DOMAIN t = DOMAIN Requests
  /\ \A k \in DOMAIN t :
       /\ Moves(t[k])
       /\ \A l, w : Sets(t[k], l, w) <=>
            w = on /\ (l \in Requests[k] \/ (on /\ "dir" \in Requests[k] /\ l = "low"))
LEMMA ConfigAllIs ==
  ASSUME board \in Boards, NEW on \in BOOLEAN
  PROVE  ConfigsAll(ConfigAll(on), on)
<1> DEFINE n == Len(Requests)
           L(k) == Requests[k] \cup (IF on /\ "dir" \in Requests[k] THEN {"low"} ELSE {})
           t == ConfigAll(on)
<1>1. n \in 1..3 /\ DOMAIN Requests = 1..n
      /\ \A k \in 1..n : Requests[k] \subseteq {"clk", "dout", "dir"}
  BY RequestsAre
<1>2. t = [k \in 1..n |-> Config(L(k), on)]
  BY DEF ConfigAll
<1>3. \A k \in 1..n : L(k) \in SUBSET Pins
  BY <1>1 DEF Pins
<1>4. \A k, l : l \in L(k) <=> l \in Requests[k] \/ (on /\ "dir" \in Requests[k] /\ l = "low")
  OBVIOUS
<1> HIDE DEF n, L, t
<1>5. \A k \in 1..n : /\ Config(L(k), on) \in Step /\ Moves(Config(L(k), on))
                      /\ \A l, w : Sets(Config(L(k), on), l, w) <=> l \in L(k) /\ w = on
  <2> SUFFICES ASSUME NEW k \in 1..n
               PROVE  /\ Config(L(k), on) \in Step /\ Moves(Config(L(k), on))
                      /\ \A l, w : Sets(Config(L(k), on), l, w) <=> l \in L(k) /\ w = on
    OBVIOUS
  <2> DEFINE K == L(k)
  <2>1. K \in SUBSET Pins
    BY <1>3
  <2> HIDE DEF K
  <2>2. /\ Config(K, on) \in Step /\ Moves(Config(K, on))
        /\ \A l, w : Sets(Config(K, on), l, w) <=> l \in K /\ w = on
    BY <2>1, ConfigIs
  <2> QED BY <2>2 DEF K
<1>6. t \in Seq(Step) /\ Len(t) = n /\ DOMAIN t = 1..n /\ \A k \in 1..n : t[k] = Config(L(k), on)
  BY <1>1, <1>2, <1>5
<1>7. \A k \in DOMAIN t :
        /\ Moves(t[k])
        /\ \A l, w : Sets(t[k], l, w) <=>
             w = on /\ (l \in Requests[k] \/ (on /\ "dir" \in Requests[k] /\ l = "low"))
  BY <1>4, <1>5, <1>6
<1> QED BY <1>1, <1>6, <1>7 DEF t, ConfigsAll

LEMMA LinuxIs == Linux => Driver.on = ConfigAll(TRUE) \o <<Note(TRUE)>>
                          /\ Driver.off = ConfigAll(FALSE) \o <<Note(FALSE)>>
BY DEF Driver, LinuxDriver

LEMMA StoresAre ==
  ASSUME board \in Boards, ~ Linux
  PROVE  /\ board.dir =>
              /\ Driver.on = <<Put("clk", TRUE), Put("dout", TRUE), Put("dir", TRUE), Put("low", TRUE)>>
              /\ Driver.off = <<Put("clk", FALSE), Put("dout", FALSE), Put("dir", FALSE)>>
         /\ ~ board.dir =>
              /\ Driver.on = <<Put("clk", TRUE), Put("dout", TRUE)>>
              /\ Driver.off = <<Put("clk", FALSE), Put("dout", FALSE)>>
BY BoardIs DEF Driver, DriverBidir, DriverBidirBuffered, DriverSplit

\* PortOn turns on everything the host needs, and nothing off.
TurnsOn(t) ==
  /\ t \in Seq(Step) /\ \A i \in DOMAIN t : Fits("connect", t[i])
  /\ \A l \in Held("connect"), w \in BOOLEAN : EndsOn(t, l, w)
LEMMA OnGood ==
  ASSUME board \in Boards
  PROVE  TurnsOn(Driver.on)
<1>1. ASSUME NEW t, t \in Seq(Step),
             \A i \in DOMAIN t : Moves(t[i]) /\ \A l \in Lines : ~ Sets(t[i], l, FALSE),
             \A l \in Held("connect") : \E i \in DOMAIN t : Sets(t[i], l, TRUE)
      PROVE  TurnsOn(t)
  <2>1. \A i \in DOMAIN t : Fits("connect", t[i])
    BY <1>1 DEF Fits, OnlyOn
  <2>2. ASSUME NEW l \in Held("connect"), NEW w \in BOOLEAN PROVE EndsOn(t, l, w)
    <3>1. PICK i \in DOMAIN t : Sets(t[i], l, TRUE)
      BY <1>1
    <3>2. l \in Lines
      BY DEF Held
    <3> QED BY <1>1, <3>1, <3>2 DEF EndsOn
  <2> QED BY <1>1, <2>1, <2>2 DEF TurnsOn
<1>2. \A l \in Held("connect") : \/ l \in {"clk", "dout"} \/ (l \in {"dir", "low"} /\ board.dir)
                                 \/ (l = "note" /\ Linux)
  BY DEF Held
<1>3. CASE Linux
  <2> DEFINE a == ConfigAll(TRUE)
             x == Note(TRUE)
             b == <<x>>
  <2>1. x \in Step /\ Moves(x) /\ \A l, w : Sets(x, l, w) <=> l = "note" /\ w = TRUE
    BY NoteIs
  <2> HIDE DEF x
  <2>2. b \in Seq(Step) /\ DOMAIN b = {1} /\ b[1] = x
    BY <2>1
  <2>3. /\ a \in Seq(Step) /\ DOMAIN a = DOMAIN Requests
        /\ \A k \in DOMAIN a :
             /\ Moves(a[k])
             /\ \A l, w : Sets(a[k], l, w) <=>
                  w = TRUE /\ (l \in Requests[k] \/ ("dir" \in Requests[k] /\ l = "low"))
    <3>1. ConfigsAll(a, TRUE)
      BY ConfigAllIs, Zenon
    <3> HIDE DEF a
    <3> QED BY <3>1 DEF ConfigsAll
  <2> HIDE DEF a, b
  <2>4. /\ a \o b \in Seq(Step)
        /\ \A i \in DOMAIN a : i \in DOMAIN (a \o b) /\ (a \o b)[i] = a[i]
        /\ \A i \in DOMAIN b : Len(a) + i \in DOMAIN (a \o b) /\ (a \o b)[Len(a) + i] = b[i]
        /\ \A i \in DOMAIN (a \o b) : i \in DOMAIN a \/ (i - Len(a) \in DOMAIN b /\ i > Len(a))
    BY <2>2, <2>3, ConcatAt
  <2> DEFINE t == a \o b
             last1 == Len(a) + 1
  <2>5. last1 \in DOMAIN t /\ t[last1] = x
    BY <2>2, <2>4
  <2>6. \A i \in DOMAIN t : i \in DOMAIN a \/ i = last1
    <3>1. Len(a) \in Nat /\ \A i \in DOMAIN t : i \in Nat
      BY <2>3, <2>4
    <3> QED BY <2>2, <2>4, <3>1
  <2> HIDE DEF t, last1
  <2>7. \A i \in DOMAIN t : Moves(t[i]) /\ \A l \in Lines : ~ Sets(t[i], l, FALSE)
    <3> SUFFICES ASSUME NEW i \in DOMAIN t
                 PROVE  Moves(t[i]) /\ \A l \in Lines : ~ Sets(t[i], l, FALSE)
      OBVIOUS
    <3>1. CASE i = last1
      BY <3>1, <2>1, <2>5
    <3>2. CASE i \in DOMAIN a
      <4>1. t[i] = a[i]
        BY <3>2, <2>4 DEF t
      <4> QED BY <3>2, <4>1, <2>3
    <3> QED BY <3>1, <3>2, <2>6
  <2>8. ASSUME NEW l \in Held("connect") PROVE \E i \in DOMAIN t : Sets(t[i], l, TRUE)
    <3>1. CASE l = "note"
      BY <3>1, <2>1, <2>5
    <3>2. ASSUME NEW m \in {"clk", "dout", "dir"}, m # "dir" \/ board.dir
          PROVE  \E k \in DOMAIN a : m \in Requests[k]
      <4>1. 1 \in DOMAIN Requests
        BY RequestsAre
      <4> QED BY <4>1, <2>3, <3>2, RequestsAre
    <3>3. CASE l \in {"clk", "dout", "dir"} /\ (l # "dir" \/ board.dir)
      <4>1. PICK k \in DOMAIN a : l \in Requests[k]
        BY <3>2, <3>3
      <4>2. Sets(a[k], l, TRUE)
        BY <2>3, <4>1
      <4> QED BY <2>4, <4>2 DEF t
    <3>4. CASE l = "low" /\ board.dir
      <4>1. PICK k \in DOMAIN a : "dir" \in Requests[k]
        BY <3>2, <3>4
      <4>2. Sets(a[k], l, TRUE)
        BY <2>3, <3>4, <4>1
      <4> QED BY <2>4, <4>2 DEF t
    <3> QED BY <1>2, <3>1, <3>3, <3>4
  <2>9. Driver.on = t /\ t \in Seq(Step)
    BY <1>3, <2>4, LinuxIs DEF t, a, b, x
  <2> QED BY <1>1, <2>7, <2>8, <2>9
<1>4. ASSUME ~ Linux PROVE TurnsOn(Driver.on)
  <2> DEFINE c == Put("clk", TRUE)
             d == Put("dout", TRUE)
             e == Put("dir", TRUE)
             f == Put("low", TRUE)
  <2>1. /\ c \in Step /\ Moves(c) /\ \A l, w : Sets(c, l, w) <=> l = "clk" /\ w = TRUE
        /\ d \in Step /\ Moves(d) /\ \A l, w : Sets(d, l, w) <=> l = "dout" /\ w = TRUE
        /\ e \in Step /\ Moves(e) /\ \A l, w : Sets(e, l, w) <=> l = "dir" /\ w = TRUE
        /\ f \in Step /\ Moves(f) /\ \A l, w : Sets(f, l, w) <=> l = "low" /\ w = TRUE
    <3>1. {"clk", "dout", "dir", "low"} \subseteq Pins /\ TRUE \in BOOLEAN
      BY DEF Pins
    <3> HIDE DEF Pins
    <3> QED BY <3>1, PutIs
  <2>2. IF board.dir THEN Driver.on = <<c, d, e, f>> ELSE Driver.on = <<c, d>>
    BY <1>4, StoresAre
  <2> HIDE DEF c, d, e, f
  <2>3. CASE board.dir
    <3> DEFINE t == <<c, d, e, f>>
    <3>1. t \in Seq(Step) /\ DOMAIN t = {1, 2, 3, 4}
          /\ t[1] = c /\ t[2] = d /\ t[3] = e /\ t[4] = f
      BY <2>1
    <3> HIDE DEF t
    <3>2. \A i \in DOMAIN t : Moves(t[i]) /\ \A l \in Lines : ~ Sets(t[i], l, FALSE)
      BY <2>1, <3>1
    <3>3. \A l \in Held("connect") : \E i \in DOMAIN t : Sets(t[i], l, TRUE)
      BY <1>2, <1>4, <2>1, <3>1
    <3>4. TurnsOn(t)
      BY <1>1, <3>1, <3>2, <3>3
    <3> QED BY <2>2, <2>3, <3>4 DEF t
  <2>4. CASE ~ board.dir
    <3> DEFINE t == <<c, d>>
    <3>1. t \in Seq(Step) /\ DOMAIN t = {1, 2} /\ t[1] = c /\ t[2] = d
      BY <2>1
    <3> HIDE DEF t
    <3>2. \A i \in DOMAIN t : Moves(t[i]) /\ \A l \in Lines : ~ Sets(t[i], l, FALSE)
      BY <2>1, <3>1
    <3>3. \A l \in Held("connect") : \E i \in DOMAIN t : Sets(t[i], l, TRUE)
      BY <1>2, <1>4, <2>1, <2>4, <3>1
    <3>4. TurnsOn(t)
      BY <1>1, <3>1, <3>2, <3>3
    <3> QED BY <2>2, <2>4, <3>4 DEF t
  <2> QED BY <2>3, <2>4
<1> QED BY <1>3, <1>4

\* PortOff turns the clock off first, and nothing on.
TurnsOff(t) ==
  /\ t \in Seq(Step) /\ \A i \in DOMAIN t : Fits("disconnect", t[i])
  /\ t # <<>> /\ Sets(t[1], "clk", FALSE)
LEMMA OffGood ==
  ASSUME board \in Boards
  PROVE  TurnsOff(Driver.off)
<1>1. CASE Linux
  <2> DEFINE a == ConfigAll(FALSE)
             x == Note(FALSE)
             b == <<x>>
             t == a \o b
  <2>1. x \in Step /\ Moves(x) /\ \A l, w : Sets(x, l, w) <=> l = "note" /\ w = FALSE
    BY NoteIs
  <2> HIDE DEF x
  <2>2. b \in Seq(Step) /\ DOMAIN b = {1} /\ b[1] = x
    BY <2>1
  <2>3. /\ a \in Seq(Step) /\ DOMAIN a = DOMAIN Requests
        /\ \A k \in DOMAIN a :
             Moves(a[k]) /\ \A l, w : Sets(a[k], l, w) <=> w = FALSE /\ l \in Requests[k]
    <3>1. ConfigsAll(a, FALSE)
      BY ConfigAllIs, Zenon
    <3> HIDE DEF a
    <3> QED BY <3>1 DEF ConfigsAll
  <2> HIDE DEF a, b
  <2>4. /\ t \in Seq(Step)
        /\ \A i \in DOMAIN a : i \in DOMAIN t /\ t[i] = a[i]
        /\ \A i \in DOMAIN b : Len(a) + i \in DOMAIN t /\ t[Len(a) + i] = b[i]
        /\ \A i \in DOMAIN t : i \in DOMAIN a \/ (i - Len(a) \in DOMAIN b /\ i > Len(a))
    BY <2>2, <2>3, ConcatAt
  <2>5. \A i \in DOMAIN t : i \in DOMAIN a \/ t[i] = x
    <3>1. Len(a) \in Nat /\ \A i \in DOMAIN t : i \in Nat
      BY <2>3, <2>4
    <3>2. \A i \in DOMAIN t : i \in DOMAIN a \/ i = Len(a) + 1
      BY <2>2, <2>4, <3>1
    <3> HIDE DEF t
    <3> QED BY <2>2, <2>4, <3>2
  <2> HIDE DEF t
  <2>6. ASSUME NEW i \in DOMAIN t PROVE Fits("disconnect", t[i])
    <3>1. CASE t[i] = x
      <4>1. OnlyOff(x)
        <5>1. \A l \in Lines : ~ Sets(x, l, TRUE)
          BY <2>1
        <5>2. ~ Sets(x, "low", FALSE)
          <6>1. \A l, w : Sets(x, l, w) => l = "note"
            BY <2>1
          <6> QED BY <6>1
        <5> QED BY <2>1, <5>1, <5>2 DEF OnlyOff
      <4> QED BY <3>1, <4>1 DEF Fits
    <3>2. CASE i \in DOMAIN a
      <4>1. t[i] = a[i] /\ Requests[i] \subseteq {"clk", "dout", "dir"}
        BY <3>2, <2>3, <2>4, RequestsAre
      <4>2. OnlyOff(a[i])
        <5>1. ~ ("low" \in Requests[i])
          BY <4>1
        <5> QED BY <3>2, <5>1, <2>3 DEF OnlyOff
      <4> QED BY <4>1, <4>2 DEF Fits
    <3> QED BY <3>1, <3>2, <2>5
  <2>7. t # <<>> /\ Sets(t[1], "clk", FALSE)
    <3>1. 1 \in DOMAIN a /\ "clk" \in Requests[1]
      BY <2>3, RequestsAre
    <3>2. Sets(a[1], "clk", FALSE) /\ t[1] = a[1] /\ 1 \in DOMAIN t
      BY <2>3, <2>4, <3>1
    <3>3. t # <<>>
      BY <3>2, <2>4
    <3> QED BY <3>2, <3>3
  <2>8. TurnsOff(t)
    BY <2>4, <2>6, <2>7 DEF TurnsOff
  <2> QED BY <1>1, <2>8, LinuxIs DEF t, a, b, x
<1>2. CASE ~ Linux
  <2> DEFINE c == Put("clk", FALSE)
             d == Put("dout", FALSE)
             e == Put("dir", FALSE)
  <2>1. /\ c \in Step /\ Moves(c) /\ \A l, w : Sets(c, l, w) <=> l = "clk" /\ w = FALSE
        /\ d \in Step /\ Moves(d) /\ \A l, w : Sets(d, l, w) <=> l = "dout" /\ w = FALSE
        /\ e \in Step /\ Moves(e) /\ \A l, w : Sets(e, l, w) <=> l = "dir" /\ w = FALSE
    <3>1. {"clk", "dout", "dir"} \subseteq Pins /\ FALSE \in BOOLEAN
      BY DEF Pins
    <3> HIDE DEF Pins
    <3> QED BY <3>1, PutIs
  <2>2. IF board.dir THEN Driver.off = <<c, d, e>> ELSE Driver.off = <<c, d>>
    BY <1>2, StoresAre
  <2> HIDE DEF c, d, e
  <2>3. Fits("disconnect", c) /\ Fits("disconnect", d) /\ Fits("disconnect", e)
    <3>1. OnlyOff(c) /\ OnlyOff(d) /\ OnlyOff(e)
      <4>1. ASSUME NEW s \in Step, Moves(s), NEW m \in {"clk", "dout", "dir"},
                   \A l, w : Sets(s, l, w) <=> l = m /\ w = FALSE
            PROVE  OnlyOff(s)
        <5>1. \A l \in Lines : ~ Sets(s, l, TRUE)
          BY <4>1
        <5>2. ~ Sets(s, "low", FALSE)
          <6>1. \A l, w : Sets(s, l, w) => l = m
            BY <4>1
          <6> QED BY <6>1
        <5> QED BY <4>1, <5>1, <5>2 DEF OnlyOff
      <4> QED BY <2>1, <4>1
    <3> QED BY <3>1 DEF Fits
  <2>4. TurnsOff(<<c, d, e>>)
    <3> DEFINE t == <<c, d, e>>
    <3>1. t \in Seq(Step) /\ DOMAIN t = {1, 2, 3} /\ t # <<>> /\ t[1] = c /\ t[2] = d /\ t[3] = e
      BY <2>1
    <3> HIDE DEF t
    <3>2. TurnsOff(t)
      BY <2>1, <2>3, <3>1 DEF TurnsOff
    <3> QED BY <3>2 DEF t
  <2>5. TurnsOff(<<c, d>>)
    <3> DEFINE t == <<c, d>>
    <3>1. t \in Seq(Step) /\ DOMAIN t = {1, 2} /\ t # <<>> /\ t[1] = c /\ t[2] = d
      BY <2>1
    <3> HIDE DEF t
    <3>2. TurnsOff(t)
      BY <2>1, <2>3, <3>1 DEF TurnsOff
    <3> QED BY <3>2 DEF t
  <2> QED BY <2>2, <2>4, <2>5
<1> QED BY <1>1, <1>2

\* measure gives SWCLK back.
LEMMA MeasureGood ==
  /\ Measure \in Seq(Step) /\ (\A i \in DOMAIN Measure : Fits("calibrate", Measure[i]))
  /\ NoHear(Measure) /\ GivesBack(Measure)
<1> DEFINE L == {"clk"}
           a == Config(L, TRUE)
           c == Cycles(1, "raw")
           d == Config(L, FALSE)
<1>1. /\ a \in Step /\ a.do = "config" /\ a.lines = L
      /\ \A l, w : Sets(a, l, w) <=> l \in L /\ w = TRUE
      /\ d \in Step /\ d.do = "config" /\ d.lines = L
      /\ \A l, w : Sets(d, l, w) <=> l \in L /\ w = FALSE
  <2>1. L \in SUBSET Pins /\ TRUE \in BOOLEAN /\ FALSE \in BOOLEAN
    BY DEF Pins
  <2> HIDE DEF L
  <2> QED BY <2>1, ConfigIs
<1>2. c \in Step /\ c.do = "cycles" /\ c.as = "raw" /\ \A l, w : ~ Sets(c, l, w)
  <2>1. "raw" \in Kinds /\ 1 \in Nat \ {0}
    BY DEF Kinds
  <2> QED BY <2>1, CyclesIs
<1>3. Measure = (IF Linux /\ ~ pins.clk THEN <<a>> \o <<c>> \o <<d>> ELSE <<>> \o <<c>> \o <<>>)
  BY DEF Measure, If
<1> HIDE DEF a, c, d
<1>4. Fits("calibrate", a) /\ Fits("calibrate", c) /\ Fits("calibrate", d)
  BY <1>1, <1>2 DEF Fits, Clocks
<1> HIDE DEF L
<1>5. Measure = IF Linux /\ ~ pins.clk THEN <<a, c, d>> ELSE <<c>>
  <2>1. <<a>> \o <<c>> \o <<d>> = <<a, c, d>>
    BY Joins
  <2>2. <<>> \o <<c>> \o <<>> = <<c>>
    BY Joins
  <2> QED BY <1>3, <2>1, <2>2
<1> DEFINE Goal(t) == /\ t \in Seq(Step) /\ (\A i \in DOMAIN t : Fits("calibrate", t[i]))
                      /\ NoHear(t) /\ GivesBack(t)
<1>6. Goal(<<a, c, d>>)
  <2> DEFINE t == <<a, c, d>>
  <2>1. t \in Seq(Step) /\ DOMAIN t = {1, 2, 3} /\ t[1] = a /\ t[2] = c /\ t[3] = d
    BY <1>1, <1>2
  <2> HIDE DEF t
  <2>2. Sets(t[3], "clk", FALSE) /\ ~ Sets(t[2], "clk", TRUE) /\ ~ Sets(t[3], "clk", TRUE)
    BY <1>1, <1>2, <2>1 DEF L
  <2>3. GivesBack(t)
    <3>1. \A i \in DOMAIN t : Sets(t[i], "clk", TRUE) => i = 1
      BY <2>1, <2>2
    <3>2. 3 \in DOMAIN t /\ 3 > 1
      BY <2>1
    <3> QED BY <2>2, <3>1, <3>2 DEF GivesBack
  <2>4. NoHear(t)
    BY <1>1, <1>2, <2>1 DEF NoHear
  <2>5. Goal(t)
    BY <1>4, <2>1, <2>3, <2>4
  <2> HIDE DEF Goal
  <2> QED BY <2>5 DEF t
<1>7. Goal(<<c>>)
  <2> DEFINE t == <<c>>
  <2>1. t \in Seq(Step) /\ DOMAIN t = {1} /\ t[1] = c
    BY <1>2
  <2> HIDE DEF t
  <2>2. GivesBack(t) /\ NoHear(t)
    BY <1>2, <2>1 DEF GivesBack, NoHear
  <2>3. Goal(t)
    BY <1>4, <2>1, <2>2
  <2> HIDE DEF Goal
  <2> QED BY <2>3 DEF t
<1>8. Goal(Measure)
  <2> HIDE DEF Goal
  <2> QED BY <1>5, <1>6, <1>7
<1> QED BY <1>8

LEMMA CloseGood ==
  LET t == If(Linux, <<Config({"clk", "dout", "dir"}, FALSE)>>)
  IN  t \in Seq(Step) /\ (\A i \in DOMAIN t : Fits("close", t[i])) /\ NoHear(t)
<1> DEFINE L == {"clk", "dout", "dir"}
           x == Config(L, FALSE)
           t == IF Linux THEN <<x>> ELSE <<>>
<1>1. x \in Step /\ x.do = "config" /\ x.lines = L /\ x.v = FALSE
  <2>1. L \in SUBSET Pins /\ FALSE \in BOOLEAN
    BY DEF Pins
  <2> HIDE DEF L
  <2> QED BY <2>1, ConfigIs
<1> HIDE DEF x
<1>2. Fits("close", x) /\ x.do # "hear"
  BY <1>1 DEF Fits
<1>3. t \in Seq(Step) /\ \A i \in DOMAIN t : t[i] = x
  BY <1>1
<1> HIDE DEF t
<1>4. t \in Seq(Step) /\ (\A i \in DOMAIN t : Fits("close", t[i])) /\ NoHear(t)
  BY <1>2, <1>3 DEF NoHear
<1> QED BY <1>4 DEF t, x, If

-----------------------------------------------------------------------------
(* Types.                                                                    *)

LEMMA PhaseIs ==
  ASSUME NEW at \in Phases, NEW n \in Nat, NEW a \in Said \cup {"none"}
  PROVE  /\ Phase(at, n, a) \in Target /\ Phase(at, n, a).at = at
         /\ Phase(at, n, a).left = n /\ Phase(at, n, a).said = a
BY DEF Phase, Target

LEMMA QuietIs == Quiet \in Target /\ Quiet.at = "idle" /\ Quiet.left = 0 /\ Quiet.said = "none"
BY DEF Quiet, Target, Phases

\* The phases, one after the other.
LEMMA AfterPhaseIs ==
  /\ target.at = "request" =>
       AfterPhase = {Quiet} \cup {Phase("turn", cfg.turnaround, a) : a \in {"OK", "WAIT", "FAULT"}}
  /\ target.at = "turn" => AfterPhase = {Phase("ack", AckBits, target.said)}
  /\ target.at = "ack" =>
       AfterPhase = IF call.rnw /\ HasData(target.said)
                    THEN {Phase("data", DataBits, target.said)}
                    ELSE {Phase("turnback", cfg.turnaround, target.said)}
  /\ target.at = "data" => AfterPhase = {Phase("turnback", cfg.turnaround, target.said)}
  /\ target.at = "turnback" =>
       AfterPhase = IF ~ call.rnw /\ HasData(target.said)
                    THEN {Phase("take", DataBits, target.said)} ELSE {Quiet}
  /\ target.at \in {"take", "idle"} => AfterPhase = {Quiet}
<1>1. target.at = "ack" =>
       AfterPhase = IF call.rnw /\ HasData(target.said)
                    THEN {Phase("data", DataBits, target.said)}
                    ELSE {Phase("turnback", cfg.turnaround, target.said)}
  BY DEF AfterPhase
<1>2. target.at = "turnback" =>
       AfterPhase = IF ~ call.rnw /\ HasData(target.said)
                    THEN {Phase("take", DataBits, target.said)} ELSE {Quiet}
  BY DEF AfterPhase
<1>3. target.at = "request" =>
       AfterPhase = {Quiet} \cup {Phase("turn", cfg.turnaround, a) : a \in {"OK", "WAIT", "FAULT"}}
  BY DEF AfterPhase
<1>4. /\ target.at = "turn" => AfterPhase = {Phase("ack", AckBits, target.said)}
      /\ target.at = "data" => AfterPhase = {Phase("turnback", cfg.turnaround, target.said)}
  BY DEF AfterPhase
<1>5. target.at \in {"take", "idle"} => AfterPhase = {Quiet}
  BY DEF AfterPhase
<1> QED BY <1>1, <1>2, <1>3, <1>4, <1>5

LEMMA CycleTyped ==
  ASSUME target \in Target, cfg \in Cfg, NEW kind, NEW t \in TargetCycle(kind)
  PROVE  t \in Target
<1> DEFINE said == target.said
<1>1. said \in Said \cup {"none"} /\ target.left \in Nat /\ target.at \in Phases
  BY DEF Target
<1>2. cfg.turnaround \in Nat /\ AckBits \in Nat /\ DataBits \in Nat
  BY Counts
<1>3. \A a \in Said \cup {"none"} :
        /\ Phase("turn", cfg.turnaround, a) \in Target /\ Phase("ack", AckBits, a) \in Target
        /\ Phase("data", DataBits, a) \in Target
        /\ Phase("turnback", cfg.turnaround, a) \in Target
        /\ Phase("take", DataBits, a) \in Target
  <2>1. {"turn", "ack", "data", "turnback", "take"} \subseteq Phases
    BY DEF Phases
  <2> HIDE DEF Phases, Said
  <2> QED BY <1>2, <2>1, PhaseIs
<1>4. AfterPhase \subseteq Target
  <2>1. {Phase("turn", cfg.turnaround, a) : a \in {"OK", "WAIT", "FAULT"}} \subseteq Target
    BY <1>3 DEF Said
  <2>2. target.at \in {"request", "turn", "ack", "data", "turnback", "take", "idle"}
    BY <1>1 DEF Phases
  <2> HIDE DEF said
  <2> QED BY <1>1, <1>3, <2>1, <2>2, QuietIs, AfterPhaseIs DEF said
<1>5. Phase("request", RequestBits - 1, "none") \in Target
  <2>1. RequestBits - 1 \in Nat /\ "request" \in Phases
    BY DEF Phases
  <2> QED BY <2>1, PhaseIs
<1>6. target.left > 1 => [target EXCEPT !.left = @ - 1] \in Target
  BY DEF Target
<1> QED BY <1>4, <1>5, <1>6, QuietIs DEF TargetCycle

LEMMA StepKinds ==
  ASSUME NEW s \in Step
  PROVE  /\ s.do \in {"put", "config", "note", "cycles", "hear", "level"}
         /\ s.do = "put" => s \in PutSteps /\ s.pin \in Pins /\ s.v \in BOOLEAN
         /\ s.do = "config" => s \in ConfigSteps /\ s.lines \in SUBSET Pins /\ s.v \in BOOLEAN
         /\ s.do = "note" => s \in NoteSteps /\ s.driving \in BOOLEAN
         /\ s.do = "cycles" => s \in CycleSteps /\ s.n \in Nat \ {0} /\ s.as \in Kinds
<1>1. Hear.do = "hear" /\ Level.do = "level"
  BY DEF Hear, Level
<1>2. CASE s \in PutSteps
  BY <1>2 DEF PutSteps
<1>3. CASE s \in ConfigSteps
  BY <1>3 DEF ConfigSteps
<1>4. CASE s \in NoteSteps
  BY <1>4 DEF NoteSteps
<1>5. CASE s \in CycleSteps
  BY <1>5 DEF CycleSteps
<1>6. CASE s \in {Hear, Level}
  BY <1>1, <1>6
<1> QED BY <1>2, <1>3, <1>4, <1>5, <1>6 DEF Step

\* A cycle more, or the next step.
Alike(t, u) ==
  /\ u \in Seq(Step) /\ Len(u) = Len(t) /\ DOMAIN u = DOMAIN t
  /\ \A i \in DOMAIN t : \/ u[i] = t[i]
                         \/ u[i].do = "cycles" /\ t[i].do = "cycles" /\ u[i].as = t[i].as
Dropped == todo # <<>> /\ todo' = Tail(todo)
LEMMA CycleTodo ==
  ASSUME todo \in Seq(Step), CycleStep
  PROVE  /\ todo' \in Seq(Step) /\ (Dropped \/ (todo # <<>> /\ Alike(todo, todo')))
         /\ Head1.n = 1 => todo' = Tail(todo)
         /\ Head1.n # 1 =>
              Head1.n - 1 \in Nat \ {0} /\ todo' = <<Cycles(Head1.n - 1, Head1.as)>> \o Tail(todo)
<1> DEFINE s == todo[1]
           r == Tail(todo)
           u == Cycles(s.n - 1, s.as)
<1>1. todo # <<>> /\ s.do = "cycles" /\ Head1 = s
  BY DEF CycleStep, Doing, Head1
<1>2. /\ r \in Seq(Step) /\ s \in Step /\ Len(todo) = Len(r) + 1
      /\ \A i \in DOMAIN r : i + 1 \in DOMAIN todo /\ r[i] = todo[i + 1]
      /\ \A i \in DOMAIN todo : i = 1 \/ (i - 1 \in DOMAIN r /\ r[i - 1] = todo[i])
  BY <1>1, TailAt
<1>3. s \in CycleSteps /\ s.n \in Nat \ {0} /\ s.as \in Kinds
  BY <1>1, <1>2, StepKinds
<1>4. todo' = (IF s.n = 1 THEN <<>> ELSE <<[s EXCEPT !.n = @ - 1]>>) \o r
  BY <1>1 DEF CycleStep
<1>5. CASE s.n = 1
  <2>1. todo' = r
    BY <1>2, <1>4, <1>5, EmptyConcat
  <2> QED BY <1>1, <1>2, <1>5, <2>1 DEF Dropped
<1>6. CASE s.n # 1
  <2>1. [s EXCEPT !.n = @ - 1] = u
    BY <1>3 DEF CycleSteps, Cycles
  <2>2. s.n - 1 \in Nat \ {0}
    BY <1>3, <1>6
  <2>3. u \in Step /\ u.do = "cycles" /\ u.as = s.as
    BY <1>3, <2>2, CyclesIs
  <2>4. todo' = <<u>> \o r
    BY <1>4, <1>6, <2>1
  <2> HIDE DEF u, s, r
  <2> DEFINE a == <<u>>
  <2>5. a \in Seq(Step) /\ Len(a) = 1 /\ a[1] = u /\ DOMAIN a = {1}
    BY <2>3
  <2> HIDE DEF a
  <2>6. /\ a \o r \in Seq(Step) /\ Len(a \o r) = Len(a) + Len(r)
        /\ \A i \in DOMAIN a : (a \o r)[i] = a[i]
        /\ \A i \in DOMAIN r : (a \o r)[Len(a) + i] = r[i]
    <3>1. a \in Seq(Step) /\ r \in Seq(Step)
      BY <1>2, <2>5
    <3> QED BY <3>1, ConcatAt
  <2> DEFINE t == a \o r
  <2>7. t \in Seq(Step) /\ Len(t) = Len(todo) /\ Len(todo) \in Nat
    BY <1>2, <2>5, <2>6
  <2>8. DOMAIN t = DOMAIN todo /\ DOMAIN todo = 1..Len(todo)
    BY <2>7
  <2>9. ASSUME NEW i \in DOMAIN todo
        PROVE  \/ t[i] = todo[i]
               \/ t[i].do = "cycles" /\ todo[i].do = "cycles" /\ t[i].as = todo[i].as
    <3>1. CASE i = 1
      <4>1. t[1] = u
        BY <2>5, <2>6
      <4> QED BY <1>1, <2>3, <3>1, <4>1 DEF s
    <3>2. CASE i # 1
      <4> DEFINE k == i - 1
      <4>1. k \in DOMAIN r /\ r[k] = todo[i]
        BY <1>2, <3>2
      <4>2. Len(a) + k = i
        <5>1. i \in Nat
          BY <2>7, <2>8
        <5> QED BY <2>5, <5>1
      <4> HIDE DEF k
      <4>3. t[i] = r[k]
        BY <2>6, <4>1, <4>2
      <4> QED BY <4>1, <4>3
    <3> QED BY <3>1, <3>2
  <2> HIDE DEF t
  <2>10. Alike(todo, t)
    BY <2>7, <2>8, <2>9 DEF Alike
  <2>11. todo' = t
    BY <2>4 DEF t, a
  <2>12. todo' \in Seq(Step) /\ Alike(todo, todo') /\ todo' = <<u>> \o r
    BY <2>4, <2>7, <2>10, <2>11
  <2> QED BY <1>1, <1>6, <2>2, <2>12 DEF u, s, r
<1> QED BY <1>5, <1>6

LEMMA LevelsAre ==
  ASSUME pins \in Levels, flags \in Flags
  PROVE  /\ DOMAIN pins = Pins /\ \A l \in Pins : pins[l] \in BOOLEAN
         /\ flags.driving \in BOOLEAN /\ flags.mask \in BOOLEAN /\ flags.err \in BOOLEAN
         /\ \A l \in Lines : Line(l) \in BOOLEAN
<1>1. DOMAIN pins = Pins /\ \A l \in Pins : pins[l] \in BOOLEAN
  BY DEF Levels, Pins
<1>2. flags.driving \in BOOLEAN /\ flags.mask \in BOOLEAN /\ flags.err \in BOOLEAN
  BY DEF Flags
<1> QED BY <1>1, <1>2 DEF Line, Lines, Pins

\* What a step that does what it says makes of the lines.
Followed ==
  \A l \in Lines : Line(l)' <=> Sets(todo[1], l, TRUE) \/ (Line(l) /\ ~ Sets(todo[1], l, FALSE))
SameLines == \A l \in Lines : Line(l)' <=> Line(l)
Framed == /\ UNCHANGED <<board, cfg, last>> /\ call'.op = call.op /\ call'.rnw = call.rnw
          /\ pins' \in Levels /\ flags' \in Flags /\ call' \in Call /\ todo' \in Seq(Step)
          /\ faults' \in Nat /\ trust' \in {"none", "pins", "all"}
          /\ (flags.err => flags'.err) /\ target' \in Target /\ todo # <<>>
          /\ (flags.mask => flags.driving) => (flags'.mask => flags'.driving)
DidOne == Dropped /\ Followed /\ UNCHANGED <<trust, call>>
DidPart == Alike(todo, todo') /\ SameLines /\ UNCHANGED <<trust, call>>
DidFail == /\ Dropped \/ Alike(todo, todo')
           /\ trust' = "none" /\ call'.bad /\ flags'.err
Did == Framed /\ (DidOne \/ DidPart \/ DidFail)

LEMMA FaultIs ==
  ASSUME Typed, Fault
  PROVE  /\ trust' = "none" /\ call' \in Call /\ call'.bad /\ call'.op = call.op /\ call'.rnw = call.rnw
         /\ flags' \in Flags /\ flags'.err /\ flags'.driving = flags.driving
         /\ flags'.mask = flags.mask /\ faults' \in Nat
<1>1. call \in Call /\ flags \in Flags /\ faults \in Nat
  BY DEF Typed
<1>2. call' = [call EXCEPT !.bad = TRUE] /\ flags' = [flags EXCEPT !.err = TRUE]
      /\ faults' = faults + 1 /\ trust' = "none"
  BY DEF Fault
<1>3. call' \in Call /\ call'.bad /\ call'.op = call.op /\ call'.rnw = call.rnw
  BY <1>1, <1>2 DEF Call
<1>4. flags' \in Flags /\ flags'.err /\ flags'.driving = flags.driving /\ flags'.mask = flags.mask
  BY <1>1, <1>2 DEF Flags
<1> QED BY <1>1, <1>2, <1>3, <1>4

LEMMA NamesIs ==
  ASSUME Typed, NEW inputs, Names(inputs)
  PROVE  /\ UNCHANGED <<faults, trust, call>> /\ flags' \in Flags
         /\ flags'.driving = flags.driving /\ flags'.mask = flags.mask
         /\ (flags.err => flags'.err)
<1>1. flags \in Flags
  BY DEF Typed
<1>2. flags' = flags \/ flags' = [flags EXCEPT !.err = TRUE]
  BY DEF Names
<1>3. /\ flags' \in Flags /\ flags'.driving = flags.driving /\ flags'.mask = flags.mask
      /\ (flags.err => flags'.err)
  BY <1>1, <1>2 DEF Flags
<1> QED BY <1>3 DEF Names

LEMMA Before ==
  ASSUME Typed
  PROVE  /\ board \in Boards /\ pins \in Levels /\ flags \in Flags /\ call \in Call
         /\ target \in Target /\ faults \in Nat /\ trust \in {"none", "pins", "all"}
         /\ todo \in Seq(Step) /\ cfg \in Cfg /\ last \in Call
         /\ todo # <<>> => todo[1] \in Step /\ Tail(todo) \in Seq(Step)
<1>1. todo \in Seq(Step)
  BY DEF Typed
<1>2. todo # <<>> => todo[1] \in Step /\ Tail(todo) \in Seq(Step)
  BY <1>1, TailAt
<1> QED BY <1>2 DEF Typed

LEMMA DidPut ==
  ASSUME Typed, PutStep
  PROVE  Did
<1> DEFINE s == todo[1]
<1>1. /\ pins \in Levels /\ flags \in Flags /\ call \in Call /\ target \in Target
      /\ faults \in Nat /\ trust \in {"none", "pins", "all"}
  BY Before
<1>2. todo # <<>> /\ Head1 = s /\ s.do = "put" /\ UNCHANGED <<board, cfg, last>>
  BY DEF PutStep, Doing, Head1, Kept
<1>3. s \in Step /\ s.pin \in Pins /\ s.v \in BOOLEAN /\ Tail(todo) \in Seq(Step)
  BY <1>2, Before, StepKinds
<1>4. Dropped /\ todo' \in Seq(Step) /\ target' \in Target
  BY <1>1, <1>2, <1>3 DEF PutStep, Dropped, Onward
<1>5. \A l, v : Sets(s, l, v) <=> s.pin = l /\ s.v = v
  BY <1>2 DEF Sets
<1> HIDE DEF s
<1>6. CASE pins' = [pins EXCEPT ![Head1.pin] = Head1.v] /\ Names(~ pins.dir)
  <2>1. /\ UNCHANGED <<faults, trust, call>> /\ flags' \in Flags
        /\ flags'.driving = flags.driving /\ flags'.mask = flags.mask
        /\ (flags.err => flags'.err)
    BY <1>6, NamesIs
  <2>2. pins' = [pins EXCEPT ![s.pin] = s.v]
    BY <1>2, <1>6
  <2>3. pins' \in Levels /\ \A l \in Pins : pins'[l] = IF l = s.pin THEN s.v ELSE pins[l]
    BY <1>1, <1>3, <2>2 DEF Levels, Pins
  <2>4. Followed
    <3> SUFFICES ASSUME NEW l \in Lines
                 PROVE  Line(l)' <=> Sets(s, l, TRUE) \/ (Line(l) /\ ~ Sets(s, l, FALSE))
      BY DEF Followed, s
    <3>1. CASE l = "note"
      BY <3>1, <1>3, <1>5, <2>1 DEF Line, Pins
    <3>2. CASE l \in Pins
      <4>1. Line(l)' = pins'[l] /\ Line(l) = pins[l] /\ pins[l] \in BOOLEAN
        BY <3>2, <1>1, LevelsAre DEF Line, Pins
      <4>2. CASE l = s.pin
        BY <4>1, <4>2, <3>2, <2>3, <1>3, <1>5
      <4>3. CASE l # s.pin
        BY <4>1, <4>3, <3>2, <2>3, <1>3, <1>5
      <4> QED BY <4>2, <4>3
    <3> QED BY <3>1, <3>2 DEF Lines, Pins
  <2> QED BY <1>1, <1>2, <1>4, <2>1, <2>3, <2>4 DEF Did, Framed, DidOne
<1>7. CASE Fault /\ UNCHANGED pins
  BY <1>1, <1>2, <1>4, <1>7, FaultIs DEF Did, Framed, DidFail
<1> QED BY <1>6, <1>7 DEF PutStep

LEMMA DidConfig ==
  ASSUME Typed, ConfigStep
  PROVE  Did
<1> DEFINE s == todo[1]
<1>1. /\ pins \in Levels /\ flags \in Flags /\ call \in Call /\ target \in Target
      /\ faults \in Nat /\ trust \in {"none", "pins", "all"}
  BY Before
<1>2. todo # <<>> /\ Head1 = s /\ s.do = "config" /\ UNCHANGED <<board, cfg, last>>
  BY DEF ConfigStep, Doing, Head1, Kept
<1>3. s \in Step /\ s.lines \in SUBSET Pins /\ s.v \in BOOLEAN /\ Tail(todo) \in Seq(Step)
  BY <1>2, Before, StepKinds
<1>4. Dropped /\ todo' \in Seq(Step) /\ target' \in Target
  BY <1>1, <1>2, <1>3 DEF ConfigStep, Dropped, Onward
<1>5. \A l, v : Sets(s, l, v) <=> l \in s.lines /\ s.v = v
  BY <1>2 DEF Sets
<1> HIDE DEF s
<1>6. CASE /\ pins' = [l \in DOMAIN pins |-> IF l \in Head1.lines THEN Head1.v ELSE pins[l]]
           /\ NoFault
  <2>1. UNCHANGED <<faults, trust, call, flags>>
    BY <1>6 DEF NoFault
  <2>2. pins' = [l \in DOMAIN pins |-> IF l \in s.lines THEN s.v ELSE pins[l]]
    BY <1>2, <1>6
  <2>3. pins' \in Levels /\ \A l \in Pins : pins'[l] = IF l \in s.lines THEN s.v ELSE pins[l]
    BY <1>1, <1>3, <2>2 DEF Levels, Pins
  <2>4. Followed
    <3> SUFFICES ASSUME NEW l \in Lines
                 PROVE  Line(l)' <=> Sets(s, l, TRUE) \/ (Line(l) /\ ~ Sets(s, l, FALSE))
      BY DEF Followed, s
    <3>1. CASE l = "note"
      BY <3>1, <1>3, <1>5, <2>1 DEF Line, Pins
    <3>2. CASE l \in Pins
      <4>1. Line(l)' = pins'[l] /\ Line(l) = pins[l] /\ pins[l] \in BOOLEAN
        BY <3>2, <1>1, LevelsAre DEF Line, Pins
      <4>2. CASE l \in s.lines
        BY <4>1, <4>2, <3>2, <2>3, <1>3, <1>5
      <4>3. CASE l \notin s.lines
        BY <4>1, <4>3, <3>2, <2>3, <1>3, <1>5
      <4> QED BY <4>2, <4>3
    <3> QED BY <3>1, <3>2 DEF Lines, Pins
  <2> QED BY <1>1, <1>2, <1>4, <2>1, <2>3, <2>4 DEF Did, Framed, DidOne
<1>7. CASE Fault /\ UNCHANGED pins
  BY <1>1, <1>2, <1>4, <1>7, FaultIs DEF Did, Framed, DidFail
<1> QED BY <1>6, <1>7 DEF ConfigStep

LEMMA DidNote ==
  ASSUME Typed, NoteStep
  PROVE  Did
<1> DEFINE s == todo[1]
<1>1. /\ pins \in Levels /\ flags \in Flags /\ call \in Call /\ target \in Target
      /\ faults \in Nat /\ trust \in {"none", "pins", "all"}
  BY Before
<1>2. todo # <<>> /\ Head1 = s /\ s.do = "note" /\ UNCHANGED <<board, cfg, last>>
  BY DEF NoteStep, Doing, Head1, Kept
<1>3. s \in Step /\ s.driving \in BOOLEAN /\ Tail(todo) \in Seq(Step)
  BY <1>2, Before, StepKinds
<1>4. /\ Dropped /\ todo' \in Seq(Step) /\ target' \in Target
      /\ UNCHANGED <<pins, faults, trust, call>>
  BY <1>1, <1>2, <1>3 DEF NoteStep, Dropped, Onward
<1>5. \A l, v : Sets(s, l, v) <=> l = "note" /\ s.driving = v
  BY <1>2 DEF Sets
<1>6. flags' = [flags EXCEPT !.driving = s.driving, !.mask = Fused /\ s.driving]
  BY <1>2 DEF NoteStep
<1> HIDE DEF s
<1>7. /\ flags' \in Flags /\ flags'.driving = s.driving /\ (flags'.mask => flags'.driving)
      /\ flags'.err = flags.err
  <2>1. Fused \in BOOLEAN
    BY DEF Fused
  <2> HIDE DEF Fused
  <2> QED BY <1>1, <1>3, <1>6, <2>1 DEF Flags
<1>8. Followed
  <2> SUFFICES ASSUME NEW l \in Lines
               PROVE  Line(l)' <=> Sets(s, l, TRUE) \/ (Line(l) /\ ~ Sets(s, l, FALSE))
    BY DEF Followed, s
  <2>1. CASE l = "note"
    BY <2>1, <1>3, <1>5, <1>7 DEF Line
  <2>2. CASE l # "note"
    BY <2>2, <1>4, <1>5 DEF Line
  <2> QED BY <2>1, <2>2
<1> QED BY <1>1, <1>2, <1>4, <1>7, <1>8 DEF Did, Framed, DidOne

LEMMA StillFollowed ==
  ASSUME \A l \in Lines, v \in BOOLEAN : ~ Sets(todo[1], l, v),
         UNCHANGED pins, flags'.driving = flags.driving
  PROVE  Followed /\ SameLines
BY DEF Followed, SameLines, Line

LEMMA DidCycle ==
  ASSUME Typed, CycleStep
  PROVE  Did
<1> DEFINE s == todo[1]
<1>1. /\ pins \in Levels /\ flags \in Flags /\ call \in Call /\ target \in Target
      /\ faults \in Nat /\ trust \in {"none", "pins", "all"}
  BY Before
<1>2. todo # <<>> /\ Head1 = s /\ s.do = "cycles" /\ UNCHANGED <<board, cfg, last>>
  BY DEF CycleStep, Doing, Head1, Kept
<1>3. /\ todo' \in Seq(Step) /\ (Dropped \/ Alike(todo, todo')) /\ UNCHANGED pins
  BY Before, CycleTodo DEF CycleStep
<1>4. \A l \in Lines, v \in BOOLEAN : ~ Sets(s, l, v)
  BY <1>2 DEF Sets
<1>5. target' \in Target
  <2>1. \A t \in TargetCycle(Head1.as) : t \in Target
    BY Before, CycleTyped
  <2>2. target' \in {target} \cup TargetCycle(Head1.as)
    BY DEF CycleStep
  <2> QED BY <1>1, <2>1, <2>2
<1> HIDE DEF s
<1>6. ASSUME NEW inputs, Names(inputs) PROVE Did
  <2>1. /\ UNCHANGED <<faults, trust, call>> /\ flags' \in Flags
        /\ flags'.driving = flags.driving /\ flags'.mask = flags.mask
        /\ (flags.err => flags'.err)
    BY <1>6, NamesIs
  <2>2. Followed /\ SameLines
    BY <1>3, <1>4, <2>1, StillFollowed DEF s
  <2> QED BY <1>1, <1>2, <1>3, <1>5, <2>1, <2>2 DEF Did, Framed, DidOne, DidPart
<1>7. CASE Fault
  BY <1>1, <1>2, <1>3, <1>5, <1>7, FaultIs DEF Did, Framed, DidFail
<1> QED BY <1>6, <1>7 DEF CycleStep

LEMMA DidLevel ==
  ASSUME Typed, LevelStep
  PROVE  Did
<1> DEFINE s == todo[1]
<1>1. /\ pins \in Levels /\ flags \in Flags /\ call \in Call /\ target \in Target
      /\ faults \in Nat /\ trust \in {"none", "pins", "all"}
  BY Before
<1>2. todo # <<>> /\ Head1 = s /\ s.do = "level" /\ UNCHANGED <<board, cfg, last>>
  BY DEF LevelStep, Doing, Head1, Kept
<1>3. s \in Step /\ Tail(todo) \in Seq(Step)
  BY <1>2, Before
<1>4. Dropped /\ todo' \in Seq(Step) /\ target' \in Target /\ UNCHANGED pins
  BY <1>1, <1>2, <1>3 DEF LevelStep, Dropped, Onward
<1>5. \A l \in Lines, v \in BOOLEAN : ~ Sets(s, l, v)
  BY <1>2 DEF Sets
<1> HIDE DEF s
<1>6. ASSUME NEW inputs, Names(inputs) PROVE Did
  <2>1. /\ UNCHANGED <<faults, trust, call>> /\ flags' \in Flags
        /\ flags'.driving = flags.driving /\ flags'.mask = flags.mask
        /\ (flags.err => flags'.err)
    BY <1>6, NamesIs
  <2>2. Followed
    BY <1>4, <1>5, <2>1, StillFollowed DEF s
  <2> QED BY <1>1, <1>2, <1>4, <2>1, <2>2 DEF Did, Framed, DidOne
<1>7. CASE Fault
  BY <1>1, <1>2, <1>4, <1>7, FaultIs DEF Did, Framed, DidFail
<1> QED BY <1>6, <1>7 DEF LevelStep

-----------------------------------------------------------------------------
(* The steps left, one step on.                                              *)

LEMMA AlikeSets ==
  ASSUME NEW t, NEW u, Alike(t, u)
  PROVE  \A i \in DOMAIN t : /\ u[i].do = t[i].do /\ \A l, v : Sets(u[i], l, v) <=> Sets(t[i], l, v)
                             /\ \A op : Fits(op, t[i]) => Fits(op, u[i])
<1> SUFFICES ASSUME NEW i \in DOMAIN t
             PROVE  /\ u[i].do = t[i].do /\ \A l, v : Sets(u[i], l, v) <=> Sets(t[i], l, v)
                    /\ \A op : Fits(op, t[i]) => Fits(op, u[i])
  OBVIOUS
<1>1. CASE u[i] = t[i]
  BY <1>1
<1>2. CASE u[i].do = "cycles" /\ t[i].do = "cycles" /\ u[i].as = t[i].as
  <2>1. \A l, v : ~ Sets(u[i], l, v) /\ ~ Sets(t[i], l, v)
    BY <1>2 DEF Sets
  <2>2. ~ Moves(t[i]) /\ Turns(u[i])
    BY <1>2 DEF Moves, Turns
  <2>3. \A w : Clocks(t[i], w) => Clocks(u[i], w)
    BY <1>2 DEF Clocks
  <2>4. \A w : Clocks(u[i], w) => Clocks(t[i], w)
    BY <1>2 DEF Clocks
  <2>5. \A op : Fits(op, t[i]) => Fits(op, u[i])
    BY <1>2, <2>2, <2>3, <2>4 DEF Fits, OnlyOn, OnlyOff
  <2> QED BY <1>2, <2>1, <2>5
<1> QED BY <1>1, <1>2 DEF Alike

LEMMA NoteSoonAlike ==
  ASSUME NEW t, NEW u, Alike(t, u), NEW k
  PROVE  NoteSoon(t, k) => NoteSoon(u, k)
BY AlikeSets DEF NoteSoon, Alike

LEMMA NoteSoonTail ==
  ASSUME NEW t \in Seq(Step), t # <<>>, NEW k \in Nat, k >= 1, NoteSoon(t, k + 1)
  PROVE  NoteSoon(Tail(t), k)
<1>1. /\ \A i \in DOMAIN t : i = 1 \/ (i - 1 \in DOMAIN Tail(t) /\ Tail(t)[i - 1] = t[i])
  BY TailAt
<1>2. (k + 1) - 1 = k /\ ((k + 1) + 1) - 1 = k + 1 /\ k + 1 # 1 /\ (k + 1) + 1 # 1
  OBVIOUS
<1>3. k + 1 \in DOMAIN t => k \in DOMAIN Tail(t) /\ Tail(t)[k] = t[k + 1]
  BY <1>1, <1>2
<1>4. (k + 1) + 1 \in DOMAIN t => k + 1 \in DOMAIN Tail(t) /\ Tail(t)[k + 1] = t[(k + 1) + 1]
  BY <1>1, <1>2
<1> QED BY <1>3, <1>4 DEF NoteSoon

Shrunk(t, u) == (t # <<>> /\ u = Tail(t)) \/ Alike(t, u)

LEMMA ChainedOn ==
  ASSUME NEW t \in Seq(Step), NEW u, Shrunk(t, u), Chained(t)
  PROVE  Chained(u)
<1>1. CASE t # <<>> /\ u = Tail(t)
  <2>1. /\ u \in Seq(Step)
        /\ \A i \in DOMAIN u : i + 1 \in DOMAIN t /\ u[i] = t[i + 1]
    BY <1>1, TailAt
  <2>2. \A i \in DOMAIN u : i \in Nat /\ i >= 1
    BY <2>1
  <2>3. ASSUME NEW i \in DOMAIN u, NEW j \in DOMAIN u, j = i + 1 PROVE Link(u[i], u[j])
    <3>1. j + 1 = (i + 1) + 1 /\ i + 1 \in DOMAIN t /\ j + 1 \in DOMAIN t
      BY <2>1, <2>3
    <3>2. Link(t[i + 1], t[j + 1])
      BY <3>1 DEF Chained
    <3> QED BY <2>1, <3>2
  <2>4. ASSUME Linux, NEW i \in DOMAIN u, Sets(u[i], "dout", FALSE) PROVE NoteSoon(u, i + 1)
    <3> DEFINE k == i + 1
    <3>1. k \in DOMAIN t /\ Sets(t[k], "dout", FALSE)
      BY <2>1, <2>4
    <3>2. NoteSoon(t, k + 1)
      <4> HIDE DEF k
      <4> QED BY <2>4, <3>1 DEF Chained
    <3>3. k \in Nat /\ k >= 1
      BY <2>2
    <3> HIDE DEF k
    <3>4. NoteSoon(u, k)
      BY <1>1, <3>2, <3>3, NoteSoonTail
    <3> QED BY <3>4 DEF k
  <2> QED BY <2>3, <2>4 DEF Chained
<1>2. CASE Alike(t, u)
  <2>1. DOMAIN u = DOMAIN t
    BY <1>2 DEF Alike
  <2>2. \A i \in DOMAIN t : \A l, v : Sets(u[i], l, v) <=> Sets(t[i], l, v)
    BY <1>2, AlikeSets
  <2>3. ASSUME NEW i \in DOMAIN u, NEW j \in DOMAIN u, j = i + 1 PROVE Link(u[i], u[j])
    <3>1. Link(t[i], t[j])
      BY <2>1, <2>3 DEF Chained
    <3> QED BY <2>1, <2>2, <3>1 DEF Link
  <2>4. ASSUME Linux, NEW i \in DOMAIN u, Sets(u[i], "dout", FALSE) PROVE NoteSoon(u, i + 1)
    <3>1. NoteSoon(t, i + 1)
      BY <2>1, <2>2, <2>4 DEF Chained
    <3> QED BY <1>2, <3>1, NoteSoonAlike
  <2> QED BY <2>3, <2>4 DEF Chained
<1> QED BY <1>1, <1>2 DEF Shrunk

LEMMA GivesBackOn ==
  ASSUME NEW t \in Seq(Step), NEW u, Shrunk(t, u), GivesBack(t)
  PROVE  GivesBack(u)
<1>1. CASE t # <<>> /\ u = Tail(t)
  <2>1. /\ u \in Seq(Step)
        /\ \A i \in DOMAIN u : i + 1 \in DOMAIN t /\ u[i] = t[i + 1]
        /\ \A i \in DOMAIN t : i = 1 \/ (i - 1 \in DOMAIN u /\ u[i - 1] = t[i])
    BY <1>1, TailAt
  <2>2. (\A i \in DOMAIN u : i \in Nat /\ i >= 1) /\ \A i \in DOMAIN t : i \in Nat
    BY <2>1
  <2> SUFFICES ASSUME NEW i \in DOMAIN u, Sets(u[i], "clk", TRUE)
               PROVE  \E j \in DOMAIN u : j > i /\ Sets(u[j], "clk", FALSE)
    BY DEF GivesBack
  <2>3. PICK j \in DOMAIN t : j > i + 1 /\ Sets(t[j], "clk", FALSE)
    BY <2>1 DEF GivesBack
  <2>4. j # 1 /\ j - 1 > i
    BY <2>2, <2>3
  <2>5. j - 1 \in DOMAIN u /\ Sets(u[j - 1], "clk", FALSE)
    BY <2>1, <2>3, <2>4
  <2> QED BY <2>4, <2>5
<1>2. CASE Alike(t, u)
  <2>1. DOMAIN u = DOMAIN t
    BY <1>2 DEF Alike
  <2>2. \A i \in DOMAIN t : \A l, v : Sets(u[i], l, v) <=> Sets(t[i], l, v)
    BY <1>2, AlikeSets
  <2> QED BY <2>1, <2>2 DEF GivesBack
<1> QED BY <1>1, <1>2 DEF Shrunk

FitsAll(op, t) ==
  (\A i \in DOMAIN t : Fits(op, t[i])) /\ (\A i \in DOMAIN t : t[i].do = "hear" => i = Len(t))
LEMMA FitsOn ==
  ASSUME NEW t \in Seq(Step), NEW u, Shrunk(t, u), NEW op, FitsAll(op, t)
  PROVE  FitsAll(op, u)
<1>1. CASE t # <<>> /\ u = Tail(t)
  <2>1. /\ u \in Seq(Step) /\ Len(t) = Len(u) + 1
        /\ \A i \in DOMAIN u : i + 1 \in DOMAIN t /\ u[i] = t[i + 1]
    BY <1>1, TailAt
  <2>2. (\A i \in DOMAIN u : i \in Nat) /\ Len(u) \in Nat
    BY <2>1
  <2>3. \A i \in DOMAIN u : Fits(op, u[i])
    BY <2>1 DEF FitsAll
  <2>4. ASSUME NEW i \in DOMAIN u, u[i].do = "hear" PROVE i = Len(u)
    <3>1. i + 1 = Len(t)
      BY <2>1, <2>4 DEF FitsAll
    <3> QED BY <2>1, <2>2, <3>1
  <2> QED BY <2>3, <2>4 DEF FitsAll
<1>2. CASE Alike(t, u)
  <2>1. DOMAIN u = DOMAIN t /\ Len(u) = Len(t)
    BY <1>2 DEF Alike
  <2>2. \A i \in DOMAIN t : u[i].do = t[i].do /\ (Fits(op, t[i]) => Fits(op, u[i]))
    BY <1>2, AlikeSets
  <2> QED BY <2>1, <2>2 DEF FitsAll
<1> QED BY <1>1, <1>2 DEF Shrunk

LEMMA EndsOnTail ==
  ASSUME NEW t \in Seq(Step), t # <<>>, NEW l, NEW was, EndsOn(t, l, was),
         NEW is, is <=> Sets(t[1], l, TRUE) \/ (was /\ ~ Sets(t[1], l, FALSE))
  PROVE  EndsOn(Tail(t), l, is)
<1> DEFINE u == Tail(t)
<1>1. /\ u \in Seq(Step) /\ 1 \in DOMAIN t
      /\ \A i \in DOMAIN u : i + 1 \in DOMAIN t /\ u[i] = t[i + 1]
      /\ \A i \in DOMAIN t : i = 1 \/ (i - 1 \in DOMAIN u /\ u[i - 1] = t[i])
  BY TailAt
<1>2. (\A i \in DOMAIN u : i \in Nat /\ i >= 1) /\ \A i \in DOMAIN t : i \in Nat
  BY <1>1
<1> HIDE DEF u
<1>3. CASE was /\ \A j \in DOMAIN t : ~ Sets(t[j], l, FALSE)
  <2>1. \A j \in DOMAIN u : ~ Sets(u[j], l, FALSE)
    BY <1>1, <1>3
  <2>2. is
    BY <1>1, <1>3
  <2> QED BY <2>1, <2>2 DEF EndsOn, u
<1>4. ASSUME NEW i \in DOMAIN t, Sets(t[i], l, TRUE),
             \A j \in DOMAIN t : j > i => ~ Sets(t[j], l, FALSE)
      PROVE  EndsOn(u, l, is)
  <2>1. CASE i = 1
    <3>1. \A j \in DOMAIN u : j + 1 > 1
      BY <1>2
    <3>2. \A j \in DOMAIN u : ~ Sets(u[j], l, FALSE)
      BY <1>1, <1>4, <2>1, <3>1
    <3>3. is
      BY <1>4, <2>1
    <3> QED BY <3>2, <3>3 DEF EndsOn
  <2>2. CASE i # 1
    <3> DEFINE k == i - 1
    <3>1. k \in DOMAIN u /\ u[k] = t[i]
      BY <1>1, <2>2
    <3>2. \A j \in DOMAIN u : j > k => j + 1 > i
      BY <1>2
    <3> HIDE DEF k
    <3>3. \A j \in DOMAIN u : j > k => ~ Sets(u[j], l, FALSE)
      BY <1>1, <1>4, <3>2
    <3> QED BY <1>4, <3>1, <3>3 DEF EndsOn
  <2> QED BY <2>1, <2>2
<1> QED BY <1>3, <1>4 DEF EndsOn, u

LEMMA EndsOnAlike ==
  ASSUME NEW t, NEW u, Alike(t, u), NEW l, NEW was, EndsOn(t, l, was), NEW is, is <=> was
  PROVE  EndsOn(u, l, is)
<1>1. DOMAIN u = DOMAIN t
  BY DEF Alike
<1>2. \A i \in DOMAIN t : \A m, v : Sets(u[i], m, v) <=> Sets(t[i], m, v)
  BY AlikeSets
<1> QED BY <1>1, <1>2 DEF EndsOn

-----------------------------------------------------------------------------
(* A step that does what it says, or fails, keeps what is said of the lines. *)

\* What is said of the steps left, of the board alone.
LEMMA ChainedLater ==
  ASSUME UNCHANGED board, Chained(todo')
  PROVE  Chained(todo)'
BY DEF Chained, Link, NoteSoon, Both, Linux

LEMMA FitsLater ==
  ASSUME UNCHANGED board, FitsAll(call'.op, todo')
  PROVE  /\ \A i \in DOMAIN todo' : Fits(call.op, todo[i])'
         /\ \A i \in DOMAIN todo' : todo'[i].do = "hear" => i = Len(todo')
BY DEF FitsAll, Fits, Turns, OnlyOn, OnlyOff

LEMMA HeldLater ==
  ASSUME UNCHANGED board, UNCHANGED call.op
  PROVE  Held(call.op)' = Held(call.op)
BY DEF Held, Linux

LEMMA DidIs ==
  ASSUME Typed, Did
  PROVE  /\ UNCHANGED <<board, cfg, last>> /\ call'.op = call.op /\ call'.rnw = call.rnw
         /\ todo # <<>> /\ todo \in Seq(Step) /\ todo' \in Seq(Step) /\ Shrunk(todo, todo')
         /\ trust' # "none" => trust = trust' /\ call' = call /\ (DidOne \/ DidPart)
BY Before DEF Did, Framed, DidOne, DidPart, DidFail, Dropped, Shrunk

LEMMA SetsOne ==
  ASSUME NEW s, NEW l
  PROVE  ~ (Sets(s, l, TRUE) /\ Sets(s, l, FALSE))
BY DEF Sets

LEMMA FollowedAt ==
  ASSUME Followed
  PROVE  /\ pins'.clk <=> Sets(todo[1], "clk", TRUE) \/ (pins.clk /\ ~ Sets(todo[1], "clk", FALSE))
         /\ pins'.dout <=> Sets(todo[1], "dout", TRUE) \/ (pins.dout /\ ~ Sets(todo[1], "dout", FALSE))
         /\ pins'.dir <=> Sets(todo[1], "dir", TRUE) \/ (pins.dir /\ ~ Sets(todo[1], "dir", FALSE))
         /\ pins'.low <=> Sets(todo[1], "low", TRUE) \/ (pins.low /\ ~ Sets(todo[1], "low", FALSE))
         /\ flags'.driving <=>
              Sets(todo[1], "note", TRUE) \/ (flags.driving /\ ~ Sets(todo[1], "note", FALSE))
BY DEF Followed, Line, Lines

LEMMA SameAt ==
  ASSUME SameLines
  PROVE  /\ (pins'.clk <=> pins.clk) /\ (pins'.dout <=> pins.dout) /\ (pins'.dir <=> pins.dir)
         /\ (pins'.low <=> pins.low) /\ (flags'.driving <=> flags.driving)
BY DEF SameLines, Line, Lines

LEMMA TypedOn ==
  ASSUME Typed, Did
  PROVE  Typed'
BY DEF Typed, Did, Framed

LEMMA RememberedOn ==
  ASSUME Typed, Remembered, Did
  PROVE  Remembered'
BY DEF Remembered, Did, Framed, DidOne, DidPart, DidFail

LEMMA SuitedOn ==
  ASSUME Typed, Suited, Did
  PROVE  Suited'
<1>1. /\ UNCHANGED board /\ call'.op = call.op /\ todo # <<>> /\ todo \in Seq(Step)
      /\ Shrunk(todo, todo')
  BY DidIs
<1>2. FitsAll(call.op, todo)
  BY DEF Suited, FitsAll
<1>3. FitsAll(call.op, todo')
  BY <1>1, <1>2, FitsOn
<1>4. call'.op # "none"
  BY <1>1 DEF Suited
<1>5. FitsAll(call'.op, todo')
  BY <1>1, <1>3
<1> QED BY <1>1, <1>4, <1>5, FitsLater DEF Suited

LEMMA EndingOn ==
  ASSUME Typed, Suited, Ending, Did, todo[1].do # "hear"
  PROVE  Ending'
<1>1. /\ UNCHANGED board /\ call'.op = call.op /\ todo # <<>> /\ todo \in Seq(Step)
      /\ Shrunk(todo, todo')
  BY DidIs
<1>2. Held(call.op)' = Held(call.op)
  BY <1>1, HeldLater
<1>3. ASSUME call.op \in {"connect", "transfer", "sequences"}, ~ call'.bad, NoHear(todo')
      PROVE  \A l \in Held(call.op) : EndsOn(todo', l, Line(l)')
  <2>1. CASE DidOne
    <3>1. ~ call.bad /\ todo' = Tail(todo)
      BY <2>1, <1>3 DEF DidOne, Dropped
    <3>2. NoHear(todo)
      <4>1. \A i \in DOMAIN todo : i = 1 \/ (i - 1 \in DOMAIN todo' /\ todo'[i - 1] = todo[i])
        BY <1>1, <3>1, TailAt
      <4> QED BY <1>3, <4>1 DEF NoHear
    <3>3. \A l \in Held(call.op) : EndsOn(todo, l, Line(l))
      BY <1>3, <3>1, <3>2 DEF Ending, NoHear
    <3>4. ASSUME NEW l \in Held(call.op) PROVE EndsOn(todo', l, Line(l)')
      <4>1. l \in Lines
        BY DEF Held
      <4>2. Line(l)' <=> Sets(todo[1], l, TRUE) \/ (Line(l) /\ ~ Sets(todo[1], l, FALSE))
        BY <2>1, <4>1 DEF DidOne, Followed
      <4> QED BY <1>1, <3>1, <3>3, <4>2, EndsOnTail
    <3> QED BY <3>4
  <2>2. CASE DidPart
    <3>1. ~ call.bad /\ Alike(todo, todo')
      BY <2>2, <1>3 DEF DidPart
    <3>2. NoHear(todo)
      <4>1. DOMAIN todo' = DOMAIN todo /\ \A i \in DOMAIN todo : todo'[i].do = todo[i].do
        BY <3>1, AlikeSets DEF Alike
      <4> QED BY <1>3, <4>1 DEF NoHear
    <3>3. \A l \in Held(call.op) : EndsOn(todo, l, Line(l))
      BY <1>3, <3>1, <3>2 DEF Ending, NoHear
    <3>4. ASSUME NEW l \in Held(call.op) PROVE EndsOn(todo', l, Line(l)')
      <4>1. l \in Lines
        BY DEF Held
      <4>2. Line(l)' <=> Line(l)
        BY <2>2, <4>1 DEF DidPart, SameLines
      <4> QED BY <3>1, <3>3, <4>2, EndsOnAlike
    <3> QED BY <3>4
  <2>3. CASE DidFail
    BY <2>3, <1>3 DEF DidFail
  <2> QED BY <2>1, <2>2, <2>3 DEF Did
<1> QED BY <1>1, <1>2, <1>3 DEF Ending, NoHear, EndsOn

LEMMA RestedOn ==
  ASSUME Typed, Suited, Did
  PROVE  Rested'
<1>1. call'.op = call.op /\ call.op # "none"
  BY DidIs DEF Suited
<1> QED BY <1>1 DEF Rested

LEMMA GoesOffOn ==
  ASSUME Typed, Suited, GoesOff, Did
  PROVE  GoesOff'
<1>1. /\ call'.op = call.op /\ todo # <<>> /\ todo \in Seq(Step) /\ Shrunk(todo, todo')
      /\ trust' # "none" => trust = trust' /\ (DidOne \/ DidPart)
  BY DidIs
<1>2. 1 \in DOMAIN todo /\ Fits(call.op, todo[1])
  BY <1>1 DEF Suited
<1>3. ASSUME call.op = "disconnect", trust' # "none", pins'.clk
      PROVE  todo' # <<>> /\ Sets(todo'[1], "clk", FALSE)
  <2>1. CASE DidOne
    <3>1. ~ Sets(todo[1], "clk", TRUE)
      BY <1>2, <1>3 DEF Fits, OnlyOff, Lines
    <3>2. pins.clk /\ ~ Sets(todo[1], "clk", FALSE)
      BY <2>1, <1>3, <3>1, FollowedAt DEF DidOne
    <3> QED BY <1>1, <1>3, <3>2 DEF GoesOff
  <2>2. CASE DidPart
    <3>1. pins.clk
      BY <2>2, <1>3, SameAt DEF DidPart
    <3>2. Sets(todo[1], "clk", FALSE)
      BY <1>1, <1>3, <3>1 DEF GoesOff
    <3>3. todo' # <<>> /\ Sets(todo'[1], "clk", FALSE)
      <4>1. Alike(todo, todo')
        BY <2>2 DEF DidPart
      <4>2. 1 \in DOMAIN todo' /\ todo' \in Seq(Step)
        BY <1>2, <4>1 DEF Alike
      <4>3. Sets(todo'[1], "clk", FALSE)
        BY <1>2, <3>2, <4>1, AlikeSets
      <4>4. todo' # <<>>
        BY <4>2
      <4> QED BY <4>3, <4>4
    <3> QED BY <3>3
  <2> QED BY <1>1, <1>3, <2>1, <2>2
<1>4. call.op = "calibrate" => GivesBack(todo')
  BY <1>1, GivesBackOn DEF GoesOff
<1> QED BY <1>1, <1>3, <1>4 DEF GoesOff, GivesBack

LEMMA HeadFits ==
  ASSUME Typed, Suited, todo # <<>>
  PROVE  1 \in DOMAIN todo /\ Fits(call.op, todo[1]) /\ call.op # "none" /\ call.op \in Ops
<1>1. 1 \in DOMAIN todo /\ call \in Call
  BY Before, TailAt
<1> QED BY <1>1 DEF Suited, Call

\* What each call's steps leave alone.
LEMMA TurnsSet ==
  ASSUME NEW s, Turns(s)
  PROVE  \A v : /\ ~ Sets(s, "clk", v) /\ ~ Sets(s, "dir", v)
                /\ (~ board.shared => ~ Sets(s, "dout", v))
                /\ (\A w : ~ (Sets(s, "dout", v) /\ Sets(s, "low", w)))
                /\ (\A w : ~ (Sets(s, "note", v) /\ Sets(s, "dout", w)))
<1>1. CASE s.do \in {"note", "cycles", "level", "hear"}
  BY <1>1 DEF Sets
<1>2. CASE s.do = "put" /\ (s.pin = "low" \/ (s.pin = "dout" /\ board.shared))
  BY <1>2 DEF Sets
<1>3. CASE s.do = "config" /\ s.lines = {"dout"} /\ board.shared
  <2>1. \A l, v : Sets(s, l, v) => l = "dout"
    BY <1>3 DEF Sets
  <2> QED BY <1>3, <2>1
<1> QED BY <1>1, <1>2, <1>3 DEF Turns

LEMMA StillSet ==
  ASSUME NEW s, NEW op, Fits(op, s)
  PROVE  /\ op \in {"sequence", "pins"} => \A l, v : ~ Sets(s, l, v)
         /\ op = "calibrate" => \A l, v : Sets(s, l, v) => l = "clk"
         /\ op = "close" => Sets(s, "clk", FALSE)
         /\ op = "disconnect" => (\A l \in Lines : ~ Sets(s, l, TRUE)) /\ ~ Sets(s, "low", FALSE)
         /\ op \in {"transfer", "sequences"} => Turns(s)
<1>1. op \in {"sequence", "pins"} => \A l, v : ~ Sets(s, l, v)
  BY DEF Fits, Clocks, Sets
<1>2. op = "calibrate" => \A l, v : Sets(s, l, v) => l = "clk"
  BY DEF Fits, Clocks, Sets
<1>3. op = "close" => Sets(s, "clk", FALSE)
  <2> SUFFICES ASSUME op = "close" PROVE Sets(s, "clk", FALSE)
    OBVIOUS
  <2>1. s.do = "config" /\ "clk" \in s.lines /\ ~ s.v /\ Fits("close", s)
    BY DEF Fits
  <2> QED BY <2>1 DEF Sets, Fits
<1>4. op = "disconnect" => (\A l \in Lines : ~ Sets(s, l, TRUE)) /\ ~ Sets(s, "low", FALSE)
  BY DEF Fits, OnlyOff
<1>5. op \in {"transfer", "sequences"} => Turns(s)
  BY DEF Fits
<1> QED BY <1>1, <1>2, <1>3, <1>4, <1>5

LEMMA WarmLater ==
  ASSUME Typed, Did
  PROVE  Warming' <=> \/ call.op = "connect"
                      \/ call.op = "calibrate" /\ \E i \in DOMAIN todo' : Sets(todo'[i], "clk", FALSE)
BY DidIs DEF Warming

\* A clock that still runs, past what a call turns off or borrows.
LEMMA StillRuns ==
  ASSUME Typed, Suited, GoesOff, Did, DidOne, trust # "none", ~ Warming', pins'.clk
  PROVE  /\ call.op \in {"transfer", "sequences", "sequence", "pins", "calibrate"}
         /\ pins.clk /\ ~ Warming
         /\ \A v : ~ Sets(todo[1], "dir", v) /\ (~ board.shared => ~ Sets(todo[1], "dout", v))
         /\ ~ Turned => \A l, v : l # "clk" => ~ Sets(todo[1], l, v)
<1> DEFINE s == todo[1]
<1>1. /\ todo # <<>> /\ todo \in Seq(Step) /\ todo' = Tail(todo)
  BY DidIs DEF DidOne, Dropped
<1>2. Fits(call.op, s) /\ call.op # "none" /\ call.op \in Ops /\ 1 \in DOMAIN todo
  BY <1>1, HeadFits
<1>3. call.op # "connect"
  BY WarmLater
<1>4. Sets(s, "clk", TRUE) \/ (pins.clk /\ ~ Sets(s, "clk", FALSE))
  BY FollowedAt DEF DidOne
<1>5. call.op # "disconnect"
  <2> SUFFICES ASSUME call.op = "disconnect" PROVE FALSE
    OBVIOUS
  <2>1. ~ Sets(s, "clk", TRUE)
    BY <1>2, StillSet DEF Lines
  <2> QED BY <1>1, <1>4, <2>1 DEF GoesOff
<1>6. call.op # "close"
  BY <1>2, <1>4, StillSet, SetsOne
<1>7. call.op \in {"transfer", "sequences", "sequence", "pins", "calibrate"}
  BY <1>2, <1>3, <1>5, <1>6 DEF Ops
<1>8. \A i \in DOMAIN todo : i = 1 \/ (i - 1 \in DOMAIN todo' /\ todo'[i - 1] = todo[i])
  BY <1>1, TailAt
<1>9. ASSUME call.op = "calibrate", NEW i \in DOMAIN todo, Sets(todo[i], "clk", FALSE)
      PROVE  FALSE
  <2>1. i = 1
    BY <1>8, <1>9, WarmLater
  <2>2. Sets(s, "clk", TRUE)
    BY <1>4, <1>9, <2>1
  <2> QED BY <1>9, <2>1, <2>2, SetsOne
<1>10. ~ Warming
  BY <1>3, <1>9 DEF Warming
<1>11. ~ Sets(s, "clk", TRUE)
  <2>1. CASE call.op = "calibrate"
    <3>1. Sets(s, "clk", TRUE) => \E j \in DOMAIN todo : Sets(todo[j], "clk", FALSE)
      BY <2>1, <1>2 DEF GoesOff, GivesBack
    <3> QED BY <2>1, <3>1, <1>9
  <2>2. CASE call.op \in {"transfer", "sequences", "sequence", "pins"}
    BY <2>2, <1>2, StillSet, TurnsSet
  <2> QED BY <1>7, <2>1, <2>2
<1>12. \A v : ~ Sets(s, "dir", v) /\ (~ board.shared => ~ Sets(s, "dout", v))
  BY <1>2, <1>7, StillSet, TurnsSet
<1>13. ~ Turned => \A l, v : l # "clk" => ~ Sets(s, l, v)
  BY <1>2, <1>7, StillSet DEF Turned
<1> QED BY <1>4, <1>7, <1>10, <1>11, <1>12, <1>13

\* Held alike, the lines are what they were for a step that is not over.
LEMMA WarmAlike ==
  ASSUME Typed, Did, DidPart
  PROVE  Warming' <=> Warming
<1>1. Alike(todo, todo')
  BY DEF DidPart
<1>2. DOMAIN todo' = DOMAIN todo
  BY <1>1 DEF Alike
<1>3. \A i \in DOMAIN todo : \A l, v : Sets(todo'[i], l, v) <=> Sets(todo[i], l, v)
  BY <1>1, AlikeSets
<1> QED BY <1>2, <1>3, WarmLater DEF Warming

LEMMA PoweredOn ==
  ASSUME Typed, Suited, GoesOff, Powered, Did
  PROVE  Powered'
<1>1. UNCHANGED board /\ (trust' # "none" => trust = trust' /\ (DidOne \/ DidPart))
  BY DidIs
<1> SUFFICES ASSUME trust' # "none", ~ Warming', pins'.clk
             PROVE  (board.dir => pins'.dir) /\ (~ board.shared => pins'.dout)
  BY <1>1 DEF Powered
<1>2. CASE DidOne
  <2>1. /\ pins.clk /\ ~ Warming
        /\ \A v : ~ Sets(todo[1], "dir", v) /\ (~ board.shared => ~ Sets(todo[1], "dout", v))
    BY <1>1, <1>2, StillRuns
  <2>2. (board.dir => pins.dir) /\ (~ board.shared => pins.dout)
    BY <1>1, <2>1 DEF Powered
  <2> QED BY <1>2, <2>1, <2>2, FollowedAt DEF DidOne
<1>3. CASE DidPart
  <2>1. SameLines
    BY <1>3 DEF DidPart
  <2>2. ~ Warming
    BY <1>3, WarmAlike
  <2> QED BY <1>1, <2>1, <2>2, SameAt DEF Powered
<1> QED BY <1>1, <1>2, <1>3

LEMMA NettedOn ==
  ASSUME Typed, Suited, GoesOff, Orderly, Netted, Did
  PROVE  Netted'
<1> DEFINE s == todo[1]
<1>1. /\ UNCHANGED board /\ (trust' # "none" => trust = trust' /\ (DidOne \/ DidPart))
      /\ call'.op = call.op /\ todo # <<>>
  BY DidIs
<1>2. Both' <=> Both
  BY <1>1 DEF Both
<1> SUFFICES ASSUME trust' # "none", call.op # "connect", Both, pins'.dir, pins'.dout
             PROVE  pins'.low
  BY <1>1, <1>2 DEF Netted
<1>3. CASE DidPart
  <2>1. SameLines
    BY <1>3 DEF DidPart
  <2> QED BY <1>1, <2>1, SameAt DEF Netted
<1>4. CASE DidOne
  <2>1. Fits(call.op, s) /\ call.op # "none" /\ call.op \in Ops
    BY <1>1, HeadFits
  <2>2. /\ Sets(s, "dir", TRUE) \/ (pins.dir /\ ~ Sets(s, "dir", FALSE))
        /\ Sets(s, "dout", TRUE) \/ (pins.dout /\ ~ Sets(s, "dout", FALSE))
        /\ pins'.low <=> Sets(s, "low", TRUE) \/ (pins.low /\ ~ Sets(s, "low", FALSE))
    BY <1>4, FollowedAt DEF DidOne
  <2>3. pins.dir /\ pins.dout => pins.low
    BY <1>1 DEF Netted
  <2>4. CASE Turned
    <3>1. Turns(s)
      BY <2>1, <2>4, StillSet DEF Turned
    <3>2. SafeNow(s)
      BY <1>1, <2>4 DEF Orderly
    <3>3. pins.dir
      BY <2>2, <3>1, TurnsSet
    <3>4. CASE Sets(s, "dout", TRUE)
      <4>1. pins.low /\ ~ Sets(s, "low", FALSE)
        BY <3>1, <3>2, <3>4, TurnsSet DEF SafeNow
      <4> QED BY <2>2, <4>1
    <3>5. CASE ~ Sets(s, "dout", TRUE)
      <4>1. pins.dout
        BY <2>2, <3>5
      <4>2. ~ Sets(s, "low", FALSE)
        BY <3>2, <4>1 DEF SafeNow
      <4> QED BY <2>2, <2>3, <3>3, <4>1, <4>2
    <3> QED BY <3>4, <3>5
  <2>5. CASE call.op = "disconnect"
    <3>1. ~ Sets(s, "dir", TRUE) /\ ~ Sets(s, "dout", TRUE) /\ ~ Sets(s, "low", FALSE)
      BY <2>1, <2>5, StillSet DEF Lines
    <3> QED BY <2>2, <2>3, <3>1
  <2>6. CASE call.op \in {"sequence", "pins", "calibrate"}
    <3>1. \A l, v : l # "clk" => ~ Sets(s, l, v)
      BY <2>1, <2>6, StillSet
    <3> QED BY <2>2, <2>3, <3>1
  <2>7. CASE call.op = "close"
    <3>1. s.do = "config" /\ "dout" \in s.lines /\ ~ s.v
      BY <2>1, <2>7 DEF Fits
    <3>2. Sets(s, "dout", FALSE)
      <4>1. s \in Step
        BY <1>1, Before
      <4>2. s.v = FALSE
        BY <3>1, <4>1, StepKinds
      <4> QED BY <3>1, <4>2 DEF Sets
    <3> QED BY <2>2, <3>2, SetsOne
  <2> QED BY <2>1, <2>4, <2>5, <2>6, <2>7 DEF Ops, Turned
<1> QED BY <1>1, <1>3, <1>4

SafeNext(s) ==
  /\ Both => /\ Sets(s, "low", FALSE) => ~ pins'.dout
             /\ Sets(s, "dout", TRUE) => pins'.low
  /\ Linux /\ board.shared => (Sets(s, "note", TRUE) => pins'.dout)
LEMMA SafeLater ==
  ASSUME UNCHANGED board, SafeNext(todo'[1])
  PROVE  SafeNow(todo[1])'
BY DEF SafeNext, SafeNow, Both, Linux

LEMMA OrderlyOn ==
  ASSUME Typed, Suited, Orderly, Did
  PROVE  Orderly'
<1>1. /\ UNCHANGED board /\ (trust' # "none" => trust = trust' /\ (DidOne \/ DidPart))
      /\ call'.op = call.op /\ todo # <<>> /\ todo \in Seq(Step) /\ Shrunk(todo, todo')
  BY DidIs
<1> SUFFICES ASSUME Turned PROVE Chained(todo)' /\ (trust' # "none" /\ todo' # <<>> => SafeNow(todo[1])')
  BY <1>1 DEF Orderly, Turned
<1>2. Chained(todo)'
  <2>1. Chained(todo')
    BY <1>1, ChainedOn DEF Orderly
  <2> QED BY <1>1, <2>1, ChainedLater
<1>3. ASSUME trust' # "none", todo' # <<>> PROVE SafeNext(todo'[1])
  <2>1. CASE DidPart
    <3>1. Alike(todo, todo') /\ 1 \in DOMAIN todo /\ SameLines
      BY <2>1, <1>1, TailAt DEF DidPart
    <3>2. SafeNow(todo[1])
      BY <1>1, <1>3 DEF Orderly
    <3>3. \A l, v : Sets(todo'[1], l, v) <=> Sets(todo[1], l, v)
      BY <3>1, AlikeSets
    <3> QED BY <3>1, <3>2, <3>3, SameAt DEF SafeNow, SafeNext
  <2>2. CASE DidOne
    <3> DEFINE s == todo[1]
               r == todo'[1]
    <3>1. todo' = Tail(todo) /\ Followed
      BY <2>2 DEF DidOne, Dropped
    <3>2. r = todo[2] /\ {1, 2} \subseteq DOMAIN todo
      <4>1. /\ Tail(todo) \in Seq(Step) /\ 1 \in DOMAIN todo
            /\ \A i \in DOMAIN Tail(todo) : i + 1 \in DOMAIN todo /\ Tail(todo)[i] = todo[i + 1]
        BY <1>1, TailAt
      <4>2. 1 \in DOMAIN Tail(todo)
        BY <1>3, <3>1, <4>1, TailAt
      <4>3. 1 + 1 = 2
        OBVIOUS
      <4>4. 2 \in DOMAIN todo /\ Tail(todo)[1] = todo[2]
        BY <4>1, <4>2, <4>3
      <4> QED BY <3>1, <4>1, <4>4
    <3>3. Link(s, r)
      <4>1. \A i, j \in DOMAIN todo : j = i + 1 => Link(todo[i], todo[j])
        BY DEF Orderly, Chained
      <4>2. 2 = 1 + 1
        OBVIOUS
      <4> QED BY <3>2, <4>1, <4>2
    <3>4. /\ pins'.dout <=> Sets(s, "dout", TRUE) \/ (pins.dout /\ ~ Sets(s, "dout", FALSE))
          /\ pins'.low <=> Sets(s, "low", TRUE) \/ (pins.low /\ ~ Sets(s, "low", FALSE))
      BY <3>1, FollowedAt
    <3>5. ~ (Sets(s, "dout", TRUE) /\ Sets(s, "dout", FALSE))
      BY SetsOne
    <3> HIDE DEF s, r
    <3>6. SafeNext(r)
      BY <3>3, <3>4, <3>5 DEF Link, SafeNext
    <3> QED BY <3>6 DEF r
  <2> QED BY <1>1, <1>3, <2>1, <2>2
<1>4. ASSUME trust' # "none", todo' # <<>> PROVE SafeNow(todo[1])'
  BY <1>1, <1>3, <1>4, SafeLater
<1> QED BY <1>2, <1>4

LEMMA NotedOn ==
  ASSUME Typed, Suited, GoesOff, Powered, Orderly, Noted, Did
  PROVE  Noted'
<1> DEFINE s == todo[1]
<1>1. /\ UNCHANGED board /\ (trust' # "none" => trust = trust' /\ (DidOne \/ DidPart))
      /\ call'.op = call.op /\ todo # <<>> /\ todo \in Seq(Step)
  BY DidIs
<1>2. (Linux' <=> Linux) /\ (Turned' <=> Turned)
  BY <1>1 DEF Linux, Turned
<1>3. ASSUME trust' # "none", ~ Warming', Linux, pins'.clk, flags'.driving, ~ pins'.dout
      PROVE  Turned /\ board.shared /\ NoteSoon(todo', 1)
  <2>1. CASE DidPart
    <3>1. SameLines /\ Alike(todo, todo')
      BY <2>1 DEF DidPart
    <3>2. ~ Warming
      BY <2>1, <1>3, WarmAlike
    <3>3. Turned /\ board.shared /\ NoteSoon(todo, 1)
      BY <1>1, <1>3, <3>1, <3>2, SameAt DEF Noted
    <3> QED BY <3>1, <3>3, NoteSoonAlike
  <2>2. CASE DidOne
    <3>1. todo' = Tail(todo) /\ Followed
      BY <2>2 DEF DidOne, Dropped
    <3>2. /\ call.op \in {"transfer", "sequences", "sequence", "pins", "calibrate"}
          /\ pins.clk /\ ~ Warming
          /\ ~ Turned => \A l, v : l # "clk" => ~ Sets(s, l, v)
      BY <2>2, <1>1, <1>3, StillRuns
    <3>3. /\ Sets(s, "note", TRUE) \/ (flags.driving /\ ~ Sets(s, "note", FALSE))
          /\ ~ Sets(s, "dout", TRUE)
          /\ Sets(s, "dout", FALSE) \/ ~ pins.dout
      BY <1>3, <3>1, FollowedAt
    <3>4. Turned
      <4> SUFFICES ASSUME ~ Turned PROVE FALSE
        OBVIOUS
      <4>1. flags.driving /\ ~ pins.dout
        BY <3>2, <3>3
      <4> QED BY <1>1, <1>3, <3>2, <4>1 DEF Noted
    <3>5. Fits(call.op, s)
      BY <1>1, HeadFits
    <3>6. Turns(s)
      BY <3>4, <3>5, StillSet DEF Turned
    <3>7. board.shared
      <4> SUFFICES ASSUME ~ board.shared PROVE FALSE
        OBVIOUS
      <4>1. pins.dout
        BY <1>1, <1>3, <3>2 DEF Powered
      <4>2. ~ Sets(s, "dout", FALSE)
        BY <3>6, TurnsSet
      <4> QED BY <3>3, <4>1, <4>2
    <3>8. ~ Sets(s, "note", TRUE)
      <4>1. Sets(s, "note", TRUE) => pins.dout /\ ~ Sets(s, "dout", FALSE)
        BY <1>1, <1>3, <3>4, <3>6, <3>7, TurnsSet DEF Orderly, SafeNow
      <4> QED BY <3>3, <4>1
    <3>9. NoteSoon(todo, 2) \/ NoteSoon(todo, 1)
      <4>1. CASE Sets(s, "dout", FALSE)
        <5>1. 1 \in DOMAIN todo /\ 1 + 1 = 2
          BY <1>1, TailAt
        <5>2. \A i \in DOMAIN todo : Sets(todo[i], "dout", FALSE) => NoteSoon(todo, i + 1)
          BY <1>3, <3>4 DEF Orderly, Chained
        <5>3. NoteSoon(todo, 1 + 1)
          BY <4>1, <5>1, <5>2
        <5> QED BY <5>1, <5>3
      <4>2. CASE ~ pins.dout
        BY <4>2, <1>1, <1>3, <3>2, <3>3, <3>8 DEF Noted
      <4> QED BY <3>3, <4>1, <4>2
    <3>10. CASE NoteSoon(todo, 2)
      <4>1. 1 + 1 = 2 /\ 1 \in Nat /\ 1 >= 1
        OBVIOUS
      <4>2. NoteSoon(todo, 1 + 1)
        BY <3>10, <4>1
      <4>3. NoteSoon(Tail(todo), 1)
        BY <1>1, <4>1, <4>2, NoteSoonTail
      <4> QED BY <3>1, <3>4, <3>7, <4>3
    <3>11. CASE NoteSoon(todo, 1)
      <4>1. ~ Sets(s, "note", FALSE)
        BY <3>3, <3>8
      <4>2. 1 + 1 = 2
        OBVIOUS
      <4>3. 2 \in DOMAIN todo /\ Sets(todo[2], "note", FALSE)
        BY <3>11, <4>1, <4>2 DEF NoteSoon
      <4>4. \A i \in DOMAIN todo : i = 1 \/ (i - 1 \in DOMAIN Tail(todo) /\ Tail(todo)[i - 1] = todo[i])
        BY <1>1, TailAt
      <4>5. 2 - 1 = 1
        OBVIOUS
      <4>6. 1 \in DOMAIN todo' /\ todo'[1] = todo[2]
        BY <3>1, <4>3, <4>4, <4>5
      <4> QED BY <3>4, <3>7, <4>3, <4>6 DEF NoteSoon
    <3> QED BY <3>9, <3>10, <3>11
  <2> QED BY <1>1, <1>3, <2>1, <2>2
<1> QED BY <1>1, <1>2, <1>3 DEF Noted, NoteSoon

-----------------------------------------------------------------------------
(* The calls begin, and end.                                                 *)

Lined == /\ Typed /\ Remembered /\ Suited /\ Ending /\ Rested /\ GoesOff /\ Powered
         /\ Orderly /\ Netted /\ Noted

\* What the steps of a call have to be.
Ready(op, bad, t) ==
  /\ t \in Seq(Step) /\ FitsAll(op, t) /\ (bad => op = "sequences")
  /\ op \in {"connect", "transfer", "sequences"} /\ ~ bad /\ NoHear(t) =>
       \A l \in Held(op), w \in BOOLEAN : EndsOn(t, l, w)
  /\ op = "disconnect" => t # <<>> /\ Sets(t[1], "clk", FALSE)
  /\ op = "calibrate" => GivesBack(t)
  /\ op \in {"transfer", "sequences"} => Good(t)

LEMMA GoodSafe ==
  ASSUME NEW t, Good(t)
  PROVE  Chained(t) /\ (t # <<>> => SafeNow(t[1]))
BY DEF Good, Free, SafeNow

LEMMA StartLined ==
  ASSUME Lined, NEW op \in Ops \ {"none"}, NEW rnw \in BOOLEAN, NEW bad \in BOOLEAN, NEW t,
         Start(op, rnw, bad, t), Ready(op, bad, t)
  PROVE  Lined'
<1>1. /\ call.op = "none" /\ todo' = t
      /\ call' = [op |-> op, rnw |-> rnw, bad |-> bad]
      /\ UNCHANGED <<board, pins, flags, cfg, last, target, faults, trust>>
  BY DEF Start
<1>2. call'.op = op /\ call'.rnw = rnw /\ call'.bad = bad /\ call' \in Call
  BY <1>1 DEF Call
<1>3. t \in Seq(Step) /\ FitsAll(op, t) /\ (bad => op = "sequences")
  BY DEF Ready
<1>4. Typed /\ Remembered /\ Suited /\ Ending /\ Rested /\ GoesOff /\ Powered
         /\ Orderly /\ Netted /\ Noted
  BY DEF Lined
<1>5. Typed'
  BY <1>1, <1>2, <1>3, <1>4 DEF Typed
<1>6. Remembered'
  BY <1>1, <1>2, <1>3, <1>4 DEF Remembered
<1>7. Suited'
  <2>1. UNCHANGED board /\ FitsAll(call'.op, todo') /\ call'.op # "none"
    BY <1>1, <1>2, <1>3
  <2> QED BY <2>1, FitsLater DEF Suited
<1>8. Ending'
  <2>1. ASSUME op \in {"connect", "transfer", "sequences"}, ~ bad, NoHear(t)
        PROVE  \A l \in Held(op) : EndsOn(t, l, Line(l))
    <3>1. \A l \in Held(op), w \in BOOLEAN : EndsOn(t, l, w)
      BY <2>1 DEF Ready
    <3>2. \A l \in Held(op) : Line(l) \in BOOLEAN
      BY <1>4, Before, LevelsAre DEF Held
    <3> QED BY <3>1, <3>2
  <2>2. Held(call.op)' = Held(op) /\ \A l : Line(l)' = Line(l)
    BY <1>1, <1>2 DEF Held, Linux, Line
  <2>3. ASSUME call'.op \in {"connect", "transfer", "sequences"}, ~ call'.bad, NoHear(todo')
        PROVE  \A l \in Held(op) : EndsOn(todo', l, Line(l)')
    BY <1>1, <1>2, <2>1, <2>2, <2>3
  <2> QED BY <1>2, <2>2, <2>3 DEF Ending, NoHear, EndsOn
<1>9. Rested'
  BY <1>2 DEF Rested
<1>10. GoesOff'
  BY <1>1, <1>2 DEF GoesOff, GivesBack, Ready
<1>11. ~ Warming /\ ~ Turned
  BY <1>1 DEF Warming, Turned
<1>12. Powered'
  BY <1>1, <1>4, <1>11 DEF Powered
<1>13. Orderly'
  <2> SUFFICES ASSUME Turned' PROVE Chained(todo)' /\ (todo' # <<>> => SafeNow(todo[1])')
    BY DEF Orderly
  <2>1. Chained(t) /\ (t # <<>> => SafeNow(t[1]))
    BY <1>2, GoodSafe DEF Turned, Ready
  <2>2. Chained(t)' /\ (t # <<>> => SafeNow(t[1])')
    BY <1>1, <2>1 DEF Chained, SafeNow, Link, NoteSoon, Both, Linux
  <2> QED BY <1>1, <2>2 DEF Chained, SafeNow, Link, NoteSoon
<1>14. Netted'
  BY <1>1, <1>4 DEF Netted, Both
<1>15. Noted'
  BY <1>1, <1>4, <1>11 DEF Noted, Linux
<1> QED BY <1>5, <1>6, <1>7, <1>8, <1>9, <1>10, <1>12, <1>13, <1>14, <1>15 DEF Lined

LEMMA CallsReady ==
  ASSUME board \in Boards, cfg \in Cfg
  PROVE  /\ Ready("connect", FALSE, Driver.on) /\ Ready("disconnect", FALSE, Driver.off)
         /\ Ready("transfer", FALSE, Request)
         /\ Ready("sequence", FALSE, <<Cycles(2, "reset")>>)
         /\ \A seqs \in SeqRuns :
              Ready("sequences", \E i \in 1..Len(seqs) : seqs[i] = "bad", SequenceSteps(seqs))
         /\ Ready("pins", FALSE, <<Level, Cycles(1, "raw")>>)
         /\ Ready("calibrate", FALSE, Measure)
         /\ Ready("close", FALSE, If(Linux, <<Config({"clk", "dout", "dir"}, FALSE)>>))
<1>1. Ready("connect", FALSE, Driver.on)
  <2> DEFINE t == Driver.on
  <2>1. TurnsOn(t)
    BY OnGood
  <2> HIDE DEF t
  <2>2. \A i \in DOMAIN t : t[i].do # "hear"
    BY <2>1 DEF TurnsOn, Fits, OnlyOn, Moves
  <2>3. Ready("connect", FALSE, t)
    BY <2>1, <2>2 DEF TurnsOn, Ready, FitsAll
  <2> QED BY <2>3 DEF t
<1>2. Ready("disconnect", FALSE, Driver.off)
  <2> DEFINE t == Driver.off
  <2>1. TurnsOff(t)
    BY OffGood
  <2> HIDE DEF t
  <2>2. \A i \in DOMAIN t : t[i].do # "hear"
    BY <2>1 DEF TurnsOff, Fits, OnlyOff, Moves
  <2>3. Ready("disconnect", FALSE, t)
    BY <2>1, <2>2 DEF TurnsOff, Ready, FitsAll
  <2> QED BY <2>3 DEF t
<1>3. Ready("transfer", FALSE, Request)
  <2>1. Good(Request) /\ HearLast(Request) /\ \E i \in DOMAIN Request : Request[i].do = "hear"
    BY RequestGood
  <2> HIDE DEF Request
  <2>2. FitsAll("transfer", Request)
    BY <2>1 DEF FitsAll, Fits, HearLast, Good
  <2>3. ~ NoHear(Request) /\ Request \in Seq(Step)
    BY <2>1 DEF NoHear, Good
  <2> QED BY <2>1, <2>2, <2>3 DEF Ready
<1>4. Ready("sequence", FALSE, <<Cycles(2, "reset")>>)
  <2> DEFINE c == Cycles(2, "reset")
             t == <<c>>
  <2>1. c \in Step /\ c.do = "cycles" /\ c.as = "reset"
    <3>1. 2 \in Nat \ {0} /\ "reset" \in Kinds
      BY DEF Kinds
    <3> QED BY <3>1, CyclesIs
  <2> HIDE DEF c
  <2>2. t \in Seq(Step) /\ \A i \in DOMAIN t : t[i] = c
    BY <2>1
  <2>3. Fits("sequence", c)
    BY <2>1 DEF Fits, Clocks
  <2> HIDE DEF t
  <2>4. Ready("sequence", FALSE, t)
    BY <2>1, <2>2, <2>3 DEF Ready, FitsAll
  <2> QED BY <2>4 DEF t, c
<1>5. ASSUME NEW seqs \in SeqRuns
      PROVE  Ready("sequences", \E i \in 1..Len(seqs) : seqs[i] = "bad", SequenceSteps(seqs))
  <2> DEFINE t == SequenceSteps(seqs)
             bad == \E i \in 1..Len(seqs) : seqs[i] = "bad"
  <2>1. Well(t) /\ (~ bad => \A l \in Held("sequences"), w \in BOOLEAN : EndsOn(t, l, w))
    BY SequenceGood
  <2> HIDE DEF t, bad
  <2>2. \A i \in DOMAIN t : Fits("sequences", t[i]) /\ t[i].do # "hear"
    BY <2>1 DEF Well, Good, NoHear, Calm, Fits
  <2>3. Ready("sequences", bad, t)
    BY <2>1, <2>2 DEF Ready, FitsAll, Well, Good
  <2> QED BY <2>3 DEF t, bad
<1>6. Ready("pins", FALSE, <<Level, Cycles(1, "raw")>>)
  <2> DEFINE c == Cycles(1, "raw")
             t == <<Level, c>>
  <2>1. c \in Step /\ c.do = "cycles" /\ c.as = "raw"
    <3>1. 1 \in Nat \ {0} /\ "raw" \in Kinds
      BY DEF Kinds
    <3> QED BY <3>1, CyclesIs
  <2>2. Level \in Step /\ Level.do = "level"
    BY OthersAre
  <2> HIDE DEF c
  <2>3. t \in Seq(Step) /\ \A i \in DOMAIN t : t[i] = c \/ t[i] = Level
    BY <2>1, <2>2
  <2>4. Fits("pins", c) /\ Fits("pins", Level)
    BY <2>1, <2>2 DEF Fits, Clocks
  <2> HIDE DEF t
  <2>5. \A i \in DOMAIN t : Fits("pins", t[i]) /\ t[i].do # "hear"
    BY <2>1, <2>2, <2>3, <2>4
  <2>6. Ready("pins", FALSE, t)
    BY <2>3, <2>5 DEF Ready, FitsAll
  <2> QED BY <2>6 DEF t, c
<1>7. Ready("calibrate", FALSE, Measure)
  BY MeasureGood DEF Ready, FitsAll, NoHear
<1>8. Ready("close", FALSE, If(Linux, <<Config({"clk", "dout", "dir"}, FALSE)>>))
  <2> DEFINE t == If(Linux, <<Config({"clk", "dout", "dir"}, FALSE)>>)
  <2>1. t \in Seq(Step) /\ (\A i \in DOMAIN t : Fits("close", t[i])) /\ NoHear(t)
    BY CloseGood
  <2> HIDE DEF t
  <2>2. Ready("close", FALSE, t)
    BY <2>1 DEF Ready, FitsAll, NoHear
  <2> QED BY <2>2 DEF t
<1> QED BY <1>1, <1>2, <1>3, <1>4, <1>5, <1>6, <1>7, <1>8

\* Any call at all.
Begins == \/ Connect \/ Disconnect \/ Transfer \/ Sequence \/ SWDSequence \/ WritePins
          \/ Calibrate \/ Close
Begun == \E op \in Ops \ {"none"}, rnw \in BOOLEAN, bad \in BOOLEAN, t \in Seq(Step) :
           /\ Start(op, rnw, bad, t) /\ Ready(op, bad, t)
           /\ op = "transfer" => t = Request
           /\ op = "sequence" => t = <<Cycles(2, "reset")>>
LEMMA BeginsIs ==
  ASSUME Typed, Begins
  PROVE  Begun
<1>1. board \in Boards /\ cfg \in Cfg
  BY Before
<1>2. ASSUME NEW op \in Ops \ {"none"}, NEW rnw \in BOOLEAN, NEW bad \in BOOLEAN, NEW t,
             Start(op, rnw, bad, t), Ready(op, bad, t), op = "transfer" => t = Request,
             op = "sequence" => t = <<Cycles(2, "reset")>>
      PROVE  Begun
  <2>1. t \in Seq(Step)
    BY <1>2 DEF Ready
  <2> QED BY <1>2, <2>1, Zenon DEF Begun
<1>3. /\ "connect" \in Ops \ {"none"} /\ "disconnect" \in Ops \ {"none"}
      /\ "transfer" \in Ops \ {"none"} /\ "sequence" \in Ops \ {"none"}
      /\ "sequences" \in Ops \ {"none"} /\ "pins" \in Ops \ {"none"}
      /\ "calibrate" \in Ops \ {"none"} /\ "close" \in Ops \ {"none"}
  BY DEF Ops
<1>4. FALSE \in BOOLEAN
  OBVIOUS
<1>5. CASE Connect
  <2>1. Start("connect", FALSE, FALSE, Driver.on) /\ Ready("connect", FALSE, Driver.on)
    BY <1>1, <1>5, CallsReady DEF Connect
  <2>2. "connect" # "transfer" /\ "connect" # "sequence"
    OBVIOUS
  <2> QED BY <1>2, <1>3, <1>4, <2>1, <2>2
<1>6. CASE Disconnect
  <2>1. Start("disconnect", FALSE, FALSE, Driver.off) /\ Ready("disconnect", FALSE, Driver.off)
    BY <1>1, <1>6, CallsReady DEF Disconnect
  <2> QED BY <1>2, <1>3, <1>4, <2>1
<1>7. CASE Transfer
  <2>1. PICK rnw \in BOOLEAN : Start("transfer", rnw, FALSE, Request)
    BY <1>7 DEF Transfer
  <2>2. Ready("transfer", FALSE, Request)
    BY <1>1, CallsReady
  <2> QED BY <1>2, <1>3, <1>4, <2>1, <2>2
<1>8. CASE Sequence
  <2>1. /\ Start("sequence", FALSE, FALSE, <<Cycles(2, "reset")>>)
        /\ Ready("sequence", FALSE, <<Cycles(2, "reset")>>)
    BY <1>1, <1>8, CallsReady DEF Sequence
  <2> QED BY <1>2, <1>3, <1>4, <2>1
<1>9. CASE SWDSequence
  <2>1. PICK seqs \in SeqRuns :
          Start("sequences", FALSE, \E i \in 1..Len(seqs) : seqs[i] = "bad", SequenceSteps(seqs))
    BY <1>9 DEF SWDSequence
  <2> DEFINE bad == \E i \in 1..Len(seqs) : seqs[i] = "bad"
  <2>2. Ready("sequences", bad, SequenceSteps(seqs)) /\ bad \in BOOLEAN
    BY <1>1, CallsReady
  <2>3. Start("sequences", FALSE, bad, SequenceSteps(seqs))
    BY <2>1
  <2> HIDE DEF bad
  <2> QED BY <1>2, <1>3, <1>4, <2>2, <2>3
<1>10. CASE WritePins
  <2>1. /\ Start("pins", FALSE, FALSE, <<Level, Cycles(1, "raw")>>)
        /\ Ready("pins", FALSE, <<Level, Cycles(1, "raw")>>)
    BY <1>1, <1>10, CallsReady DEF WritePins
  <2> QED BY <1>2, <1>3, <1>4, <2>1
<1>11. CASE Calibrate
  <2>1. Start("calibrate", FALSE, FALSE, Measure) /\ Ready("calibrate", FALSE, Measure)
    BY <1>1, <1>11, CallsReady DEF Calibrate
  <2> QED BY <1>2, <1>3, <1>4, <2>1
<1>12. CASE Close
  <2> DEFINE t == If(Linux, <<Config({"clk", "dout", "dir"}, FALSE)>>)
  <2>1. Start("close", FALSE, FALSE, t) /\ Ready("close", FALSE, t)
    BY <1>1, <1>12, CallsReady DEF Close
  <2> HIDE DEF t
  <2> QED BY <1>2, <1>3, <1>4, <2>1
<1> QED
  BY <1>5, <1>6, <1>7, <1>8, <1>9, <1>10, <1>11, <1>12 DEF Begins

LEMMA BeginLined ==
  ASSUME Lined, Begins
  PROVE  Lined'
<1>1. Typed
  BY DEF Lined
<1>2. PICK op \in Ops \ {"none"}, rnw \in BOOLEAN, bad \in BOOLEAN, t \in Seq(Step) :
        Start(op, rnw, bad, t) /\ Ready(op, bad, t)
  BY <1>1, BeginsIs DEF Begun
<1> QED BY <1>2, StartLined

LEMMA DidLined ==
  ASSUME Lined, PutStep \/ ConfigStep \/ NoteStep \/ CycleStep \/ LevelStep
  PROVE  Lined' /\ Did
<1>1. Typed /\ Remembered /\ Suited /\ Ending /\ Rested /\ GoesOff /\ Powered
         /\ Orderly /\ Netted /\ Noted
  BY DEF Lined
<1>2. Did
  BY <1>1, DidPut, DidConfig, DidNote, DidCycle, DidLevel
<1>3. todo[1].do # "hear"
  BY DEF PutStep, ConfigStep, NoteStep, CycleStep, LevelStep, Doing, Head1
<1>4. Typed' /\ Remembered' /\ Suited' /\ Ending' /\ Rested'
  BY <1>1, <1>2, <1>3, TypedOn, RememberedOn, SuitedOn, EndingOn, RestedOn
<1>5. GoesOff' /\ Powered' /\ Orderly' /\ Netted' /\ Noted'
  BY <1>1, <1>2, GoesOffOn, PoweredOn, OrderlyOn, NettedOn, NotedOn
<1> QED BY <1>2, <1>4, <1>5 DEF Lined

\* Only a transfer waits for an ACK, and then for nothing else.
LEMMA HearIs ==
  ASSUME Typed, Suited, HearStep
  PROVE  /\ call.op = "transfer" /\ todo # <<>> /\ todo[1].do = "hear"
         /\ UNCHANGED <<board, cfg, last, pins, flags, target, faults, trust, call>>
         /\ \E ack \in {"OK", "WAIT", "FAULT", "none"} :
              ack \in Heard /\ todo' = AfterAck(ack, call.rnw)
<1>1. /\ todo # <<>> /\ todo[1].do = "hear"
      /\ UNCHANGED <<board, cfg, last, pins, flags, target, faults, trust, call>>
  BY DEF HearStep, Doing, Head1, Kept
<1>2. PICK ack \in Heard : todo' = AfterAck(ack, call.rnw) \o Tail(todo)
  BY DEF HearStep
<1>3. ack \in {"OK", "WAIT", "FAULT", "none"}
  <2>1. target.said \in Said \cup {"none"}
    BY Before DEF Target
  <2> QED BY <2>1 DEF Heard, Said
<1>4. 1 \in DOMAIN todo /\ Fits(call.op, todo[1]) /\ call.op # "none" /\ call.op \in Ops
  BY <1>1, HeadFits
<1>5. call.op = "transfer"
  BY <1>1, <1>4 DEF Fits, OnlyOn, OnlyOff, Moves, Clocks, Ops
<1>6. Tail(todo) = <<>>
  <2>1. 1 = Len(todo)
    BY <1>1, <1>4 DEF Suited
  <2>2. todo \in Seq(Step)
    BY <1>1, Before
  <2>3. Tail(todo) \in Seq(Step) /\ Len(todo) = Len(Tail(todo)) + 1
    BY <1>1, <2>2, TailAt
  <2>4. Len(Tail(todo)) = 0
    BY <2>1, <2>3
  <2> QED BY <2>3, <2>4, EmptySeq
<1>7. AfterAck(ack, call.rnw) \in Seq(Step)
  <2>1. call.rnw \in BOOLEAN /\ board \in Boards /\ cfg \in Cfg
    BY Before DEF Call
  <2> QED BY <1>3, <2>1, AfterAckGood DEF Good
<1>8. todo' = AfterAck(ack, call.rnw)
  BY <1>2, <1>6, <1>7, EmptyConcat
<1> QED BY <1>1, <1>2, <1>3, <1>5, <1>8

LEMMA HearLined ==
  ASSUME Lined, HearStep
  PROVE  Lined'
<1>1. Typed /\ Remembered /\ Suited /\ Ending /\ Rested /\ GoesOff /\ Powered
         /\ Orderly /\ Netted /\ Noted
  BY DEF Lined
<1>2. /\ call.op = "transfer" /\ todo # <<>> /\ todo[1].do = "hear"
      /\ UNCHANGED <<board, cfg, last, pins, flags, target, faults, trust, call>>
  BY <1>1, HearIs
<1>3. PICK ack \in {"OK", "WAIT", "FAULT", "none"} : todo' = AfterAck(ack, call.rnw)
  BY <1>1, HearIs
<1> DEFINE t == AfterAck(ack, call.rnw)
<1>4. /\ Good(t) /\ NoHear(t)
      /\ \A l \in Held("transfer"), w \in BOOLEAN : EndsOn(t, l, w)
  <2>1. call.rnw \in BOOLEAN /\ board \in Boards /\ cfg \in Cfg
    BY <1>1, Before DEF Call
  <2> QED BY <2>1, AfterAckGood
<1>5. todo' = t
  BY <1>3
<1> HIDE DEF t
<1>6. Typed'
  BY <1>1, <1>2, <1>4, <1>5 DEF Typed, Good
<1>7. Remembered' /\ Rested' /\ GoesOff' /\ Netted'
  BY <1>1, <1>2 DEF Remembered, Rested, GoesOff, Netted, Both
<1>8. Suited'
  <2>1. \A i \in DOMAIN t : Fits("transfer", t[i])
    BY <1>4 DEF Good, Fits
  <2> QED BY <1>2, <1>4, <1>5, <2>1 DEF Suited, NoHear, Fits, Turns
<1>9. Ending'
  <2>1. \A l \in Held("transfer") : EndsOn(t, l, Line(l))
    <3>1. \A l \in Held("transfer") : Line(l) \in BOOLEAN
      BY <1>1, Before, LevelsAre DEF Held
    <3> QED BY <1>4, <3>1
  <2>2. Held(call.op)' = Held("transfer") /\ \A l : Line(l)' = Line(l)
    BY <1>2 DEF Held, Linux, Line
  <2> QED BY <1>2, <1>5, <2>1, <2>2 DEF Ending, EndsOn
<1>10. Powered'
  BY <1>1, <1>2 DEF Powered, Warming
<1>11. Orderly'
  <2>1. Chained(t) /\ (t # <<>> => SafeNow(t[1]))
    BY <1>4, GoodSafe
  <2>2. Chained(todo')
    BY <1>5, <2>1
  <2>3. todo' # <<>> => SafeNext(todo'[1])
    BY <1>2, <1>5, <2>1 DEF SafeNow, SafeNext
  <2> QED BY <1>2, <2>2, <2>3, ChainedLater, SafeLater DEF Orderly
<1>12. Noted'
  <2>1. ~ NoteSoon(todo, 1)
    <3>1. \A l, v : ~ Sets(todo[1], l, v)
      BY <1>2 DEF Sets
    <3> QED BY <3>1 DEF NoteSoon
  <2> QED BY <1>1, <1>2, <2>1 DEF Noted, Warming, Linux
<1> QED BY <1>6, <1>7, <1>8, <1>9, <1>10, <1>11, <1>12 DEF Lined

LEMMA ConfigureLined ==
  ASSUME Lined, Configure
  PROVE  Lined'
<1>1. Typed /\ Remembered /\ Suited /\ Ending /\ Rested /\ GoesOff /\ Powered
         /\ Orderly /\ Netted /\ Noted
  BY DEF Lined
<1>2. /\ call.op = "none" /\ cfg' \in Cfg /\ last' = Resting
      /\ UNCHANGED <<board, pins, flags, call, todo, target, faults, trust>>
  BY DEF Configure, Cfg
<1>3. Resting \in Call /\ Resting.op = "none"
  BY DEF Resting, Call, Ops
<1>4. Typed'
  BY <1>1, <1>2, <1>3 DEF Typed
<1>5. todo' = <<>> /\ todo = <<>>
  BY <1>1, <1>2 DEF Suited
<1>6. Remembered' /\ Suited' /\ Ending' /\ Rested' /\ GoesOff' /\ Netted'
  BY <1>1, <1>2, <1>3, <1>5 DEF Remembered, Suited, Ending, Rested, GoesOff, Netted, Both, Fits, GivesBack
<1>7. Powered' /\ Orderly' /\ Noted'
  BY <1>1, <1>2 DEF Powered, Warming, Orderly, Turned, Noted, Linux
<1> QED BY <1>4, <1>6, <1>7 DEF Lined

\* What a call has come to when nothing is left of it.
LEMMA EndsAt ==
  ASSUME Typed, Ending, todo = <<>>, call.op \in {"connect", "transfer", "sequences"}, ~ call.bad
  PROVE  \A l \in Held(call.op) : Line(l)
<1>1. DOMAIN todo = {}
  OBVIOUS
<1>2. \A l \in Held(call.op) : EndsOn(todo, l, Line(l))
  BY <1>1 DEF Ending
<1> QED BY <1>1, <1>2 DEF EndsOn

LEMMA ReturnIs ==
  ASSUME Typed, Return
  PROVE  /\ call.op # "none" /\ todo = <<>> /\ call' = Resting /\ last' \in Call
         /\ last'.op = call.op /\ (call.bad => last'.bad)
         /\ UNCHANGED <<board, pins, flags, cfg, todo, target, faults>>
         /\ \/ trust' = trust
            \/ trust = "none" /\ call.op = "connect" /\ ~ call.bad /\ trust' = "pins"
            \/ trust = "pins" /\ call.op = "sequence" /\ pins.clk /\ HostSpeaks /\ trust' = "all"
<1>1. call \in Call /\ flags.err \in BOOLEAN
  BY Before, LevelsAre
<1>2. last' = [call EXCEPT !.bad = @ \/ (call.op = "calibrate" /\ flags.err)]
  BY DEF Return
<1>3. last' \in Call /\ last'.op = call.op /\ (call.bad => last'.bad)
  BY <1>1, <1>2 DEF Call
<1>4. /\ call.op # "none" /\ todo = <<>> /\ call' = Resting
      /\ UNCHANGED <<board, pins, flags, cfg, todo, target, faults>>
  BY DEF Return
<1>5. \/ trust' = trust
      \/ trust = "none" /\ call.op = "connect" /\ ~ call.bad /\ trust' = "pins"
      \/ trust = "pins" /\ call.op = "sequence" /\ pins.clk /\ HostSpeaks /\ trust' = "all"
  <2> HIDE DEF HostSpeaks
  <2> QED BY DEF Return
<1> QED BY <1>3, <1>4, <1>5

LEMMA ReturnLined ==
  ASSUME Lined, Return
  PROVE  Lined'
<1>1. Typed /\ Remembered /\ Suited /\ Ending /\ Rested /\ GoesOff /\ Powered
         /\ Orderly /\ Netted /\ Noted
  BY DEF Lined
<1>2. /\ call.op # "none" /\ todo = <<>> /\ call' = Resting /\ last' \in Call
      /\ last'.op = call.op /\ (call.bad => last'.bad)
      /\ UNCHANGED <<board, pins, flags, cfg, todo, target, faults>>
      /\ \/ trust' = trust
         \/ trust = "none" /\ call.op = "connect" /\ ~ call.bad /\ trust' = "pins"
         \/ trust = "pins" /\ trust' = "all"
  BY <1>1, ReturnIs
<1>3. call'.op = "none" /\ call'.bad = FALSE /\ Resting \in Call
  BY <1>2 DEF Resting, Call, Ops
<1>4. call.op \in {"connect", "transfer", "sequences"} /\ ~ call.bad =>
        \A l \in Held(call.op) : Line(l)
  BY <1>1, <1>2, EndsAt
<1>5. DOMAIN todo = {} /\ todo' = <<>>
  BY <1>2
<1>6. Typed'
  BY <1>1, <1>2, <1>3 DEF Typed
<1>7. Remembered' /\ Suited' /\ Ending' /\ GoesOff' /\ Orderly'
  BY <1>1, <1>2, <1>3, <1>5 DEF Remembered, Suited, Ending, GoesOff, Orderly, Turned
<1>8. Rested'
  <2>1. Held(last.op)' = Held(call.op) /\ \A l : Line(l)' = Line(l)
    BY <1>2 DEF Held, Linux, Line
  <2> QED BY <1>2, <1>4, <2>1 DEF Rested
<1>9. call.op = "connect" /\ trust' # "none" =>
        /\ board.dir => pins.dir /\ pins.low
        /\ pins.dout
  <2> SUFFICES ASSUME call.op = "connect", trust' # "none"
               PROVE  (board.dir => pins.dir /\ pins.low) /\ pins.dout
    OBVIOUS
  <2>1. ~ call.bad
    BY <1>1, <1>2 DEF Remembered
  <2>2. \A l \in Held("connect") : Line(l)
    BY <1>4, <2>1
  <2>3. "dout" \in Held("connect") /\ (board.dir => {"dir", "low"} \subseteq Held("connect"))
    BY DEF Held, Lines
  <2> QED BY <2>2, <2>3 DEF Line
<1>10. call.op # "connect" => ~ Warming /\ (trust' # "none" => trust # "none")
  BY <1>2, <1>5 DEF Warming
<1>11. Powered'
  BY <1>1, <1>2, <1>9, <1>10 DEF Powered
<1>12. Netted'
  BY <1>1, <1>2, <1>9, <1>10 DEF Netted, Both
<1>13. Noted'
  <2>1. ~ NoteSoon(todo, 1)
    BY <1>5 DEF NoteSoon
  <2> QED BY <1>1, <1>2, <1>9, <1>10, <2>1 DEF Noted, Linux
<1> QED BY <1>6, <1>7, <1>8, <1>11, <1>12, <1>13 DEF Lined

LEMMA InitLined ==
  ASSUME Init
  PROVE  Lined
<1>1. /\ board \in Boards /\ pins \in Levels /\ ~ pins.clk /\ ~ pins.dout
      /\ flags = [driving |-> FALSE, mask |-> FALSE, err |-> FALSE] /\ cfg \in Cfg
      /\ call = Resting /\ todo = <<>> /\ last = Resting /\ target = Quiet
      /\ faults = 0 /\ trust = "all"
  BY DEF Init, Levels, Cfg
<1>2. Resting \in Call /\ Resting.op = "none" /\ ~ Resting.bad
  BY DEF Resting, Call, Ops
<1>3. flags \in Flags /\ ~ flags.driving /\ ~ flags.mask
  BY <1>1 DEF Flags
<1>4. Typed
  BY <1>1, <1>2, <1>3, QuietIs DEF Typed
<1>5. Remembered /\ Suited /\ Ending /\ Rested /\ GoesOff
  BY <1>1, <1>2, <1>3 DEF Remembered, Suited, Ending, Rested, GoesOff
<1>6. Powered /\ Orderly /\ Netted /\ Noted
  BY <1>1, <1>2, <1>3 DEF Powered, Orderly, Turned, Netted, Noted
<1> QED BY <1>4, <1>5, <1>6 DEF Lined

LEMMA NextLined ==
  ASSUME Lined, [Next]_vars
  PROVE  Lined'
<1>1. CASE UNCHANGED vars
  <2>1. UNCHANGED <<board, pins, flags, cfg, call, todo, last, target, faults, trust>>
    BY <1>1 DEF vars
  <2>2. Typed /\ Remembered /\ Suited /\ Ending /\ Rested /\ GoesOff /\ Powered
           /\ Orderly /\ Netted /\ Noted
    BY DEF Lined
  <2>3. Typed' /\ Remembered'
    BY <2>1, <2>2 DEF Typed, Remembered
  <2>4. Suited'
    <3>1. FitsAll(call.op, todo) /\ (call.op = "none" => todo = <<>>)
      BY <2>2 DEF Suited, FitsAll
    <3>2. UNCHANGED board /\ FitsAll(call'.op, todo') /\ (call'.op = "none" => todo' = <<>>)
      BY <2>1, <3>1
    <3> QED BY <3>2, FitsLater DEF Suited
  <2>5. Ending' /\ Rested'
    BY <2>1, <2>2 DEF Ending, Rested, Held, Line, EndsOn, Linux
  <2>6. GoesOff' /\ Powered' /\ Netted'
    BY <2>1, <2>2 DEF GoesOff, Powered, Netted, GivesBack, Warming, Both
  <2>7. Orderly'
    BY <2>1, <2>2 DEF Orderly, Turned, Chained, Link, NoteSoon, SafeNow, Both, Linux
  <2>8. Noted'
    BY <2>1, <2>2 DEF Noted, Warming, Turned, Linux, NoteSoon
  <2> QED BY <2>3, <2>4, <2>5, <2>6, <2>7, <2>8 DEF Lined
<1>2. CASE Begins
  BY <1>2, BeginLined
<1>3. CASE PutStep \/ ConfigStep \/ NoteStep \/ CycleStep \/ LevelStep
  BY <1>3, DidLined
<1>4. CASE HearStep
  BY <1>4, HearLined
<1>5. CASE Configure
  BY <1>5, ConfigureLined
<1>6. CASE Return
  BY <1>6, ReturnLined
<1> QED BY <1>1, <1>2, <1>3, <1>4, <1>5, <1>6 DEF Next, Begins

LEMMA PinsHold ==
  Spec => []Lined
<1>1. Init => Lined
  BY InitLined
<1>2. Lined /\ [Next]_vars => Lined'
  BY NextLined
<1> QED BY <1>1, <1>2, PTL DEF Spec

\* While the port is on, the host drives the line after every transfer, PortOn and
\* SWDSequence that was not refused, and no SET_VALUES names a line that is an input
\* (linuxgpiod.go, writeMask), on any board and whatever runs are clocked.
THEOREM HostHasLineAlways ==
  Spec => []HostHasLine
<1>1. ASSUME Lined PROVE HostHasLine
  <2>1. Typed /\ Remembered /\ Suited /\ Rested /\ Powered /\ Noted
    BY <1>1 DEF Lined
  <2> SUFFICES ASSUME trust = "all", pins.clk
               PROVE  /\ call.op = "none" /\ last.op \in {"connect", "transfer", "sequences"} /\ ~ last.bad =>
                           HostSpeaks /\ (Linux => flags.driving)
                      /\ Doing("cycles") /\ Linux /\ Written => ~ WriteNamesInput
    BY DEF HostHasLine
  <2>2. ASSUME call.op = "none", last.op \in {"connect", "transfer", "sequences"}, ~ last.bad
        PROVE  HostSpeaks /\ (Linux => flags.driving)
    <3>1. \A l \in Held(last.op) : Line(l)
      BY <2>1, <2>2 DEF Rested
    <3>2. (board.dir => pins.dir) /\ (~ board.shared => pins.dout)
      BY <2>1, <2>2 DEF Powered, Warming
    <3>3. board.dir => pins.low
      BY <3>1 DEF Held, Lines, Line
    <3>4. board.shared => pins.dout
      BY <3>1 DEF Held, Lines, Line
    <3>5. Linux => flags.driving
      BY <3>1 DEF Held, Lines, Line
    <3> QED BY <3>2, <3>3, <3>4, <3>5 DEF HostSpeaks, ToTarget
  <2>3. ASSUME Doing("cycles"), Linux, Written
        PROVE  ~ WriteNamesInput
    <3>1. todo # <<>> /\ todo[1].do = "cycles" /\ todo[1].as \in {"write", "out", "reset"}
      BY <2>3 DEF Doing, Written, Head1
    <3>2. Fits(call.op, todo[1])
      BY <2>1, <3>1, HeadFits
    <3>3. ~ Warming
      BY <3>1, <3>2 DEF Warming, Fits, OnlyOn, Moves, Clocks
    <3>4. ~ NoteSoon(todo, 1)
      BY <3>1 DEF NoteSoon, Sets
    <3>5. flags.driving => pins.dout
      BY <2>1, <2>3, <3>3, <3>4 DEF Noted
    <3>6. flags.mask => flags.driving
      BY <2>1 DEF Remembered
    <3> QED BY <3>5, <3>6 DEF WriteNamesInput
  <2> QED BY <2>2, <2>3
<1> QED BY <1>1, PinsHold, PTL

-----------------------------------------------------------------------------
(* The two sides, step by step.  What a place is made of stays the same.     *)

LEMMA TakeLater ==
  ASSUME UNCHANGED board
  PROVE  Take' = Take /\ Release' = Release
BY DEF Take, Release, Driver, Linux, LinuxDriver, LinuxTake, LinuxRelease, ConfigAll, Requests, Fused, OnChipOf

LEMMA FormsLater ==
  ASSUME UNCHANGED board, UNCHANGED cfg
  PROVE  /\ TurnRest' = TurnRest /\ \A n : AskForm(n)' = AskForm(n)
         /\ \A n, r : BackForm(n, r)' = BackForm(n, r)
         /\ \A n, kind : DataForm(n, kind)' = DataForm(n, kind)
         /\ \A a : HasData(a)' <=> HasData(a)
<1>1. Take' = Take /\ Release' = Release
  BY TakeLater
<1> HIDE DEF Take, Release
<1>2. TurnRest' = TurnRest
  BY DEF TurnRest
<1>3. \A n : AskForm(n)' = AskForm(n)
  BY <1>1, <1>2 DEF AskForm
<1>4. \A n, r : BackForm(n, r)' = BackForm(n, r)
  BY <1>1 DEF BackForm
<1>5. \A n, kind : DataForm(n, kind)' = DataForm(n, kind)
  BY <1>1 DEF DataForm, BackForm
<1>6. \A a : HasData(a)' <=> HasData(a)
  BY DEF HasData
<1> QED BY <1>2, <1>3, <1>4, <1>5, <1>6

\* The clock runs while the target is in a transfer.
Counting == target # Quiet => pins.clk /\ target.left > 0
Steps == PutStep \/ ConfigStep \/ NoteStep \/ CycleStep \/ LevelStep
\* A transfer under way, and trusted.
Midway == /\ Lined /\ Counting /\ call.op = "transfer" /\ trust = "all" /\ trust' = "all"
          /\ todo # <<>> /\ (Steps \/ HearStep)

LEMMA MidwayIs ==
  ASSUME Midway
  PROVE  /\ Typed /\ Suited /\ board \in Boards /\ cfg \in Cfg /\ target \in Target /\ todo \in Seq(Step)
         /\ call.rnw \in BOOLEAN /\ todo[1] \in Step /\ Turns(todo[1])
         /\ UNCHANGED <<board, cfg, call>> /\ (pins'.clk <=> pins.clk)
         /\ todo[1].do = "cycles" => CycleStep /\ UNCHANGED pins
         /\ todo[1].do = "hear" => HearStep
         /\ todo[1].do = "level" => Dropped /\ UNCHANGED <<pins, target>>
         /\ Moves(todo[1]) => Dropped /\ Followed /\ UNCHANGED target
<1>1. /\ Lined /\ call.op = "transfer" /\ trust = "all" /\ trust' = "all" /\ todo # <<>>
      /\ Typed /\ Suited
  BY DEF Midway, Lined
<1>2. /\ board \in Boards /\ cfg \in Cfg /\ target \in Target /\ todo \in Seq(Step)
      /\ call.rnw \in BOOLEAN /\ todo[1] \in Step
  BY <1>1, Before DEF Call
<1>3. Turns(todo[1])
  BY <1>1, HeadFits, StillSet
<1>4. CASE HearStep
  <2>1. UNCHANGED <<board, cfg, call, pins>> /\ todo[1].do = "hear"
    BY <1>1, <1>4, HearIs
  <2> QED BY <1>1, <1>2, <1>3, <1>4, <2>1 DEF Moves
<1>5. CASE Steps
  <2>1. Did
    BY <1>1, <1>5, DidLined DEF Steps
  <2>2. UNCHANGED board /\ UNCHANGED cfg /\ call' = call /\ (DidOne \/ DidPart)
    BY <1>1, <2>1, DidIs
  <2>3. pins'.clk <=> pins.clk
    <3>1. CASE DidOne
      BY <1>3, <3>1, FollowedAt, TurnsSet DEF DidOne
    <3>2. CASE DidPart
      BY <3>2, SameAt DEF DidPart
    <3> QED BY <2>2, <3>1, <3>2
  <2>4. todo[1].do = "cycles" => CycleStep /\ UNCHANGED pins
    <3>1. todo[1].do = "cycles" => CycleStep
      BY <1>5 DEF Steps, PutStep, ConfigStep, NoteStep, LevelStep, Doing, Head1
    <3> QED BY <3>1 DEF CycleStep
  <2>5. todo[1].do = "level" => Dropped /\ UNCHANGED <<pins, target>>
    <3>1. todo[1].do = "level" => LevelStep
      BY <1>5 DEF Steps, PutStep, ConfigStep, NoteStep, CycleStep, Doing, Head1
    <3> QED BY <1>1, <3>1 DEF LevelStep, Dropped, Onward
  <2>6. todo[1].do # "hear"
    BY <1>5 DEF Steps, PutStep, ConfigStep, NoteStep, CycleStep, LevelStep, Doing, Head1
  <2>7. ASSUME Moves(todo[1]) PROVE Dropped /\ Followed /\ UNCHANGED target
    <3>1. PutStep \/ ConfigStep \/ NoteStep
      BY <1>5, <2>7 DEF Steps, CycleStep, LevelStep, Doing, Head1, Moves
    <3>2. Dropped /\ UNCHANGED target
      BY <1>1, <3>1 DEF PutStep, ConfigStep, NoteStep, Dropped, Onward
    <3>3. ~ DidPart
      <4>1. Len(todo) = Len(Tail(todo)) + 1 /\ Tail(todo) \in Seq(Step)
        BY <1>1, <1>2, TailAt
      <4> DEFINE m == Len(Tail(todo))
      <4>2. m \in Nat /\ Len(todo) = m + 1 /\ Len(todo') = m
        BY <3>2, <4>1 DEF Dropped
      <4> HIDE DEF m
      <4>3. Len(todo') # Len(todo)
        BY <4>2
      <4> QED BY <4>3 DEF DidPart, Alike
    <3> QED BY <2>2, <3>2, <3>3 DEF DidOne
  <2> QED BY <1>1, <1>2, <1>3, <2>2, <2>3, <2>4, <2>5, <2>6, <2>7
<1> QED BY <1>4, <1>5 DEF Midway

\* A cycle, of the host.
LEMMA CycleGo ==
  ASSUME Midway, NEW n \in Count, NEW kind \in Kinds, NEW r \in Seq(Step),
         todo = <<Cycles(n, kind)>> \o r
  PROVE  /\ target' \in TargetCycle(kind) /\ UNCHANGED pins
         /\ n = 1 => todo' = r
         /\ n # 1 => n - 1 \in Count /\ todo' = <<Cycles(n - 1, kind)>> \o r
<1> DEFINE c == Cycles(n, kind)
<1>1. c \in Step /\ c.do = "cycles" /\ c.n = n /\ c.as = kind
  BY CyclesIs DEF Count
<1>2. todo[1] = c /\ Tail(todo) = r
  BY <1>1, FirstOff
<1> HIDE DEF c
<1>3. CycleStep /\ UNCHANGED pins /\ todo \in Seq(Step)
  BY <1>1, <1>2, MidwayIs
<1>4. Head1.n = n /\ Head1.as = kind
  BY <1>1, <1>2 DEF Head1
<1>5. target' \in TargetCycle(kind)
  <2>1. target' \in TargetCycle(Head1.as) \/ Fault
    BY <1>3 DEF CycleStep
  <2>2. ~ Fault
    BY DEF Midway, Fault
  <2> QED BY <1>4, <2>1, <2>2
<1>6. /\ Head1.n = 1 => todo' = Tail(todo)
      /\ Head1.n # 1 => Head1.n - 1 \in Nat \ {0} /\ todo' = <<Cycles(Head1.n - 1, Head1.as)>> \o Tail(todo)
  BY <1>3, CycleTodo
<1> QED BY <1>2, <1>3, <1>4, <1>5, <1>6 DEF Count

\* A step that moves lines, and one that does nothing.
LEMMA MoveGo ==
  ASSUME Midway, NEW s \in Seq(Step), NEW r \in Seq(Step), s # <<>>, todo = s \o r,
         Moves(s[1])
  PROVE  /\ todo' = Tail(s) \o r /\ UNCHANGED target /\ Tail(s) \in Seq(Step)
         /\ \A l \in Lines : Line(l)' <=> Sets(s[1], l, TRUE) \/ (Line(l) /\ ~ Sets(s[1], l, FALSE))
<1>1. todo[1] = s[1] /\ Tail(todo) = Tail(s) \o r /\ Tail(s) \in Seq(Step)
  BY PrefixOff
<1>2. Dropped /\ Followed /\ UNCHANGED target
  BY <1>1, MidwayIs
<1> QED BY <1>1, <1>2 DEF Dropped, Followed

LEMMA LevelGo ==
  ASSUME Midway, NEW r \in Seq(Step), todo = <<Level>> \o r
  PROVE  todo' = r /\ UNCHANGED <<pins, target>>
<1>1. Level \in Step /\ Level.do = "level"
  BY OthersAre
<1>2. todo[1] = Level /\ Tail(todo) = r
  BY <1>1, FirstOff
<1> QED BY <1>1, <1>2, MidwayIs DEF Dropped

\* A cycle, of the target.
LEMMA TargetGo ==
  ASSUME Counting, target \in Target, NEW kind \in Kinds \ {"reset"}, NEW t \in TargetCycle(kind)
  PROVE  /\ Silent /\ (kind # "write" \/ ~ (pins.clk /\ HostSpeaks)) => t = Quiet
         /\ Silent /\ kind = "write" /\ pins.clk /\ HostSpeaks =>
              t = Phase("request", RequestBits - 1, "none")
         /\ \A at \in Phases \ {"idle"}, n \in Count, a \in Said \cup {"none"} :
              target = Phase(at, n, a) =>
                /\ n # 1 => t = Phase(at, n - 1, a)
                /\ n = 1 => t \in AfterPhase
<1>1. Silent /\ (kind # "write" \/ ~ (pins.clk /\ HostSpeaks)) => t = Quiet
  BY QuietIs DEF Silent, TargetCycle
<1>2. Silent /\ kind = "write" /\ pins.clk /\ HostSpeaks => t = Phase("request", RequestBits - 1, "none")
  BY QuietIs DEF Silent, TargetCycle
<1>3. ASSUME NEW at \in Phases \ {"idle"}, NEW n \in Count, NEW a \in Said \cup {"none"},
             target = Phase(at, n, a)
      PROVE  /\ n # 1 => t = Phase(at, n - 1, a)
             /\ n = 1 => t \in AfterPhase
  <2>1. target.at = at /\ target.left = n /\ target.said = a /\ n \in Nat \ {0}
    BY <1>3, PhaseIs DEF Count
  <2>2. pins.clk
    BY <2>1, QuietIs DEF Counting
  <2>3. t \in IF n > 1 THEN {[target EXCEPT !.left = @ - 1]} ELSE AfterPhase
    BY <2>1, <2>2 DEF TargetCycle
  <2>4. n # 1 => n > 1
    BY <2>1
  <2>5. [target EXCEPT !.left = @ - 1] = Phase(at, n - 1, a)
    BY <1>3 DEF Phase
  <2> QED BY <2>3, <2>4, <2>5
<1> QED BY <1>1, <1>2, <1>3

LEMMA CountingOn ==
  ASSUME Counting, Typed, NEW kind, NEW t \in TargetCycle(kind)
  PROVE  t # Quiet => pins.clk /\ t.left > 0
<1>1. /\ target.left \in Nat /\ cfg.turnaround \in Nat \ {0} /\ AckBits \in Nat \ {0}
      /\ DataBits \in Nat \ {0} /\ target.said \in Said \cup {"none"} /\ target.at \in Phases
  BY Before, Counts DEF Target
<1>2. \A at \in Phases, n \in Nat \ {0}, a \in Said \cup {"none"} : Phase(at, n, a).left > 0
  BY PhaseIs
<1>3. /\ {"turn", "ack", "data", "turnback", "take", "request"} \subseteq Phases
      /\ {"OK", "WAIT", "FAULT"} \subseteq Said \cup {"none"}
  BY DEF Phases, Said
<1>4. \A x \in AfterPhase : x # Quiet => x.left > 0
  <2>1. target.at \in {"request", "turn", "ack", "data", "turnback", "take", "idle"}
    BY <1>1 DEF Phases
  <2> HIDE DEF Phase, Phases, Said, AckBits
  <2>2. CASE target.at = "request"
    BY <1>1, <1>2, <1>3, <2>2, AfterPhaseIs
  <2>3. CASE target.at \in {"turn", "data"}
    BY <1>1, <1>2, <1>3, <2>3, AfterPhaseIs
  <2>4. CASE target.at = "ack"
    BY <1>1, <1>2, <1>3, <2>4, AfterPhaseIs
  <2>5. CASE target.at = "turnback"
    BY <1>1, <1>2, <1>3, <2>5, AfterPhaseIs
  <2>6. CASE target.at \in {"take", "idle"}
    BY <2>6, AfterPhaseIs
  <2> QED BY <2>1, <2>2, <2>3, <2>4, <2>5, <2>6
<1>5. Phase("request", RequestBits - 1, "none").left > 0
  <2>1. RequestBits - 1 \in Nat \ {0} /\ "none" \in Said \cup {"none"}
    OBVIOUS
  <2> QED BY <1>2, <1>3, <2>1
<1>6. target.left > 1 => [target EXCEPT !.left = @ - 1].left > 0
  <2>1. target \in Target
    BY Before
  <2> QED BY <1>1, <2>1 DEF Target
<1>7. ~ pins.clk => t = target
  BY DEF TargetCycle
<1>8. CASE pins.clk
  BY <1>4, <1>5, <1>6, <1>8 DEF TargetCycle, Counting
<1> QED BY <1>7, <1>8 DEF Counting

\* From place to place, each as it is left.
LEMMA PlacesAre ==
  /\ \A n \in 1..RequestBits : Asking(n)' => Places'
  /\ \A s \in Seq(Step) : Releasing(s)' => Places'
  /\ \A n \in Count : Turning(n)' \/ Reading(n)' \/ Giving(n)' \/ Ignoring(n)' => Places'
  /\ Hearing' \/ Skipping' \/ Levelling' \/ Done' => Places'
  /\ \A n \in Count, kind \in {"read", "cycle"} : DataIn(n, kind)' => Places'
  /\ \A n \in Count, r \in Seq(Step) : Back(n, r)' => Places'
  /\ \A s, r \in Seq(Step) : Taking(s, r)' => Places'
BY Zenon DEF Places

LEMMA AskingGo ==
  ASSUME Midway, NEW n \in 1..RequestBits, Asking(n)
  PROVE  Places'
<1> DEFINE k == n - 1
<1>1. board \in Boards /\ cfg \in Cfg /\ UNCHANGED board /\ UNCHANGED cfg /\ target \in Target
  BY MidwayIs
<1>2. /\ TurnRest \in Seq(Step) /\ Release \in Seq(Step) /\ Release # <<>>
      /\ \A i \in DOMAIN Release : Moves(Release[i]) /\ ~ Sets(Release[i], Gate, TRUE)
      /\ \E i \in DOMAIN Release : Sets(Release[i], Gate, FALSE)
  BY <1>1, RestsGood, ReleaseGood DEF Good
<1>3. n \in Count /\ "write" \in Kinds \ {"reset"} /\ RequestBits \in Nat /\ RequestBits > 1
  BY DEF Count, Kinds
<1>4. Release \o TurnRest \in Seq(Step)
  BY <1>2, ConcatAt
<1>5. /\ target' \in TargetCycle("write") /\ UNCHANGED pins
      /\ n = 1 => todo' = Release \o TurnRest
      /\ n # 1 => k \in Count /\ todo' = AskForm(k)
  BY <1>3, <1>4, CycleGo DEF Asking, AskForm
<1>6. Counting
  BY DEF Midway
<1>7. /\ Silent /\ ~ (pins.clk /\ HostSpeaks) => target' = Quiet
      /\ Silent /\ pins.clk /\ HostSpeaks => target' = Phase("request", RequestBits - 1, "none")
      /\ target = Phase("request", n, "none") =>
           /\ n # 1 => target' = Phase("request", k, "none")
           /\ n = 1 => target' \in AfterPhase
  <2>1. "request" \in Phases \ {"idle"} /\ "none" \in Said \cup {"none"}
    BY DEF Phases
  <2> QED BY <1>1, <1>3, <1>5, <1>6, <2>1, TargetGo
<1>8. HostSpeaks' <=> HostSpeaks
  BY <1>1, <1>5 DEF HostSpeaks, ToTarget
<1>9. AskForm(k)' = AskForm(k) /\ TurnRest' = TurnRest
  BY <1>1, FormsLater
<1> HIDE DEF HostSpeaks
<1>10. ASSUME n # 1 PROVE Places'
  <2>1. k \in 1..RequestBits /\ k < RequestBits
    BY <1>3, <1>10
  <2>2. todo' = AskForm(k)
    BY <1>5, <1>10
  <2>3. \/ target' = Quiet /\ ~ (pins'.clk /\ HostSpeaks')
        \/ target' = Phase("request", k, "none")
    <3>1. CASE Silent /\ (n = RequestBits \/ ~ (pins.clk /\ HostSpeaks))
      BY <3>1, <1>5, <1>7, <1>8
    <3>2. CASE target = Phase("request", n, "none")
      BY <3>2, <1>7, <1>10
    <3> QED BY <3>1, <3>2 DEF Asking
  <2> HIDE DEF k
  <2>4. Asking(k)'
    BY <1>9, <2>1, <2>2, <2>3 DEF Asking, Silent, Quiet, Phase
  <2> QED BY <2>1, <2>4, PlacesAre
<1>11. ASSUME n = 1 PROVE Places'
  <2>1. todo' = Release \o TurnRest
    BY <1>5, <1>11
  <2>2. target' = Quiet \/ \E a \in Said : target' = Phase("turn", cfg.turnaround, a)
    <3>1. CASE Silent
      <4>1. ~ (pins.clk /\ HostSpeaks)
        BY <3>1, <1>3, <1>11, QuietIs, PhaseIs DEF Asking, Silent, Quiet, Phase
      <4> QED BY <3>1, <4>1, <1>7
    <3>2. CASE target = Phase("request", n, "none")
      <4>1. target.at = "request" /\ target' \in AfterPhase
        BY <3>2, <1>7, <1>11 DEF Phase
      <4> QED BY <4>1, AfterPhaseIs DEF Said
    <3> QED BY <3>1, <3>2 DEF Asking
  <2>3. PICK s \in Seq(Step) : s = Release
    BY <1>2
  <2>4. /\ s # <<>>
        /\ \A i \in DOMAIN s : Moves(s[i]) /\ ~ Sets(s[i], Gate, TRUE)
        /\ \E i \in DOMAIN s : Sets(s[i], Gate, FALSE)
    BY <1>2, <2>3
  <2>5. Gate' = Gate
    BY <1>1 DEF Gate
  <2>6. todo' = s \o TurnRest'
    BY <1>9, <2>1, <2>3
  <2>7. Releasing(s)'
    BY <1>1, <2>2, <2>4, <2>5, <2>6 DEF Releasing, Silent, In
  <2> QED BY <2>7, PlacesAre
<1> QED BY <1>10, <1>11

LEMMA GateLine ==
  /\ Gate \in {"low", "dout"} /\ Gate \in Lines /\ (GateOff <=> ~ Line(Gate))
  /\ UNCHANGED board => (GateOff' <=> ~ pins'[Gate])
  /\ UNCHANGED <<board, pins>> => (GateOff' <=> GateOff)
BY DEF Gate, GateOff, Line, Lines

LEMMA ReleasingGo ==
  ASSUME Midway, NEW s \in Seq(Step), Releasing(s)
  PROVE  Places'
<1> DEFINE u == Tail(s)
<1>1. /\ board \in Boards /\ cfg \in Cfg /\ UNCHANGED board /\ UNCHANGED cfg /\ target \in Target
      /\ UNCHANGED call
  BY MidwayIs
<1>2. TurnRest \in Seq(Step) /\ TurnRest = <<Cycles(cfg.turnaround, "cycle")>> \o AckRest
  BY <1>1, RestsGood DEF TurnRest
<1>3. /\ 1 \in DOMAIN s /\ u \in Seq(Step)
      /\ \A i \in DOMAIN u : i + 1 \in DOMAIN s /\ u[i] = s[i + 1]
      /\ \A i \in DOMAIN s : i = 1 \/ (i - 1 \in DOMAIN u /\ u[i - 1] = s[i])
  BY TailAt DEF Releasing
<1>4. Moves(s[1]) /\ ~ Sets(s[1], Gate, TRUE)
  BY <1>3 DEF Releasing
<1>5. /\ todo' = u \o TurnRest /\ UNCHANGED target
      /\ \A l \in Lines : Line(l)' <=> Sets(s[1], l, TRUE) \/ (Line(l) /\ ~ Sets(s[1], l, FALSE))
  BY <1>2, <1>4, MoveGo DEF Releasing
<1>6. TurnRest' = TurnRest /\ Gate' = Gate
  BY <1>1, FormsLater DEF Gate
<1>7. GateOff' <=> ~ (Line(Gate) /\ ~ Sets(s[1], Gate, FALSE))
  <2>1. GateOff' <=> ~ pins'[Gate]
    BY <1>1, GateLine
  <2>2. ASSUME NEW g \in {"low", "dout"}
        PROVE  pins'[g] <=> Sets(s[1], g, TRUE) \/ (Line(g) /\ ~ Sets(s[1], g, FALSE))
    BY <1>5 DEF Line, Lines
  <2>3. pins'[Gate] <=> Sets(s[1], Gate, TRUE) \/ (Line(Gate) /\ ~ Sets(s[1], Gate, FALSE))
    BY <2>2, GateLine
  <2> QED BY <1>4, <2>1, <2>3
<1>8. Silent \/ In("turn", cfg.turnaround)
  BY DEF Releasing
<1>9. (Silent \/ In("turn", cfg.turnaround))'
  BY <1>1, <1>5, <1>8 DEF Silent, In, Quiet, Phase
<1>10. ASSUME u # <<>> PROVE Places'
  <2>1. \A i \in DOMAIN u : Moves(u[i]) /\ ~ Sets(u[i], Gate, TRUE)
    BY <1>3 DEF Releasing
  <2>2. GateOff' \/ \E i \in DOMAIN u : Sets(u[i], Gate, FALSE)
    <3>1. CASE GateOff
      BY <3>1, <1>7, GateLine
    <3>2. CASE \E i \in DOMAIN s : Sets(s[i], Gate, FALSE)
      <4>1. PICK i \in DOMAIN s : Sets(s[i], Gate, FALSE)
        BY <3>2
      <4>2. CASE i = 1
        BY <4>1, <4>2, <1>7
      <4>3. CASE i # 1
        BY <4>1, <4>3, <1>3
      <4> QED BY <4>2, <4>3
    <3> QED BY <3>1, <3>2 DEF Releasing
  <2>3. PICK t \in Seq(Step) : t = u
    BY <1>3
  <2> HIDE DEF u
  <2>4. /\ t # <<>> /\ todo' = t \o TurnRest'
        /\ \A i \in DOMAIN t : Moves(t[i]) /\ ~ Sets(t[i], Gate, TRUE)
        /\ GateOff' \/ \E i \in DOMAIN t : Sets(t[i], Gate, FALSE)
    BY <1>5, <1>6, <1>10, <2>1, <2>2, <2>3
  <2>5. Releasing(t)'
    BY <1>6, <1>9, <2>4 DEF Releasing
  <2> QED BY <2>5, PlacesAre
<1>11. ASSUME u = <<>> PROVE Places'
  <2>1. GateOff'
    <3>1. \A i \in DOMAIN s : i = 1
      BY <1>3, <1>11
    <3>2. GateOff \/ Sets(s[1], Gate, FALSE)
      BY <3>1 DEF Releasing
    <3> QED BY <3>2, <1>7, GateLine
  <2>2. todo' = <<Cycles(cfg.turnaround, "cycle")>> \o AckRest
    BY <1>2, <1>5, <1>11, EmptyConcat
  <2>3. PICK n \in Count : n = cfg.turnaround
    BY <1>1, Counts DEF Count
  <2>4. Turning(n)'
    BY <1>1, <1>9, <2>1, <2>2, <2>3 DEF Turning, In
  <2> QED BY <2>4, PlacesAre
<1> QED BY <1>10, <1>11

LEMMA TurningGo ==
  ASSUME Midway, NEW n \in Count, Turning(n)
  PROVE  Places'
<1> DEFINE k == n - 1
<1>1. /\ board \in Boards /\ cfg \in Cfg /\ UNCHANGED board /\ UNCHANGED cfg /\ target \in Target
  BY MidwayIs
<1>2. AckRest \in Seq(Step) /\ "cycle" \in Kinds \ {"reset"}
  BY <1>1, RestsGood DEF Kinds
<1>3. /\ target' \in TargetCycle("cycle") /\ UNCHANGED pins
      /\ n = 1 => todo' = AckRest
      /\ n # 1 => k \in Count /\ todo' = <<Cycles(k, "cycle")>> \o AckRest
  BY <1>2, CycleGo DEF Turning
<1>4. GateOff'
  BY <1>1, <1>3, GateLine DEF Turning
<1>5. Counting
  BY DEF Midway
<1>6. Silent => target' = Quiet
  BY <1>1, <1>2, <1>3, <1>5, TargetGo
<1>7. ASSUME NEW a \in Said, target = Phase("turn", n, a)
      PROVE  /\ n # 1 => target' = Phase("turn", k, a)
             /\ n = 1 => target' = Phase("ack", AckBits, a)
  <2>1. "turn" \in Phases \ {"idle"} /\ a \in Said \cup {"none"} /\ n \in Nat
    BY DEF Phases, Count
  <2>2. /\ n # 1 => target' = Phase("turn", k, a)
        /\ n = 1 => target' \in AfterPhase
    BY <1>1, <1>2, <1>3, <1>5, <1>7, <2>1, TargetGo
  <2>3. target.at = "turn" /\ target.said = a
    BY <1>7, <2>1, PhaseIs
  <2>4. AfterPhase = {Phase("ack", AckBits, a)}
    BY <2>3, AfterPhaseIs
  <2> QED BY <2>2, <2>4
<1>8. Silent \/ In("turn", n)
  BY DEF Turning
<1>9. ASSUME n # 1 PROVE Places'
  <2>1. target' = Quiet \/ \E a \in Said : target' = Phase("turn", k, a)
    BY <1>6, <1>7, <1>8, <1>9 DEF In
  <2>2. k \in Count /\ todo' = <<Cycles(k, "cycle")>> \o AckRest
    BY <1>3, <1>9
  <2> HIDE DEF k
  <2>3. Turning(k)'
    BY <1>4, <2>1, <2>2 DEF Turning, Silent, In, Quiet, Phase
  <2> QED BY <2>2, <2>3, PlacesAre
<1>10. ASSUME n = 1 PROVE Places'
  <2>1. target' = Quiet \/ \E a \in Said : target' = Phase("ack", AckBits, a)
    BY <1>6, <1>7, <1>8, <1>10 DEF In
  <2>2. todo' = <<Cycles(AckBits, "read")>> \o <<Hear>>
    BY <1>3, <1>10 DEF AckRest
  <2>3. AckBits \in Count
    BY <1>1, Counts DEF Count
  <2>4. Reading(AckBits)'
    BY <1>4, <2>1, <2>2 DEF Reading, Silent, In, Quiet, Phase
  <2> QED BY <2>3, <2>4, PlacesAre
<1> QED BY <1>9, <1>10

LEMMA ReadingGo ==
  ASSUME Midway, NEW n \in Count, Reading(n)
  PROVE  Places'
<1> DEFINE k == n - 1
<1>1. /\ board \in Boards /\ cfg \in Cfg /\ UNCHANGED board /\ UNCHANGED cfg /\ target \in Target
      /\ UNCHANGED call
  BY MidwayIs
<1>2. <<Hear>> \in Seq(Step) /\ "read" \in Kinds \ {"reset"}
  BY OneGood DEF Kinds
<1>3. /\ target' \in TargetCycle("read") /\ UNCHANGED pins
      /\ n = 1 => todo' = <<Hear>>
      /\ n # 1 => k \in Count /\ todo' = <<Cycles(k, "read")>> \o <<Hear>>
  BY <1>2, CycleGo DEF Reading
<1>4. GateOff'
  BY <1>1, <1>3, GateLine DEF Reading
<1>5. Counting
  BY DEF Midway
<1>6. Silent => target' = Quiet
  BY <1>1, <1>2, <1>3, <1>5, TargetGo
<1>7. ASSUME NEW a \in Said, target = Phase("ack", n, a)
      PROVE  /\ n # 1 => target' = Phase("ack", k, a)
             /\ n = 1 => target' = IF call.rnw /\ HasData(a) THEN Phase("data", DataBits, a)
                                   ELSE Phase("turnback", cfg.turnaround, a)
  <2>1. "ack" \in Phases \ {"idle"} /\ a \in Said \cup {"none"} /\ n \in Nat
    BY DEF Phases, Count
  <2>2. /\ n # 1 => target' = Phase("ack", k, a)
        /\ n = 1 => target' \in AfterPhase
    BY <1>1, <1>2, <1>3, <1>5, <1>7, <2>1, TargetGo
  <2>3. target.at = "ack" /\ target.said = a
    BY <1>7, <2>1, PhaseIs
  <2>4. AfterPhase = IF call.rnw /\ HasData(a) THEN {Phase("data", DataBits, a)}
                     ELSE {Phase("turnback", cfg.turnaround, a)}
    BY <2>3, AfterPhaseIs
  <2> QED BY <2>2, <2>4
<1>8. Silent \/ In("ack", n)
  BY DEF Reading
<1>9. ASSUME n # 1 PROVE Places'
  <2>1. target' = Quiet \/ \E a \in Said : target' = Phase("ack", k, a)
    BY <1>6, <1>7, <1>8, <1>9 DEF In
  <2>2. k \in Count /\ todo' = <<Cycles(k, "read")>> \o <<Hear>>
    BY <1>3, <1>9
  <2> HIDE DEF k
  <2>3. Reading(k)'
    BY <1>4, <2>1, <2>2 DEF Reading, Silent, In, Quiet, Phase
  <2> QED BY <2>2, <2>3, PlacesAre
<1>10. ASSUME n = 1 PROVE Places'
  <2>1. todo' = <<Hear>>
    BY <1>3, <1>10
  <2>2. CASE Silent
    <3>1. Silent'
      BY <2>2, <1>6 DEF Silent, Quiet
    <3>2. Hearing'
      BY <1>4, <2>1, <3>1 DEF Hearing
    <3> QED BY <3>2, PlacesAre
  <2>3. CASE In("ack", n)
    <3>1. PICK a \in Said : target = Phase("ack", n, a)
      BY <2>3 DEF In
    <3>2. target' = IF call.rnw /\ HasData(a) THEN Phase("data", DataBits, a)
                    ELSE Phase("turnback", cfg.turnaround, a)
      BY <3>1, <1>7, <1>10
    <3>3. target'.said = a
      BY <3>2 DEF Phase
    <3>4. HasData(target.said)' <=> HasData(a)
      BY <1>1, <3>3 DEF HasData
    <3>5. \/ call'.rnw /\ HasData(target.said)' /\ In("data", DataBits)'
          \/ ~ (call'.rnw /\ HasData(target.said)') /\ In("turnback", cfg.turnaround)'
      BY <1>1, <3>2, <3>4 DEF In, Phase
    <3>6. Hearing'
      BY <1>4, <2>1, <3>5 DEF Hearing
    <3> QED BY <3>6, PlacesAre
  <2> QED BY <1>8, <2>2, <2>3
<1> QED BY <1>9, <1>10

\* A cycle, once the ACK is over.
LEMMA NextPhase ==
  ASSUME Midway, NEW kind \in Kinds \ {"reset"}, target' \in TargetCycle(kind),
         NEW n \in Count, NEW a \in Said \cup {"none"}
  PROVE  /\ Silent /\ kind # "write" => target' = Quiet
         /\ target = Phase("data", n, a) =>
              target' = IF n # 1 THEN Phase("data", n - 1, a) ELSE Phase("turnback", cfg.turnaround, a)
         /\ target = Phase("turnback", n, a) =>
              target' = IF n # 1 THEN Phase("turnback", n - 1, a)
                        ELSE IF ~ call.rnw /\ HasData(a) THEN Phase("take", DataBits, a) ELSE Quiet
         /\ target = Phase("take", n, a) =>
              target' = IF n # 1 THEN Phase("take", n - 1, a) ELSE Quiet
<1>1. Counting /\ target \in Target /\ n \in Nat
  BY MidwayIs DEF Midway, Count
<1>2. {"data", "turnback", "take"} \subseteq Phases \ {"idle"}
  BY DEF Phases
<1>3. \A at \in {"data", "turnback", "take"} : target = Phase(at, n, a) =>
        /\ n # 1 => target' = Phase(at, n - 1, a)
        /\ n = 1 => target' \in AfterPhase
  BY <1>1, <1>2, TargetGo
<1>4. \A at \in {"data", "turnback", "take"} : target = Phase(at, n, a) =>
        target.at = at /\ target.said = a
  BY DEF Phase
<1>5. Silent /\ kind # "write" => target' = Quiet
  BY <1>1, TargetGo
<1>6. ASSUME target = Phase("data", n, a)
      PROVE  target' = IF n # 1 THEN Phase("data", n - 1, a) ELSE Phase("turnback", cfg.turnaround, a)
  <2>1. AfterPhase = {Phase("turnback", cfg.turnaround, a)}
    BY <1>4, <1>6, AfterPhaseIs
  <2> QED BY <1>3, <1>6, <2>1
<1>7. ASSUME target = Phase("turnback", n, a)
      PROVE  target' = IF n # 1 THEN Phase("turnback", n - 1, a)
                       ELSE IF ~ call.rnw /\ HasData(a) THEN Phase("take", DataBits, a) ELSE Quiet
  <2>1. AfterPhase = IF ~ call.rnw /\ HasData(a) THEN {Phase("take", DataBits, a)} ELSE {Quiet}
    BY <1>4, <1>7, AfterPhaseIs
  <2> QED BY <1>3, <1>7, <2>1
<1>8. ASSUME target = Phase("take", n, a)
      PROVE  target' = IF n # 1 THEN Phase("take", n - 1, a) ELSE Quiet
  <2>1. AfterPhase = {Quiet}
    BY <1>4, <1>8, AfterPhaseIs
  <2> QED BY <1>3, <1>8, <2>1
<1> QED BY <1>5, <1>6, <1>7, <1>8

LEMMA TargetItself ==
  ASSUME target \in Target
  PROVE  target = Phase(target.at, target.left, target.said)
BY DEF Target, Phase

\* The target has come to rest by the time the host stops.
LEMMA OverGo ==
  ASSUME Midway, NEW kind \in Kinds \ {"reset", "write"}, target' \in TargetCycle(kind),
         NEW n \in Count, Over(n)
  PROVE  /\ n # 1 => Over(n - 1)'
         /\ n = 1 => target' = Quiet
<1> DEFINE m == target.left
           a == target.said
           d == cfg.turnaround
<1>1. /\ target \in Target /\ Counting /\ d \in Nat \ {0} /\ DataBits \in Nat \ {0}
      /\ UNCHANGED board /\ UNCHANGED cfg /\ UNCHANGED call /\ n \in Nat \ {0}
  BY MidwayIs, Counts DEF Midway, Count
<1>2. m \in Nat /\ a \in Said \cup {"none"} /\ target = Phase(target.at, m, a)
  BY <1>1, TargetItself DEF Target
<1>3. \A x : HasData(x)' <=> HasData(x)
  BY <1>1, FormsLater
<1>4. CASE Silent
  <2>1. target' = Quiet
    BY <1>4, <1>1, NextPhase, <1>2
  <2>2. Silent'
    BY <2>1 DEF Silent, Quiet
  <2>3. Over(n - 1)'
    BY <2>2 DEF Over
  <2> QED BY <2>1, <2>3
<1>5. CASE ~ Silent
  <2>1. m \in Count
    BY <1>1, <1>2, <1>5 DEF Counting, Silent, Count
  <2> DEFINE i == m - 1
             k == n - 1
  <2>2. i \in Nat /\ k \in Int
    BY <1>1, <2>1 DEF Count
  <2>3. CASE target.at = "data" /\ call.rnw /\ m + d <= n
    <3>1. target' = IF m # 1 THEN Phase("data", i, a) ELSE Phase("turnback", d, a)
      BY <1>2, <2>1, <2>3, NextPhase
    <3>2. i + d <= k /\ d <= k /\ n # 1
      BY <1>1, <1>2, <2>1, <2>3 DEF Count
    <3> HIDE DEF i, k, d, a
    <3>3. \/ target'.at = "data" /\ target'.left = i
          \/ target'.at = "turnback" /\ target'.left = d
      BY <3>1 DEF Phase
    <3>4. \/ target'.at = "data" /\ call'.rnw /\ target'.left + d <= k
          \/ target'.at = "turnback" /\ target'.left <= k /\ call'.rnw
      BY <1>1, <2>3, <3>2, <3>3
    <3>5. d = cfg'.turnaround
      BY <1>1 DEF d
    <3>6. Over(k)'
      BY <3>4, <3>5 DEF Over
    <3> QED BY <3>2, <3>6 DEF k
  <2>4. CASE /\ target.at = "turnback" /\ m <= n
             /\ (~ call.rnw /\ HasData(a)) => m + DataBits <= n
    <3>1. target' = IF m # 1 THEN Phase("turnback", i, a)
                    ELSE IF ~ call.rnw /\ HasData(a) THEN Phase("take", DataBits, a) ELSE Quiet
      BY <1>2, <2>1, <2>4, NextPhase
    <3>2. CASE m # 1
      <4>1. i <= k /\ ((~ call.rnw /\ HasData(a)) => i + DataBits <= k) /\ n # 1
        BY <1>1, <1>2, <2>1, <2>4, <3>2 DEF Count
      <4>2. target'.at = "turnback" /\ target'.left = i /\ target'.said = a
        BY <3>1, <3>2 DEF Phase
      <4> HIDE DEF i, k, a
      <4>3. HasData(target.said)' <=> HasData(a)
        BY <1>1, <4>2 DEF HasData
      <4>4. Over(k)'
        BY <1>1, <4>1, <4>2, <4>3 DEF Over
      <4> QED BY <4>1, <4>4 DEF k
    <3>3. CASE m = 1 /\ ~ call.rnw /\ HasData(a)
      <4>1. DataBits <= k /\ n # 1
        BY <1>1, <2>4, <3>3
      <4>2. target'.at = "take" /\ target'.left = DataBits
        BY <3>1, <3>3 DEF Phase
      <4> HIDE DEF i, k, a
      <4>3. Over(k)'
        BY <4>1, <4>2 DEF Over
      <4> QED BY <4>1, <4>3 DEF k
    <3>4. CASE m = 1 /\ ~ (~ call.rnw /\ HasData(a))
      <4>1. target' = Quiet
        BY <3>1, <3>4
      <4>2. Over(k)'
        BY <4>1 DEF Over, Silent, Quiet
      <4> QED BY <4>1, <4>2
    <3> QED BY <3>2, <3>3, <3>4
  <2>5. CASE target.at = "take" /\ m <= n
    <3>1. target' = IF m # 1 THEN Phase("take", i, a) ELSE Quiet
      BY <1>2, <2>1, <2>5, NextPhase
    <3>2. CASE m # 1
      <4>1. i <= k /\ n # 1
        BY <1>1, <1>2, <2>1, <2>5, <3>2 DEF Count
      <4>2. target'.at = "take" /\ target'.left = i
        BY <3>1, <3>2 DEF Phase
      <4> HIDE DEF i, k
      <4>3. Over(k)'
        BY <4>1, <4>2 DEF Over
      <4> QED BY <4>1, <4>3 DEF k
    <3>3. CASE m = 1
      <4>1. target' = Quiet
        BY <3>1, <3>3
      <4>2. Over(k)'
        BY <4>1 DEF Over, Silent, Quiet
      <4> QED BY <4>1, <4>2
    <3> QED BY <3>2, <3>3
  <2> QED BY <1>5, <2>3, <2>4, <2>5 DEF Over
<1> QED BY <1>4, <1>5

LEMMA DataInGo ==
  ASSUME Midway, NEW n \in Count, NEW kind \in {"read", "cycle"}, DataIn(n, kind)
  PROVE  Places'
<1> DEFINE k == n - 1
           L == <<Level>>
           d == cfg.turnaround
<1>1. /\ board \in Boards /\ cfg \in Cfg /\ UNCHANGED board /\ UNCHANGED cfg /\ target \in Target
      /\ UNCHANGED call
  BY MidwayIs
<1>2. kind \in Kinds \ {"reset"} /\ d \in Count /\ L \in Rests /\ L \in Seq(Step)
  BY <1>1, Counts, OneGood DEF Kinds, Count, Rests
<1>3. BackForm(d, L) \in Seq(Step)
  BY <1>1, <1>2, BackGood DEF Count
<1>4. /\ target' \in TargetCycle(kind) /\ UNCHANGED pins
      /\ n = 1 => todo' = BackForm(d, L)
      /\ n # 1 => k \in Count /\ todo' = DataForm(k, kind)
  <2>1. todo = <<Cycles(n, kind)>> \o BackForm(d, L)
    BY DEF DataIn, DataForm
  <2> QED BY <1>2, <1>3, <2>1, CycleGo DEF DataForm
<1>5. GateOff' /\ call'.rnw
  BY <1>1, <1>4, GateLine DEF DataIn
<1>6. PICK a \in Said : target = Phase("data", n, a)
  BY DEF DataIn, In
<1>7. target' = IF n # 1 THEN Phase("data", k, a) ELSE Phase("turnback", d, a)
  BY <1>2, <1>4, <1>6, NextPhase
<1>8. /\ \A i, x : DataForm(i, x)' = DataForm(i, x)
      /\ \A i, r : BackForm(i, r)' = BackForm(i, r)
  BY <1>1, FormsLater
<1>9. ASSUME n # 1 PROVE Places'
  <2>1. k \in Count /\ todo' = DataForm(k, kind) /\ target' = Phase("data", k, a)
    BY <1>4, <1>7, <1>9
  <2> HIDE DEF k
  <2>2. DataIn(k, kind)'
    BY <1>5, <1>8, <2>1 DEF DataIn, In, Phase
  <2> QED BY <2>1, <2>2, PlacesAre
<1>10. ASSUME n = 1 PROVE Places'
  <2>1. PICK m \in Count : m = d
    BY <1>2
  <2>2. todo' = BackForm(m, L) /\ target' = Phase("turnback", m, a)
    BY <1>4, <1>7, <1>10, <2>1
  <2> HIDE DEF d
  <2>3. target'.at = "turnback" /\ target'.left = m
    BY <2>2 DEF Phase
  <2>4. target'.left <= m /\ target'.left > 0
    BY <2>3 DEF Count
  <2>5. Over(m)'
    BY <1>5, <2>3, <2>4 DEF Over
  <2>6. Back(m, L)'
    BY <1>5, <1>8, <2>2, <2>4, <2>5 DEF Back, Goes
  <2> QED BY <1>2, <2>6, PlacesAre
<1> QED BY <1>9, <1>10

LEMMA RestsDiffer ==
  ASSUME cfg \in Cfg
  PROVE  GiveRest # <<Level>> /\ SkipRest # <<Level>> /\ <<Level>> \in Seq(Step)
         /\ GiveRest \in Seq(Step) /\ SkipRest \in Seq(Step) /\ IgnoreRest \in Seq(Step)
<1> DEFINE w == Cycles(DataBits, "write")
           c == Cycles(DataBits, "cycle")
           L == <<Level>>
<1>1. w \in Step /\ c \in Step /\ Level \in Step /\ L \in Seq(Step)
  <2>1. {"write", "cycle"} \subseteq Kinds
    BY DEF Kinds
  <2> QED BY <2>1, CyclesIs, OthersAre
<1>2. GiveRest = <<w>> \o L /\ IgnoreRest = <<c>> \o L /\ SkipRest = <<Level>> \o IgnoreRest
  BY DEF GiveRest, IgnoreRest, SkipRest
<1>3. IgnoreRest \in Seq(Step) /\ GiveRest \in Seq(Step) /\ Len(GiveRest) = 2 /\ Len(IgnoreRest) = 2
  <2> HIDE DEF w, c
  <2> QED BY <1>1, <1>2
<1>4. SkipRest \in Seq(Step) /\ Len(SkipRest) = 3
  <2> HIDE DEF w, c
  <2>1. Len(L) = 1
    OBVIOUS
  <2>2. SkipRest \in Seq(Step) /\ Len(SkipRest) = Len(L) + Len(IgnoreRest)
    BY <1>1, <1>2, <1>3, ConcatAt
  <2> QED BY <1>3, <2>1, <2>2
<1>5. Len(L) = 1
  OBVIOUS
<1> HIDE DEF L
<1>6. 2 # 1 /\ 3 # 1
  OBVIOUS
<1>7. GiveRest # L /\ SkipRest # L
  BY <1>3, <1>4, <1>5, <1>6, Zenon
<1> QED BY <1>1, <1>3, <1>4, <1>7 DEF L

LEMMA GoesIs ==
  ASSUME cfg \in Cfg, NEW r, Goes(r)
  PROVE  r \in Rests /\ r \in Seq(Step)
BY RestsDiffer DEF Goes, Rests

LEMMA BackGo ==
  ASSUME Midway, NEW n \in Count, NEW r \in Seq(Step), Back(n, r)
  PROVE  Places'
<1> DEFINE k == n - 1
<1>1. /\ board \in Boards /\ cfg \in Cfg /\ UNCHANGED board /\ UNCHANGED cfg /\ target \in Target
      /\ UNCHANGED call /\ Counting /\ Typed
  BY MidwayIs DEF Midway
<1>2. "cycle" \in Kinds \ {"reset", "write"} /\ Take \in Seq(Step) /\ Take # <<>>
      /\ \A i \in DOMAIN Take : Moves(Take[i])
  BY <1>1, TakeGood DEF Kinds, Good
<1>3. Take \o r \in Seq(Step)
  BY <1>2, ConcatAt
<1>4. /\ target' \in TargetCycle("cycle") /\ UNCHANGED pins
      /\ n = 1 => todo' = Take \o r
      /\ n # 1 => k \in Count /\ todo' = BackForm(k, r)
  <2>1. todo = <<Cycles(n, "cycle")>> \o (Take \o r)
    BY DEF Back, BackForm
  <2> QED BY <1>2, <1>3, <2>1, CycleGo DEF BackForm
<1>5. GateOff' /\ Goes(r)
  BY <1>1, <1>4, GateLine DEF Back
<1>6. BackForm(k, r)' = BackForm(k, r) /\ Take' = Take
  BY <1>1, FormsLater, TakeLater
<1>7. target' # Quiet => target'.left > 0
  BY <1>1, <1>4, CountingOn
<1>8. CASE r = <<Level>>
  <2>1. Over(n)
    BY <1>8 DEF Back
  <2>2. (n # 1 => Over(k)') /\ (n = 1 => target' = Quiet)
    BY <1>2, <1>4, <2>1, OverGo
  <2>3. ASSUME n # 1 PROVE Places'
    <3>1. k \in Count /\ todo' = BackForm(k, r) /\ Over(k)'
      BY <1>4, <2>2, <2>3
    <3> HIDE DEF k
    <3>2. (target.left > 0 \/ Silent)'
      BY <1>7 DEF Silent, Quiet
    <3>3. Back(k, r)'
      BY <1>5, <1>6, <1>8, <3>1, <3>2 DEF Back, Goes
    <3> QED BY <3>1, <3>3, PlacesAre
  <2>4. ASSUME n = 1 PROVE Places'
    <3>1. PICK s \in Seq(Step) : s = Take
      BY <1>2
    <3>2. /\ todo' = s \o r /\ s # <<>> /\ target' = Quiet
          /\ \A i \in DOMAIN s : Moves(s[i])
      BY <1>2, <1>4, <2>2, <2>4, <3>1
    <3>3. Taking(s, r)'
      BY <1>8, <3>2 DEF Taking, Goes, Silent, Quiet
    <3> QED BY <3>3, PlacesAre
  <2> QED BY <2>3, <2>4
<1>9. CASE r # <<Level>>
  <2>1. PICK a \in Said : target = Phase("turnback", n, a)
    BY <1>9 DEF Back, In
  <2>2. target' = IF n # 1 THEN Phase("turnback", k, a)
                  ELSE IF ~ call.rnw /\ HasData(a) THEN Phase("take", DataBits, a) ELSE Quiet
    BY <1>2, <1>4, <2>1, NextPhase
  <2>3. /\ ~ call.rnw
        /\ \/ r = GiveRest /\ a = "OK"
           \/ r = SkipRest /\ a # "OK" /\ cfg.dataPhase
    <3>1. target.said = a
      BY <2>1 DEF Phase
    <3> QED BY <1>5, <1>9, <3>1 DEF Goes
  <2>4. HasData(a)
    BY <2>3 DEF HasData
  <2>5. GiveRest' = GiveRest /\ SkipRest' = SkipRest
    BY DEF GiveRest, SkipRest, IgnoreRest
  <2>6. target'.said = a
    BY <2>2, <2>3, <2>4 DEF Phase
  <2>7. Goes(r)'
    BY <1>1, <2>3, <2>5, <2>6 DEF Goes
  <2>8. ASSUME n # 1 PROVE Places'
    <3>1. k \in Count /\ todo' = BackForm(k, r) /\ target' = Phase("turnback", k, a)
      BY <1>4, <2>2, <2>8
    <3> HIDE DEF k
    <3>2. Back(k, r)'
      BY <1>5, <1>6, <1>9, <2>7, <3>1 DEF Back, In, Phase
    <3> QED BY <3>1, <3>2, PlacesAre
  <2>9. ASSUME n = 1 PROVE Places'
    <3>1. PICK s \in Seq(Step) : s = Take
      BY <1>2
    <3>2. /\ todo' = s \o r /\ s # <<>> /\ target' = Phase("take", DataBits, a)
          /\ \A i \in DOMAIN s : Moves(s[i])
      BY <1>2, <1>4, <2>2, <2>3, <2>4, <2>9, <3>1
    <3>3. Taking(s, r)'
      BY <1>9, <2>7, <3>2 DEF Taking, In, Phase
    <3> QED BY <3>3, PlacesAre
  <2> QED BY <2>8, <2>9
<1> QED BY <1>8, <1>9

LEMMA TakingGo ==
  ASSUME Midway, NEW s \in Seq(Step), NEW r \in Seq(Step), Taking(s, r)
  PROVE  Places'
<1> DEFINE u == Tail(s)
<1>1. UNCHANGED cfg /\ UNCHANGED call /\ cfg \in Cfg
  BY MidwayIs
<1>2. /\ 1 \in DOMAIN s /\ u \in Seq(Step)
      /\ \A i \in DOMAIN u : i + 1 \in DOMAIN s /\ u[i] = s[i + 1]
  BY TailAt DEF Taking
<1>3. todo' = u \o r /\ UNCHANGED target
  BY <1>2, MoveGo DEF Taking
<1>4. GiveRest' = GiveRest /\ SkipRest' = SkipRest
  BY DEF GiveRest, SkipRest, IgnoreRest
<1>5. Goes(r)'
  BY <1>1, <1>3, <1>4 DEF Goes, Taking
<1>6. IF r = <<Level>> THEN target' = Quiet ELSE \E a \in Said : target' = Phase("take", DataBits, a)
  BY <1>3 DEF Taking, Silent, In
<1>7. ASSUME u # <<>> PROVE Places'
  <2>1. PICK t \in Seq(Step) : t = u
    BY <1>2
  <2>2. t # <<>> /\ todo' = t \o r /\ \A i \in DOMAIN t : Moves(t[i])
    BY <1>2, <1>3, <1>7, <2>1 DEF Taking
  <2>3. Taking(t, r)'
    BY <1>5, <1>6, <2>2 DEF Taking, Silent, In, Quiet, Phase
  <2> QED BY <2>3, PlacesAre
<1>8. ASSUME u = <<>> PROVE Places'
  <2>1. todo' = r
    BY <1>3, <1>8, EmptyConcat
  <2>2. Goes(r)
    BY DEF Taking
  <2>3. CASE r = <<Level>>
    <3>1. Levelling'
      BY <1>6, <2>1, <2>3 DEF Levelling, Silent, Quiet
    <3> QED BY <3>1, PlacesAre
  <2>4. CASE r # <<Level>>
    <3>1. PICK a \in Said : target' = Phase("take", DataBits, a)
      BY <1>6, <2>4
    <3>2. target.said = a
      BY <1>3, <3>1 DEF Phase
    <3>3. CASE r = GiveRest /\ a = "OK"
      <4>1. DataBits \in Count
        BY DEF Count
      <4>2. Giving(DataBits)'
        BY <2>1, <3>1, <3>3 DEF Giving, GiveRest, Phase
      <4> QED BY <4>1, <4>2, PlacesAre
    <3>4. CASE r = SkipRest /\ a # "OK"
      <4>1. Skipping'
        BY <1>4, <2>1, <3>1, <3>4 DEF Skipping, In, Phase
      <4> QED BY <4>1, PlacesAre
    <3> QED BY <2>2, <2>4, <3>2, <3>3, <3>4 DEF Goes
  <2> QED BY <2>3, <2>4
<1> QED BY <1>7, <1>8

LEMMA GivingGo ==
  ASSUME Midway, NEW n \in Count, Giving(n)
  PROVE  Places'
<1> DEFINE k == n - 1
<1>1. "write" \in Kinds \ {"reset"} /\ "OK" \in Said \cup {"none"} /\ <<Level>> \in Seq(Step)
  BY OneGood DEF Kinds, Said
<1>2. /\ target' \in TargetCycle("write") /\ UNCHANGED pins
      /\ n = 1 => todo' = <<Level>>
      /\ n # 1 => k \in Count /\ todo' = <<Cycles(k, "write")>> \o <<Level>>
  BY <1>1, CycleGo DEF Giving
<1>3. target' = IF n # 1 THEN Phase("take", k, "OK") ELSE Quiet
  BY <1>1, <1>2, NextPhase DEF Giving
<1>4. ASSUME n # 1 PROVE Places'
  <2>1. k \in Count /\ todo' = <<Cycles(k, "write")>> \o <<Level>> /\ target' = Phase("take", k, "OK")
    BY <1>2, <1>3, <1>4
  <2> HIDE DEF k
  <2>2. Giving(k)'
    BY <2>1 DEF Giving, Phase
  <2> QED BY <2>1, <2>2, PlacesAre
<1>5. ASSUME n = 1 PROVE Places'
  <2>1. Levelling'
    BY <1>2, <1>3, <1>5 DEF Levelling, Silent, Quiet
  <2> QED BY <2>1, PlacesAre
<1> QED BY <1>4, <1>5

LEMMA IgnoringGo ==
  ASSUME Midway, NEW n \in Count, Ignoring(n)
  PROVE  Places'
<1> DEFINE k == n - 1
<1>1. "cycle" \in Kinds \ {"reset"} /\ <<Level>> \in Seq(Step)
  BY OneGood DEF Kinds
<1>2. /\ target' \in TargetCycle("cycle") /\ UNCHANGED pins
      /\ n = 1 => todo' = <<Level>>
      /\ n # 1 => k \in Count /\ todo' = <<Cycles(k, "cycle")>> \o <<Level>>
  BY <1>1, CycleGo DEF Ignoring
<1>3. PICK a \in Said : target = Phase("take", n, a)
  BY DEF Ignoring, In
<1>4. a # "OK"
  BY <1>3 DEF Ignoring, Phase
<1>5. target' = IF n # 1 THEN Phase("take", k, a) ELSE Quiet
  BY <1>1, <1>2, <1>3, NextPhase
<1>6. ASSUME n # 1 PROVE Places'
  <2>1. k \in Count /\ todo' = <<Cycles(k, "cycle")>> \o <<Level>> /\ target' = Phase("take", k, a)
    BY <1>2, <1>5, <1>6
  <2> HIDE DEF k
  <2>2. target'.said # "OK"
    BY <1>4, <2>1 DEF Phase
  <2>3. Ignoring(k)'
    BY <2>1, <2>2 DEF Ignoring, In, Phase
  <2> QED BY <2>1, <2>3, PlacesAre
<1>7. ASSUME n = 1 PROVE Places'
  <2>1. Levelling'
    BY <1>2, <1>5, <1>7 DEF Levelling, Silent, Quiet
  <2> QED BY <2>1, PlacesAre
<1> QED BY <1>6, <1>7

LEMMA LevelsGo ==
  ASSUME Midway, Skipping \/ Levelling
  PROVE  Places'
<1>1. UNCHANGED cfg /\ cfg \in Cfg
  BY MidwayIs
<1>2. CASE Skipping
  <2>1. todo = <<Level>> \o IgnoreRest /\ IgnoreRest \in Seq(Step)
    BY <1>1, <1>2, RestsDiffer DEF Skipping, SkipRest
  <2>2. todo' = IgnoreRest /\ UNCHANGED target
    BY <2>1, LevelGo
  <2>3. PICK a \in Said : target = Phase("take", DataBits, a)
    BY <1>2 DEF Skipping, In
  <2>4. target' = Phase("take", DataBits, a) /\ target'.said # "OK"
    BY <1>2, <2>2, <2>3 DEF Skipping
  <2>5. Ignoring(DataBits)'
    BY <2>2, <2>4 DEF Ignoring, In, IgnoreRest, Phase
  <2>6. DataBits \in Count
    BY DEF Count
  <2> QED BY <2>5, <2>6, PlacesAre
<1>3. CASE Levelling
  <2>1. todo = <<Level>> \o <<>> /\ <<>> \in Seq(Step)
    BY <1>3, Joins DEF Levelling
  <2>2. todo' = <<>> /\ UNCHANGED target
    BY <2>1, LevelGo
  <2>3. Done'
    BY <1>3, <2>2 DEF Done, Levelling, Silent, Quiet
  <2> QED BY <2>3, PlacesAre
<1> QED BY <1>2, <1>3

\* What the host makes of the ACK leads it where the target will be, too.
LEMMA HearingGo ==
  ASSUME Midway, Hearing
  PROVE  Places'
<1> DEFINE d == cfg.turnaround
           L == <<Level>>
<1>1. /\ board \in Boards /\ cfg \in Cfg /\ UNCHANGED board /\ UNCHANGED cfg /\ target \in Target
      /\ UNCHANGED call /\ call.rnw \in BOOLEAN /\ Typed /\ Suited /\ Counting /\ trust = "all"
      /\ HearStep
  <2>1. todo[1].do = "hear"
    <3>1. todo = <<Hear>> /\ Hear.do = "hear"
      BY OthersAre DEF Hearing
    <3> QED BY <3>1
  <2> QED BY <2>1, MidwayIs DEF Midway
<1>2. UNCHANGED <<pins, target>>
  BY <1>1, HearIs
<1>3. PICK ack \in {"OK", "WAIT", "FAULT", "none"} : ack \in Heard /\ todo' = AfterAck(ack, call.rnw)
  BY <1>1, HearIs
<1>4. ack = "none" \/ ack = target.said
  BY <1>1, <1>3 DEF Heard
<1>5. /\ ack = "OK" /\ call.rnw => todo' = DataForm(DataBits, "read")
      /\ ack = "OK" /\ ~ call.rnw => todo' = BackForm(d, GiveRest)
      /\ ack \in {"WAIT", "FAULT"} /\ cfg.dataPhase /\ call.rnw => todo' = DataForm(DataBits, "cycle")
      /\ ack \in {"WAIT", "FAULT"} /\ cfg.dataPhase /\ ~ call.rnw => todo' = BackForm(d, SkipRest)
      /\ ack \in {"WAIT", "FAULT"} /\ ~ cfg.dataPhase => todo' = BackForm(d, L)
      /\ ack = "none" => todo' = BackForm(d + DataBits, L)
  BY <1>1, <1>3, AfterAckIs
<1>6. GateOff'
  BY <1>1, <1>2, GateLine DEF Hearing
<1>7. /\ d \in Count /\ d + DataBits \in Count /\ DataBits \in Count /\ d \in Nat \ {0}
      /\ DataBits \in Nat \ {0}
  BY <1>1, Counts DEF Count
<1>8. /\ L \in Seq(Step) /\ GiveRest \in Seq(Step) /\ SkipRest \in Seq(Step)
      /\ GiveRest # L /\ SkipRest # L
  BY <1>1, RestsDiffer
<1>9. /\ \A i, x : DataForm(i, x)' = DataForm(i, x)
      /\ \A i, r : BackForm(i, r)' = BackForm(i, r)
      /\ \A a : HasData(a)' <=> HasData(a)
      /\ GiveRest' = GiveRest /\ SkipRest' = SkipRest
  BY <1>1, FormsLater DEF GiveRest, SkipRest, IgnoreRest
<1>10. target' = target /\ call' = call /\ cfg' = cfg
  BY <1>1, <1>2
<1>11. (target.left > 0 \/ Silent)'
  BY <1>1, <1>10 DEF Counting, Silent, Quiet
<1> DEFINE m == d + DataBits
<1>12. ASSUME NEW k \in Count, Over(k), todo' = BackForm(k, L)
       PROVE  Places'
  <2>1. Over(k)'
    BY <1>10, <1>12 DEF Over, Silent, Quiet, HasData
  <2>2. Back(k, L)'
    BY <1>6, <1>9, <1>11, <1>12, <2>1 DEF Back, Goes
  <2> QED BY <1>8, <2>2, PlacesAre
<1>13. CASE Silent
  <2>1. ack = "none"
    BY <1>3, <1>4, <1>13, QuietIs DEF Silent
  <2>2. Over(m)
    BY <1>13 DEF Over
  <2> QED BY <1>5, <1>7, <1>12, <2>1, <2>2
<1>14. CASE call.rnw /\ HasData(target.said) /\ In("data", DataBits)
  <2>1. PICK a \in Said : target = Phase("data", DataBits, a)
    BY <1>14 DEF In
  <2>2. target.at = "data" /\ target.left = DataBits /\ target.said = a
    BY <2>1 DEF Phase
  <2>3. CASE ack = "none"
    <3>1. DataBits + d <= m
      BY <1>7
    <3>2. Over(m)
      BY <1>14, <2>2, <3>1 DEF Over
    <3> QED BY <1>5, <1>7, <1>12, <2>3, <3>2
  <2>4. CASE ack = a
    <3>1. \E kind \in {"read", "cycle"} : todo' = DataForm(DataBits, kind)
      BY <1>5, <1>14, <2>2, <2>4 DEF HasData, Said
    <3>2. PICK kind \in {"read", "cycle"} : todo' = DataForm(DataBits, kind)
      BY <3>1
    <3>3. DataIn(DataBits, kind)'
      BY <1>6, <1>9, <1>10, <1>14, <2>1, <3>2 DEF DataIn, In, Phase
    <3> QED BY <1>7, <3>3, PlacesAre
  <2> QED BY <1>4, <2>2, <2>3, <2>4
<1>15. CASE ~ (call.rnw /\ HasData(target.said)) /\ In("turnback", d)
  <2>1. PICK a \in Said : target = Phase("turnback", d, a)
    BY <1>15 DEF In
  <2>2. target.at = "turnback" /\ target.left = d /\ target.said = a
    BY <2>1 DEF Phase
  <2>3. CASE ack = "none"
    <3>1. d <= m /\ d + DataBits <= m
      BY <1>7
    <3>2. Over(m)
      BY <2>2, <3>1 DEF Over
    <3> QED BY <1>5, <1>7, <1>12, <2>3, <3>2
  <2>4. CASE ack = a /\ HasData(a)
    <3>1. ~ call.rnw
      BY <1>15, <2>2, <2>4
    <3>2. \E r \in {GiveRest, SkipRest} : todo' = BackForm(d, r) /\ Goes(r)
      <4>1. CASE a = "OK"
        BY <1>5, <2>2, <2>4, <3>1, <4>1 DEF Goes
      <4>2. CASE a # "OK"
        <5>1. a \in {"WAIT", "FAULT"} /\ cfg.dataPhase
          BY <2>4, <4>2 DEF HasData, Said
        <5> QED BY <1>5, <2>2, <2>4, <3>1, <4>2, <5>1 DEF Goes
      <4> QED BY <4>1, <4>2
    <3>3. PICK r \in {GiveRest, SkipRest} : todo' = BackForm(d, r) /\ Goes(r)
      BY <3>2
    <3>4. Goes(r)'
      BY <1>9, <1>10, <3>3 DEF Goes
    <3>5. PICK k \in Count : k = d
      BY <1>7
    <3>6. r \in Seq(Step) /\ r # <<Level>>
      BY <1>8, <3>3
    <3>7. target' = Phase("turnback", k, a) /\ todo' = BackForm(k, r)
      BY <1>10, <2>1, <3>3, <3>5
    <3> HIDE DEF d, L
    <3>8. Back(k, r)'
      BY <1>6, <1>9, <3>4, <3>6, <3>7 DEF Back, In, Phase
    <3> QED BY <3>6, <3>8, PlacesAre
  <2>5. CASE ack = a /\ ~ HasData(a)
    <3>1. ack \in {"WAIT", "FAULT"} /\ ~ cfg.dataPhase
      BY <2>5 DEF HasData, Said
    <3>2. Over(d)
      BY <1>7, <2>2, <2>5 DEF Over
    <3> QED BY <1>5, <1>7, <1>12, <3>1, <3>2
  <2> QED BY <1>4, <2>2, <2>3, <2>4, <2>5
<1> QED BY <1>13, <1>14, <1>15 DEF Hearing

\* A step of a transfer leads from a place to a place.
LEMMA PlacesGo ==
  ASSUME Midway, Places
  PROVE  Places' /\ Counting'
<1>1. Places'
  <2>1. CASE \E n \in 1..RequestBits : Asking(n)
    BY <2>1, AskingGo
  <2>2. CASE \E s \in Seq(Step) : Releasing(s)
    BY <2>2, ReleasingGo
  <2>3. CASE \E n \in Count : Turning(n) \/ Reading(n) \/ Giving(n) \/ Ignoring(n)
    BY <2>3, TurningGo, ReadingGo, GivingGo, IgnoringGo
  <2>4. CASE Hearing \/ Skipping \/ Levelling
    BY <2>4, HearingGo, LevelsGo
  <2>5. CASE Done
    BY <2>5 DEF Done, Midway
  <2>6. CASE \E n \in Count, kind \in {"read", "cycle"} : DataIn(n, kind)
    BY <2>6, DataInGo
  <2>7. CASE \E n \in Count, r \in Seq(Step) : Back(n, r)
    BY <2>7, BackGo
  <2>8. CASE \E s, r \in Seq(Step) : Taking(s, r)
    BY <2>8, TakingGo
  <2> QED BY <2>1, <2>2, <2>3, <2>4, <2>5, <2>6, <2>7, <2>8, Zenon DEF Places
<1>2. Counting'
  <2>1. Counting /\ Typed /\ (pins'.clk <=> pins.clk) /\ trust' # "none"
    BY MidwayIs DEF Midway
  <2>2. target' = target \/ \E kind : target' \in TargetCycle(kind)
    <3>1. CASE HearStep
      BY <3>1 DEF HearStep
    <3>2. CASE CycleStep
      <4>1. ~ Fault
        BY <2>1 DEF Fault
      <4> QED BY <3>2, <4>1 DEF CycleStep
    <3>3. CASE PutStep \/ ConfigStep \/ NoteStep \/ LevelStep
      BY <3>3 DEF PutStep, ConfigStep, NoteStep, LevelStep
    <3> QED BY <3>1, <3>2, <3>3 DEF Midway, Steps
  <2>3. target' # Quiet => pins.clk /\ target'.left > 0
    BY <2>1, <2>2, CountingOn DEF Counting
  <2> QED BY <2>1, <2>3 DEF Counting, Quiet
<1> QED BY <1>1, <1>2

\* Only a transfer's request brings the target out of its rest.
LEMMA SilentGo ==
  ASSUME Lined, Steps, call.op # "transfer", trust' = "all", Silent
  PROVE  Silent'
<1>1. Typed /\ Suited
  BY DEF Lined
<1>2. Did
  BY DidLined DEF Steps
<1>3. todo # <<>> /\ Fits(call.op, todo[1]) /\ call.op # "none" /\ call.op \in Ops
  BY <1>1, <1>2, DidIs, HeadFits
<1>4. CASE CycleStep
  <2>1. todo[1].do = "cycles" /\ target' \in TargetCycle(todo[1].as)
    <3>1. ~ Fault
      BY DEF Fault
    <3> QED BY <1>4, <3>1 DEF CycleStep, Doing, Head1
  <2>2. todo[1].as # "write"
    BY <1>3, <2>1 DEF Fits, OnlyOn, OnlyOff, Moves, Clocks, Ops
  <2>3. target' = Quiet
    BY <2>1, <2>2, QuietIs DEF TargetCycle, Silent
  <2> QED BY <2>3 DEF Silent, Quiet
<1>5. CASE PutStep \/ ConfigStep \/ NoteStep \/ LevelStep
  BY <1>5 DEF PutStep, ConfigStep, NoteStep, LevelStep, Silent, Quiet
<1> QED BY <1>4, <1>5 DEF Steps

LEMMA PlacesEnd ==
  ASSUME Places, todo = <<>>, board \in Boards, cfg \in Cfg
  PROVE  Silent
<1>1. /\ TurnRest \in Seq(Step) /\ AckRest \in Seq(Step) /\ Release \in Seq(Step) /\ Take \in Seq(Step)
      /\ Take # <<>> /\ <<Level>> \in Seq(Step) /\ <<Hear>> \in Seq(Step)
  BY RestsGood, ReleaseGood, TakeGood, OneGood DEF Good
<1>2. ASSUME NEW n \in Count, NEW kind \in Kinds, NEW r \in Seq(Step)
      PROVE  <<Cycles(n, kind)>> \o r # <<>>
  BY <1>2, CyclesIs, FirstOff DEF Count
<1>3. {"write", "read", "cycle"} \subseteq Kinds
  BY DEF Kinds
<1>4. \A n \in 1..RequestBits : ~ Asking(n)
  <2> SUFFICES ASSUME NEW n \in 1..RequestBits PROVE todo # AskForm(n)
    BY DEF Asking
  <2>1. n \in Count /\ Release \o TurnRest \in Seq(Step)
    BY <1>1, ConcatAt DEF Count
  <2> QED BY <1>2, <1>3, <2>1 DEF AskForm
<1>5. \A s \in Seq(Step) : ~ Releasing(s)
  <2> SUFFICES ASSUME NEW s \in Seq(Step), s # <<>> PROVE todo # s \o TurnRest
    BY DEF Releasing
  <2> QED BY <1>1, PrefixOff
<1>6. \A n \in Count : ~ (Turning(n) \/ Reading(n) \/ Giving(n) \/ Ignoring(n))
  BY <1>1, <1>2, <1>3 DEF Turning, Reading, Giving, Ignoring
<1>7. ~ Hearing /\ ~ Skipping
  <2>1. SkipRest # <<>>
    BY RestsGood
  <2> QED BY <2>1 DEF Hearing, Skipping
<1>8. \A n \in Count, r \in Seq(Step) : BackForm(n, r) # <<>> /\ BackForm(n, r) \in Seq(Step)
  <2> SUFFICES ASSUME NEW n \in Count, NEW r \in Seq(Step)
               PROVE  BackForm(n, r) # <<>> /\ BackForm(n, r) \in Seq(Step)
    OBVIOUS
  <2>1. Take \o r \in Seq(Step)
    BY <1>1, ConcatAt
  <2>2. Cycles(n, "cycle") \in Step
    BY <1>3, CyclesIs DEF Count
  <2> QED BY <2>1, <2>2, FirstOff DEF BackForm
<1>9. \A n \in Count, kind \in {"read", "cycle"} : ~ DataIn(n, kind)
  <2> SUFFICES ASSUME NEW n \in Count, NEW kind \in {"read", "cycle"} PROVE todo # DataForm(n, kind)
    BY DEF DataIn
  <2>1. BackForm(cfg.turnaround, <<Level>>) \in Seq(Step)
    BY <1>1, <1>8, Counts DEF Count
  <2> QED BY <1>2, <1>3, <2>1 DEF DataForm
<1>10. \A n \in Count, r \in Seq(Step) : ~ Back(n, r)
  BY <1>8 DEF Back
<1>11. \A s, r \in Seq(Step) : ~ Taking(s, r)
  BY PrefixOff DEF Taking
<1>12. Levelling \/ Done
  BY <1>4, <1>5, <1>6, <1>7, <1>9, <1>10, <1>11, Zenon DEF Places
<1> QED BY <1>12 DEF Levelling, Done

\* The whole invariant: InStep and Resets, a step at a time.
LEMMA BeginInStep ==
  ASSUME Lined, InStep, Resets, Begins
  PROVE  InStep' /\ Resets'
<1>1. Typed /\ board \in Boards /\ cfg \in Cfg
  BY Before DEF Lined
<1>2. PICK op \in Ops \ {"none"}, rnw \in BOOLEAN, bad \in BOOLEAN, t \in Seq(Step) :
        /\ Start(op, rnw, bad, t)
        /\ op = "transfer" => t = Request
        /\ op = "sequence" => t = <<Cycles(2, "reset")>>
  BY <1>1, BeginsIs DEF Begun
<1>3. /\ call.op = "none" /\ call'.op = op /\ todo' = t
      /\ UNCHANGED <<board, pins, cfg, target, trust>>
  BY <1>2 DEF Start
<1>4. Resets'
  BY <1>2, <1>3 DEF Resets
<1>5. ASSUME trust' = "all"
      PROVE  /\ target' # Quiet => pins'.clk /\ target'.left > 0
             /\ IF call'.op = "transfer" THEN Places' ELSE Silent'
  <2>1. Silent /\ target' = Quiet
    BY <1>3, <1>5 DEF InStep, Silent
  <2>2. Silent'
    BY <2>1 DEF Silent, Quiet
  <2>3. ASSUME op = "transfer" PROVE Places'
    <3>1. todo' = AskForm(RequestBits)
      BY <1>1, <1>2, <1>3, <2>3, RequestIs
    <3>2. AskForm(RequestBits)' = AskForm(RequestBits) /\ RequestBits \in 1..RequestBits
      BY <1>3, FormsLater
    <3>3. Asking(RequestBits)'
      BY <2>2, <3>1, <3>2 DEF Asking
    <3> QED BY <3>2, <3>3, PlacesAre
  <2> QED BY <1>3, <2>1, <2>2, <2>3
<1>6. InStep'
  BY <1>5 DEF InStep, Quiet
<1> QED BY <1>4, <1>6

LEMMA StepInStep ==
  ASSUME Lined, InStep, Resets, Steps \/ HearStep
  PROVE  InStep' /\ Resets'
<1>1. Typed /\ Suited /\ todo # <<>>
  BY DEF Lined, Steps, PutStep, ConfigStep, NoteStep, CycleStep, LevelStep, HearStep, Doing
<1>2. call'.op = call.op /\ (trust' # "none" => trust = trust')
  <2>1. CASE Steps
    BY <1>1, <2>1, DidLined, DidIs DEF Steps
  <2>2. CASE HearStep
    BY <1>1, <2>2, HearIs
  <2> QED BY <2>1, <2>2
<1>3. ASSUME trust' = "all"
      PROVE  Counting' /\ IF call'.op = "transfer" THEN Places' ELSE Silent'
  <2>1. trust = "all" /\ Counting /\ IF call.op = "transfer" THEN Places ELSE Silent
    BY <1>2, <1>3 DEF InStep, Counting
  <2>2. CASE call.op = "transfer"
    <3>1. Midway
      BY <1>1, <1>3, <2>1, <2>2 DEF Midway
    <3> QED BY <1>2, <2>1, <2>2, <3>1, PlacesGo
  <2>3. CASE call.op # "transfer"
    <3>1. Steps
      BY <1>1, <2>3, HearIs
    <3>2. Silent'
      BY <1>3, <2>1, <2>3, <3>1, SilentGo
    <3> QED BY <1>2, <2>3, <3>2 DEF Counting, Silent, Quiet
  <2> QED BY <2>2, <2>3
<1>4. ASSUME call.op = "sequence", trust' # "none", pins'.clk, HostSpeaks'
      PROVE  Silent'
  <2>1. Fits(call.op, todo[1])
    BY <1>1, HeadFits
  <2>2. todo[1].do = "cycles" /\ todo[1].as = "reset"
    BY <1>4, <2>1 DEF Fits, Clocks
  <2>3. CycleStep
    BY <2>2 DEF Steps, PutStep, ConfigStep, NoteStep, LevelStep, HearStep, Doing, Head1
  <2>4. UNCHANGED <<pins, board>> /\ target' \in TargetCycle("reset")
    <3>1. ~ Fault
      BY <1>4 DEF Fault
    <3> QED BY <2>2, <2>3, <3>1 DEF CycleStep, Kept, Head1
  <2>5. pins.clk /\ HostSpeaks
    BY <1>4, <2>4 DEF HostSpeaks, ToTarget
  <2>6. target' = Quiet
    BY <2>4, <2>5 DEF TargetCycle
  <2> QED BY <2>6 DEF Silent, Quiet
<1>5. InStep'
  BY <1>3 DEF InStep, Counting
<1>6. Resets'
  BY <1>2, <1>4 DEF Resets
<1> QED BY <1>5, <1>6

LEMMA ReturnInStep ==
  ASSUME Lined, InStep, Resets, Return
  PROVE  InStep' /\ Resets'
<1>1. Typed /\ board \in Boards /\ cfg \in Cfg
  BY Before DEF Lined
<1>2. /\ todo = <<>> /\ call' = Resting /\ UNCHANGED <<pins, target>>
      /\ \/ trust' = trust
         \/ trust = "none" /\ trust' = "pins"
         \/ trust = "pins" /\ call.op = "sequence" /\ pins.clk /\ HostSpeaks /\ trust' = "all"
  BY <1>1, ReturnIs
<1>3. call'.op = "none"
  BY <1>2 DEF Resting
<1>4. ASSUME trust' = "all" PROVE target' = Quiet
  <2>1. CASE trust = "all" /\ call.op = "transfer"
    <3>1. Silent
      BY <1>1, <1>2, <2>1, PlacesEnd DEF InStep
    <3> QED BY <1>2, <3>1 DEF Silent
  <2>2. CASE trust = "all" /\ call.op # "transfer"
    BY <1>2, <2>2 DEF InStep, Silent
  <2>3. CASE trust = "pins" /\ call.op = "sequence" /\ pins.clk /\ HostSpeaks
    <3>1. todo # << Cycles(2, "reset") >>
      BY <1>2
    <3>2. Silent
      BY <2>3, <3>1 DEF Resets
    <3> QED BY <1>2, <3>2 DEF Silent
  <2> HIDE DEF HostSpeaks
  <2> QED BY <1>2, <1>4, <2>1, <2>2, <2>3
<1>5. InStep'
  BY <1>3, <1>4 DEF InStep, Silent, Quiet
<1>6. Resets'
  BY <1>3 DEF Resets
<1> QED BY <1>5, <1>6

\* Where nothing changes, the place is the same.
LEMMA SamePlaces ==
  ASSUME UNCHANGED <<board, pins, cfg, call, todo, target>>, Places
  PROVE  Places'
<1>1. /\ TurnRest' = TurnRest /\ Release' = Release /\ Take' = Take
      /\ \A n : AskForm(n)' = AskForm(n)
      /\ \A n, r : BackForm(n, r)' = BackForm(n, r)
      /\ \A n, kind : DataForm(n, kind)' = DataForm(n, kind)
      /\ \A a : HasData(a)' <=> HasData(a)
  BY FormsLater, TakeLater
<1>2. /\ GiveRest' = GiveRest /\ SkipRest' = SkipRest /\ IgnoreRest' = IgnoreRest /\ AckRest' = AckRest
      /\ (GateOff' <=> GateOff) /\ Gate' = Gate /\ (Silent' <=> Silent)
      /\ (HostSpeaks' <=> HostSpeaks)
  BY DEF GiveRest, SkipRest, IgnoreRest, AckRest, GateOff, Gate, Silent, Quiet, HostSpeaks, ToTarget
<1>3. \A at, n : In(at, n)' <=> In(at, n)
  BY DEF In, Phase
<1>4. HasData(target.said)' <=> HasData(target.said)
  BY DEF HasData
<1>5. \A n : Over(n)' <=> Over(n)
  BY <1>2, <1>4 DEF Over
<1>6. \A r : Goes(r)' <=> Goes(r)
  BY <1>2 DEF Goes
<1> HIDE DEF HostSpeaks
<1>7. \A n : Asking(n) => Asking(n)'
  BY <1>1, <1>2 DEF Asking, Phase
<1>8. \A s : Releasing(s) => Releasing(s)'
  BY <1>1, <1>2, <1>3 DEF Releasing, In
<1>9. \A n : /\ (Turning(n) => Turning(n)') /\ (Reading(n) => Reading(n)')
             /\ (Giving(n) => Giving(n)') /\ (Ignoring(n) => Ignoring(n)')
  BY <1>1, <1>2, <1>3 DEF Turning, Reading, Giving, Ignoring, Phase
<1>10. (Hearing => Hearing') /\ (Skipping => Skipping') /\ (Levelling => Levelling') /\ (Done => Done')
  BY <1>1, <1>2, <1>3, <1>4 DEF Hearing, Skipping, Levelling, Done, In
<1>11. \A n, kind : DataIn(n, kind) => DataIn(n, kind)'
  BY <1>1, <1>2, <1>3 DEF DataIn
<1>12. \A n, r : Back(n, r) => Back(n, r)'
  BY <1>1, <1>2, <1>3, <1>5, <1>6 DEF Back
<1>13. \A s, r : Taking(s, r) => Taking(s, r)'
  BY <1>2, <1>3, <1>6 DEF Taking
<1> QED BY <1>7, <1>8, <1>9, <1>10, <1>11, <1>12, <1>13, Zenon DEF Places

LEMMA NextInStep ==
  ASSUME IInv, [Next]_vars
  PROVE  IInv'
<1>1. Lined /\ InStep /\ Resets
  BY DEF IInv, Lined
<1>2. Lined'
  BY <1>1, NextLined
<1>3. InStep' /\ Resets'
  <2>1. CASE UNCHANGED vars
    <3>1. UNCHANGED <<board, pins, flags, cfg, call, todo, last, target, faults, trust>>
      BY <2>1 DEF vars
    <3>2. Places => Places'
      BY <3>1, SamePlaces
    <3>3. (Silent' <=> Silent) /\ (HostSpeaks' <=> HostSpeaks)
      BY <3>1 DEF Silent, Quiet, HostSpeaks, ToTarget
    <3>4. InStep'
      BY <1>1, <3>1, <3>2, <3>3 DEF InStep, Quiet
    <3>5. Resets'
      BY <1>1, <3>1, <3>3 DEF Resets
    <3> QED BY <3>4, <3>5
  <2>2. CASE Begins
    BY <1>1, <2>2, BeginInStep
  <2>3. CASE Steps \/ HearStep
    BY <1>1, <2>3, StepInStep
  <2>4. CASE Return
    BY <1>1, <2>4, ReturnInStep
  <2>5. CASE Configure
    <3>1. call.op = "none" /\ UNCHANGED <<pins, call, todo, target, trust>>
      BY <2>5 DEF Configure
    <3>2. InStep'
      BY <1>1, <3>1 DEF InStep, Silent, Quiet
    <3>3. Resets'
      BY <3>1 DEF Resets
    <3> QED BY <3>2, <3>3
  <2> QED BY <2>1, <2>2, <2>3, <2>4, <2>5 DEF Next, Begins, Steps
<1> QED BY <1>2, <1>3 DEF IInv, Lined

LEMMA InitInStep ==
  ASSUME Init
  PROVE  IInv
<1>1. Lined
  BY InitLined
<1>2. call.op = "none" /\ target = Quiet
  BY DEF Init, Resting
<1>3. InStep /\ Resets
  BY <1>2 DEF InStep, Resets, Silent
<1> QED BY <1>1, <1>3 DEF IInv, Lined

LEMMA LineHolds ==
  Spec => []IInv
<1>1. Init => IInv
  BY InitInStep
<1>2. IInv /\ [Next]_vars => IInv'
  BY NextInStep
<1> QED BY <1>1, <1>2, PTL DEF Spec

-----------------------------------------------------------------------------
(* What the places say of the wire.                                          *)

\* Seen from the target: no driver against it, an ACK or a word that is read is
\* driven by it, and a word it takes is a word the host gives.
Shows ==
  /\ TargetDrives => GateOff
  /\ todo # <<>> /\ Clocks(todo[1], "read") => Silent \/ TargetDrives
  /\ todo # <<>> /\ Clocks(todo[1], "write") /\ target.at = "take" => \E n \in Count : Giving(n)

LEMMA InIs ==
  ASSUME NEW at \in Phases, NEW n \in Nat, In(at, n)
  PROVE  target.at = at /\ target.left = n /\ target.said \in Said
BY PhaseIs DEF In

LEMMA HeadCycles ==
  ASSUME NEW n \in Count, NEW kind \in Kinds, NEW r \in Seq(Step),
         todo = <<Cycles(n, kind)>> \o r
  PROVE  todo[1].n = n /\ \A other \in Kinds : Clocks(todo[1], other) <=> other = kind
<1>1. todo[1] = Cycles(n, kind)
  BY CyclesIs, FirstOff DEF Count
<1> QED BY <1>1, CyclesIs DEF Count, Clocks

LEMMA PlacesShow ==
  ASSUME board \in Boards, cfg \in Cfg, Places
  PROVE  Shows
<1>1. /\ TurnRest \in Seq(Step) /\ AckRest \in Seq(Step) /\ Release \in Seq(Step) /\ Take \in Seq(Step)
      /\ <<Level>> \in Seq(Step) /\ <<Hear>> \in Seq(Step) /\ IgnoreRest \in Seq(Step)
  BY RestsGood, ReleaseGood, TakeGood, OneGood DEF Good
<1>2. {"write", "read", "cycle"} \subseteq Kinds
  BY DEF Kinds
<1>3. /\ cfg.turnaround \in Nat /\ DataBits \in Nat /\ AckBits \in Nat
      /\ \A n \in Count : n \in Nat
  BY Counts DEF Count
<1>4. {"request", "turn", "ack", "data", "turnback", "take", "idle"} = Phases
  BY DEF Phases
<1>5. Silent => target.at = "idle"
  BY QuietIs DEF Silent
<1>6. TargetDrives <=> target.at \in {"ack", "data"}
  BY DEF TargetDrives
<1>7. ASSUME NEW s \in Seq(Step), NEW r \in Seq(Step), s # <<>>, todo = s \o r, Moves(s[1])
      PROVE  ~ Clocks(todo[1], "read") /\ ~ Clocks(todo[1], "write")
  <2>1. todo[1] = s[1]
    BY <1>7, PrefixOff
  <2> QED BY <1>7, <2>1 DEF Moves, Clocks
<1>8. /\ \A n \in Nat : In("turn", n) => target.at = "turn"
      /\ \A n \in Nat : In("ack", n) => target.at = "ack"
      /\ \A n \in Nat : In("data", n) => target.at = "data"
      /\ \A n \in Nat : In("turnback", n) => target.at = "turnback"
      /\ \A n \in Nat : In("take", n) => target.at = "take"
  BY <1>4, InIs, Zenon
<1>9. ASSUME NEW n \in 1..RequestBits, Asking(n) PROVE Shows
  <2>1. n \in Count /\ Release \o TurnRest \in Seq(Step)
    BY <1>1, ConcatAt DEF Count
  <2>2. ~ Clocks(todo[1], "read")
    BY <1>2, <1>9, <2>1, HeadCycles DEF Asking, AskForm
  <2>3. target.at \in {"idle", "request"}
    <3>1. "request" \in Phases /\ "none" \in Said \cup {"none"} /\ n \in Nat
      BY <1>3, <1>4, <2>1
    <3> QED BY <1>5, <1>9, <3>1, PhaseIs DEF Asking
  <2> QED BY <1>6, <2>2, <2>3 DEF Shows
<1>10. ASSUME NEW s \in Seq(Step), Releasing(s) PROVE Shows
  <2>1. Moves(s[1]) /\ s # <<>>
    BY <1>10, TailAt DEF Releasing
  <2>2. ~ Clocks(todo[1], "read") /\ ~ Clocks(todo[1], "write")
    BY <1>1, <1>7, <1>10, <2>1 DEF Releasing
  <2>3. target.at \in {"idle", "turn"}
    BY <1>3, <1>5, <1>8, <1>10 DEF Releasing
  <2> QED BY <1>6, <2>2, <2>3 DEF Shows
<1>11. ASSUME NEW n \in Count, Turning(n) PROVE Shows
  <2>1. ~ Clocks(todo[1], "read") /\ ~ Clocks(todo[1], "write")
    BY <1>1, <1>2, <1>11, HeadCycles DEF Turning
  <2> QED BY <1>11, <2>1 DEF Shows, Turning
<1>12. ASSUME NEW n \in Count, Reading(n) PROVE Shows
  <2>1. ~ Clocks(todo[1], "write")
    BY <1>1, <1>2, <1>12, HeadCycles DEF Reading
  <2>2. Silent \/ target.at = "ack"
    BY <1>3, <1>8, <1>12 DEF Reading
  <2> QED BY <1>6, <1>12, <2>1, <2>2 DEF Shows, Reading
<1>13. ASSUME NEW n \in Count, Giving(n) PROVE Shows
  <2>1. ~ Clocks(todo[1], "read")
    BY <1>1, <1>2, <1>13, HeadCycles DEF Giving
  <2>2. target.at = "take"
    <3>1. "take" \in Phases /\ "OK" \in Said \cup {"none"} /\ n \in Nat
      BY DEF Phases, Said, Count
    <3>2. target = Phase("take", n, "OK")
      BY <1>13 DEF Giving
    <3> QED BY <3>1, <3>2, PhaseIs
  <2> QED BY <1>6, <1>13, <2>1, <2>2 DEF Shows
<1>14. ASSUME NEW n \in Count, Ignoring(n) PROVE Shows
  <2>1. ~ Clocks(todo[1], "read") /\ ~ Clocks(todo[1], "write")
    BY <1>1, <1>2, <1>14, HeadCycles DEF Ignoring
  <2>2. target.at = "take"
    BY <1>3, <1>8, <1>14 DEF Ignoring
  <2> QED BY <1>6, <2>1, <2>2 DEF Shows
<1>15. ASSUME Hearing PROVE Shows
  <2>1. todo[1].do = "hear"
    BY <1>15, OthersAre DEF Hearing
  <2> QED BY <1>15, <2>1 DEF Shows, Hearing, Clocks
<1>16. ASSUME Skipping PROVE Shows
  <2>1. todo[1] = Level
    BY <1>1, <1>16, OthersAre, FirstOff DEF Skipping, SkipRest
  <2>2. todo[1].do = "level"
    BY <2>1, OthersAre
  <2>3. target.at = "take"
    BY <1>3, <1>8, <1>16 DEF Skipping
  <2> QED BY <1>6, <2>2, <2>3 DEF Shows, Clocks
<1>17. ASSUME Levelling \/ Done PROVE Shows
  BY <1>5, <1>6, <1>17 DEF Shows, Levelling, Done
<1>18. ASSUME NEW n \in Count, NEW kind \in {"read", "cycle"}, DataIn(n, kind) PROVE Shows
  <2>1. BackForm(cfg.turnaround, <<Level>>) \in Seq(Step)
    BY Counts, BackGood DEF Rests
  <2>2. ~ Clocks(todo[1], "write")
    BY <1>2, <1>18, <2>1, HeadCycles DEF DataIn, DataForm
  <2>3. target.at = "data"
    BY <1>3, <1>8, <1>18 DEF DataIn
  <2> QED BY <1>6, <1>18, <2>2, <2>3 DEF Shows, DataIn
<1>19. ASSUME NEW n \in Count, NEW r \in Seq(Step), Back(n, r) PROVE Shows
  <2>1. Take \o r \in Seq(Step)
    BY <1>1, ConcatAt
  <2>2. ~ Clocks(todo[1], "read") /\ ~ Clocks(todo[1], "write")
    BY <1>2, <1>19, <2>1, HeadCycles DEF Back, BackForm
  <2> QED BY <1>19, <2>2 DEF Shows, Back
<1>20. ASSUME NEW s \in Seq(Step), NEW r \in Seq(Step), Taking(s, r) PROVE Shows
  <2>1. Moves(s[1]) /\ s # <<>>
    BY <1>20, TailAt DEF Taking
  <2>2. ~ Clocks(todo[1], "read") /\ ~ Clocks(todo[1], "write")
    BY <1>7, <1>20, <2>1 DEF Taking
  <2>3. target.at \in {"idle", "take"}
    BY <1>3, <1>5, <1>8, <1>20 DEF Taking
  <2> QED BY <1>6, <2>2, <2>3 DEF Shows
<1> QED BY <1>9, <1>10, <1>11, <1>12, <1>13, <1>14, <1>15, <1>16, <1>17, <1>18, <1>19, <1>20, Zenon
        DEF Places

\* The inductive invariant, of the wire.
LEMMA AllShow ==
  ASSUME IInv, trust = "all"
  PROVE  Shows
<1>1. board \in Boards /\ cfg \in Cfg
  BY Before DEF IInv
<1>2. CASE call.op = "transfer"
  BY <1>1, <1>2, PlacesShow DEF IInv, InStep
<1>3. CASE call.op # "transfer"
  BY <1>3, QuietIs DEF IInv, InStep, Shows, Silent, TargetDrives
<1> QED BY <1>2, <1>3

\* The two sides never drive the wire at once, nor the pin and the buffer the net
\* between them, whatever the target answers and however it is heard: except while
\* the direction line is not the driver's, PortOn under way or the port off, and
\* after a failed ioctl that Err tells of (linuxgpiod.go, SwdioOutEnable).
THEOREM NeverBothDriveAlways ==
  Spec => []NeverBothDrive
<1>1. ASSUME IInv PROVE NeverBothDrive
  <2> SUFFICES ASSUME call.op # "connect", board.dir => pins.dir, Fight
               PROVE  trust # "all" /\ flags.err
    BY DEF NeverBothDrive
  <2>1. Typed /\ Remembered /\ Netted
    BY <1>1 DEF IInv
  <2>2. trust # "all" => flags.err
    BY <2>1 DEF Remembered
  <2>3. ASSUME trust = "all" PROVE FALSE
    <3>1. CASE HostDrives /\ TargetDrives
      <4>1. GateOff
        BY <1>1, <2>3, <3>1, AllShow DEF Shows
      <4>2. board.dir => ~ ToTarget
        BY <4>1 DEF GateOff, Gate, ToTarget
      <4>3. ~ board.dir => ~ pins.dout
        BY <4>1 DEF GateOff, Gate
      <4> QED BY <3>1, <4>2, <4>3 DEF HostDrives
    <3>2. CASE board.shared /\ board.dir /\ pins.dout /\ ~ ToTarget
      BY <2>1, <2>3, <3>2 DEF Netted, Both, ToTarget
    <3> QED BY <3>1, <3>2 DEF Fight
  <2> QED BY <2>2, <2>3
<1> QED BY <1>1, LineHolds, PTL

\* The host and the target agree where they are: what is kept is sampled while the
\* target drives it, a word the target takes is driven to its last bit and counted
\* alike by both, and the target waits for a request when no call is under way
\* (SwdTransfer), for words and requests of any length.
THEOREM EndsInStepAlways ==
  Spec => []EndsInStep
<1>1. ASSUME IInv PROVE EndsInStep
  <2> SUFFICES ASSUME trust = "all"
               PROVE  /\ Doing("cycles") /\ Head1.as = "read" /\ target.at # "idle" => TargetDrives
                      /\ Doing("cycles") /\ target.at = "take" /\ target.said = "OK" /\ Head1.as = "write" =>
                           HostSpeaks /\ target.left = Head1.n
                      /\ call.op = "none" => target.at = "idle"
    BY DEF EndsInStep
  <2>1. Typed /\ Remembered /\ Suited /\ Ending /\ Powered /\ InStep /\ Shows
    BY <1>1, AllShow DEF IInv
  <2>2. Silent => target.at = "idle"
    BY QuietIs DEF Silent
  <2>3. ASSUME Doing("cycles"), Head1.as = "read", target.at # "idle" PROVE TargetDrives
    BY <2>1, <2>2, <2>3 DEF Shows, Clocks, Doing, Head1
  <2>4. ASSUME Doing("cycles"), target.at = "take", target.said = "OK", Head1.as = "write"
        PROVE  HostSpeaks /\ target.left = Head1.n
    <3>1. PICK n \in Count : Giving(n)
      BY <2>1, <2>4 DEF Shows, Clocks, Doing, Head1
    <3>2. todo = <<Cycles(n, "write")>> \o <<Level>> /\ target = Phase("take", n, "OK")
      BY <3>1 DEF Giving
    <3>3. "write" \in Kinds /\ "take" \in Phases /\ "OK" \in Said \cup {"none"} /\ n \in Nat
      BY DEF Kinds, Phases, Said, Count
    <3>4. target.left = Head1.n
      <4>1. <<Level>> \in Seq(Step)
        BY OthersAre, OneGood DEF Good
      <4>2. Head1.n = n
        BY <3>2, <3>3, <4>1, HeadCycles DEF Head1
      <4>3. target.left = n
        BY <3>2, <3>3, PhaseIs
      <4> QED BY <4>2, <4>3
    <3>5. pins.clk /\ call.op = "transfer"
      <4>1. ~ Silent
        BY <2>2, <2>4
      <4> QED BY <2>1, <4>1 DEF InStep, Silent
    <3>6. (board.dir => pins.dir) /\ (~ board.shared => pins.dout)
      BY <2>1, <3>5 DEF Powered, Warming
    <3>7. \A l \in Held("transfer") : Line(l)
      <4>1. board \in Boards /\ cfg \in Cfg
        BY <2>1, Before
      <4>2. NoHear(todo) /\ Still(todo)
        <5> DEFINE c == Cycles(n, "write")
        <5>1. c \in Step /\ NoHear(<<c>>) /\ Still(<<c>>) /\ <<c>> \in Seq(Step)
          BY <3>3, <4>1, OneGood, CyclesIs DEF Count
        <5>2. NoHear(<<Level>>) /\ Still(<<Level>>) /\ <<Level>> \in Seq(Step)
          BY <4>1, OneGood, OthersAre
        <5> HIDE DEF c
        <5>3. NoHear(<<c>> \o <<Level>>) /\ Still(<<c>> \o <<Level>>)
          BY <5>1, <5>2, NoHearConcat, StillConcat
        <5> QED BY <3>2, <5>3 DEF c
      <4>3. ~ call.bad /\ trust # "none"
        BY <2>1, <3>5 DEF Remembered
      <4>4. \A l \in Held("transfer") : EndsOn(todo, l, Line(l))
        BY <2>1, <3>5, <4>2, <4>3 DEF Ending, NoHear
      <4>5. Held("transfer") \subseteq Lines
        BY DEF Held
      <4>6. \A l \in Lines, w \in BOOLEAN, i \in DOMAIN todo : ~ Sets(todo[i], l, w)
        BY <4>2 DEF Still
      <4> QED BY <4>4, <4>5, <4>6 DEF EndsOn
    <3>8. HostSpeaks
      BY <3>6, <3>7 DEF Held, Lines, Line, HostSpeaks, ToTarget
    <3> QED BY <3>4, <3>8
  <2>5. ASSUME call.op = "none" PROVE target.at = "idle"
    BY <2>1, <2>2, <2>5 DEF InStep
  <2> QED BY <2>3, <2>4, <2>5
<1> QED BY <1>1, LineHolds, PTL
=============================================================================
