------------------------------ MODULE SwdLine ------------------------------
(***************************************************************************)
(* The GPIO drivers under probe/bitbang: drivers/bcm2835 (three wirings,   *)
(* a register store per pin) and drivers/linuxgpiod (any wiring, on one    *)
(* chip or several, an ioctl per step, which may fail).  One step is a pin *)
(* or direction change or one SWCLK cycle; the target counts cycles too.   *)
(* SWDIO belongs to one side at a time, and both have to agree when.       *)
(***************************************************************************)
EXTENDS Naturals, Sequences, SequencesExt, FiniteSetsExt

CONSTANTS
  Boards,      \* [driver, shared, dir, chip, pull], see Board
  Turnarounds, \* what SwdConfigure may be given
  SeqRuns,     \* SWDSequence's arguments: sequences of "in", "out", "bad"
  RequestBits, \* 8
  DataBits,    \* 33: a word and its parity
  MaxFaults    \* ioctls that fail (a bound)

\* shared: one pin is SWDIO in and out; dir: a buffer with a direction line;
\* chip: the gpiochip of each line; pull: what the board makes of a direction
\* line nobody drives (TRUE: towards the target).
Board == [driver : {"bcm2835", "linuxgpiod"}, shared : BOOLEAN, dir : BOOLEAN,
          chip : [{"clk", "dout", "dir"} -> Nat], pull : BOOLEAN]

ASSUME LineAssumption ==
  /\ Boards \subseteq {b \in Board : b.shared \/ b.dir}
  /\ Turnarounds \subseteq 1..4 /\ MaxFaults \in Nat
  /\ SeqRuns \subseteq Seq({"in", "out", "bad"})
  /\ RequestBits \in Nat \ {0, 1} /\ DataBits \in Nat \ {0}

AckBits == 3

VARIABLES
  board,
  pins,   \* clk, dout, dir: is it an output; low: the direction line's level
  flags,  \* linuxgpiod's driving, writeMask and err
  cfg,    \* what SwdConfigure was given, and the target goes by
  call,   \* [op, rnw, bad]: the call being served; bad: something went wrong in it
  todo,   \* the steps left of it
  last,   \* the call before
  target, \* [at, left, said]: where the target is in a transfer
  faults,
  trust   \* since an ioctl failed: "none"; "pins" from a PortOn on that went
          \* well; "all" from a line reset behind it that the target heard

vars == <<board, pins, flags, cfg, call, todo, last, target, faults, trust>>

Linux == board.driver = "linuxgpiod"
Resting == [op |-> "none", rnw |-> FALSE, bad |-> FALSE]
Quiet == [at |-> "idle", left |-> 0, said |-> "none"]

Init ==
  /\ board \in Boards
  /\ pins \in [clk : {FALSE}, dout : {FALSE}, dir : {FALSE}, low : BOOLEAN]
  /\ flags = [driving |-> FALSE, mask |-> FALSE, err |-> FALSE]
  /\ cfg \in [turnaround : Turnarounds, dataPhase : BOOLEAN]
  /\ call = Resting /\ todo = <<>> /\ last = Resting /\ target = Quiet
  /\ faults = 0 /\ trust = "all"

-----------------------------------------------------------------------------
(* The steps a call is made of.                                            *)

Put(pin, v) == [do |-> "put", pin |-> pin, v |-> v]           \* a direction, or a level
Config(lines, v) == [do |-> "config", lines |-> lines, v |-> v] \* one SET_CONFIG
Note(driving) == [do |-> "note", driving |-> driving]         \* the flags
Cycles(n, as) == [do |-> "cycles", n |-> n, as |-> as]        \* SWCLK cycles
Hear == [do |-> "hear"]                                       \* the ACK is in
Level == [do |-> "level"]                                     \* pinSWDIOOut

If(c, steps) == IF c THEN steps ELSE <<>>

\* MUTANT of BufferedTake: the pin first.
BufferedTakeLate == <<Put("dout", TRUE), Put("low", TRUE)>>

\* The buffer is pointed at the target before the pin drives it.
BufferedTake == <<Put("low", TRUE), Put("dout", TRUE)>>

\* The three bcm2835 drivers: PortOn, PortOff, SwdioOutEnable ("take") and
\* SwdioOutDisable ("release"), a register store at a time.  Each has its own
\* copy of SwdTransfer, which is Request and AfterAck over these turns.
DriverBidir ==
  [on |-> <<Put("clk", TRUE), Put("dout", TRUE)>>,
   off |-> <<Put("clk", FALSE), Put("dout", FALSE)>>,
   take |-> <<Put("dout", TRUE)>>,
   release |-> <<Put("dout", FALSE)>>]
DriverBidirBuffered ==
  [on |-> <<Put("clk", TRUE), Put("dout", TRUE), Put("dir", TRUE), Put("low", TRUE)>>,
   off |-> <<Put("clk", FALSE), Put("dout", FALSE), Put("dir", FALSE)>>,
   take |-> BufferedTake,
   release |-> <<Put("dout", FALSE), Put("low", FALSE)>>]
DriverSplit ==
  [on |-> <<Put("clk", TRUE), Put("dout", TRUE), Put("dir", TRUE), Put("low", TRUE)>>,
   off |-> <<Put("clk", FALSE), Put("dout", FALSE), Put("dir", FALSE)>>,
   take |-> <<Put("low", TRUE)>>,
   release |-> <<Put("low", FALSE)>>]

\* linuxgpiod claims the lines of a chip in one request, chips in the order
\* their first line is named: SWCLK, SWDIO, the direction line.
OnChipOf(line) ==
  {l \in {"clk", "dout"} \cup (IF board.dir THEN {"dir"} ELSE {}) :
     board.chip[l] = board.chip[line]}
Fused == board.chip.clk = board.chip.dout
Requests ==
  <<OnChipOf("clk")>> \o If(~ Fused, <<OnChipOf("dout")>>)
    \o If(board.dir /\ board.chip.dir \notin {board.chip.clk, board.chip.dout},
          <<OnChipOf("dir")>>)

\* The port turns on and off by one SET_CONFIG to each.
ConfigAll(on) ==
  [k \in 1..Len(Requests) |->
     Config(Requests[k] \cup (IF on /\ "dir" \in Requests[k] THEN {"low"} ELSE {}), on)]

\* SwdioOutEnable and SwdioOutDisable: the direction line by SET_VALUES, the pin,
\* if it is one, by SET_CONFIG, and the driver's own note of whose line it is.
LinuxTake ==
  If(board.dir, <<Put("low", TRUE)>>) \o If(board.shared, <<Config({"dout"}, TRUE)>>)
    \o <<Note(TRUE)>>
LinuxRelease ==
  If(board.shared, <<Config({"dout"}, FALSE)>>) \o If(board.dir, <<Put("low", FALSE)>>)
    \o <<Note(FALSE)>>
LinuxDriver ==
  [on |-> ConfigAll(TRUE) \o <<Note(TRUE)>>, off |-> ConfigAll(FALSE) \o <<Note(FALSE)>>,
   take |-> LinuxTake, release |-> LinuxRelease]

Driver == CASE Linux -> LinuxDriver
            [] ~ Linux /\ ~ board.dir -> DriverBidir
            [] ~ Linux /\ board.dir /\ board.shared -> DriverBidirBuffered
            [] OTHER -> DriverSplit
Take == Driver.take
Release == Driver.release

\* SwdTransfer up to the ACK.
Request ==
  <<Cycles(RequestBits, "write")>> \o Release
    \o <<Cycles(cfg.turnaround, "cycle"), Cycles(AckBits, "read"), Hear>>

AfterOk(rnw) ==
  IF rnw
  THEN <<Cycles(DataBits, "read"), Cycles(cfg.turnaround, "cycle")>> \o Take
  ELSE <<Cycles(cfg.turnaround, "cycle")>> \o Take \o <<Cycles(DataBits, "write")>>

AfterRefusal(rnw) ==
  If(cfg.dataPhase /\ rnw, <<Cycles(DataBits, "cycle")>>)
    \o <<Cycles(cfg.turnaround, "cycle")>> \o Take
    \o If(cfg.dataPhase /\ ~ rnw, <<Level, Cycles(DataBits, "cycle")>>)

\* MUTANT of AfterNothing: the turnaround is forgotten.
AfterNothingShort == <<Cycles(DataBits, "cycle")>> \o Take

\* Neither OK nor WAIT nor FAULT: as long as any data phase takes.
AfterNothing == <<Cycles(cfg.turnaround + DataBits, "cycle")>> \o Take

AfterAck(ack, rnw) ==
  (CASE ack = "OK" -> AfterOk(rnw)
     [] ack \in {"WAIT", "FAULT"} -> AfterRefusal(rnw)
     [] OTHER -> AfterNothing)
    \o <<Level>>

\* An entry of SWDSequence turns the line its own way; the entries run up to the
\* first that is refused.
Entry(s) == IF s = "in" THEN Release \o <<Cycles(1, "in")>> ELSE Take \o <<Cycles(1, "out")>>
Accepted(seqs) == {n \in 0..Len(seqs) : \A j \in 1..n : seqs[j] # "bad"}
EntrySteps(seqs) == FlattenSeq([i \in 1..Max(Accepted(seqs)) |-> Entry(seqs[i])])

\* MUTANT of SequenceSteps: the line is left as the last entry had it.
SequenceStepsOnly(seqs) == EntrySteps(seqs)

\* SWDSequence: the host has the line at the end, unless the call ended where an
\* entry was refused.
SequenceSteps(seqs) ==
  EntrySteps(seqs) \o If(Len(seqs) \in Accepted(seqs), Take)

\* measure borrows SWCLK of a port that is off; bcm2835 only toggles it.
Measure ==
  If(Linux /\ ~ pins.clk, <<Config({"clk"}, TRUE)>>) \o <<Cycles(1, "raw")>>
    \o If(Linux /\ ~ pins.clk, <<Config({"clk"}, FALSE)>>)

-----------------------------------------------------------------------------
(* Who drives what.                                                        *)

ToTarget == IF pins.dir THEN pins.low ELSE board.pull

\* The host's bits reach the target.
HostSpeaks == pins.dout /\ (board.dir => ToTarget)

HostDrives == IF board.dir THEN ToTarget ELSE pins.dout
TargetDrives == target.at \in {"ack", "data"}
Fight ==
  \/ HostDrives /\ TargetDrives
  \/ board.shared /\ board.dir /\ pins.dout /\ ~ ToTarget

\* The target, one cycle on: a line reset (what Sequence clocks), a request it
\* hears, turnaround, its ACK, and the data phase if there is one; no cycle reaches
\* it while SWCLK is an input.
Phase(at, n, said) == [at |-> at, left |-> n, said |-> said]
HasData(said) == said = "OK" \/ cfg.dataPhase
AfterPhase ==
  CASE target.at = "request" ->
         {Quiet} \cup {Phase("turn", cfg.turnaround, a) : a \in {"OK", "WAIT", "FAULT"}}
    [] target.at = "turn" -> {Phase("ack", AckBits, target.said)}
    [] target.at = "ack" /\ call.rnw /\ HasData(target.said) ->
         {Phase("data", DataBits, target.said)}
    [] target.at = "ack" /\ ~ (call.rnw /\ HasData(target.said)) ->
         {Phase("turnback", cfg.turnaround, target.said)}
    [] target.at = "data" -> {Phase("turnback", cfg.turnaround, target.said)}
    [] target.at = "turnback" /\ ~ call.rnw /\ HasData(target.said) ->
         {Phase("take", DataBits, target.said)}
    [] OTHER -> {Quiet}
TargetCycle(as) ==
  IF ~ pins.clk THEN {target}
  ELSE IF as = "reset" /\ HostSpeaks THEN {Quiet}
  ELSE IF target.at = "idle"
  THEN IF as = "write" /\ HostSpeaks THEN {Phase("request", RequestBits - 1, "none")}
       ELSE {target}
  ELSE IF target.left > 1 THEN {[target EXCEPT !.left = @ - 1]}
  ELSE AfterPhase

-----------------------------------------------------------------------------
(* One step.                                                               *)

Head1 == todo[1]
Doing(what) == todo # <<>> /\ Head1.do = what
Onward == todo' = Tail(todo)
Kept == UNCHANGED <<board, cfg, last>>

\* An ioctl fails: it does nothing, and the driver remembers the first.
Fault ==
  /\ Linux /\ faults < MaxFaults /\ faults' = faults + 1
  /\ flags' = [flags EXCEPT !.err = TRUE]
  /\ trust' = "none" /\ call' = [call EXCEPT !.bad = TRUE]
NoFault == UNCHANGED <<faults, flags, trust, call>>

\* A SET_VALUES that names an input is refused, or not, by the kernel.
Names(inputs) ==
  /\ UNCHANGED <<faults, trust, call>>
  /\ flags' \in IF Linux /\ inputs THEN {flags, [flags EXCEPT !.err = TRUE]} ELSE {flags}

PutStep ==
  /\ Doing("put") /\ Onward /\ Kept /\ UNCHANGED target
  /\ \/ pins' = [pins EXCEPT ![Head1.pin] = Head1.v] /\ Names(~ pins.dir)
     \/ Fault /\ UNCHANGED pins

ConfigStep ==
  /\ Doing("config") /\ Onward /\ Kept /\ UNCHANGED target
  /\ \/ /\ pins' = [l \in DOMAIN pins |-> IF l \in Head1.lines THEN Head1.v ELSE pins[l]]
        /\ NoFault
     \/ Fault /\ UNCHANGED pins

NoteStep ==
  /\ Doing("note") /\ Onward /\ Kept /\ UNCHANGED <<target, pins, faults, trust, call>>
  /\ flags' = [flags EXCEPT !.driving = Head1.driving, !.mask = Fused /\ Head1.driving]

\* The lines a bit written names: SWCLK, and SWDIO by the mask or the flag.
WriteNamesInput ==
  \/ ~ pins.clk
  \/ (IF Fused THEN flags.mask ELSE flags.driving) /\ ~ pins.dout

Written == Head1.as \in {"write", "out", "reset"}
CycleStep ==
  /\ Doing("cycles") /\ Kept /\ UNCHANGED pins
  /\ todo' = (IF Head1.n = 1 THEN <<>> ELSE <<[Head1 EXCEPT !.n = @ - 1]>>) \o Tail(todo)
  /\ \/ target' \in TargetCycle(Head1.as)
        /\ Names(IF Written THEN WriteNamesInput ELSE ~ pins.clk)
     \/ Fault /\ target' \in {target} \cup TargetCycle(Head1.as)

LevelStep ==
  /\ Doing("level") /\ Onward /\ Kept /\ UNCHANGED <<target, pins>>
  /\ Names(flags.driving /\ ~ pins.dout) \/ (flags.driving /\ Fault)

\* What the host makes of the three bits: the target's answer, or none it knows;
\* anything, once cycles have been lost.
Heard == IF trust # "all" THEN {"OK", "WAIT", "FAULT", "none"}
         ELSE {"none"} \cup (IF pins.clk THEN {target.said} ELSE {})
HearStep ==
  /\ Doing("hear") /\ Kept /\ UNCHANGED <<pins, flags, target, faults, trust, call>>
  /\ \E ack \in Heard : todo' = AfterAck(ack, call.rnw) \o Tail(todo)

Return ==
  /\ call.op # "none" /\ todo = <<>>
  /\ call' = Resting /\ last' = [call EXCEPT !.bad = @ \/ (call.op = "calibrate" /\ flags.err)]
  /\ trust' = CASE trust = "none" /\ call.op = "connect" /\ ~ call.bad -> "pins"
               [] trust = "pins" /\ call.op = "sequence" /\ pins.clk /\ HostSpeaks -> "all"
               [] OTHER -> trust
  /\ UNCHANGED <<board, pins, flags, cfg, todo, target, faults>>

-----------------------------------------------------------------------------
(* The calls of probe/bitbang.                                             *)

Start(op, rnw, bad, steps) ==
  /\ call.op = "none" /\ last.op # "close"
  /\ call' = [op |-> op, rnw |-> rnw, bad |-> bad] /\ todo' = steps
  /\ UNCHANGED <<board, pins, flags, cfg, last, target, faults, trust>>

Connect == Start("connect", FALSE, FALSE, Driver.on)
Disconnect == Start("disconnect", FALSE, FALSE, Driver.off)
Transfer == \E rnw \in BOOLEAN : Start("transfer", rnw, FALSE, Request)
Sequence == Start("sequence", FALSE, FALSE, <<Cycles(2, "reset")>>)
SWDSequence ==
  \E seqs \in SeqRuns :
    Start("sequences", FALSE, \E i \in 1..Len(seqs) : seqs[i] = "bad", SequenceSteps(seqs))
WritePins == Start("pins", FALSE, FALSE, <<Level, Cycles(1, "raw")>>)
Calibrate == Start("calibrate", FALSE, FALSE, Measure)

\* The kernel takes its lines back; bcm2835 leaves them as they were.
Close == Start("close", FALSE, FALSE, If(Linux, <<Config({"clk", "dout", "dir"}, FALSE)>>))

\* The target is moved along with it, and it is idle.
Configure ==
  /\ call.op = "none" /\ last.op # "close" /\ target.at = "idle"
  /\ cfg' \in [turnaround : Turnarounds, dataPhase : BOOLEAN] \ {cfg}
  /\ last' = Resting
  /\ UNCHANGED <<board, pins, flags, call, todo, target, faults, trust>>

Next ==
  \/ Connect \/ Disconnect \/ Transfer \/ Sequence \/ SWDSequence \/ WritePins
  \/ Calibrate \/ Close \/ Configure
  \/ PutStep \/ ConfigStep \/ NoteStep \/ CycleStep \/ LevelStep \/ HearStep \/ Return

Spec == Init /\ [][Next]_vars

-----------------------------------------------------------------------------
(* Properties. *)

\* The two sides never drive the wire, nor the pin and the buffer the net
\* between them, at once, whatever is answered and however it is heard (linuxgpiod.go
\* SwdioOutEnable); unless the direction line is not the driver's yet, the port
\* being off or PortOn not come to it; or an ioctl failed, which Err then tells,
\* until a PortOn and a line reset have made it good.
NeverBothDrive ==
  Fight =>
    \/ call.op = "connect" \/ (board.dir /\ ~ pins.dir)
    \/ trust # "all" /\ flags.err

\* A bit the host keeps is sampled while the target drives it, if the host heard
\* an ACK at all; a word the target takes is driven by the host to its last bit;
\* and whatever came of a transfer, the target is back waiting for a request
\* when it returns (SwdTransfer).
EndsInStep ==
  trust = "all" =>
    /\ Doing("cycles") /\ Head1.as = "read" /\ target.at # "idle" => TargetDrives
    /\ Doing("cycles") /\ target.at = "take" /\ target.said = "OK" /\ Head1.as = "write" =>
         HostSpeaks /\ target.left = Head1.n
    /\ call.op = "none" => target.at = "idle"

\* While the port is on, every transfer, PortOn and SWDSequence that was not
\* refused leaves the host driving the line, also one that found it released;
\* and no SET_VALUES names a line that is an input (linuxgpiod.go, writeMask).
HostHasLine ==
  trust = "all" /\ pins.clk =>
    /\ call.op = "none" /\ last.op \in {"connect", "transfer", "sequences"} /\ ~ last.bad =>
         HostSpeaks /\ (Linux => flags.driving)
    /\ Doing("cycles") /\ Linux /\ Written => ~ WriteNamesInput
=============================================================================
