--------------------------- MODULE DapLink_proofs ---------------------------
(***************************************************************************)
(* What holds of a remote probe for any calls and any number of resends,   *)
(* whatever the client gives up and however the stream breaks.  A request  *)
(* runs no more often than its list was sent.  A call made when nothing of *)
(* an earlier one was left has its own reply when it succeeds, with the    *)
(* words of its own requests.  The block calls of a client that waits for  *)
(* every reply are those of a local probe.                                 *)
(***************************************************************************)
EXTENDS DapLink, InductionFacts, TLAPS

USE LinkAssumption

-----------------------------------------------------------------------------
(* Whatever the faults: types, and the numbers of what is in flight.           *)

Commands == {"DAP_Transfer", "DAP_SWJ_Pins", "DAP_TransferBlock"}
Outgoing == [id : Nat, call : Calls \cup {Pins}]
Incoming == [id : Nat, cmd : Commands, status : {"OK", "WAIT", "ERROR"}, done : Nat,
             words : Seq(Word)]

ClientTyped ==
  /\ call \in Calls \cup {Pins, NoCall} /\ (pc # "idle" => call \in Calls \cup {Pins})
  /\ pc \in {"idle", "send", "wait", "done"} /\ result \in {"none", "ok", "error"}
  /\ tries \in 0..Resends /\ (pc = "send" => tries < Resends)
  /\ values \in Seq(Word)
  /\ ran \in [DOMAIN call.reqs -> Nat]

StreamTyped ==
  /\ torn \in BOOLEAN /\ up \in BOOLEAN /\ faults \in SUBSET Faults
  /\ requests \in Seq(Outgoing) /\ replies \in Seq(Incoming)

ServerTyped ==
  /\ srv \in [id : Nat, call : Calls \cup {Pins, NoCall}, busy : BOOLEAN, issued : Nat,
              words : Seq(Word)]
  /\ srv.issued <= Len(srv.call.reqs)
  /\ srv = NoPacket \/ (srv.id > 0 /\ srv.call \in Calls \cup {Pins})

Typed == ClientTyped /\ StreamTyped /\ ServerTyped

\* Packets are numbered in the order they were sent, and what the client took, the
\* replies, the packet at the server and the requests follow each other in it.
Ascending(s) == \A i, j \in DOMAIN s : i < j => s[i].id < s[j].id
Between(s, lo, hi) == \A i \in DOMAIN s : lo < s[i].id /\ s[i].id <= hi
Answered == IF srv.busy THEN srv.id - 1 ELSE srv.id

Numbered ==
  /\ asked \in Nat /\ took \in 0..Answered /\ srv.id \in 0..asked /\ first \in 1..(asked + 1)
  /\ Between(replies, took, Answered) /\ Ascending(replies)
  /\ Between(requests, srv.id, asked) /\ Ascending(requests)
  /\ ~up => replies = <<>>

LEMMA CallShape ==
  ASSUME NEW c \in Calls \cup {Pins, NoCall}
  PROVE  /\ c.reqs \in Seq(Request) /\ Len(c.reqs) \in Nat /\ DOMAIN c.reqs = 1..Len(c.reqs)
         /\ Cmd(c) \in Commands
<1>1. c.reqs \in Seq(Request)
  <2>1. CASE c \in Calls
    BY <2>1, CallsAssumption DEF IsCall
  <2>2. CASE c \notin Calls
    <3>1. c.reqs = <<>>
      BY <2>2 DEF Pins, NoCall
    <3>2. <<>> \in Seq(Request)
      OBVIOUS
    <3> QED BY <3>1, <3>2
  <2> QED BY <2>1, <2>2
<1> QED BY <1>1 DEF Cmd, Commands

Reads(c) == {k \in DOMAIN c.reqs : c.reqs[k].op = "read"}

LEMMA ExpectType ==
  ASSUME NEW c \in Calls \cup {Pins, NoCall}
  PROVE  Expect(c) \in Nat
<1>1. IsFiniteSet(DOMAIN c.reqs)
  BY CallShape, FS_Interval
<1>2. Reads(c) \subseteq DOMAIN c.reqs /\ Stamped(c) \subseteq DOMAIN c.reqs
  BY DEF Reads, Stamped
<1>3. Cardinality(Reads(c)) \in Nat /\ Cardinality(Stamped(c)) \in Nat
  BY <1>1, <1>2, FS_Subset, FS_CardinalityType
<1> QED BY <1>3 DEF Expect, Reads

LEMMA WordsOfType ==
  ASSUME NEW reqs, NEW k \in Nat
  PROVE  WordsOf(reqs, k) \in Seq(Word)
<1>1. <<TsWord(k)>> \in Seq(Word) /\ <<DataWord(k)>> \in Seq(Word) /\ <<>> \in Seq(Word)
  BY DEF TsWord, DataWord, Word
<1> QED BY <1>1 DEF WordsOf

\* Taking from the front keeps the order.
LEMMA ShorterInOrder ==
  ASSUME NEW S, NEW s \in Seq(S), NEW n \in 0..Len(s), NEW lo, NEW hi,
         NEW t, t = SubSeq(s, n + 1, Len(s)), Ascending(s), Between(s, lo, hi)
  PROVE  /\ t \in Seq(S) /\ Ascending(t) /\ Between(t, lo, hi)
         /\ n = 1 => Between(t, s[1].id, hi)
<1>1. t \in Seq(S) /\ \A i \in DOMAIN t : i \in Nat \ {0} /\ i + n \in DOMAIN s /\ t[i] = s[i + n]
  OBVIOUS
<1>2. Ascending(t)
  <2> SUFFICES ASSUME NEW i \in DOMAIN t, NEW j \in DOMAIN t, i < j
      PROVE  t[i].id < t[j].id
    BY DEF Ascending
  <2>1. i + n < j + n
    BY <1>1
  <2> QED BY <1>1, <2>1 DEF Ascending
<1>3. Between(t, lo, hi)
  BY <1>1 DEF Between
<1>4. ASSUME n = 1
      PROVE  Between(t, s[1].id, hi)
  <2> SUFFICES ASSUME NEW i \in DOMAIN t PROVE s[1].id < t[i].id /\ t[i].id <= hi
    BY DEF Between
  <2>1. 1 \in DOMAIN s /\ 1 < i + n /\ i + n \in DOMAIN s /\ t[i] = s[i + n]
    BY <1>1, <1>4
  <2> QED BY <2>1 DEF Ascending, Between
<1> QED BY <1>1, <1>2, <1>3, <1>4

LEMMA TailInOrder ==
  ASSUME NEW S, NEW s \in Seq(S), s # <<>>, NEW lo, NEW hi,
         Ascending(s), Between(s, lo, hi), NEW t, t = Tail(s)
  PROVE  t \in Seq(S) /\ Ascending(t) /\ Between(t, s[1].id, hi)
<1> DEFINE n == 1
<1>1. n \in 0..Len(s) /\ t = SubSeq(s, n + 1, Len(s)) /\ n = 1
  OBVIOUS
<1> HIDE DEF n
<1>2. t \in Seq(S) /\ Ascending(t) /\ Between(t, lo, hi) /\ (n = 1 => Between(t, s[1].id, hi))
  BY <1>1, ShorterInOrder
<1> QED BY <1>1, <1>2

\* Adding what has a greater number keeps it too.
LEMMA LongerInOrder ==
  ASSUME NEW S, NEW s \in Seq(S), \A e \in S : e.id \in Nat, NEW x \in S,
         NEW lo \in Int, NEW hi \in Int, NEW top \in Int,
         Ascending(s), Between(s, lo, hi), lo < x.id, hi < x.id, x.id <= top, hi <= top,
         NEW t, t = Append(s, x)
  PROVE  t \in Seq(S) /\ Ascending(t) /\ Between(t, lo, top)
<1>1. /\ t \in Seq(S) /\ Len(t) = Len(s) + 1 /\ Len(s) \in Nat /\ t[Len(s) + 1] = x
      /\ \A i \in DOMAIN s : t[i] = s[i]
      /\ \A i \in DOMAIN t : i \in DOMAIN s \/ i = Len(s) + 1
      /\ \A i \in DOMAIN s : i \in Nat /\ i < Len(s) + 1 /\ s[i].id \in Nat
  OBVIOUS
<1>2. \A i \in DOMAIN t : t[i].id \in Nat /\ lo < t[i].id /\ t[i].id <= top
  BY <1>1 DEF Between
<1>3. ASSUME NEW i \in DOMAIN t, NEW j \in DOMAIN t, i < j
      PROVE  t[i].id < t[j].id
  <2>1. i \in DOMAIN s
    BY <1>1, <1>3
  <2>2. CASE j \in DOMAIN s
    BY <1>1, <1>3, <2>1, <2>2 DEF Ascending
  <2>3. CASE j = Len(s) + 1
    <3>1. s[i].id <= hi /\ s[i].id \in Nat /\ x.id \in Nat
      BY <1>1, <2>1 DEF Between
    <3>2. t[j] = x /\ t[i] = s[i]
      BY <1>1, <2>1, <2>3
    <3> QED BY <3>1, <3>2
  <2> QED BY <1>1, <2>2, <2>3
<1> QED BY <1>1, <1>2, <1>3 DEF Ascending, Between

LEMMA NoPacketTyped ==
  NoPacket \in [id : Nat, call : Calls \cup {Pins, NoCall}, busy : BOOLEAN, issued : Nat,
                words : Seq(Word)]
  /\ Len(NoCall.reqs) = 0 /\ DOMAIN NoCall.reqs = {}
<1>1. <<>> \in Seq(Word)
  OBVIOUS
<1> QED BY <1>1 DEF NoPacket, NoCall

LEMMA InitInOrder == Init => Typed /\ Numbered
<1> SUFFICES ASSUME Init PROVE Typed /\ Numbered
  OBVIOUS
<1> USE DEF Init
<1>1. <<>> \in Seq(Word) /\ <<>> \in Seq(Outgoing) /\ <<>> \in Seq(Incoming)
  OBVIOUS
<1>2. Len(NoCall.reqs) = 0 /\ DOMAIN NoCall.reqs = {}
  BY DEF NoCall
<1>3. NoPacket \in [id : Nat, call : Calls \cup {Pins, NoCall}, busy : BOOLEAN,
                    issued : Nat, words : Seq(Word)]
  BY <1>1 DEF NoPacket
<1>4. NoPacket.id = 0 /\ NoPacket.issued = 0 /\ NoPacket.call = NoCall
  BY DEF NoPacket
<1>5. <<>> \in [DOMAIN NoCall.reqs -> Nat]
  BY <1>2
<1>6. Typed
  <2>1. ClientTyped
    BY <1>1, <1>5 DEF ClientTyped
  <2>2. StreamTyped
    BY <1>1 DEF StreamTyped
  <2>3. ServerTyped
    BY <1>2, <1>3, <1>4 DEF ServerTyped
  <2> QED BY <2>1, <2>2, <2>3 DEF Typed
<1>7. Numbered
  BY <1>4 DEF Numbered, Between, Ascending, Answered, NoPacket
<1> QED BY <1>6, <1>7

\* The client's own steps that leave the stream and the server alone.
LEMMA ClientInOrder ==
  ASSUME Typed, Numbered, Call \/ Refuse \/ EmptyBlock \/ ReadFails
  PROVE  Typed' /\ Numbered'
<1>1. UNCHANGED <<asked, first, took, requests, replies, torn, up, faults, srv>>
  BY DEF Call, Refuse, EmptyBlock, ReadFails, stream
<1>2. Numbered'
  BY <1>1 DEF Numbered, Between, Ascending, Answered
<1> USE DEF Typed
<1>3. StreamTyped' /\ ServerTyped'
  BY <1>1 DEF StreamTyped, ServerTyped
<1>4. CASE Call
  <2>1. /\ call' \in Calls \cup {Pins} /\ pc' = "send" /\ tries' = 0
        /\ ran' = [k \in DOMAIN call'.reqs |-> 0] /\ UNCHANGED <<result, values>>
    BY <1>4 DEF Call
  <2>2. ran' \in [DOMAIN call'.reqs -> Nat]
    BY <2>1
  <2>3. 0 \in 0..Resends /\ 0 < Resends
    OBVIOUS
  <2> QED BY <1>2, <1>3, <2>1, <2>2, <2>3 DEF ClientTyped
<1>5. CASE Refuse \/ EmptyBlock \/ ReadFails
  <2>1. /\ pc' = "done" /\ result' \in {"ok", "error"} /\ values' = <<>>
        /\ UNCHANGED <<call, tries, ran>>
    BY <1>5 DEF Refuse, EmptyBlock, ReadFails, Returns
  <2>2. values' \in Seq(Word)
    BY <2>1
  <2>3. pc # "idle"
    BY <1>5 DEF Refuse, EmptyBlock, ReadFails
  <2> QED BY <1>2, <1>3, <2>1, <2>2, <2>3 DEF ClientTyped
<1> QED BY <1>4, <1>5

LEMMA SendInOrder ==
  ASSUME Typed, Numbered, Send
  PROVE  Typed' /\ Numbered'
<1> DEFINE p == [id |-> asked + 1, call |-> call]
<1>1. /\ pc = "send" /\ pc' = "wait" /\ tries' = tries + 1 /\ asked' = asked + 1
      /\ requests' = Append(requests, p)
      /\ UNCHANGED <<call, result, values, first, took, replies, torn, up, faults, srv, ran>>
  BY DEF Send
<1>2. /\ requests \in Seq(Outgoing) /\ asked \in Nat /\ srv.id \in 0..asked
      /\ Ascending(requests) /\ Between(requests, srv.id, asked)
  BY DEF Typed, StreamTyped, Numbered
<1>3. p \in Outgoing /\ p.id = asked + 1
  BY <1>1, <1>2 DEF Typed, ClientTyped, Outgoing
<1>4. /\ requests' \in Seq(Outgoing) /\ Ascending(requests')
      /\ Between(requests', srv.id, asked + 1)
  <2> DEFINE lo == srv.id
             top == asked + 1
             t == Append(requests, p)
  <2>1. \A e \in Outgoing : e.id \in Nat
    BY DEF Outgoing
  <2>2. /\ lo \in Int /\ asked \in Int /\ top \in Int
        /\ lo < p.id /\ asked < p.id /\ p.id <= top /\ asked <= top
    BY <1>2, <1>3
  <2>3. Between(requests, lo, asked) /\ t = Append(requests, p) /\ requests' = t
    BY <1>1, <1>2
  <2>4. t \in Seq(Outgoing) /\ Ascending(t) /\ Between(t, lo, top)
    <3> HIDE DEF p, lo, top, t
    <3> QED BY <1>2, <1>3, <2>1, <2>2, <2>3, LongerInOrder
  <2> QED BY <2>3, <2>4
<1>5. Numbered'
  <2>1. asked' \in Nat /\ srv.id \in 0..asked' /\ first \in 1..(asked' + 1)
    BY <1>1 DEF Numbered
  <2>2. Between(requests', srv'.id, asked') /\ Answered' = Answered
    BY <1>1, <1>4 DEF Answered
  <2> QED BY <1>1, <1>4, <2>1, <2>2 DEF Numbered, Between, Ascending
<1>6. ClientTyped'
  BY <1>1 DEF Typed, ClientTyped
<1>7. Typed'
  BY <1>1, <1>4, <1>6 DEF Typed, StreamTyped, ServerTyped
<1> QED BY <1>5, <1>7

\* A reply is taken: it is from later than the one taken before.
LEMMA ReceiveInOrder ==
  ASSUME Typed, Numbered, Receive
  PROVE  Typed' /\ Numbered'
<1> DEFINE r == Head(replies)
<1>1. /\ pc = "wait" /\ ~torn /\ replies # <<>> /\ took' = r.id /\ replies' = Tail(replies)
      /\ UNCHANGED <<call, tries, first, asked, requests, torn, up, faults, srv, ran>>
  BY DEF Receive
<1>2. /\ replies \in Seq(Incoming) /\ Between(replies, took, Answered) /\ Ascending(replies)
      /\ took \in 0..Answered /\ srv.id \in 0..asked /\ asked \in Nat
  BY DEF Typed, StreamTyped, Numbered
<1>3. 1 \in DOMAIN replies /\ r = replies[1] /\ 1 \in 0..Len(replies)
  BY <1>1, <1>2
<1>4. r \in Incoming /\ took < r.id /\ r.id <= Answered
  BY <1>2, <1>3 DEF Between
<1>5. /\ replies' \in Seq(Incoming) /\ Ascending(replies')
      /\ Between(replies', r.id, Answered)
  <2> DEFINE hi == Answered
             t == Tail(replies)
  <2>1. replies' = t /\ t = Tail(replies) /\ Between(replies, took, hi) /\ replies # <<>>
    BY <1>1, <1>2
  <2>2. t \in Seq(Incoming) /\ Ascending(t) /\ Between(t, replies[1].id, hi)
    <3> HIDE DEF hi, t
    <3> QED BY <1>2, <2>1, TailInOrder
  <2> QED BY <1>3, <2>1, <2>2
<1>6. Answered \in Int /\ Answered <= srv.id /\ Answered' = Answered
  BY <1>1, <1>2 DEF Answered
<1>7. took' \in 0..Answered'
  <2> DEFINE i == r.id  hi == Answered
  <2>1. i \in Nat /\ i <= hi /\ hi \in Int
    BY <1>4, <1>6 DEF Incoming
  <2>2. took' = i /\ Answered' = hi
    BY <1>1, <1>6
  <2> HIDE DEF i, hi
  <2> QED BY <2>1, <2>2
<1>8. Numbered'
  <2>1. Between(replies', took', Answered')
    BY <1>1, <1>5, <1>6
  <2>2. ~up' => replies' = <<>>
    BY <1>1 DEF Numbered
  <2> QED BY <1>1, <1>5, <1>7, <2>1, <2>2 DEF Numbered, Between, Ascending
<1>9. /\ pc' \in {"done", "send"} /\ result' \in {"none", "ok", "error"}
      /\ values' \in Seq(Word) /\ (pc' = "send" => tries < Resends)
  <2> HIDE DEF r
  <2>1. \/ Accepts(r) /\ Returns("ok", Collected(r))
        \/ Resent(r)
        \/ Returns("error", <<>>)
    BY DEF Receive, r
  <2>2. CASE Accepts(r) /\ Returns("ok", Collected(r))
    <3> DEFINE ws == r.words
    <3>1. ws \in Seq(Word) /\ Expect(call) \in Nat /\ Expect(call) <= Len(ws)
      BY <1>4, <2>2, ExpectType DEF Accepts, Incoming, Typed, ClientTyped
    <3>2. SubSeq(ws, 1, Expect(call)) \in Seq(Word)
      <4> HIDE DEF ws
      <4> QED BY <3>1
    <3> QED BY <2>2, <3>2 DEF Returns, Collected
  <2>3. CASE Resent(r)
    BY <2>3 DEF Resent, Typed, ClientTyped
  <2>4. CASE Returns("error", <<>>)
    <3>1. <<>> \in Seq(Word)
      OBVIOUS
    <3> QED BY <2>4, <3>1 DEF Returns
  <2> QED BY <2>1, <2>2, <2>3, <2>4
<1>10. Typed'
  <2>1. ClientTyped'
    BY <1>1, <1>9 DEF Typed, ClientTyped
  <2>2. StreamTyped' /\ ServerTyped'
    BY <1>1, <1>5 DEF Typed, StreamTyped, ServerTyped
  <2> QED BY <2>1, <2>2 DEF Typed
<1> QED BY <1>8, <1>10

\* What is left of the replies, when some are dropped from the front, is in order.
LEMMA DropInOrder ==
  ASSUME Typed, Numbered, TimeOut \/ ReceiveTorn
  PROVE  Typed' /\ Numbered'
<1>1. /\ pc' = "done" /\ result' = "error" /\ values' = <<>> /\ torn' \in BOOLEAN
      /\ pc = "wait" /\ UNCHANGED <<call, tries, first, asked, took, requests, up, faults, srv, ran>>
  BY DEF TimeOut, ReceiveTorn, Returns, Typed, StreamTyped
<1>2. /\ replies \in Seq(Incoming) /\ Between(replies, took, Answered) /\ Ascending(replies)
  BY DEF Typed, StreamTyped, Numbered
<1>3. \E n \in 0..Len(replies) : replies' = SubSeq(replies, n + 1, Len(replies))
  <2>1. CASE replies' = replies
    <3>1. 0 \in 0..Len(replies) /\ replies = SubSeq(replies, 0 + 1, Len(replies))
      BY <1>2
    <3> QED BY <2>1, <3>1
  <2>2. CASE replies # <<>> /\ replies' = Tail(replies)
    <3>1. 1 \in 0..Len(replies) /\ Tail(replies) = SubSeq(replies, 1 + 1, Len(replies))
      BY <1>2, <2>2
    <3> QED BY <2>2, <3>1
  <2> QED BY <2>1, <2>2 DEF TimeOut, ReceiveTorn
<1>4. replies' \in Seq(Incoming) /\ Ascending(replies') /\ Between(replies', took, Answered)
  BY <1>2, <1>3, ShorterInOrder
<1>5. ~up => replies' = <<>>
  <2> SUFFICES ASSUME ~up PROVE replies' = <<>>
    OBVIOUS
  <2>1. replies = <<>>
    BY DEF Numbered
  <2> QED BY <1>3, <2>1
<1>6. Numbered'
  BY <1>1, <1>4, <1>5 DEF Numbered, Between, Ascending, Answered
<1>7. values' \in Seq(Word)
  BY <1>1
<1>8. Typed'
  BY <1>1, <1>4, <1>7 DEF Typed, ClientTyped, StreamTyped, ServerTyped
<1> QED BY <1>6, <1>8

LEMMA ReturnInOrder ==
  ASSUME Typed, Numbered, Return
  PROVE  Typed' /\ Numbered'
<1>1. /\ call' = NoCall /\ pc' = "idle" /\ tries' = 0 /\ result' = "none" /\ values' = <<>>
      /\ ran' = <<>> /\ UNCHANGED <<requests, replies, torn, up, faults>>
  BY DEF Return
<1>2. ClientTyped'
  <2>1. values' \in Seq(Word) /\ ran' \in [DOMAIN call'.reqs -> Nat]
    BY <1>1 DEF NoCall
  <2> QED BY <1>1, <2>1 DEF ClientTyped
<1>3. StreamTyped'
  BY <1>1 DEF Typed, StreamTyped
<1>4. CASE InFlight
  <2>1. first' = asked + 1 /\ UNCHANGED <<asked, took, srv>>
    BY <1>4 DEF Return
  <2>2. ServerTyped'
    BY <2>1 DEF Typed, ServerTyped
  <2>3. Numbered'
    BY <1>1, <2>1 DEF Numbered, Between, Ascending, Answered
  <2> QED BY <1>2, <1>3, <2>1, <2>2, <2>3 DEF Typed
<1>5. CASE ~InFlight
  <2>1. first' = 1 /\ asked' = 0 /\ took' = 0 /\ srv' = NoPacket
    BY <1>5 DEF Return
  <2>2. requests' = <<>> /\ replies' = <<>>
    BY <1>1, <1>5 DEF InFlight
  <2>3. ServerTyped'
    BY <2>1, NoPacketTyped DEF ServerTyped, NoPacket
  <2>4. Numbered'
    BY <2>1, <2>2 DEF Numbered, Between, Ascending, Answered, NoPacket
  <2> QED BY <1>2, <1>3, <2>1, <2>3, <2>4 DEF Typed
<1> QED BY <1>4, <1>5

LEMMA LineInOrder ==
  ASSUME Typed, Numbered, Lose \/ Redial
  PROVE  Typed' /\ Numbered'
<1>1. CASE Lose
  <2>1. /\ up' = FALSE /\ torn' = FALSE /\ replies' = <<>> /\ requests' \in {requests, <<>>}
        /\ UNCHANGED <<call, pc, tries, result, values, first, asked, took, faults, srv, ran>>
    BY <1>1 DEF Lose, client
  <2>2. ClientTyped' /\ ServerTyped'
    BY <2>1 DEF Typed, ClientTyped, ServerTyped
  <2>3. <<>> \in Seq(Outgoing) /\ <<>> \in Seq(Incoming)
    OBVIOUS
  <2>4. StreamTyped'
    BY <2>1, <2>3 DEF Typed, StreamTyped
  <2>5. Between(requests', srv.id, asked) /\ Ascending(requests')
    BY <2>1 DEF Numbered, Between, Ascending
  <2>6. Between(replies', took, Answered) /\ Ascending(replies') /\ Answered' = Answered
    BY <2>1 DEF Between, Ascending, Answered
  <2>7. Numbered'
    BY <2>1, <2>5, <2>6 DEF Numbered, Between, Ascending
  <2> QED BY <2>1, <2>2, <2>4, <2>7 DEF Typed
<1>2. CASE Redial
  <2>1. /\ up' = TRUE /\ asked' = 0 /\ first' = 1 /\ took' = 0 /\ srv' = NoPacket
        /\ requests = <<>> /\ ~up
        /\ UNCHANGED <<call, pc, tries, result, values, requests, replies, torn, faults, ran>>
    BY <1>2 DEF Redial
  <2>2. requests' = <<>> /\ replies' = <<>>
    BY <2>1 DEF Numbered
  <2>3. ServerTyped'
    BY <2>1, NoPacketTyped DEF ServerTyped, NoPacket
  <2>4. Numbered'
    BY <2>1, <2>2 DEF Numbered, Between, Ascending, Answered, NoPacket
  <2>5. ClientTyped' /\ StreamTyped'
    BY <2>1 DEF Typed, ClientTyped, StreamTyped
  <2> QED BY <2>1, <2>3, <2>4, <2>5 DEF Typed
<1> QED BY <1>1, <1>2

LEMMA TakeInOrder ==
  ASSUME Typed, Numbered, Take
  PROVE  Typed' /\ Numbered'
<1> DEFINE p == Head(requests)
<1>1. /\ ~srv.busy /\ requests # <<>>
      /\ srv' = [id |-> p.id, call |-> p.call, busy |-> TRUE, issued |-> 0, words |-> <<>>]
      /\ requests' = Tail(requests)
      /\ UNCHANGED <<call, pc, tries, result, values, first, asked, took, replies, torn, up, faults, ran>>
  BY DEF Take, client
<1>2. /\ requests \in Seq(Outgoing) /\ Ascending(requests)
      /\ Between(requests, srv.id, asked)
      /\ took \in 0..Answered /\ srv.id \in 0..asked /\ asked \in Nat
      /\ Between(replies, took, Answered) /\ Ascending(replies) /\ Answered = srv.id
  BY <1>1 DEF Typed, StreamTyped, Numbered, Answered
<1>3. p = requests[1] /\ p \in Outgoing /\ 1 \in DOMAIN requests
  BY <1>1, <1>2
<1>4. p.id \in Nat /\ srv.id < p.id /\ p.id <= asked /\ p.call \in Calls \cup {Pins}
  BY <1>2, <1>3 DEF Between, Outgoing
<1> HIDE DEF p
<1>5. /\ requests' \in Seq(Outgoing) /\ Ascending(requests')
      /\ Between(requests', p.id, asked)
  <2> DEFINE t == Tail(requests)
             lo == srv.id
  <2>1. t = Tail(requests) /\ Between(requests, lo, asked) /\ requests' = t
    BY <1>1, <1>2
  <2>2. t \in Seq(Outgoing) /\ Ascending(t) /\ Between(t, requests[1].id, asked)
    <3> HIDE DEF t, lo
    <3> QED BY <1>1, <1>2, <2>1, TailInOrder
  <2> QED BY <1>3, <2>1, <2>2
<1>6. Between(replies, took, p.id - 1)
  <2> SUFFICES ASSUME NEW i \in DOMAIN replies PROVE took < replies[i].id /\ replies[i].id <= p.id - 1
    BY DEF Between
  <2>1. took < replies[i].id /\ replies[i].id <= srv.id
    BY <1>2 DEF Between
  <2>2. replies[i] \in Incoming
    BY DEF Typed, StreamTyped
  <2>3. replies[i].id \in Nat
    BY <2>2 DEF Incoming
  <2>4. srv.id \in Nat
    BY <1>2
  <2> QED BY <1>4, <2>1, <2>3, <2>4
<1>7. Numbered'
  <2>1. Answered' = p.id - 1 /\ srv'.id = p.id
    BY <1>1 DEF Answered
  <2>2. took \in 0..(p.id - 1) /\ p.id \in 0..asked
    BY <1>2, <1>4
  <2>3. (~up => replies = <<>>) /\ first \in 1..(asked + 1)
    BY DEF Numbered
  <2> QED BY <1>1, <1>2, <1>5, <1>6, <2>1, <2>2, <2>3 DEF Numbered, Between, Ascending
<1>8. ServerTyped'
  <2>1. <<>> \in Seq(Word)
    OBVIOUS
  <2>2. p.call \in Calls \cup {Pins, NoCall} /\ Len(p.call.reqs) \in Nat
    BY <1>4, CallShape
  <2>3. /\ srv' \in [id : Nat, call : Calls \cup {Pins, NoCall}, busy : BOOLEAN, issued : Nat,
                     words : Seq(Word)]
        /\ srv'.id = p.id /\ srv'.call = p.call /\ srv'.issued = 0
    BY <1>1, <1>4, <2>1, <2>2
  <2>4. p.id > 0
    BY <1>2, <1>4
  <2> QED BY <1>4, <2>2, <2>3, <2>4 DEF ServerTyped
<1>9. ClientTyped' /\ StreamTyped'
  BY <1>1, <1>5 DEF Typed, ClientTyped, StreamTyped
<1> QED BY <1>1, <1>7, <1>8, <1>9 DEF Typed

LEMMA RunInOrder ==
  ASSUME Typed, Numbered, Run \/ Poll
  PROVE  Typed' /\ Numbered'
<1>1. /\ UNCHANGED <<call, pc, tries, result, values, first, asked, took, requests, replies,
                     torn, up, faults>>
      /\ Current /\ Runs(srv.issued + 1)
  BY DEF Run, Poll, client, stream
<1>2. ran' \in [DOMAIN call.reqs -> Nat]
  <2>1. ran \in [DOMAIN call.reqs -> Nat]
    BY DEF Typed, ClientTyped
  <2>2. PICK k : Runs(k)
    BY <1>1
  <2>3. CASE ran' = ran
    BY <2>1, <2>3
  <2>4. CASE ran' = [ran EXCEPT ![k] = @ + 1]
    <3> DEFINE D == DOMAIN call.reqs
    <3>1. ran \in [D -> Nat] /\ ran' = [x \in D |-> IF x = k THEN ran[k] + 1 ELSE ran[x]]
      BY <2>1, <2>4
    <3> HIDE DEF D
    <3>2. \A x \in D : (IF x = k THEN ran[k] + 1 ELSE ran[x]) \in Nat
      BY <3>1
    <3> QED BY <3>1, <3>2 DEF D
  <2> QED BY <2>2, <2>3, <2>4 DEF Runs
<1>3. ServerTyped' /\ srv'.id = srv.id /\ srv'.busy = srv.busy
  <2>1. CASE srv' = srv
    BY <2>1 DEF Typed, ServerTyped
  <2>2. CASE Run
    <3> DEFINE w == srv.words
               v == WordsOf(srv.call.reqs, srv.issued + 1)
               n == srv.issued + 1
    <3>1. /\ srv \in [id : Nat, call : Calls \cup {Pins, NoCall}, busy : BOOLEAN, issued : Nat,
                      words : Seq(Word)]
          /\ srv.issued < Len(srv.call.reqs) /\ srv.busy
      BY <1>1 DEF Typed, ServerTyped, Current
    <3>2. srv' = [srv EXCEPT !.issued = n, !.words = w \o v]
      BY <2>2 DEF Run
    <3>3. v \in Seq(Word) /\ w \in Seq(Word) /\ n \in Nat
      BY <3>1, WordsOfType
    <3>4. n <= Len(srv.call.reqs)
      <4>1. Len(srv.call.reqs) \in Nat
        BY <3>1, CallShape
      <4> QED BY <3>1, <4>1
    <3>5. srv # NoPacket
      BY <3>1 DEF NoPacket
    <3>6. srv.id > 0 /\ srv.call \in Calls \cup {Pins}
      BY <3>5 DEF Typed, ServerTyped
    <3> HIDE DEF n, w, v
    <3>7. w \o v \in Seq(Word)
      BY <3>3
    <3> QED BY <3>1, <3>2, <3>3, <3>4, <3>6, <3>7 DEF ServerTyped
  <2> QED BY <2>1, <2>2 DEF Poll
<1>4. Numbered'
  BY <1>1, <1>3 DEF Numbered, Between, Ascending, Answered
<1>5. ClientTyped' /\ StreamTyped'
  BY <1>1, <1>2 DEF Typed, ClientTyped, StreamTyped
<1> QED BY <1>1, <1>3, <1>4, <1>5 DEF Typed

\* A reply goes out: it is from later than all that are on their way back.
LEMMA AnswerInOrder ==
  ASSUME Typed, Numbered, Answer \/ Fail
  PROVE  Typed' /\ Numbered'
<1>1. srv.busy /\ \E st \in {"OK", "WAIT", "ERROR"}, ws \in Seq(Word) : Replies(st, srv.issued, ws)
  <2>1. CASE Answer
    <3>1. PICK n \in 0..Len(srv.words) : Replies("OK", srv.issued, SubSeq(srv.words, 1, n))
      BY <2>1 DEF Answer
    <3>2. SubSeq(srv.words, 1, n) \in Seq(Word)
      <4>1. srv.words \in Seq(Word)
        BY DEF Typed, ServerTyped
      <4> QED BY <4>1
    <3> QED BY <2>1, <3>1, <3>2 DEF Answer
  <2>2. CASE Fail
    <3>1. <<>> \in Seq(Word)
      OBVIOUS
    <3> QED BY <2>2, <3>1 DEF Fail
  <2> QED BY <2>1, <2>2
<1>2. PICK st \in {"OK", "WAIT", "ERROR"}, ws \in Seq(Word) : Replies(st, srv.issued, ws)
  BY <1>1
<1> DEFINE r == [id |-> srv.id, cmd |-> Cmd(srv.call), status |-> st, done |-> srv.issued,
                 words |-> ws]
<1>3. /\ srv' = [srv EXCEPT !.busy = FALSE]
      /\ replies' = IF up THEN Append(replies, r) ELSE replies
      /\ UNCHANGED <<call, pc, tries, result, values, first, asked, took, requests, torn, up, faults, ran>>
  BY <1>2 DEF Replies, client
<1>4. /\ srv \in [id : Nat, call : Calls \cup {Pins, NoCall}, busy : BOOLEAN, issued : Nat,
                  words : Seq(Word)]
      /\ replies \in Seq(Incoming)
      /\ Between(replies, took, Answered) /\ Ascending(replies)
      /\ took \in 0..Answered /\ Answered = srv.id - 1 /\ (~up => replies = <<>>)
  BY <1>1 DEF Typed, ServerTyped, StreamTyped, Numbered, Answered
<1>5. r \in Incoming /\ r.id = srv.id
  BY <1>4, CallShape DEF Incoming
<1>6. /\ srv' \in [id : Nat, call : Calls \cup {Pins, NoCall}, busy : BOOLEAN, issued : Nat,
                   words : Seq(Word)]
      /\ srv'.id = srv.id /\ srv'.busy = FALSE /\ srv'.issued = srv.issued /\ srv'.call = srv.call
  BY <1>3, <1>4
<1> HIDE DEF r
<1>7. replies' \in Seq(Incoming) /\ Ascending(replies') /\ Between(replies', took, srv.id)
  <2>1. CASE up
    <3> DEFINE hi == srv.id - 1
               top == srv.id
               t == Append(replies, r)
    <3>1. \A e \in Incoming : e.id \in Nat
      BY DEF Incoming
    <3>2. /\ took \in Int /\ hi \in Int /\ top \in Int
          /\ took < r.id /\ hi < r.id /\ r.id <= top /\ hi <= top
      BY <1>4, <1>5
    <3>3. Between(replies, took, hi) /\ t = Append(replies, r) /\ replies' = t
      BY <1>3, <1>4, <2>1
    <3>4. t \in Seq(Incoming) /\ Ascending(t) /\ Between(t, took, top)
      <4> HIDE DEF hi, top, t
      <4> QED BY <1>4, <1>5, <3>1, <3>2, <3>3, LongerInOrder
    <3> QED BY <3>3, <3>4
  <2>2. CASE ~up
    BY <1>3, <1>4, <2>2 DEF Between, Ascending
  <2> QED BY <2>1, <2>2
<1>8. Numbered'
  <2>1. Answered' = srv.id /\ took \in 0..srv.id
    BY <1>4, <1>6 DEF Answered
  <2>2. ~up' => replies' = <<>>
    BY <1>3, <1>4
  <2>3. /\ asked \in Nat /\ srv.id \in 0..asked /\ first \in 1..(asked + 1)
        /\ Between(requests, srv.id, asked) /\ Ascending(requests)
    BY DEF Numbered
  <2> QED BY <1>3, <1>6, <1>7, <2>1, <2>2, <2>3 DEF Numbered, Between, Ascending
<1>9. ServerTyped'
  <2>1. srv # NoPacket /\ srv.issued <= Len(srv.call.reqs)
    BY <1>1 DEF Typed, ServerTyped, NoPacket
  <2> QED BY <1>6, <2>1 DEF Typed, ServerTyped
<1>10. ClientTyped' /\ StreamTyped'
  BY <1>3, <1>7 DEF Typed, ClientTyped, StreamTyped
<1> QED BY <1>3, <1>8, <1>9, <1>10 DEF Typed

InOrder == Typed /\ Numbered

LEMMA StepInOrder ==
  ASSUME InOrder, [Next]_vars
  PROVE  InOrder'
<1> USE DEF InOrder
<1>1. CASE Call \/ Refuse \/ EmptyBlock \/ ReadFails
  BY <1>1, ClientInOrder DEF Call, Refuse, EmptyBlock, ReadFails, stream
<1>2. CASE Send
  BY <1>2, SendInOrder DEF Send
<1>3. CASE Receive
  BY <1>3, ReceiveInOrder
<1>4. CASE TimeOut \/ ReceiveTorn
  BY <1>4, DropInOrder DEF TimeOut, ReceiveTorn
<1>5. CASE Return
  BY <1>5, ReturnInOrder
<1>6. CASE Lose \/ Redial
  BY <1>6, LineInOrder
<1>7. CASE Take
  BY <1>7, TakeInOrder
<1>8. CASE Run \/ Poll
  BY <1>8, RunInOrder
<1>9. CASE Answer \/ Fail
  BY <1>9, AnswerInOrder
<1>10. CASE UNCHANGED vars
  BY <1>10 DEF vars, Typed, ClientTyped, StreamTyped, ServerTyped, Numbered, Between, Ascending,
               Answered
<1> QED BY <1>1, <1>2, <1>3, <1>4, <1>5, <1>6, <1>7, <1>8, <1>9, <1>10 DEF Next, Client, Server

LEMMA InOrderInvariance == Spec => []InOrder
<1>1. Init => InOrder
  BY InitInOrder DEF InOrder
<1>2. InOrder /\ [Next]_vars => InOrder'
  BY StepInOrder
<1> QED BY <1>1, <1>2, PTL DEF Spec

\* The types of the client's, the stream's and the server's state, whatever the
\* faults (client.go, transport/tcp, server.go).
THEOREM TypesHold == Spec => []TypeOK
<1>1. ASSUME InOrder
      PROVE  TypeOK
  <2> USE <1>1 DEF InOrder, Typed
  <2>1. /\ asked \in Nat /\ took \in 0..Answered /\ srv.id \in 0..asked
        /\ Answered \in Int /\ Answered <= srv.id
    BY DEF Numbered, ServerTyped, Answered
  <2>2. \A i \in DOMAIN requests : Packet(requests[i])
    <3> SUFFICES ASSUME NEW i \in DOMAIN requests PROVE Packet(requests[i])
      OBVIOUS
    <3>1. requests[i] \in Outgoing
      BY DEF StreamTyped
    <3>2. srv.id < requests[i].id /\ requests[i].id <= asked
      BY DEF Numbered, Between
    <3> QED BY <2>1, <3>1, <3>2 DEF Packet, Outgoing
  <2>3. \A i \in DOMAIN replies : replies[i].id \in 1..asked
    <3> SUFFICES ASSUME NEW i \in DOMAIN replies PROVE replies[i].id \in 1..asked
      OBVIOUS
    <3>1. replies[i].id \in Nat
      <4>1. replies[i] \in Incoming
        BY DEF StreamTyped
      <4> QED BY <4>1 DEF Incoming
    <3>2. took < replies[i].id /\ replies[i].id <= Answered
      BY DEF Numbered, Between
    <3> QED BY <2>1, <3>1, <3>2
  <2>4. srv = NoPacket \/ (Packet(srv) /\ srv.issued \in 0..Len(srv.call.reqs))
    <3>1. Len(srv.call.reqs) \in Nat /\ srv.issued \in Nat /\ srv.issued <= Len(srv.call.reqs)
      BY CallShape DEF ServerTyped
    <3> QED BY <2>1, <3>1 DEF ServerTyped, Packet
  <2> QED BY <2>1, <2>2, <2>3, <2>4 DEF TypeOK, ClientTyped, StreamTyped, Numbered
<1> QED BY <1>1, InOrderInvariance, PTL

-----------------------------------------------------------------------------
(* Whatever the faults: how often a request has run.                           *)

Plain(k) == call.reqs[k].op \in {"read", "write"}

\* The packets of the current call that the server has run request k of, at most.
Reached(k) ==
  IF srv.id < first THEN 0
  ELSE IF k <= srv.issued THEN srv.id - first + 1 ELSE srv.id - first

\* A packet numbered from first on is the current call's.  There are tries of them, one
\* at most for a block.
Counted ==
  /\ asked = first - 1 + tries
  /\ pc = "idle" => call = NoCall /\ tries = 0
  /\ call.kind # "transfer" => tries <= 1
  /\ pc = "send" /\ call.kind # "transfer" => tries = 0
  /\ \A i \in DOMAIN requests : requests[i].id >= first => requests[i].call = call
  /\ srv.id >= first => srv.call = call
  /\ \A k \in DOMAIN call.reqs : Plain(k) => ran[k] <= Reached(k)

LEMMA NumbersTyped ==
  ASSUME InOrder
  PROVE  /\ asked \in Nat /\ first \in Nat /\ first > 0 /\ srv.id \in Nat /\ srv.id <= asked
         /\ tries \in Nat /\ srv.issued \in Nat /\ ran \in [DOMAIN call.reqs -> Nat]
         /\ \A k \in DOMAIN call.reqs : k \in Nat /\ k > 0
         /\ \A i \in DOMAIN requests :
              /\ requests[i].id \in Nat /\ srv.id < requests[i].id /\ requests[i].id <= asked
              /\ requests[i].call \in Calls \cup {Pins}
<1>1. call \in Calls \cup {Pins, NoCall} /\ tries \in Nat /\ ran \in [DOMAIN call.reqs -> Nat]
  BY DEF InOrder, Typed, ClientTyped
<1>2. \A k \in DOMAIN call.reqs : k \in Nat /\ k > 0
  BY <1>1, CallShape
<1>3. ASSUME NEW i \in DOMAIN requests
      PROVE  /\ requests[i].id \in Nat /\ srv.id < requests[i].id /\ requests[i].id <= asked
             /\ requests[i].call \in Calls \cup {Pins}
  <2>1. requests[i] \in Outgoing
    BY DEF InOrder, Typed, StreamTyped
  <2> QED BY <2>1 DEF InOrder, Numbered, Between, Outgoing
<1>4. asked \in Nat /\ first \in Nat /\ first > 0 /\ srv.id \in Nat /\ srv.id <= asked
  BY DEF InOrder, Numbered
<1>5. srv.issued \in Nat
  BY DEF InOrder, Typed, ServerTyped
<1> QED BY <1>1, <1>2, <1>3, <1>4, <1>5

LEMMA InitCounts == Init => Counted
BY DEF Init, Counted, NoPacket, NoCall

\* Steps that touch neither the target nor the server, and send nothing.
LEMMA ClientCounts ==
  ASSUME InOrder, Counted,
         Refuse \/ EmptyBlock \/ Receive \/ ReceiveTorn \/ ReadFails \/ TimeOut \/ Lose
  PROVE  Counted'
<1>1. UNCHANGED <<call, tries, first, asked, srv, ran>> /\ requests' \in {requests, <<>>}
  BY DEF Refuse, EmptyBlock, Receive, ReceiveTorn, ReadFails, TimeOut, Lose, stream, client
<1>2. pc' = "done" \/ (pc' = "send" /\ call.kind = "transfer") \/ pc' = pc
  BY DEF Refuse, EmptyBlock, Receive, ReceiveTorn, ReadFails, TimeOut, Lose, client, Returns,
         Resent
<1>3. \A i \in DOMAIN requests' : requests'[i].id >= first => requests'[i].call = call
  BY <1>1 DEF Counted
<1>4. \A k \in DOMAIN call'.reqs : Plain(k)' => ran'[k] <= Reached(k)'
  BY <1>1 DEF Counted, Plain, Reached
<1> QED BY <1>1, <1>2, <1>3, <1>4 DEF Counted

LEMMA CallCounts ==
  ASSUME InOrder, Counted, Call
  PROVE  Counted'
<1>1. /\ pc = "idle" /\ pc' = "send" /\ tries' = 0
      /\ ran' = [k \in DOMAIN call'.reqs |-> 0]
      /\ UNCHANGED <<first, asked, requests, srv>>
  BY DEF Call, stream
<1>2. asked = first - 1
  BY <1>1, NumbersTyped DEF Counted
<1>3. /\ ~(srv.id >= first)
      /\ \A i \in DOMAIN requests : ~(requests[i].id >= first)
  BY <1>2, NumbersTyped
<1>4. ASSUME NEW k \in DOMAIN call'.reqs PROVE ran'[k] <= Reached(k)'
  BY <1>1, <1>3, NumbersTyped DEF Reached
<1> QED BY <1>1, <1>2, <1>3, <1>4 DEF Counted

LEMMA SendCounts ==
  ASSUME InOrder, Counted, Send
  PROVE  Counted'
<1> DEFINE p == [id |-> asked + 1, call |-> call]
<1>1. /\ pc = "send" /\ pc' = "wait" /\ tries' = tries + 1 /\ asked' = asked + 1
      /\ requests' = Append(requests, p) /\ UNCHANGED <<call, first, srv, ran>>
  BY DEF Send
<1>2. requests \in Seq(Outgoing)
  BY DEF InOrder, Typed, StreamTyped
<1>3. ASSUME NEW i \in DOMAIN requests', requests'[i].id >= first
      PROVE  requests'[i].call = call
  <2>1. CASE i \in DOMAIN requests
    <3>1. requests'[i] = requests[i]
      BY <1>1, <1>2, <2>1
    <3> QED BY <1>3, <2>1, <3>1 DEF Counted
  <2>2. CASE i \notin DOMAIN requests
    <3>1. requests'[i] = p
      BY <1>1, <1>2, <1>3, <2>2
    <3> QED BY <3>1
  <2> QED BY <2>1, <2>2
<1>4. asked' = first - 1 + tries'
  BY <1>1, NumbersTyped DEF Counted
<1>5. call.kind # "transfer" => tries' <= 1
  BY <1>1 DEF Counted
<1>6. \A k \in DOMAIN call'.reqs : Plain(k)' => ran'[k] <= Reached(k)'
  BY <1>1 DEF Counted, Plain, Reached
<1> QED BY <1>1, <1>3, <1>4, <1>5, <1>6 DEF Counted

\* Numbers start over, or the ones in use are behind the next call's.
LEMMA ReturnCounts ==
  ASSUME InOrder, Counted, Return \/ Redial
  PROVE  Counted'
<1>1. pc' = "idle" /\ call' = NoCall /\ tries' = 0
  BY DEF Return, Redial, Counted
<1>2. DOMAIN call'.reqs = {} /\ call'.kind = "transfer"
  BY <1>1 DEF NoCall
<1>3. CASE Return /\ InFlight
  <2>1. first' = asked + 1 /\ UNCHANGED <<asked, srv, requests>>
    BY <1>3 DEF Return
  <2>2. /\ ~(srv.id >= first')
        /\ \A i \in DOMAIN requests : ~(requests[i].id >= first')
        /\ asked' = first' - 1 + 0
    BY <2>1, NumbersTyped
  <2> QED BY <1>1, <1>2, <2>1, <2>2 DEF Counted
<1>4. CASE (Return /\ ~InFlight) \/ Redial
  <2>1. first' = 1 /\ asked' = 0 /\ srv' = NoPacket /\ requests' = <<>>
    BY <1>4 DEF Return, Redial, InFlight
  <2> QED BY <1>1, <1>2, <2>1 DEF Counted, NoPacket
<1> QED BY <1>3, <1>4

LEMMA TakeCounts ==
  ASSUME InOrder, Counted, Take
  PROVE  Counted'
<1> DEFINE p == Head(requests)
<1>1. /\ requests # <<>> /\ requests' = Tail(requests)
      /\ srv' = [id |-> p.id, call |-> p.call, busy |-> TRUE, issued |-> 0, words |-> <<>>]
      /\ UNCHANGED <<call, pc, tries, first, asked, ran>>
  BY DEF Take, client
<1>2. requests \in Seq(Outgoing)
  BY DEF InOrder, Typed, StreamTyped
<1>3. p = requests[1] /\ 1 \in DOMAIN requests
  BY <1>1, <1>2
<1>4. p.id \in Nat /\ srv.id < p.id /\ (p.id >= first => p.call = call)
  BY <1>3, NumbersTyped DEF Counted
<1>5. srv'.id = p.id /\ srv'.call = p.call /\ srv'.issued = 0
  BY <1>1
<1>6. \A i \in DOMAIN requests' : requests'[i].id >= first => requests'[i].call = call
  <2> SUFFICES ASSUME NEW i \in DOMAIN requests', requests'[i].id >= first
      PROVE  requests'[i].call = call
    OBVIOUS
  <2>1. i + 1 \in DOMAIN requests /\ requests'[i] = requests[i + 1]
    BY <1>1, <1>2
  <2> QED BY <2>1 DEF Counted
<1> HIDE DEF p
<1>7. ASSUME NEW k \in DOMAIN call.reqs, Plain(k) PROVE ran[k] <= Reached(k)'
  <2>1. ran[k] <= Reached(k) /\ ran[k] \in Nat /\ k \in Nat /\ k > 0
    BY <1>7, NumbersTyped DEF Counted
  <2>2. Reached(k)' = IF p.id < first THEN 0 ELSE p.id - first
    BY <1>1, <1>5, <2>1 DEF Reached
  <2> QED BY <1>4, <2>1, <2>2, NumbersTyped DEF Reached
<1> QED BY <1>1, <1>4, <1>5, <1>6, <1>7 DEF Counted, Plain

LEMMA RunCounts ==
  ASSUME InOrder, Counted, Run \/ Poll
  PROVE  Counted'
<1> DEFINE n == srv.issued + 1
           op == srv.call.reqs[n].op
<1>1. /\ Current /\ UNCHANGED <<call, pc, tries, first, asked, requests>>
      /\ ran' = IF srv.id >= first /\ op # "mask" THEN [ran EXCEPT ![n] = @ + 1] ELSE ran
  BY DEF Run, Poll, client, stream, Runs
<1>2. /\ srv'.id = srv.id /\ srv'.call = srv.call
      /\ \/ Run /\ srv'.issued = n
         \/ Poll /\ srv'.issued = srv.issued /\ op = "match"
  <2>1. CASE Poll
    BY <2>1 DEF Poll
  <2>2. CASE Run
    <3>1. PICK ws : srv' = [srv EXCEPT !.issued = n, !.words = ws]
      BY <2>2 DEF Run
    <3>2. srv \in [id : Nat, call : Calls \cup {Pins, NoCall}, busy : BOOLEAN, issued : Nat,
                   words : Seq(Word)]
      BY DEF InOrder, Typed, ServerTyped
    <3> HIDE DEF n, op
    <3> QED BY <2>2, <3>1, <3>2
  <2> QED BY <2>1, <2>2
<1>3. n \in Nat /\ srv.issued < n
  BY NumbersTyped
<1>4. srv.id >= first => op = call.reqs[n].op
  BY DEF Counted
<1> HIDE DEF op
<1>5. ASSUME NEW k \in DOMAIN call.reqs, Plain(k) PROVE ran'[k] <= Reached(k)'
  <2>1. ran[k] <= Reached(k) /\ ran[k] \in Nat /\ k \in Nat
    BY <1>5, NumbersTyped DEF Counted
  <2>2. CASE srv.id < first
    <3>1. ran'[k] = ran[k] /\ Reached(k) = 0 /\ Reached(k)' = 0
      BY <1>1, <1>2, <2>2, NumbersTyped DEF Reached
    <3> QED BY <2>1, <3>1
  <2>3. CASE srv.id >= first /\ k # n
    <3>1. ran'[k] = ran[k]
      BY <1>1, <2>3, NumbersTyped
    <3>2. k <= srv'.issued <=> k <= srv.issued
      BY <1>2, <2>1, <2>3, NumbersTyped DEF n
    <3>3. Reached(k)' = Reached(k)
      BY <1>1, <1>2, <3>2 DEF Reached
    <3> QED BY <2>1, <3>1, <3>3
  <2>4. CASE srv.id >= first /\ k = n
    <3>1. op \in {"read", "write"}
      BY <1>4, <1>5, <2>4 DEF Plain
    <3>2. srv'.issued = n
      BY <1>2, <3>1
    <3>3. Reached(k) = srv.id - first /\ Reached(k)' = srv.id - first + 1
      BY <1>1, <1>2, <1>3, <2>4, <3>2, NumbersTyped DEF Reached
    <3>4. ran'[k] = ran[k] + 1
      BY <1>1, <2>4, <3>1, NumbersTyped
    <3> QED BY <2>1, <3>3, <3>4, NumbersTyped
  <2> QED BY <2>2, <2>3, <2>4, NumbersTyped
<1>6. \A k \in DOMAIN call'.reqs : Plain(k)' => ran'[k] <= Reached(k)'
  BY <1>1, <1>5 DEF Plain
<1> QED BY <1>1, <1>2, <1>6 DEF Counted

LEMMA AnswerCounts ==
  ASSUME InOrder, Counted, Answer \/ Fail
  PROVE  Counted'
<1>1. /\ srv' = [srv EXCEPT !.busy = FALSE]
      /\ UNCHANGED <<call, pc, tries, first, asked, requests, ran>>
  BY DEF Answer, Fail, Replies, client
<1>2. srv \in [id : Nat, call : Calls \cup {Pins, NoCall}, busy : BOOLEAN, issued : Nat,
               words : Seq(Word)]
  BY DEF InOrder, Typed, ServerTyped
<1>3. srv'.id = srv.id /\ srv'.call = srv.call /\ srv'.issued = srv.issued
  BY <1>1, <1>2
<1>4. \A k \in DOMAIN call'.reqs : Plain(k)' => ran'[k] <= Reached(k)'
  BY <1>1, <1>3 DEF Counted, Plain, Reached
<1> QED BY <1>1, <1>3, <1>4 DEF Counted

LEMMA StepCounts ==
  ASSUME InOrder, Counted, [Next]_vars
  PROVE  Counted'
<1>1. CASE UNCHANGED vars
  BY <1>1 DEF vars, Counted, Plain, Reached
<1> QED BY <1>1, ClientCounts, CallCounts, SendCounts, ReturnCounts, TakeCounts, RunCounts,
           AnswerCounts DEF Next, Client, Server

Countable == InOrder /\ Counted

LEMMA CountInvariance == Spec => []Countable
<1>1. Init => Countable
  BY InitInOrder, InitCounts DEF Countable, InOrder
<1>2. Countable /\ [Next]_vars => Countable'
  BY StepInOrder, StepCounts DEF Countable
<1> QED BY <1>1, <1>2, PTL DEF Spec

\* Whatever the faults, no request of a list runs more often than the list was sent, and
\* no word of a block more than once (client.go doTransfer, BlockRead, BlockWrite).
THEOREM RunsBounded == Spec => []RunsAtMost
<1>1. ASSUME Countable PROVE RunsAtMost
  <2> SUFFICES ASSUME NEW k \in DOMAIN call.reqs, Plain(k)
      PROVE  ran[k] <= IF call.kind = "transfer" THEN tries ELSE 1
    BY DEF RunsAtMost, Plain
  <2>1. ran[k] <= Reached(k) /\ ran[k] \in Nat /\ asked = first - 1 + tries
    BY <1>1, NumbersTyped DEF Countable, Counted
  <2>2. Reached(k) <= tries /\ Reached(k) \in Nat
    BY <1>1, <2>1, NumbersTyped DEF Countable, Reached
  <2>3. call.kind # "transfer" => tries <= 1
    BY <1>1 DEF Countable, Counted
  <2>4. tries \in Nat
    BY <1>1, NumbersTyped DEF Countable
  <2> QED BY <2>1, <2>2, <2>3, <2>4
<1> QED BY <1>1, CountInvariance, PTL

-----------------------------------------------------------------------------
(* Where the one packet of a call is that was made on a clean link.            *)

\* One packet, list or reply at most is under way, and it is the one asked last.
Nothing == requests = <<>> /\ replies = <<>> /\ ~srv.busy
OnItsWay == replies = <<>> /\ ~srv.busy /\ \E p : requests = <<p>> /\ p.id = asked
AtServer == requests = <<>> /\ replies = <<>> /\ srv.busy /\ srv.id = asked
OnItsWayBack == requests = <<>> /\ ~srv.busy /\ \E r : replies = <<r>> /\ r.id = asked

\* The client is where the one packet matters: it waits for it, and can still have it.
Awaits == Clean /\ up /\ pc = "wait"

\* What a call that fails leaves behind is nobody's, until numbers start over.
OneUnderway ==
  /\ DOMAIN srv = {"id", "call", "busy", "issued", "words"}
  /\ torn => up /\ asked > 0
  /\ faults = {} => Clean /\ up /\ ~torn /\ (pc = "done" => Nothing)
  /\ Clean /\ pc \in {"idle", "send"} => Nothing /\ ~torn
  /\ Awaits => ~torn /\ (OnItsWay \/ AtServer \/ OnItsWayBack)
  /\ Clean /\ pc = "done" /\ result = "ok" => Nothing /\ (tries = 0 \/ took = asked)

LEMMA Initially == Init => OneUnderway
BY DEF Init, OneUnderway, Nothing, NoPacket, Clean, Awaits

\* The client's steps between a call and its packet, and behind its reply.
LEMMA QuietSteps ==
  ASSUME Countable, OneUnderway, Call \/ Refuse \/ EmptyBlock \/ Send \/ Return
  PROVE  OneUnderway'
<1> USE DEF OneUnderway, client, stream, Returns, Nothing, Clean, Awaits
<1>1. CASE Call
  BY <1>1 DEF Call
<1>2. CASE Refuse
  BY <1>2 DEF Refuse
<1>3. CASE EmptyBlock
  <2>1. tries = 0
    BY <1>3 DEF EmptyBlock, Countable, Counted
  <2> QED BY <1>3, <2>1 DEF EmptyBlock
<1>4. CASE Send
  <2>1. /\ pc = "send" /\ pc' = "wait" /\ asked' = asked + 1
        /\ requests' = Append(requests, [id |-> asked + 1, call |-> call])
        /\ UNCHANGED <<replies, torn, up, faults, srv, first>>
    BY <1>4 DEF Send
  <2>2. ASSUME Clean PROVE OnItsWay' /\ ~torn'
    <3>1. requests = <<>> /\ replies = <<>> /\ ~srv.busy /\ ~torn
      BY <2>1, <2>2
    <3>2. requests' = <<[id |-> asked + 1, call |-> call]>>
      BY <2>1, <3>1
    <3> QED BY <2>1, <3>1, <3>2 DEF OnItsWay
  <2>3. asked \in Nat
    BY NumbersTyped DEF Countable
  <2>4. torn' => up' /\ asked' > 0
    BY <2>1, <2>3
  <2> QED BY <2>1, <2>2, <2>4
<1>5. CASE Return
  <2>1. CASE InFlight
    <3>1. asked > 0 /\ asked \in Nat
      <4>1. asked \in Nat /\ srv.id \in Nat /\ srv.id <= asked
        BY NumbersTyped DEF Countable
      <4>2. CASE requests # <<>>
        <5>1. 1 \in DOMAIN requests
          BY <4>2 DEF Countable, InOrder, Typed, StreamTyped
        <5> QED BY <4>1, <5>1, NumbersTyped DEF Countable
      <4>3. CASE replies # <<>>
        <5>1. 1 \in DOMAIN replies /\ replies[1] \in Incoming
          BY <4>3 DEF Countable, InOrder, Typed, StreamTyped
        <5>2. /\ took < replies[1].id /\ replies[1].id <= Answered /\ took \in 0..Answered
          BY <5>1 DEF Countable, InOrder, Numbered, Between
        <5> QED BY <4>1, <5>1, <5>2 DEF Answered, Incoming
      <4>4. CASE srv.busy
        <5>1. srv.id > 0
          BY <4>4 DEF Countable, InOrder, Typed, ServerTyped, NoPacket
        <5> QED BY <4>1, <5>1
      <4> QED BY <2>1, <4>1, <4>2, <4>3, <4>4 DEF InFlight
    <3>2. /\ pc = "done" /\ pc' = "idle" /\ first' = asked + 1
          /\ UNCHANGED <<asked, srv, torn, up, faults>>
      BY <1>5, <2>1 DEF Return
    <3>3. first' # 1
      BY <3>1, <3>2
    <3>4. faults # {}
      BY <2>1, <3>2 DEF InFlight
    <3> QED BY <3>2, <3>3, <3>4
  <2>2. CASE ~InFlight
    BY <1>5, <2>2 DEF Return, NoPacket, InFlight
  <2> QED BY <2>1, <2>2
<1> QED BY <1>1, <1>2, <1>3, <1>4, <1>5

LEMMA ReceiveKeeps ==
  ASSUME Countable, OneUnderway, Receive
  PROVE  OneUnderway'
<1>1. pc = "wait" /\ ~torn /\ replies # <<>> /\ up
  BY DEF Receive, Countable, InOrder, Numbered
<1>2. UNCHANGED <<call, tries, first, asked, requests, torn, up, faults, srv>>
  BY DEF Receive
<1>3. pc' = "done" \/ (pc' = "send" /\ call.kind = "transfer")
  BY DEF Receive, Returns, Resent
<1>4. ASSUME Clean
      PROVE  took' = asked /\ replies' = <<>> /\ requests = <<>> /\ ~srv.busy
  <2>1. OnItsWayBack
    BY <1>1, <1>4 DEF OneUnderway, Awaits, OnItsWay, AtServer
  <2>2. PICK r : replies = <<r>> /\ r.id = asked
    BY <2>1 DEF OnItsWayBack
  <2> QED BY <2>1, <2>2 DEF Receive, OnItsWayBack
<1> QED BY <1>1, <1>2, <1>3, <1>4 DEF OneUnderway, Nothing, Clean, Awaits

\* Deadlines, torn replies and broken streams.
LEMMA FaultKeeps ==
  ASSUME Countable, OneUnderway, TimeOut \/ ReceiveTorn \/ ReadFails \/ Lose \/ Redial
  PROVE  OneUnderway'
<1> USE DEF OneUnderway, Clean, Awaits
<1>1. CASE TimeOut
  <2>1. /\ faults # {} /\ pc' = "done" /\ result' = "error"
        /\ UNCHANGED <<first, asked, up, faults, srv>>
    BY <1>1 DEF TimeOut, Returns
  <2>2. torn' => up /\ asked > 0
    <3> SUFFICES ASSUME torn', ~torn PROVE up /\ asked > 0
      BY <2>1
    <3>1. replies # <<>>
      BY <1>1 DEF TimeOut
    <3>2. up
      BY <3>1 DEF Countable, InOrder, Numbered
    <3>3. 1 \in DOMAIN replies /\ replies[1] \in Incoming
      BY <3>1 DEF Countable, InOrder, Typed, StreamTyped
    <3>4. /\ took < replies[1].id /\ replies[1].id <= Answered /\ took \in 0..Answered
      BY <3>3 DEF Countable, InOrder, Numbered, Between
    <3>5. asked \in Nat /\ srv.id \in Nat /\ srv.id <= asked
      BY NumbersTyped DEF Countable
    <3> QED BY <3>2, <3>3, <3>4, <3>5 DEF Answered, Incoming
  <2> QED BY <2>1, <2>2
<1>2. CASE ReceiveTorn
  <2>1. /\ torn /\ pc = "wait" /\ pc' = "done" /\ result' = "error"
        /\ UNCHANGED <<first, asked, up, faults, srv>>
    BY <1>2 DEF ReceiveTorn, Returns
  <2> QED BY <2>1
<1>3. CASE ReadFails
  <2>1. /\ ~up /\ pc' = "done" /\ result' = "error"
        /\ UNCHANGED <<first, asked, torn, up, faults, srv>>
    BY <1>3 DEF ReadFails, Returns, stream
  <2> QED BY <2>1
<1>4. CASE Lose
  <2>1. /\ ~up' /\ ~torn' /\ replies' = <<>> /\ requests' \in {requests, <<>>}
        /\ UNCHANGED <<pc, tries, result, first, asked, took, faults, srv>>
        /\ "loss" \in faults \/ ~Clean
    BY <1>4 DEF Lose, client
  <2>2. faults # {}
    BY <2>1
  <2>3. Nothing => Nothing'
    BY <2>1 DEF Nothing
  <2> QED BY <2>1, <2>2, <2>3
<1>5. CASE Redial
  <2>1. /\ pc = "idle" /\ ~up /\ requests = <<>> /\ first' = 1 /\ srv' = NoPacket
        /\ UNCHANGED <<pc, requests, replies, torn, faults>>
    BY <1>5 DEF Redial
  <2>2. replies = <<>> /\ ~torn /\ faults # {}
    BY <2>1 DEF Countable, InOrder, Numbered
  <2> QED BY <2>1, <2>2 DEF Nothing, NoPacket
<1> QED BY <1>1, <1>2, <1>3, <1>4, <1>5

LEMMA ServerKeeps ==
  ASSUME OneUnderway, Server \/ Poll
  PROVE  OneUnderway'
<1>1. UNCHANGED <<call, pc, tries, result, first, asked, took, torn, up, faults>>
  BY DEF Server, Take, Run, Poll, Answer, Fail, Replies, client, stream
<1>2. ~Nothing
  BY DEF Server, Take, Run, Poll, Current, Answer, Fail, Nothing
<1>3. /\ pc # "wait" => ~Clean \/ pc # "done" \/ result # "ok"
      /\ ~(Clean /\ pc \in {"idle", "send"}) /\ (pc = "done" => faults # {})
  BY <1>2 DEF OneUnderway
<1>4. Clean' = Clean /\ Awaits' = Awaits
  BY <1>1 DEF Clean, Awaits
<1>5. DOMAIN srv' = {"id", "call", "busy", "issued", "words"}
  <2>1. DOMAIN srv = {"id", "call", "busy", "issued", "words"}
    BY DEF OneUnderway
  <2>2. CASE Take
    BY <2>2 DEF Take
  <2>3. CASE Run
    <3>1. PICK n, ws : srv' = [srv EXCEPT !.issued = n, !.words = ws]
      BY <2>3 DEF Run
    <3> QED BY ONLY <2>1, <3>1
  <2>4. CASE Poll
    BY <2>1, <2>4 DEF Poll
  <2>5. CASE Answer \/ Fail
    <3>1. srv' = [srv EXCEPT !.busy = FALSE]
      BY <2>5 DEF Answer, Fail, Replies
    <3> QED BY ONLY <2>1, <3>1
  <2> QED BY <2>2, <2>3, <2>4, <2>5 DEF Server
<1>6. ASSUME Awaits PROVE (OnItsWay \/ AtServer \/ OnItsWayBack)'
  <2>1. OnItsWay \/ AtServer \/ OnItsWayBack
    BY <1>6 DEF OneUnderway
  <2>2. CASE Take
    <3>1. OnItsWay
      BY <2>1, <2>2 DEF Take, AtServer, OnItsWayBack
    <3>2. PICK p : requests = <<p>> /\ p.id = asked
      BY <3>1 DEF OnItsWay
    <3>3. Head(requests) = p /\ Tail(requests) = <<>>
      BY ONLY <3>2
    <3>4. requests' = <<>> /\ replies' = <<>>
      BY <2>2, <3>1, <3>3 DEF Take, OnItsWay
    <3>5. srv'.id = asked /\ srv'.busy
      BY <2>2, <3>2, <3>3 DEF Take
    <3> QED BY <1>1, <3>4, <3>5 DEF AtServer
  <2>3. CASE Run \/ Poll
    <3>1. AtServer
      BY <2>1, <2>3 DEF Run, Poll, Current, OnItsWay, OnItsWayBack
    <3>2. UNCHANGED <<requests, replies>>
      BY <2>3 DEF Run, Poll, stream
    <3>3. srv'.id = srv.id /\ srv'.busy = srv.busy
      <4>1. CASE Poll
        BY <4>1 DEF Poll
      <4>2. CASE Run
        <5>1. PICK n, ws : srv' = [srv EXCEPT !.issued = n, !.words = ws]
          BY <4>2 DEF Run
        <5>2. DOMAIN srv = {"id", "call", "busy", "issued", "words"}
          BY DEF OneUnderway
        <5> QED BY ONLY <5>1, <5>2
      <4> QED BY <2>3, <4>1, <4>2
    <3> QED BY <1>1, <3>1, <3>2, <3>3 DEF AtServer
  <2>4. CASE Answer \/ Fail
    <3>1. AtServer /\ up
      BY <1>6, <2>1, <2>4 DEF Answer, Fail, OnItsWay, OnItsWayBack, Awaits
    <3>2. PICK st, done, ws : Replies(st, done, ws)
      BY <2>4 DEF Answer, Fail
    <3>3. requests' = <<>> /\ srv'.busy = FALSE
      BY <3>1, <3>2 DEF Replies, AtServer, OneUnderway
    <3>4. replies' = <<[id |-> srv.id, cmd |-> Cmd(srv.call), status |-> st, done |-> done,
                        words |-> ws]>>
      BY <3>1, <3>2 DEF Replies, AtServer
    <3> QED BY <1>1, <3>1, <3>3, <3>4 DEF OnItsWayBack, AtServer
  <2> QED BY <2>2, <2>3, <2>4 DEF Server
<1>7. ASSUME faults' = {} PROVE Clean' /\ up' /\ ~torn' /\ pc' # "done"
  BY <1>1, <1>3, <1>4, <1>7 DEF OneUnderway
<1>8. torn' => up' /\ asked' > 0
  BY <1>1 DEF OneUnderway
<1>9. Awaits' => ~torn'
  BY <1>1, <1>4 DEF OneUnderway
<1>10. ~(Clean' /\ pc' \in {"idle", "send"}) /\ ~(Clean' /\ pc' = "done" /\ result' = "ok")
  BY <1>1, <1>3, <1>4
<1> QED BY <1>4, <1>5, <1>6, <1>7, <1>8, <1>9, <1>10 DEF OneUnderway

LEMMA Stepwise ==
  ASSUME Countable, OneUnderway, [Next]_vars
  PROVE  OneUnderway'
<1>1. CASE UNCHANGED vars
  BY <1>1 DEF vars, OneUnderway, Nothing, OnItsWay, AtServer, OnItsWayBack, Clean, Awaits
<1> QED BY <1>1, QuietSteps, ReceiveKeeps, FaultKeeps, ServerKeeps DEF Next, Client

LEMMA Invariance == Spec => [](Countable /\ OneUnderway)
<1>1. Init => Countable /\ OneUnderway
  BY Initially, InitInOrder, InitCounts DEF Countable, InOrder
<1>2. Countable /\ OneUnderway /\ [Next]_vars => (Countable /\ OneUnderway)'
  BY StepInOrder, StepCounts, Stepwise DEF Countable
<1> QED BY <1>1, <1>2, PTL DEF Spec

\* A call made on a clean link that succeeds has the reply to its own last packet,
\* whatever has gone wrong before and meanwhile (client.go exec).
THEOREM RepliesOwned == Spec => []OwnReply
<1>1. OneUnderway => OwnReply
  BY DEF OneUnderway, OwnReply
<1> QED BY <1>1, Invariance, PTL

-----------------------------------------------------------------------------
(* What a call brings back that was made on a clean link.                      *)

\* The words of the first n requests.
Flat(c, n) == FlattenSeq([k \in 1..n |-> WordsOf(c.reqs, k)])

LEMMA FlatNone == ASSUME NEW c PROVE Flat(c, 0) = <<>>
<1>1. [k \in 1..0 |-> WordsOf(c.reqs, k)] = <<>>
  OBVIOUS
<1> QED BY <1>1, FlattenEmpty DEF Flat

LEMMA FlatNext ==
  ASSUME NEW c, NEW n \in Nat
  PROVE  Flat(c, n + 1) = Flat(c, n) \o WordsOf(c.reqs, n + 1)
<1> DEFINE s == [k \in 1..(n + 1) |-> WordsOf(c.reqs, k)]
           t == [k \in 1..n |-> WordsOf(c.reqs, k)]
<1>1. s \in [1..(n + 1) -> Seq(Word)]
  <2>1. \A k \in 1..(n + 1) : WordsOf(c.reqs, k) \in Seq(Word)
    BY WordsOfType
  <2> QED BY <2>1
<1>2. t = [k \in 1..n |-> s[k]]
  OBVIOUS
<1>3. s[n + 1] = WordsOf(c.reqs, n + 1)
  OBVIOUS
<1>4. Flat(c, n + 1) = FlattenSeq(s) /\ Flat(c, n) = FlattenSeq(t)
  BY DEF Flat
<1> HIDE DEF s, t
<1>5. FlattenSeq(s) = FlattenSeq(t) \o s[n + 1]
  BY <1>1, <1>2, FlattenStep
<1> QED BY <1>3, <1>4, <1>5

\* The reads, and the requests with a time stamp, among the first n.
UpTo(S, n) == {k \in S : k <= n}
ReadsTo(c, n) == UpTo(Reads(c), n)
StampedTo(c, n) == UpTo(Stamped(c), n)
Bound(c, n) == Cardinality(ReadsTo(c, n)) + Cardinality(StampedTo(c, n))

\* A set of numbers up to n + 1 has one element more than up to n, if n + 1 is in it.
LEMMA CountNext ==
  ASSUME NEW S, NEW l \in Nat, S \subseteq 1..l, NEW n \in Nat, NEW m, m = n + 1
  PROVE  /\ Cardinality(UpTo(S, n)) \in Nat /\ Cardinality(UpTo(S, m)) \in Nat
         /\ Cardinality(UpTo(S, m)) =
              IF m \in S THEN Cardinality(UpTo(S, n)) + 1 ELSE Cardinality(UpTo(S, n))
<1> DEFINE A == {k \in S : k <= n}
           B == {k \in S : k <= m}
<1>0. A = UpTo(S, n) /\ B = UpTo(S, m)
  BY DEF UpTo
<1>1. IsFiniteSet(S)
  <2>1. IsFiniteSet(1..l)
    BY FS_Interval
  <2> QED BY <2>1, FS_Subset
<1>2. IsFiniteSet(A) /\ IsFiniteSet(B)
  BY <1>1, FS_Subset
<1>3. Cardinality(A) \in Nat /\ Cardinality(B) \in Nat
  BY <1>2, FS_CardinalityType
<1> DEFINE Goal == Cardinality(B) = IF m \in S THEN Cardinality(A) + 1 ELSE Cardinality(A)
<1>4. ASSUME m \in S PROVE Goal
  <2>1. m \notin A
    OBVIOUS
  <2>2. B = A \cup {m}
    <3>1. \A k \in S : k <= m <=> k <= n \/ k = m
      OBVIOUS
    <3> QED BY <1>4, <3>1
  <2> HIDE DEF A, B
  <2>3. Cardinality(A \cup {m}) = Cardinality(A) + 1
    BY <1>2, <2>1, FS_AddElement
  <2> QED BY <1>4, <2>2, <2>3
<1>5. ASSUME m \notin S PROVE Goal
  <2>1. \A k \in S : k <= m <=> k <= n
    BY <1>5
  <2>2. A = B
    BY <2>1
  <2> HIDE DEF A, B
  <2> QED BY <1>3, <1>5, <2>2
<1>6. Goal
  BY <1>4, <1>5
<1> HIDE DEF A, B
<1> QED BY <1>0, <1>3, <1>6

LEMMA WordsBounded ==
  ASSUME NEW c \in Calls \cup {Pins, NoCall}, NEW n \in Nat, NEW m, m = n + 1, m <= Len(c.reqs)
  PROVE  Bound(c, n) + Len(WordsOf(c.reqs, m)) <= Bound(c, m) /\ Bound(c, n) \in Nat
<1>1. /\ DOMAIN c.reqs = 1..Len(c.reqs) /\ Len(c.reqs) \in Nat /\ m \in DOMAIN c.reqs
      /\ c.reqs \in Seq(Request)
  BY CallShape
<1>2. Reads(c) \subseteq 1..Len(c.reqs) /\ Stamped(c) \subseteq 1..Len(c.reqs)
  BY <1>1 DEF Reads, Stamped
<1>3. /\ Cardinality(ReadsTo(c, n)) \in Nat /\ Cardinality(ReadsTo(c, m)) \in Nat
      /\ Cardinality(ReadsTo(c, m)) = IF m \in Reads(c) THEN Cardinality(ReadsTo(c, n)) + 1
                                      ELSE Cardinality(ReadsTo(c, n))
  <2> DEFINE S == Reads(c)
             l == Len(c.reqs)
  <2>1. l \in Nat /\ S \subseteq 1..l
    BY <1>1, <1>2
  <2> HIDE DEF S, l
  <2>2. /\ Cardinality(UpTo(S, n)) \in Nat /\ Cardinality(UpTo(S, m)) \in Nat
        /\ Cardinality(UpTo(S, m)) =
             IF m \in S THEN Cardinality(UpTo(S, n)) + 1 ELSE Cardinality(UpTo(S, n))
    BY <2>1, CountNext
  <2> QED BY <2>2 DEF S, ReadsTo
<1>4. /\ Cardinality(StampedTo(c, n)) \in Nat /\ Cardinality(StampedTo(c, m)) \in Nat
      /\ Cardinality(StampedTo(c, m)) =
           IF m \in Stamped(c) THEN Cardinality(StampedTo(c, n)) + 1
           ELSE Cardinality(StampedTo(c, n))
  <2> DEFINE S == Stamped(c)
             l == Len(c.reqs)
  <2>1. l \in Nat /\ S \subseteq 1..l
    BY <1>1, <1>2
  <2> HIDE DEF S, l
  <2>2. /\ Cardinality(UpTo(S, n)) \in Nat /\ Cardinality(UpTo(S, m)) \in Nat
        /\ Cardinality(UpTo(S, m)) =
             IF m \in S THEN Cardinality(UpTo(S, n)) + 1 ELSE Cardinality(UpTo(S, n))
    BY <2>1, CountNext
  <2> QED BY <2>2 DEF S, StampedTo
<1> DEFINE a == IF m \in Stamped(c) THEN 1 ELSE 0
           b == IF m \in Reads(c) THEN 1 ELSE 0
<1>5. Len(WordsOf(c.reqs, m)) <= a + b /\ Len(WordsOf(c.reqs, m)) \in Nat
  <2> DEFINE q == c.reqs[m]
             u == IF q.ts /\ q.op \in {"read", "write"} THEN <<TsWord(m)>> ELSE <<>>
             v == IF q.op = "read" THEN <<DataWord(m)>> ELSE <<>>
  <2>1. WordsOf(c.reqs, m) = u \o v
    BY DEF WordsOf
  <2>2. u \in Seq(Word) /\ v \in Seq(Word)
    <3>1. m \in Nat
      OBVIOUS
    <3>2. <<TsWord(m)>> \in Seq(Word) /\ <<DataWord(m)>> \in Seq(Word) /\ <<>> \in Seq(Word)
      BY <3>1 DEF TsWord, DataWord, Word
    <3> QED BY <3>2
  <2>3. Len(u \o v) = Len(u) + Len(v) /\ Len(u) \in Nat /\ Len(v) \in Nat
    <3> HIDE DEF u, v
    <3> QED BY <2>2
  <2>4. q \in Request
    BY <1>1
  <2>5. Len(u) <= a
    <3>1. CASE q.ts /\ q.op \in {"read", "write"}
      <4>1. m \in Stamped(c)
        BY <1>1, <3>1 DEF Stamped
      <4>2. Len(u) = 1
        BY <3>1
      <4> QED BY <4>1, <4>2
    <3>2. CASE ~(q.ts /\ q.op \in {"read", "write"})
      <4>1. Len(u) = 0
        BY <3>2
      <4> QED BY <4>1
    <3> QED BY <3>1, <3>2
  <2>6. Len(v) <= b
    <3>1. CASE q.op = "read"
      <4>1. m \in Reads(c)
        BY <1>1, <3>1 DEF Reads
      <4>2. Len(v) = 1
        BY <3>1
      <4> QED BY <4>1, <4>2
    <3>2. CASE q.op # "read"
      <4>1. Len(v) = 0
        BY <3>2
      <4> QED BY <4>1
    <3> QED BY <3>1, <3>2
  <2> HIDE DEF u, v
  <2>7. a \in Nat /\ b \in Nat
    OBVIOUS
  <2> HIDE DEF a, b
  <2> QED BY <2>1, <2>3, <2>5, <2>6, <2>7
<1>6. /\ Cardinality(ReadsTo(c, m)) = Cardinality(ReadsTo(c, n)) + b
      /\ Cardinality(StampedTo(c, m)) = Cardinality(StampedTo(c, n)) + a
      /\ a \in Nat /\ b \in Nat
  BY <1>3, <1>4
<1> HIDE DEF a, b
<1>7. Bound(c, m) = Bound(c, n) + (a + b) /\ Bound(c, n) \in Nat /\ Bound(c, m) \in Nat
  <2> DEFINE rn == Cardinality(ReadsTo(c, n))  sn == Cardinality(StampedTo(c, n))
             rm == Cardinality(ReadsTo(c, m))  sm == Cardinality(StampedTo(c, m))
  <2>1. rn \in Nat /\ sn \in Nat
    BY <1>3, <1>4
  <2>2. rm = rn + b /\ sm = sn + a
    BY <1>6
  <2>3. Bound(c, m) = rm + sm /\ Bound(c, n) = rn + sn
    BY DEF Bound
  <2> HIDE DEF rn, sn, rm, sm
  <2> QED BY <1>6, <2>1, <2>2, <2>3
<1> DEFINE l == Len(WordsOf(c.reqs, m))  x == Bound(c, n)  y == Bound(c, m)
<1>8. /\ l <= a + b /\ l \in Nat /\ a \in Nat /\ b \in Nat
      /\ y = x + (a + b) /\ x \in Nat /\ y \in Nat
  BY <1>5, <1>6, <1>7
<1> HIDE DEF l, x, y
<1>9. x + l <= y
  BY <1>8
<1> QED BY <1>8, <1>9 DEF l, x, y

\* The words of a list are words, and no more than the client expects.
LEMMA FlatBounded ==
  ASSUME NEW c \in Calls \cup {Pins, NoCall}, NEW n \in 0..Len(c.reqs)
  PROVE  Flat(c, n) \in Seq(Word) /\ Len(Flat(c, n)) <= Bound(c, n)
<1> DEFINE Right(k) == Flat(c, k) \in Seq(Word) /\ Len(Flat(c, k)) <= Bound(c, k)
           T == {k \in 0..Len(c.reqs) : ~Right(k)}
<1> SUFFICES ASSUME T # {} PROVE FALSE
  OBVIOUS
<1>1. PICK k \in T : \A y \in T : k <= y
  <2>1. T \subseteq Nat
    OBVIOUS
  <2> HIDE DEF T
  <2> QED BY <2>1, Least
<1>2. Len(c.reqs) \in Nat /\ k \in 0..Len(c.reqs) /\ ~Right(k)
  BY CallShape
<1>3. CASE k = 0
  <2>1. ReadsTo(c, 0) = {} /\ StampedTo(c, 0) = {}
    <3>1. \A i \in DOMAIN c.reqs : ~(i <= 0)
      BY CallShape
    <3> QED BY <3>1 DEF ReadsTo, StampedTo, UpTo, Reads, Stamped
  <2>2. Bound(c, 0) = 0
    <3>1. Cardinality({}) = 0
      BY FS_EmptySet
    <3>2. Cardinality(ReadsTo(c, 0)) = 0 /\ Cardinality(StampedTo(c, 0)) = 0
      BY <2>1, <3>1, Zenon
    <3> QED BY <3>2 DEF Bound
  <2>3. <<>> \in Seq(Word) /\ Len(<<>>) = 0
    OBVIOUS
  <2>4. Flat(c, 0) = <<>>
    BY FlatNone
  <2>5. Right(0)
    <3>1. Flat(c, 0) \in Seq(Word)
      BY <2>3, <2>4
    <3>2. Len(Flat(c, 0)) = 0
      BY <2>3, <2>4
    <3> QED BY <2>2, <3>1, <3>2
  <2> HIDE DEF Right
  <2> QED BY <1>2, <1>3, <2>5
<1>4. CASE k # 0
  <2> DEFINE j == k - 1
  <2>1. j \in Nat /\ j \in 0..Len(c.reqs) /\ k = j + 1 /\ k <= Len(c.reqs) /\ j < k
    BY <1>2, <1>4
  <2>2. Right(j)
    BY <1>1, <2>1
  <2>3. Flat(c, k) = Flat(c, j) \o WordsOf(c.reqs, k)
    BY <2>1, FlatNext
  <2>4. WordsOf(c.reqs, k) \in Seq(Word)
    BY <2>1, WordsOfType
  <2>5. Bound(c, j) + Len(WordsOf(c.reqs, k)) <= Bound(c, k)
    <3> HIDE DEF j
    <3> QED BY <2>1, WordsBounded
  <2>6. Bound(c, j) \in Nat /\ Bound(c, k) \in Int
    <3>1. \A i \in Nat : Bound(c, i) \in Nat
      <4> SUFFICES ASSUME NEW i \in Nat PROVE Bound(c, i) \in Nat
        OBVIOUS
      <4>1. IsFiniteSet(DOMAIN c.reqs)
        <5>1. DOMAIN c.reqs = 1..Len(c.reqs) /\ Len(c.reqs) \in Nat
          BY CallShape
        <5>2. IsFiniteSet(1..Len(c.reqs))
          BY <5>1, FS_Interval
        <5> QED BY <5>1, <5>2
      <4>2. ReadsTo(c, i) \subseteq DOMAIN c.reqs /\ StampedTo(c, i) \subseteq DOMAIN c.reqs
        BY DEF ReadsTo, StampedTo, UpTo, Reads, Stamped
      <4>3. Cardinality(ReadsTo(c, i)) \in Nat /\ Cardinality(StampedTo(c, i)) \in Nat
        BY <4>1, <4>2, FS_Subset, FS_CardinalityType
      <4> QED BY <4>3 DEF Bound
    <3>2. k \in Nat
      BY <1>2
    <3> HIDE DEF j
    <3>3. Bound(c, j) \in Nat /\ Bound(c, k) \in Nat
      BY <2>1, <3>1, <3>2
    <3> QED BY <3>3
  <2> DEFINE u == Flat(c, j)
             v == WordsOf(c.reqs, k)
  <2>7. u \in Seq(Word) /\ Len(u) <= Bound(c, j) /\ v \in Seq(Word) /\ Flat(c, k) = u \o v
    BY <2>2, <2>3, <2>4
  <2>8. Bound(c, j) + Len(v) <= Bound(c, k)
    BY <2>5
  <2> HIDE DEF u, v
  <2>9. u \o v \in Seq(Word) /\ Len(u \o v) = Len(u) + Len(v) /\ Len(u) \in Nat /\ Len(v) \in Nat
    BY <2>7
  <2>10. Len(Flat(c, k)) <= Bound(c, k)
    <3> HIDE DEF j
    <3> QED BY <2>6, <2>7, <2>8, <2>9
  <2> QED BY <1>2, <2>7, <2>9, <2>10
<1> QED BY <1>3, <1>4

LEMMA ExpectBounds ==
  ASSUME NEW c \in Calls \cup {Pins, NoCall}
  PROVE  Bound(c, Len(c.reqs)) = Expect(c)
<1>1. /\ DOMAIN c.reqs = 1..Len(c.reqs) /\ Len(c.reqs) \in Nat
  BY CallShape
<1>2. \A k \in DOMAIN c.reqs : k <= Len(c.reqs)
  BY <1>1
<1>3. ReadsTo(c, Len(c.reqs)) = Reads(c) /\ StampedTo(c, Len(c.reqs)) = Stamped(c)
  BY <1>2 DEF ReadsTo, StampedTo, UpTo, Reads, Stamped
<1>4. CASE c.kind # "blockwrite"
  <2>1. Expect(c) = Cardinality(Reads(c)) + Cardinality(Stamped(c))
    BY <1>4 DEF Expect, Reads
  <2> QED BY <1>3, <2>1 DEF Bound
<1>5. CASE c.kind = "blockwrite"
  <2>1. IsCall(c)
    BY <1>5, CallsAssumption DEF Pins, NoCall
  <2>2. \A k \in DOMAIN c.reqs : c.reqs[k].op = "write" /\ ~c.reqs[k].ts
    BY <1>5, <2>1 DEF IsCall
  <2>3. Reads(c) = {} /\ Stamped(c) = {}
    BY <2>2 DEF Reads, Stamped
  <2> QED BY <1>3, <1>5, <2>3, FS_EmptySet DEF Bound, Expect
<1> QED BY <1>4, <1>5

\* What the client, the target and the server make of the current call.  In order: the
\* packet has not reached the server, the server runs its list, the reply is out.
RanUpTo(n) == \A k \in DOMAIN call.reqs : Plain(k) => ran[k] <= n

Untaken ==
  /\ requests # <<>> /\ requests[1].call = call /\ RanUpTo(tries - 1)
  /\ call.kind # "transfer" => srv.id = 0
Served == srv.call = call /\ srv.words = Flat(call, srv.issued) /\ srv.id > 0
Halfway ==
  /\ srv.busy /\ Served
  /\ \A k \in DOMAIN call.reqs : Plain(k) =>
       IF k <= srv.issued THEN ran[k] \in 1..tries ELSE ran[k] <= tries - 1
Complete(r) ==
  /\ srv.issued = Len(call.reqs)
  /\ \A k \in DOMAIN call.reqs : Plain(k) => ran[k] >= 1
  /\ \E n \in 0..Len(srv.words) : r.words = SubSeq(srv.words, 1, n)
Through ==
  /\ replies # <<>> /\ Served /\ RanUpTo(tries)
  /\ replies[1].status = "OK" => Complete(replies[1])

Serving ==
  /\ Clean /\ pc = "idle" => srv.id = 0
  /\ Clean /\ pc = "send" => RanUpTo(tries) /\ (call.kind # "transfer" => srv.id = 0)
  /\ Awaits => tries > 0 /\ (Untaken \/ Halfway \/ Through)
  /\ pc = "done" => result \in {"ok", "error"}
  /\ Delivered

Waiting == OneUnderway /\ Countable /\ Serving

LEMMA AllFlat ==
  ASSUME NEW c \in Calls \cup {Pins, NoCall}
  PROVE  Flat(c, Len(c.reqs)) = FlattenSeq([k \in DOMAIN c.reqs |-> WordsOf(c.reqs, k)])
<1>1. DOMAIN c.reqs = 1..Len(c.reqs)
  BY CallShape
<1> QED BY <1>1, Zenon DEF Flat

LEMMA InitWaits == Init => Waiting
<1> SUFFICES ASSUME Init PROVE Waiting
  OBVIOUS
<1>1. OneUnderway /\ Countable
  BY Initially, InitInOrder, InitCounts DEF InOrder, Countable
<1>2. Serving
  BY DEF Init, Serving, Delivered, NoPacket, Awaits
<1> QED BY <1>1, <1>2 DEF Waiting

\* Where the packet is decides what is known of it.
LEMMA WhereItIs ==
  ASSUME Waiting, Awaits
  PROVE  /\ tries > 0
         /\ replies # <<>> => Through
         /\ ~srv.busy /\ requests # <<>> => Untaken /\ replies = <<>>
         /\ srv.busy => Halfway /\ replies = <<>> /\ requests = <<>> /\ srv.id >= first
<1> USE DEF Waiting
<1>1. OnItsWay \/ AtServer \/ OnItsWayBack
  BY DEF OneUnderway
<1>2. tries > 0 /\ (Untaken \/ Halfway \/ Through)
  BY DEF Serving
<1>3. CASE OnItsWay
  <2>1. Untaken /\ replies = <<>> /\ ~srv.busy
    BY <1>2, <1>3 DEF OnItsWay, Halfway, Through
  <2> QED BY <1>2, <2>1
<1>4. CASE AtServer
  <2>1. Halfway /\ replies = <<>> /\ requests = <<>> /\ srv.busy
    BY <1>2, <1>4 DEF AtServer, Untaken, Through
  <2>2. srv.id \in Nat /\ first = 1 /\ srv.id > 0
    BY <2>1, NumbersTyped DEF Halfway, Served, Awaits, Clean, Countable
  <2>3. srv.id >= first
    BY <2>2
  <2> QED BY <1>2, <2>1, <2>3
<1>5. CASE OnItsWayBack
  <2>1. Through /\ requests = <<>> /\ ~srv.busy
    BY <1>2, <1>5 DEF OnItsWayBack, Untaken, Halfway
  <2> QED BY <1>2, <2>1
<1> QED BY <1>1, <1>3, <1>4, <1>5

LEMMA QuietServes ==
  ASSUME Waiting, Call \/ Refuse \/ EmptyBlock \/ Send \/ Return
  PROVE  Serving'
<1> USE DEF Waiting, Clean, Awaits
<1>1. CASE Call
  <2>1. /\ pc = "idle" /\ pc' = "send" /\ tries' = 0
        /\ ran' = [k \in DOMAIN call'.reqs |-> 0]
        /\ UNCHANGED <<first, srv>>
    BY <1>1 DEF Call
  <2>2. RanUpTo(tries)'
    <3> SUFFICES ASSUME NEW k \in DOMAIN call'.reqs PROVE ran'[k] <= tries'
      BY DEF RanUpTo
    <3> QED BY <2>1
  <2>3. Clean' => srv'.id = 0
    BY <2>1 DEF Serving
  <2> QED BY <2>1, <2>2, <2>3 DEF Serving, Delivered
<1>2. CASE Refuse
  <2>1. pc' = "done" /\ result' = "error" /\ first' = first
    BY <1>2 DEF Refuse, Returns
  <2> QED BY <2>1 DEF Serving, Delivered
<1>3. CASE EmptyBlock
  <2>1. /\ pc' = "done" /\ result' = "ok" /\ values' = <<>> /\ first' = first
        /\ call' = call /\ call.reqs = <<>>
    BY <1>3 DEF EmptyBlock, Returns
  <2>2. DOMAIN call.reqs = {} /\ Len(call.reqs) = 0
    BY <2>1
  <2>3. values' = FlattenSeq([k \in DOMAIN call.reqs |-> WordsOf(call.reqs, k)])
    <3>1. call \in Calls \cup {Pins, NoCall}
      BY DEF Countable, InOrder, Typed, ClientTyped
    <3>2. Flat(call, Len(call.reqs)) = <<>>
      BY <2>2, FlatNone
    <3> QED BY <2>1, <3>1, <3>2, AllFlat
  <2>4. Delivered'
    BY <2>1, <2>2, <2>3 DEF Delivered
  <2> QED BY <2>1, <2>4 DEF Serving
<1>4. CASE Send
  <2>1. /\ pc = "send" /\ pc' = "wait" /\ tries' = tries + 1
        /\ requests' = Append(requests, [id |-> asked + 1, call |-> call])
        /\ UNCHANGED <<call, first, srv, ran>>
    BY <1>4 DEF Send
  <2>2. ASSUME Clean PROVE tries' > 0 /\ Untaken'
    <3>1. requests = <<>> /\ tries \in Nat
      BY <2>1, <2>2, NumbersTyped DEF OneUnderway, Nothing, Countable
    <3>2. requests' = <<[id |-> asked + 1, call |-> call]>>
      BY <2>1, <3>1
    <3>3. requests' # <<>> /\ requests'[1].call = call'
      BY <2>1, <3>2
    <3>4. tries' - 1 = tries /\ tries' > 0
      BY <2>1, <3>1
    <3>5. RanUpTo(tries - 1)'
      BY <2>1, <2>2, <3>4 DEF Serving, RanUpTo, Plain
    <3> QED BY <2>1, <2>2, <3>3, <3>4, <3>5 DEF Untaken, Serving
  <2> QED BY <2>1, <2>2 DEF Serving, Delivered
<1>5. CASE Return
  <2>1. pc' = "idle" /\ (srv' = NoPacket \/ (first' = asked + 1 /\ InFlight))
    BY <1>5 DEF Return
  <2>2. ASSUME Clean' PROVE srv'.id = 0
    <3>1. CASE srv' = NoPacket
      BY <3>1 DEF NoPacket
    <3>2. CASE first' = asked + 1 /\ InFlight
      <4>1. OneUnderway'
        BY <1>5, QuietSteps
      <4>2. UNCHANGED <<requests, replies, torn, srv>>
        BY <1>5, <3>2 DEF Return
      <4> QED BY <2>1, <2>2, <3>2, <4>1, <4>2 DEF OneUnderway, Nothing, InFlight
    <3> QED BY <2>1, <3>1, <3>2
  <2> QED BY <2>1, <2>2 DEF Serving, Delivered
<1> QED BY <1>1, <1>2, <1>3, <1>4, <1>5

LEMMA FaultServes ==
  ASSUME Waiting, TimeOut \/ ReceiveTorn \/ ReadFails \/ Lose \/ Redial
  PROVE  Serving'
<1> USE DEF Waiting, Clean, Awaits
<1>1. CASE TimeOut \/ ReceiveTorn \/ ReadFails
  <2>1. pc' = "done" /\ result' = "error"
    BY <1>1 DEF TimeOut, ReceiveTorn, ReadFails, Returns
  <2> QED BY <2>1 DEF Serving, Delivered
<1>2. CASE Lose
  <2>1. ~up' /\ UNCHANGED <<call, pc, tries, result, values, first, srv, ran>>
    BY <1>2 DEF Lose, client
  <2>2. RanUpTo(tries) => RanUpTo(tries)'
    BY <2>1 DEF RanUpTo, Plain
  <2>3. Delivered'
    BY <2>1 DEF Serving, Delivered
  <2> QED BY <2>1, <2>2, <2>3 DEF Serving
<1>3. CASE Redial
  <2>1. pc' = "idle" /\ srv' = NoPacket
    BY <1>3 DEF Redial
  <2> QED BY <2>1 DEF Serving, Delivered, NoPacket
<1> QED BY <1>1, <1>2, <1>3

\* The server may be at a call that was given up: then nothing is said of it.
LEMMA ElsewhereServes ==
  ASSUME Waiting, ~Awaits, Server \/ Poll
  PROVE  Serving'
<1>1. UNCHANGED <<pc, result, first, up>>
  BY DEF Server, Take, Run, Poll, Answer, Fail, Replies, client, stream
<1>2. ~Nothing
  BY DEF Server, Take, Run, Poll, Current, Answer, Fail, Nothing
<1>3. ~(Clean /\ pc \in {"idle", "send"}) /\ ~(Clean /\ pc = "done" /\ result = "ok")
  BY <1>2 DEF Waiting, OneUnderway
<1> QED BY <1>1, <1>3 DEF Waiting, Serving, Delivered, Clean, Awaits

\* What the client makes of a reply it accepts is every word of the call.
LEMMA AcceptedIsAll ==
  ASSUME NEW ws \in Seq(Word), NEW n \in 0..Len(ws), NEW v, v = SubSeq(ws, 1, n),
         NEW e \in Nat, Len(ws) <= e, e <= Len(v)
  PROVE  SubSeq(v, 1, e) = ws
<1>1. Len(v) = n /\ Len(ws) \in Nat
  OBVIOUS
<1>2. n = Len(ws) /\ e = Len(ws)
  BY <1>1
<1>3. v = ws
  BY <1>2
<1> QED BY <1>2, <1>3

LEMMA ReceiveServes ==
  ASSUME Waiting, Receive
  PROVE  Serving'
<1> USE DEF Waiting, Clean, Awaits
<1> DEFINE r == Head(replies)
<1>1. /\ UNCHANGED <<call, tries, first, srv, ran>>
      /\ \/ Accepts(r) /\ Returns("ok", Collected(r))
         \/ Resent(r)
         \/ Returns("error", <<>>)
  BY DEF Receive
<1>2. Clean => Through /\ tries > 0
  <2>1. pc = "wait" /\ replies # <<>> /\ up
    BY DEF Receive, Countable, InOrder, Numbered
  <2> QED BY <2>1, WhereItIs
<1>3. r = replies[1] /\ r.words \in Seq(Word)
  <2>1. replies \in Seq(Incoming) /\ replies # <<>>
    BY DEF Receive, Countable, InOrder, Typed, StreamTyped
  <2>2. r = replies[1] /\ r \in Incoming
    BY <2>1
  <2> QED BY <2>2 DEF Incoming
<1> HIDE DEF r
<1>4. CASE Returns("error", <<>>)
  BY <1>1, <1>4 DEF Serving, Delivered, Returns
<1>5. CASE Resent(r)
  <2>1. pc' = "send" /\ call.kind = "transfer"
    BY <1>5 DEF Resent
  <2>2. Clean => RanUpTo(tries)'
    BY <1>1, <1>2 DEF Through, RanUpTo, Plain
  <2> QED BY <1>1, <2>1, <2>2 DEF Serving, Delivered
<1>6. CASE Accepts(r) /\ Returns("ok", Collected(r)) /\ ~(Clean /\ call.kind # "pins")
  <2>1. pc' = "done" /\ result' = "ok"
    BY <1>6 DEF Returns
  <2> QED BY <1>1, <1>6, <2>1 DEF Serving, Delivered
<1>7. CASE Accepts(r) /\ Returns("ok", Collected(r)) /\ Clean /\ call.kind # "pins"
  <2>1. /\ r.status = "OK" /\ Len(r.words) >= Expect(call)
        /\ pc' = "done" /\ result' = "ok" /\ values' = SubSeq(r.words, 1, Expect(call))
    BY <1>7 DEF Accepts, Returns, Collected
  <2>2. Complete(r) /\ Served /\ RanUpTo(tries)
    BY <1>2, <1>3, <1>7, <2>1 DEF Through
  <2>3. call \in Calls \cup {Pins, NoCall} /\ ran \in [DOMAIN call.reqs -> Nat] /\ tries \in Nat
    BY DEF Countable, InOrder, Typed, ClientTyped
  <2>4. srv.words = Flat(call, Len(call.reqs)) /\ Len(call.reqs) \in Nat
    BY <2>2, <2>3, CallShape DEF Complete, Served
  <2>5. srv.words \in Seq(Word) /\ Len(srv.words) <= Expect(call) /\ Expect(call) \in Nat
    <3>1. Len(call.reqs) \in 0..Len(call.reqs)
      BY <2>4
    <3> QED BY <2>3, <2>4, <3>1, FlatBounded, ExpectBounds, ExpectType
  <2>6. PICK n \in 0..Len(srv.words) : r.words = SubSeq(srv.words, 1, n)
    BY <2>2 DEF Complete
  <2>7. values' = srv.words
    <3> DEFINE ws == srv.words
               v == r.words
               e == Expect(call)
    <3>1. /\ ws \in Seq(Word) /\ n \in 0..Len(ws) /\ v = SubSeq(ws, 1, n) /\ e \in Nat
          /\ Len(ws) <= e /\ e <= Len(v)
      <4>1. Len(v) \in Nat
        BY <1>3
      <4> QED BY <2>1, <2>5, <2>6, <4>1
    <3>2. SubSeq(v, 1, e) = ws
      <4> HIDE DEF ws, v, e
      <4> QED BY <3>1, AcceptedIsAll
    <3> QED BY <2>1, <3>2
  <2>8. values' = FlattenSeq([k \in DOMAIN call.reqs |-> WordsOf(call.reqs, k)])
    BY <2>3, <2>4, <2>7, AllFlat
  <2>9. \A k \in DOMAIN call.reqs : Plain(k) => ran[k] \in 1..tries
    <3> SUFFICES ASSUME NEW k \in DOMAIN call.reqs, Plain(k) PROVE ran[k] \in 1..tries
      OBVIOUS
    <3>1. ran[k] \in Nat /\ ran[k] >= 1 /\ ran[k] <= tries
      BY <2>2, <2>3 DEF Complete, RanUpTo
    <3> QED BY <2>3, <3>1
  <2>10. Delivered'
    BY <1>1, <2>8, <2>9 DEF Delivered, Plain
  <2> QED BY <1>1, <2>1, <2>10 DEF Serving
<1> QED BY <1>1, <1>4, <1>5, <1>6, <1>7

LEMMA TakeServes ==
  ASSUME Waiting, Awaits, Take
  PROVE  Serving'
<1> USE DEF Waiting
<1> DEFINE p == Head(requests)
<1>1. /\ ~srv.busy /\ requests # <<>>
      /\ srv' = [id |-> p.id, call |-> p.call, busy |-> TRUE, issued |-> 0, words |-> <<>>]
      /\ UNCHANGED <<call, pc, tries, result, values, first, up, ran>>
  BY DEF Take, client
<1>2. pc = "wait" /\ Untaken
  BY <1>1, WhereItIs DEF Awaits
<1>3. tries > 0 /\ tries \in Nat
  BY <1>2 DEF Serving, Countable, InOrder, Typed, ClientTyped
<1>4. p = requests[1] /\ p.id > 0 /\ p.call = call
  <2>1. requests \in Seq(Outgoing) /\ requests # <<>>
    BY <1>1 DEF Countable, InOrder, Typed, StreamTyped
  <2>2. p = requests[1] /\ 1 \in DOMAIN requests /\ p \in Outgoing
    BY <2>1
  <2>3. srv.id < p.id /\ srv.id \in 0..asked /\ p.id \in Nat
    BY <2>2 DEF Countable, InOrder, Numbered, Between, Outgoing
  <2>4. p.id > 0
    BY <2>3
  <2> QED BY <1>2, <2>2, <2>4 DEF Untaken
<1> HIDE DEF p
<1>5. /\ srv'.busy /\ srv'.call = call' /\ srv'.issued = 0 /\ srv'.words = <<>> /\ srv'.id > 0
  BY <1>1, <1>4
<1>6. Served'
  BY <1>5, FlatNone DEF Served
<1>7. \A k \in DOMAIN call.reqs : k \in Nat \ {0}
  BY CallShape DEF Countable, InOrder, Typed, ClientTyped
<1>8. Halfway'
  <2> SUFFICES ASSUME NEW k \in DOMAIN call'.reqs, Plain(k)'
      PROVE  IF k <= srv'.issued THEN ran'[k] \in 1..tries' ELSE ran'[k] <= tries' - 1
    BY <1>5, <1>6 DEF Halfway
  <2>1. ran[k] <= tries - 1
    BY <1>1, <1>2 DEF Untaken, RanUpTo, Plain
  <2>2. ~(k <= srv'.issued)
    BY <1>1, <1>5, <1>7
  <2> QED BY <1>1, <2>1, <2>2
<1> QED BY <1>1, <1>2, <1>3, <1>8 DEF Serving, Delivered, Clean

LEMMA RunServes ==
  ASSUME Waiting, Awaits, Run \/ Poll
  PROVE  Serving'
<1> USE DEF Waiting
<1> DEFINE n == srv.issued + 1
           op == call.reqs[n].op
<1>1. /\ srv.busy /\ srv.issued < Len(srv.call.reqs) /\ Runs(n)
      /\ UNCHANGED <<call, pc, tries, result, values, first>>
  BY DEF Run, Poll, Current, client, stream
<1>2. pc = "wait" /\ Halfway /\ srv.id >= first /\ tries > 0
  BY <1>1, WhereItIs DEF Awaits
<1>3. /\ tries > 0 /\ tries \in Nat /\ ran \in [DOMAIN call.reqs -> Nat]
      /\ call \in Calls \cup {Pins, NoCall} /\ srv.issued \in Nat
      /\ srv.call = call /\ srv.words = Flat(call, srv.issued) /\ srv.id > 0
      /\ \A k \in DOMAIN call.reqs : Plain(k) =>
           IF k <= srv.issued THEN ran[k] \in 1..tries ELSE ran[k] <= tries - 1
  BY <1>2 DEF Halfway, Served, Serving, Countable, InOrder, Typed, ClientTyped, ServerTyped
<1>4. n \in DOMAIN call.reqs /\ \A k \in DOMAIN call.reqs : k \in Nat
  <2>1. DOMAIN call.reqs = 1..Len(call.reqs) /\ Len(call.reqs) \in Nat
    BY <1>3, CallShape
  <2> QED BY <1>1, <1>3, <2>1
<1>5. ran' = IF op # "mask" THEN [ran EXCEPT ![n] = @ + 1] ELSE ran
  BY <1>1, <1>2, <1>3 DEF Runs
<1>6. \A k \in DOMAIN call.reqs : k # n => ran'[k] = ran[k]
  BY <1>3, <1>5
<1>7. op # "mask" => ran'[n] = ran[n] + 1
  BY <1>3, <1>4, <1>5
<1> HIDE DEF n, op
<1>8. CASE Run
  <2>1. srv' = [srv EXCEPT !.issued = n, !.words = srv.words \o WordsOf(srv.call.reqs, n)]
    BY <1>8 DEF Run, n
  <2>2. srv \in [id : Nat, call : Calls \cup {Pins, NoCall}, busy : BOOLEAN, issued : Nat,
                 words : Seq(Word)]
    BY DEF Countable, InOrder, Typed, ServerTyped
  <2>3. /\ srv'.issued = n /\ srv'.call = srv.call /\ srv'.busy = srv.busy /\ srv'.id = srv.id
        /\ srv'.words = srv.words \o WordsOf(srv.call.reqs, n)
    BY <2>1, <2>2
  <2>4. Flat(call, n) = Flat(call, srv.issued) \o WordsOf(call.reqs, n)
    BY <1>3, FlatNext DEF n
  <2>5. Served'
    BY <1>1, <1>3, <2>3, <2>4 DEF Served
  <2>6. Halfway'
    <3> SUFFICES ASSUME NEW k \in DOMAIN call.reqs, Plain(k)
        PROVE  IF k <= srv'.issued THEN ran'[k] \in 1..tries' ELSE ran'[k] <= tries' - 1
      BY <1>1, <2>3, <2>5 DEF Halfway, Plain
    <3>1. IF k <= srv.issued THEN ran[k] \in 1..tries ELSE ran[k] <= tries - 1
      BY <1>3
    <3>2. k \in Nat /\ ran[k] \in Nat /\ n = srv.issued + 1
      BY <1>3, <1>4 DEF n
    <3>3. CASE k = n
      <4>1. op # "mask"
        BY <3>3 DEF Plain, op
      <4>2. ~(k <= srv.issued) /\ k <= n
        BY <1>3, <3>2, <3>3
      <4>3. ran'[k] = ran[k] + 1
        BY <1>7, <3>3, <4>1
      <4>4. ran'[k] \in 1..tries
        BY <1>3, <3>1, <3>2, <4>2, <4>3
      <4> QED BY <1>1, <2>3, <4>2, <4>4
    <3>4. CASE k # n
      <4>1. ran'[k] = ran[k]
        BY <1>6, <3>4
      <4>2. k <= n <=> k <= srv.issued
        BY <1>3, <3>2, <3>4
      <4> QED BY <1>1, <2>3, <3>1, <4>1, <4>2
    <3> QED BY <3>3, <3>4
  <2> QED BY <1>1, <1>2, <1>3, <2>6 DEF Serving, Delivered
<1>9. CASE Poll
  <2>1. srv' = srv /\ call.reqs[n].op = "match"
    BY <1>3, <1>9 DEF Poll, n
  <2>2. \A k \in DOMAIN call.reqs : Plain(k) => ran'[k] = ran[k]
    BY <1>6, <2>1 DEF Plain
  <2>3. Served'
    BY <1>1, <1>3, <2>1 DEF Served
  <2>4. Halfway'
    <3> SUFFICES ASSUME NEW k \in DOMAIN call.reqs, Plain(k)
        PROVE  IF k <= srv'.issued THEN ran'[k] \in 1..tries' ELSE ran'[k] <= tries' - 1
      BY <1>1, <2>1, <2>3 DEF Halfway, Plain
    <3> QED BY <1>1, <1>3, <2>1, <2>2
  <2> QED BY <1>1, <1>2, <1>3, <2>4 DEF Serving, Delivered
<1> QED BY <1>8, <1>9

LEMMA AnswerServes ==
  ASSUME Waiting, Awaits, Answer \/ Fail
  PROVE  Serving'
<1> USE DEF Waiting
<1>1. srv.busy /\ pc = "wait" /\ Halfway /\ replies = <<>> /\ up
  <2>1. srv.busy
    BY DEF Answer, Fail
  <2> QED BY <2>1, WhereItIs DEF Awaits
<1>2. PICK st, ws :
        /\ st \in {"OK", "WAIT", "ERROR"}
        /\ Replies(st, srv.issued, ws)
        /\ st = "OK" => /\ srv.issued = Len(srv.call.reqs)
                        /\ \E n \in 0..Len(srv.words) : ws = SubSeq(srv.words, 1, n)
  <2> DEFINE Gives(st, ws) ==
               /\ st \in {"OK", "WAIT", "ERROR"}
               /\ Replies(st, srv.issued, ws)
               /\ st = "OK" => /\ srv.issued = Len(srv.call.reqs)
                               /\ \E n \in 0..Len(srv.words) : ws = SubSeq(srv.words, 1, n)
  <2>1. ASSUME Answer PROVE \E st, ws : Gives(st, ws)
    <3>1. PICK n \in 0..Len(srv.words) : Replies("OK", srv.issued, SubSeq(srv.words, 1, n))
      BY <2>1 DEF Answer
    <3>2. Gives("OK", SubSeq(srv.words, 1, n))
      BY <2>1, <3>1 DEF Answer
    <3> HIDE DEF Gives
    <3> QED BY <3>2
  <2>2. ASSUME Fail PROVE \E st, ws : Gives(st, ws)
    <3>1. PICK st \in {"WAIT", "ERROR"} : Replies(st, srv.issued, <<>>)
      BY <2>2 DEF Fail
    <3>2. Gives(st, <<>>)
      BY <3>1
    <3> HIDE DEF Gives
    <3> QED BY <3>2
  <2> QED BY <2>1, <2>2
<1> DEFINE r == [id |-> srv.id, cmd |-> Cmd(srv.call), status |-> st, done |-> srv.issued,
                 words |-> ws]
<1>3. /\ srv' = [srv EXCEPT !.busy = FALSE] /\ replies' = Append(replies, r)
      /\ UNCHANGED <<call, pc, tries, result, values, first, ran>>
  BY <1>1, <1>2 DEF Replies, client
<1>4. replies' # <<>> /\ replies'[1].status = st /\ replies'[1].words = ws
  <2>1. replies' = <<r>>
    BY <1>1, <1>3
  <2> QED BY <2>1
<1>5. /\ srv'.issued = srv.issued /\ srv'.call = srv.call /\ srv'.id = srv.id
      /\ srv'.words = srv.words
  <2>1. srv \in [id : Nat, call : Calls \cup {Pins, NoCall}, busy : BOOLEAN, issued : Nat,
                 words : Seq(Word)]
    BY DEF Countable, InOrder, Typed, ServerTyped
  <2> QED BY <1>3, <2>1
<1>6. Served'
  BY <1>1, <1>3, <1>5 DEF Halfway, Served
<1>7. /\ tries > 0 /\ tries \in Nat /\ ran \in [DOMAIN call.reqs -> Nat]
      /\ call \in Calls \cup {Pins, NoCall}
      /\ \A k \in DOMAIN call.reqs : Plain(k) =>
           IF k <= srv.issued THEN ran[k] \in 1..tries ELSE ran[k] <= tries - 1
  BY <1>1 DEF Halfway, Serving, Countable, InOrder, Typed, ClientTyped
<1>8. RanUpTo(tries)'
  <2> SUFFICES ASSUME NEW k \in DOMAIN call.reqs, Plain(k) PROVE ran[k] <= tries
    BY <1>3 DEF RanUpTo, Plain
  <2>1. IF k <= srv.issued THEN ran[k] \in 1..tries ELSE ran[k] <= tries - 1
    BY <1>7
  <2>2. ran[k] \in Nat
    BY <1>7
  <2> QED BY <1>7, <2>1, <2>2
<1>9. ASSUME st = "OK"
      PROVE  Complete(replies[1])'
  <2>1. srv.issued = Len(call.reqs)
    BY <1>1, <1>2, <1>9 DEF Halfway, Served
  <2>2. \A k \in DOMAIN call.reqs : Plain(k) => ran[k] >= 1
    <3> SUFFICES ASSUME NEW k \in DOMAIN call.reqs, Plain(k) PROVE ran[k] >= 1
      OBVIOUS
    <3>1. k <= srv.issued
      BY <1>7, <2>1, CallShape
    <3>2. ran[k] \in 1..tries
      BY <1>7, <3>1
    <3> QED BY <1>7, <3>2
  <2>3. \E n \in 0..Len(srv.words) : ws = SubSeq(srv.words, 1, n)
    BY <1>2, <1>9
  <2> QED BY <1>3, <1>4, <1>5, <2>1, <2>2, <2>3 DEF Complete, Plain
<1>10. Through'
  BY <1>4, <1>6, <1>8, <1>9 DEF Through
<1> QED BY <1>1, <1>3, <1>7, <1>10 DEF Serving, Delivered

LEMMA StepWaits ==
  ASSUME Waiting, [Next]_vars
  PROVE  Waiting'
<1>1. OneUnderway' /\ Countable'
  BY Stepwise, StepInOrder, StepCounts DEF Waiting, Countable
<1>2. ASSUME UNCHANGED vars
      PROVE  Serving'
  <2> USE <1>2 DEF vars
  <2>1. Untaken => Untaken'
    BY DEF Untaken, RanUpTo, Plain
  <2>2. Halfway => Halfway'
    BY DEF Halfway, Served, Plain
  <2>3. Through => Through'
    BY DEF Through, Complete, Served, RanUpTo, Plain
  <2>4. RanUpTo(tries) => RanUpTo(tries)'
    BY DEF RanUpTo, Plain
  <2>5. Delivered => Delivered'
    BY DEF Delivered, Clean
  <2>6. Clean' = Clean /\ Awaits' = Awaits
    BY DEF Clean, Awaits
  <2> QED BY <2>1, <2>2, <2>3, <2>4, <2>5, <2>6 DEF Waiting, Serving
<1>3. ASSUME Server \/ Poll
      PROVE  Serving'
  BY <1>3, ElsewhereServes, TakeServes, RunServes, AnswerServes DEF Server
<1>4. Serving'
  BY <1>2, <1>3, QuietServes, ReceiveServes, FaultServes DEF Next, Client
<1> QED BY <1>1, <1>4 DEF Waiting

LEMMA WaitingInvariance == Spec => []Waiting
<1>1. Init => Waiting
  BY InitWaits
<1>2. Waiting /\ [Next]_vars => Waiting'
  BY StepWaits
<1> QED BY <1>1, <1>2, PTL DEF Spec

\* A call made on a clean link that succeeds has run each of its requests, no more
\* often than its list was sent, and returns the words of them all, in order, whatever
\* has gone wrong before (client.go doTransfer, BlockRead; server.go transfer,
\* transferBlock).
THEOREM CallsDelivered == Spec => []Delivered
<1>1. Waiting => Delivered
  BY DEF Waiting, Serving
<1> QED BY <1>1, WaitingInvariance, PTL

-----------------------------------------------------------------------------
(* A block call of a remote probe is one of a local probe.                     *)

Moves == [Remote!Next]_(Remote!vars)

\* Nothing of an earlier call can come between a client that waits and its block.
LEMMA BlockIsClean ==
  ASSUME Waiting, InBlock
  PROVE  Clean /\ up /\ ~torn /\ (pc = "wait" => Awaits) /\ (pc = "done" => Nothing)
BY DEF Waiting, OneUnderway, InBlock, Awaits

LEMMA BlockUnderway ==
  ASSUME Waiting, InBlock, Server \/ Poll
  PROVE  Awaits
<1>1. ~Nothing
  BY DEF Server, Take, Run, Poll, Current, Answer, Fail, Nothing
<1>2. pc = "wait"
  BY <1>1, BlockIsClean DEF Waiting, OneUnderway, Countable, InOrder, Typed, ClientTyped
<1> QED BY <1>2, BlockIsClean

LEMMA RemoteWords ==
  ASSUME NEW reqs, NEW k
  PROVE  Remote!WordsOf(reqs, k) = WordsOf(reqs, k)
BY DEF WordsOf, TsWord, DataWord, Remote!WordsOf, Remote!TsWord, Remote!DataWord

LEMMA RemoteStill ==
  ASSUME UNCHANGED <<BlockCall, BlockRan, BlockIssued, BlockWords, BlockResult>>
  PROVE  Moves
BY DEF Moves, Remote!vars

\* Other calls are none of a block's.
LEMMA OutsideBlocks ==
  ASSUME ~InBlock, ~InBlock'
  PROVE  Moves
<1>1. UNCHANGED <<BlockCall, BlockRan, BlockIssued, BlockWords, BlockResult>>
  BY DEF BlockCall, BlockRan, BlockIssued, BlockWords, BlockResult
<1> QED BY <1>1, RemoteStill

\* A block call on its way: what it has run is what its own packet has.
LEMMA OnTheWay ==
  ASSUME InBlock, pc \in {"send", "wait"}
  PROVE  /\ BlockCall = call /\ BlockRan = ran /\ BlockResult = "running"
         /\ BlockIssued = IF Mine THEN srv.issued ELSE 0
         /\ BlockWords = IF Mine THEN srv.words ELSE <<>>
BY DEF BlockCall, BlockRan, BlockResult, BlockIssued, BlockWords

LEMMA OnTheWayNext ==
  ASSUME InBlock', pc' \in {"send", "wait"}
  PROVE  /\ BlockCall' = call' /\ BlockRan' = ran' /\ BlockResult' = "running"
         /\ BlockIssued' = (IF Mine' THEN srv'.issued ELSE 0)
         /\ BlockWords' = (IF Mine' THEN srv'.words ELSE <<>>)
BY DEF BlockCall, BlockRan, BlockResult, BlockIssued, BlockWords

LEMMA AtItsEnd ==
  ASSUME InBlock', pc' = "done"
  PROVE  /\ BlockCall' = call' /\ BlockRan' = ran' /\ BlockResult' = result'
         /\ BlockIssued' = (IF Mine' THEN srv'.issued ELSE 0)
         /\ BlockWords' = values'
BY DEF BlockCall, BlockRan, BlockResult, BlockIssued, BlockWords

LEMMA RemoteSucceeds ==
  ASSUME InBlock, pc \in {"send", "wait"}, pc' = "done", result' = "ok", values' = BlockWords,
         BlockIssued = Len(call.reqs), UNCHANGED <<call, ran, first, faults, srv>>
  PROVE  Moves
<1>1. InBlock'
  BY DEF InBlock
<1>2. Mine' <=> Mine
  BY DEF Mine
<1>3. Remote!Succeed
  BY <1>1, <1>2, OnTheWay, AtItsEnd DEF Remote!Succeed
<1> QED BY <1>3 DEF Moves, Remote!Next

LEMMA RemoteFails ==
  ASSUME Waiting, InBlock, pc \in {"send", "wait"}, pc' = "done", result' = "error",
         values' = <<>>, UNCHANGED <<call, ran, first, faults, srv>>
  PROVE  Moves
<1>1. InBlock'
  BY DEF InBlock
<1>2. Mine' <=> Mine
  BY DEF Mine
<1>3. BlockWords \in Seq(Word)
  <2>1. srv.words \in Seq(Word) /\ <<>> \in Seq(Word)
    BY DEF Waiting, Countable, InOrder, Typed, ServerTyped
  <2> QED BY <2>1, OnTheWay
<1>4. 0 \in 0..Len(BlockWords) /\ BlockWords' = SubSeq(BlockWords, 1, 0)
  <2>1. BlockWords' = <<>>
    BY <1>1, AtItsEnd
  <2>2. 0 \in 0..Len(BlockWords) /\ SubSeq(BlockWords, 1, 0) = <<>>
    BY <1>3
  <2> QED BY <2>1, <2>2
<1>5. /\ BlockResult = "running" /\ BlockResult' = "error"
      /\ UNCHANGED <<BlockCall, BlockIssued, BlockRan>>
  BY <1>1, <1>2, OnTheWay, AtItsEnd
<1>6. Remote!Fail
  BY <1>4, <1>5 DEF Remote!Fail
<1> QED BY <1>6 DEF Moves, Remote!Next

\* The client's packets and the server's replies are no steps of the local probe.
LEMMA RemoteRests ==
  ASSUME InBlock, pc \in {"send", "wait"}, pc' \in {"send", "wait"}, UNCHANGED <<call, ran, faults>>,
         (IF Mine' THEN srv'.issued ELSE 0) = IF Mine THEN srv.issued ELSE 0,
         (IF Mine' THEN srv'.words ELSE <<>>) = IF Mine THEN srv.words ELSE <<>>
  PROVE  Moves
<1>1. InBlock'
  BY DEF InBlock
<1>2. UNCHANGED <<BlockCall, BlockRan, BlockIssued, BlockWords, BlockResult>>
  BY <1>1, OnTheWay, OnTheWayNext
<1> QED BY <1>2, RemoteStill

LEMMA BeginMoves ==
  ASSUME Waiting, Call
  PROVE  Moves
<1>1. /\ pc' = "send" /\ call' \in Calls \cup {Pins}
      /\ ran' = [k \in DOMAIN call'.reqs |-> 0] /\ UNCHANGED <<first, faults, srv>>
  BY DEF Call, stream
<1>2. call = NoCall /\ (faults = {} => srv.id = 0 /\ first = 1)
  BY DEF Call, Waiting, Serving, OneUnderway, Countable, Counted, Clean
<1>3. ~InBlock
  BY <1>2 DEF InBlock, NoCall
<1>4. CASE InBlock'
  <2>1. call' \in Calls
    BY <1>1, <1>4 DEF InBlock, Pins
  <2>2. ~Mine'
    BY <1>1, <1>2, <1>4 DEF Mine, InBlock
  <2>3. BlockResult = "idle"
    BY <1>3 DEF BlockResult
  <2>4. /\ BlockCall' = call' /\ BlockRan' = ran' /\ BlockResult' = "running"
        /\ BlockIssued' = 0 /\ BlockWords' = <<>>
    BY <1>1, <1>4, <2>2, OnTheWayNext
  <2>5. Remote!Begin
    BY <1>1, <2>1, <2>3, <2>4 DEF Remote!Begin
  <2> QED BY <2>5 DEF Moves, Remote!Next
<1> QED BY <1>3, <1>4, OutsideBlocks

LEMMA ReturnMoves ==
  ASSUME Waiting, Return
  PROVE  Moves
<1>1. pc = "done" /\ pc' = "idle" /\ call' = NoCall /\ result \in {"ok", "error"}
  BY DEF Return, Waiting, Serving
<1>2. ~InBlock'
  BY <1>1 DEF InBlock, NoCall
<1>3. CASE InBlock
  <2>1. BlockResult \in {"ok", "error"}
    BY <1>1, <1>3 DEF BlockResult
  <2>2. /\ BlockCall' = NoCall /\ BlockIssued' = 0 /\ BlockRan' = <<>> /\ BlockWords' = <<>>
        /\ BlockResult' = "idle"
    BY <1>2 DEF BlockCall, BlockIssued, BlockRan, BlockWords, BlockResult
  <2>3. Remote!NoCall = NoCall
    BY DEF NoCall, Remote!NoCall
  <2>4. Remote!Return
    BY <2>1, <2>2, <2>3 DEF Remote!Return
  <2> QED BY <2>4 DEF Moves, Remote!Next
<1> QED BY <1>2, <1>3, OutsideBlocks

\* The client's other steps.
LEMMA ClientMoves ==
  ASSUME Waiting, InBlock, Refuse \/ EmptyBlock \/ Send \/ Receive
  PROVE  Moves
<1>1. CASE Refuse
  BY <1>1, RemoteFails DEF Refuse, Returns, stream
<1>2. CASE EmptyBlock
  <2>1. /\ pc = "send" /\ pc' = "done" /\ result' = "ok" /\ values' = <<>> /\ call.reqs = <<>>
        /\ UNCHANGED <<call, ran, first, faults, srv>>
    BY <1>2 DEF EmptyBlock, Returns, stream
  <2>2. ~Mine
    BY <2>1, BlockIsClean DEF Mine, Waiting, Serving, InBlock, Clean
  <2>3. BlockIssued = Len(call.reqs) /\ BlockWords = <<>>
    <3>1. Len(call.reqs) = 0
      BY <2>1
    <3> QED BY <2>1, <2>2, <3>1, OnTheWay
  <2> QED BY <2>1, <2>3, RemoteSucceeds
<1>3. CASE Send
  <2>1. /\ pc = "send" /\ pc' = "wait" /\ UNCHANGED <<call, ran, first, faults, srv>>
    BY <1>3 DEF Send
  <2>2. Mine' <=> Mine
    BY <2>1 DEF Mine
  <2> QED BY <2>1, <2>2, RemoteRests
<1>4. CASE Receive
  <2> DEFINE r == Head(replies)
  <2>1. /\ UNCHANGED <<call, tries, first, faults, srv, ran>> /\ pc = "wait"
        /\ \/ Accepts(r) /\ Returns("ok", Collected(r))
           \/ Resent(r)
           \/ Returns("error", <<>>)
    BY <1>4 DEF Receive
  <2>2. ~Resent(r)
    BY DEF Resent, InBlock
  <2>3. CASE Returns("error", <<>>)
    BY <2>1, <2>3, RemoteFails DEF Returns
  <2>4. CASE Accepts(r) /\ Returns("ok", Collected(r))
    <3>1. Through
      BY <1>4, <2>1, BlockIsClean, WhereItIs DEF Receive
    <3>2. replies \in Seq(Incoming) /\ replies # <<>> /\ call \in Calls \cup {Pins, NoCall}
      BY <3>1 DEF Through, Waiting, Countable, InOrder, Typed, ClientTyped, StreamTyped
    <3>3. r = replies[1] /\ r.status = "OK"
      BY <2>4, <3>2 DEF Accepts, InBlock
    <3>4. /\ srv.issued = Len(call.reqs) /\ srv.words = Flat(call, srv.issued) /\ srv.id > 0
      BY <3>1, <3>3 DEF Through, Served, Complete
    <3>5. Mine
      <4>1. srv.id \in Nat /\ first = 1
        BY BlockIsClean DEF Clean, Waiting, Countable, InOrder, Typed, ServerTyped
      <4> QED BY <3>4, <4>1 DEF Mine
    <3>6. BlockIssued = Len(call.reqs) /\ BlockWords = srv.words
      BY <2>1, <3>4, <3>5, OnTheWay
    <3>7. pc' = "done" /\ result' = "ok"
      BY <2>4 DEF Returns
    <3>8. values' = srv.words
      <4>1. Delivered'
        BY <1>4, ReceiveServes DEF Serving
      <4>2. values' = FlattenSeq([k \in DOMAIN call.reqs |-> WordsOf(call.reqs, k)])
        BY <2>1, <3>7, <4>1, BlockIsClean DEF Delivered, InBlock, Clean
      <4> QED BY <3>2, <3>4, <4>2, AllFlat
    <3> QED BY <2>1, <3>6, <3>7, <3>8, RemoteSucceeds
  <2> QED BY <2>1, <2>2, <2>3, <2>4
<1> QED BY <1>1, <1>2, <1>3, <1>4

LEMMA ServerMoves ==
  ASSUME Waiting, InBlock, Server \/ Poll
  PROVE  Moves
<1>1. UNCHANGED <<call, pc, first, faults>> /\ Awaits
  BY BlockUnderway DEF Server, Take, Run, Poll, Answer, Fail, Replies, client, stream
<1>2. /\ srv \in [id : Nat, call : Calls \cup {Pins, NoCall}, busy : BOOLEAN, issued : Nat,
                  words : Seq(Word)]
      /\ requests \in Seq(Outgoing) /\ first = 1 /\ pc = "wait"
  BY <1>1 DEF Awaits, Clean, Waiting, Countable, InOrder, Typed, ServerTyped, StreamTyped
<1>3. CASE Take
  <2>1. pc = "wait" /\ Untaken /\ ran' = ran /\ requests # <<>>
    BY <1>1, <1>2, <1>3, WhereItIs DEF Take
  <2>2. ~Mine
    BY <1>2, <2>1 DEF Untaken, Mine, InBlock
  <2>3. srv'.issued = 0 /\ srv'.words = <<>>
    BY <1>3 DEF Take
  <2> QED BY <1>1, <2>1, <2>2, <2>3, RemoteRests
<1>4. CASE Run \/ Poll
  <2> DEFINE n == srv.issued + 1
  <2>1. /\ srv.busy /\ srv.issued < Len(srv.call.reqs) /\ Runs(n)
    BY <1>4 DEF Run, Poll, Current
  <2>2. pc = "wait" /\ srv.call = call /\ Mine
    BY <1>1, <1>2, <2>1, WhereItIs DEF Halfway, Served, Mine
  <2>3. ran' = IF call.reqs[n].op # "mask" THEN [ran EXCEPT ![n] = @ + 1] ELSE ran
    BY <2>1, <2>2 DEF Runs, Mine
  <2>4. InBlock' /\ pc' = "wait"
    BY <1>1, <2>2 DEF InBlock
  <2>5. /\ BlockCall = call /\ BlockRan = ran /\ BlockResult = "running"
        /\ BlockIssued = srv.issued /\ BlockWords = srv.words
    BY <2>2, OnTheWay
  <2>6. CASE Run
    <3>1. srv' = [srv EXCEPT !.issued = n, !.words = srv.words \o WordsOf(srv.call.reqs, n)]
      BY <2>6 DEF Run
    <3>2. srv'.issued = n /\ srv'.words = srv.words \o WordsOf(call.reqs, n) /\ srv'.id = srv.id
      BY <1>2, <2>2, <3>1
    <3>3. Mine'
      BY <1>1, <2>2, <3>2 DEF Mine
    <3>4. /\ BlockCall' = call /\ BlockRan' = ran' /\ BlockResult' = "running"
          /\ BlockIssued' = n /\ BlockWords' = srv.words \o WordsOf(call.reqs, n)
      BY <1>1, <2>4, <3>2, <3>3, OnTheWayNext
    <3>5. Remote!Run
      BY <2>1, <2>2, <2>3, <2>5, <3>4, RemoteWords DEF Remote!Run
    <3> QED BY <3>5 DEF Moves, Remote!Next
  <2>7. CASE Poll
    <3>1. srv' = srv /\ call.reqs[n].op = "match"
      BY <2>2, <2>7 DEF Poll
    <3>2. Mine'
      BY <1>1, <2>2, <3>1 DEF Mine
    <3>3. /\ BlockCall' = call /\ BlockRan' = ran' /\ BlockResult' = "running"
          /\ BlockIssued' = srv.issued /\ BlockWords' = srv.words
      BY <1>1, <2>4, <3>1, <3>2, OnTheWayNext
    <3>4. Remote!Poll
      BY <2>1, <2>2, <2>3, <2>5, <3>1, <3>3 DEF Remote!Poll
    <3> QED BY <3>4 DEF Moves, Remote!Next
  <2> QED BY <1>4, <2>6, <2>7
<1>5. CASE Answer \/ Fail
  <2>1. pc = "wait"
    BY <1>2
  <2>2. ran' = ran /\ srv' = [srv EXCEPT !.busy = FALSE]
    BY <1>5 DEF Answer, Fail, Replies
  <2>3. srv'.issued = srv.issued /\ srv'.words = srv.words /\ srv'.id = srv.id
    BY <1>2, <2>2
  <2>4. Mine' <=> Mine
    BY <1>1, <2>3 DEF Mine
  <2> QED BY <1>1, <2>1, <2>2, <2>3, <2>4, RemoteRests
<1> QED BY <1>3, <1>4, <1>5 DEF Server

LEMMA StepMoves ==
  ASSUME Waiting, [Next]_vars
  PROVE  Moves
<1>1. CASE Call \/ Return
  BY <1>1, BeginMoves, ReturnMoves
<1>2. CASE UNCHANGED vars
  BY <1>2, RemoteStill DEF vars, BlockCall, BlockRan, BlockIssued, BlockWords, BlockResult,
                           InBlock, Mine
<1>3. CASE Next /\ ~Call /\ ~Return
  <2>1. CASE InBlock
    <3>1. ~TimeOut /\ ~ReceiveTorn /\ ~ReadFails /\ ~Lose /\ ~Redial
      BY <2>1, BlockIsClean
      DEF TimeOut, ReceiveTorn, ReadFails, Lose, Redial, InBlock
    <3> QED BY <1>3, <2>1, <3>1, ClientMoves, ServerMoves DEF Next, Client
  <2>2. CASE ~InBlock
    <3>1. UNCHANGED <<call, faults>>
      <4>1. CASE Client \/ TimeOut \/ Lose \/ Redial
        BY <4>1 DEF Client, Refuse, EmptyBlock, Send, Receive, TimeOut, ReceiveTorn, ReadFails,
                    Lose, Redial, client, stream
      <4>2. CASE Server \/ Poll
        BY <4>2 DEF Server, Take, Run, Poll, Answer, Fail, Replies, client, stream
      <4> QED BY <1>3, <4>1, <4>2 DEF Next
    <3>2. ~InBlock'
      BY <2>2, <3>1 DEF InBlock
    <3> QED BY <2>2, <3>2, OutsideBlocks
  <2> QED BY <2>1, <2>2
<1> QED BY <1>1, <1>2, <1>3

\* As long as the client waits for its replies, the block calls of a remote probe are
\* those of a local one: each word is moved once, in order, and the client returns the
\* words that were read (client.go BlockRead, BlockWrite; server.go transferBlock).
THEOREM BlocksAreLocal == Spec => RemoteOrdered
<1>1. Init => Remote!Init
  <2> SUFFICES ASSUME Init PROVE Remote!Init
    OBVIOUS
  <2>1. ~InBlock
    BY DEF Init, InBlock, NoCall
  <2>2. /\ BlockCall = NoCall /\ BlockRan = <<>> /\ BlockIssued = 0 /\ BlockWords = <<>>
        /\ BlockResult = "idle"
    BY <2>1 DEF BlockCall, BlockRan, BlockIssued, BlockWords, BlockResult
  <2>3. Remote!NoCall = NoCall
    BY DEF NoCall, Remote!NoCall
  <2> QED BY <2>2, <2>3 DEF Remote!Init
<1>2. Waiting /\ [Next]_vars => [Remote!Next]_(Remote!vars)
  BY StepMoves DEF Moves
<1> QED BY <1>1, <1>2, WaitingInvariance, PTL DEF Spec, RemoteOrdered, Remote!Spec
=============================================================================
