------------------------------ MODULE DapLink ------------------------------
(***************************************************************************)
(* The remote probe: cmsis/client on one end of a stream (cmsis/transport/ *)
(* tcp), a cmsis/server in front of a local probe on the other.  Packets   *)
(* carry no identifiers, so a reply is whoever's turn it is.               *)
(*                                                                         *)
(* The local probe is the one InOrderProbe describes: the requests of a    *)
(* list run one by one, in order, and the list may stop at any of them.    *)
(***************************************************************************)
EXTENDS ProbeCalls, SequencesExt

CONSTANTS
  Resends, \* transferRetries: how often a list is sent at most
  Faults,  \* what may go wrong: "deadline", an Exchange gives up; "loss", the stream breaks
  MaxAsks  \* a bound on the exchanges between two quiet moments

ASSUME LinkAssumption ==
  Resends \in Nat \ {0} /\ Faults \subseteq {"deadline", "loss"} /\ MaxAsks \in Nat

VARIABLES
  call,     \* client: the call being served, NoCall between calls
  pc,       \* client: "idle", "send", "wait", "done"
  tries,    \* client: how often the list was sent
  result,   \* client: "none", "ok", "error"
  values,   \* client: the words returned
  asked,    \* packets sent so far, which is the number of the last one
  first,    \* the number of the current call's first packet
  took,     \* the number of the packet whose reply the client took last
  requests, \* stream: packets on their way to the server
  replies,  \* stream: replies on their way back
  torn,     \* stream: the client stopped in the middle of a reply
  up,       \* stream: the connection stands
  faults,   \* stream: the faults this execution may meet, never changed
  srv,      \* server: the packet being served, or the last one served
  ran       \* target: ran[k] is how often request k of the current call ran

client == <<call, pc, tries, result, values, first>>
stream == <<asked, took, requests, replies, torn, up, faults>>
vars == <<call, pc, tries, result, values, asked, first, took, requests, replies,
          torn, up, faults, srv, ran>>

\* DAP_SWJ_Pins, for the commands that are not transfers.
Pins == [kind |-> "pins", reqs |-> <<>>]
Cmd(c) ==
  CASE c.kind = "transfer" -> "DAP_Transfer"
    [] c.kind = "pins" -> "DAP_SWJ_Pins"
    [] OTHER -> "DAP_TransferBlock"

NoPacket == [id |-> 0, call |-> NoCall, busy |-> FALSE, issued |-> 0, words |-> <<>>]

Init ==
  /\ call = NoCall /\ pc = "idle" /\ tries = 0 /\ result = "none" /\ values = <<>>
  /\ asked = 0 /\ first = 1 /\ took = 0
  /\ requests = <<>> /\ replies = <<>> /\ torn = FALSE /\ up = TRUE
  /\ faults \in SUBSET Faults
  /\ srv = NoPacket /\ ran = <<>>

-----------------------------------------------------------------------------
(* cmsis/client. *)

Call ==
  /\ pc = "idle" /\ asked < MaxAsks
  /\ call' \in Calls \cup {Pins}
  /\ ran' = [k \in DOMAIN call'.reqs |-> 0]
  /\ pc' = "send" /\ tries' = 0
  /\ UNCHANGED <<result, values, first, stream, srv>>

Returns(r, ws) == pc' = "done" /\ result' = r /\ values' = ws

Malformed(c) == \E k \in DOMAIN c.reqs : c.reqs[k].port = "bad"

\* The context is over, a register is malformed, a block is longer than a packet;
\* or the connection is gone and the write fails.
Refuse ==
  /\ pc = "send"
  /\ Returns("error", <<>>)
  /\ UNCHANGED <<call, tries, first, stream, srv, ran>>

\* A block call of no words is fine and sends nothing.
EmptyBlock ==
  /\ pc = "send" /\ call.kind \in {"blockread", "blockwrite"} /\ call.reqs = <<>>
  /\ Returns("ok", <<>>)
  /\ UNCHANGED <<call, tries, first, stream, srv, ran>>

\* Exchange writes the packet.
Send ==
  /\ pc = "send" /\ up /\ ~Malformed(call)
  /\ call.reqs # <<>> \/ call.kind \in {"transfer", "pins"}
  /\ pc' = "wait" /\ tries' = tries + 1 /\ asked' = asked + 1
  /\ requests' = Append(requests, [id |-> asked + 1, call |-> call])
  /\ UNCHANGED <<call, result, values, first, took, replies, torn, up, faults, srv, ran>>

\* MUTANT of Stamped: time stamps are not counted.
StampedNone(c) == {}

\* The words encodeRequest says the requests bring, one for a read and one for a
\* time stamp: a match read with one counts it, and bitbang does not send it.
Stamped(c) == {k \in DOMAIN c.reqs : c.reqs[k].ts /\ c.reqs[k].op # "mask"}
Expect(c) ==
  IF c.kind = "blockwrite" THEN 0
  ELSE Cardinality({k \in DOMAIN c.reqs : c.reqs[k].op = "read"}) + Cardinality(Stamped(c))

Collected(r) == SubSeq(r.words, 1, Expect(call))

\* MUTANTS of Resent: the list is sent again for ever; a block call is sent again.
ResentForever(r) ==
  /\ call.kind = "transfer" /\ r.cmd = Cmd(call) /\ r.status = "WAIT"
  /\ pc' = "send" /\ UNCHANGED <<result, values>>
ResentBlocks(r) ==
  /\ r.cmd = Cmd(call) /\ r.status = "WAIT" /\ tries < Resends
  /\ pc' = "send" /\ UNCHANGED <<result, values>>

\* A list that ran into WAIT is sent again, whole.
Resent(r) ==
  /\ call.kind = "transfer" /\ r.cmd = Cmd(call) /\ r.status = "WAIT"
  /\ tries < Resends
  /\ pc' = "send" /\ UNCHANGED <<result, values>>

\* WritePins asks only for the echo of its command: an error reads as pin levels.
Accepts(r) ==
  /\ r.cmd = Cmd(call) /\ Len(r.words) >= Expect(call)
  /\ call.kind = "pins" \/ (r.status = "OK" /\ r.done = Len(call.reqs))

\* Exchange reads a reply, and exec and doTransfer look at it.
Receive ==
  /\ pc = "wait" /\ ~torn /\ replies # <<>>
  /\ LET r == Head(replies)
         again == call.kind = "transfer" /\ r.cmd = Cmd(call) /\ r.status = "WAIT"
     IN /\ took' = r.id /\ replies' = Tail(replies)
        /\ \/ Accepts(r) /\ Returns("ok", Collected(r))
           \/ Resent(r)
           \/ again /\ tries >= Resends /\ Returns("error", <<>>)
           \/ ~again /\ ~Accepts(r) /\ Returns("error", <<>>)
  /\ UNCHANGED <<call, tries, first, asked, requests, torn, up, faults, srv, ran>>

\* MUTANT of TimeOut: what the deadline cut short is tried again.
TimeOutRetries ==
  /\ pc = "wait" /\ "deadline" \in faults /\ tries < Resends
  /\ pc' = "send"
  /\ UNCHANGED <<call, tries, result, values, first, stream, srv, ran>>

\* The deadline passes, between two replies or inside one.
TimeOut ==
  /\ pc = "wait" /\ "deadline" \in faults
  /\ \/ UNCHANGED <<replies, torn>>
     \/ ~torn /\ replies # <<>> /\ torn' = TRUE /\ replies' = Tail(replies)
  /\ Returns("error", <<>>)
  /\ UNCHANGED <<call, tries, first, asked, took, requests, up, faults, srv, ran>>

\* What follows a torn reply has no signature.  Each attempt eats a header's length,
\* whatever replies that takes, and may end up between two replies again.
ReceiveTorn ==
  /\ pc = "wait" /\ torn
  /\ torn' \in BOOLEAN
  /\ \E n \in 0..Len(replies) : replies' = SubSeq(replies, n + 1, Len(replies))
  /\ Returns("error", <<>>)
  /\ UNCHANGED <<call, tries, first, asked, took, requests, up, faults, srv, ran>>

\* The stream breaks under a waiting call.
ReadFails ==
  /\ pc = "wait" /\ ~up
  /\ Returns("error", <<>>)
  /\ UNCHANGED <<call, tries, first, stream, srv, ran>>

InFlight == requests # <<>> \/ replies # <<>> \/ srv.busy \/ torn

\* The caller has its answer.  Numbers start over when nothing is in flight.
Return ==
  /\ pc = "done"
  /\ call' = NoCall /\ pc' = "idle" /\ tries' = 0 /\ result' = "none" /\ values' = <<>>
  /\ ran' = <<>>
  /\ IF InFlight
     THEN first' = asked + 1 /\ UNCHANGED <<asked, took, srv>>
     ELSE first' = 1 /\ asked' = 0 /\ took' = 0 /\ srv' = NoPacket
  /\ UNCHANGED <<requests, replies, torn, up, faults>>

-----------------------------------------------------------------------------
(* The stream. *)

\* When the current call was made, nothing of an earlier one was left in the stream, at
\* the server or half read: numbers start over only then, and with a new connection.
Clean == first = 1

\* The connection breaks, or a caller closes it that has left something behind: what the
\* server has not read yet may be lost, what the client has not is.
Lose ==
  /\ up
  /\ "loss" \in faults \/ (pc = "idle" /\ ~Clean)
  /\ up' = FALSE /\ torn' = FALSE /\ replies' = <<>>
  /\ requests' \in {requests, <<>>}
  /\ UNCHANGED <<client, asked, took, faults, srv, ran>>

\* A new connection is served once the handler of the old one is gone.
Redial ==
  /\ pc = "idle" /\ ~up /\ ~srv.busy /\ requests = <<>>
  /\ up' = TRUE /\ asked' = 0 /\ first' = 1 /\ took' = 0 /\ srv' = NoPacket
  /\ UNCHANGED <<call, pc, tries, result, values, requests, replies, torn, faults, ran>>

-----------------------------------------------------------------------------
(* cmsis/server: handlers run one packet at a time, to its end. *)

Take ==
  /\ ~srv.busy /\ requests # <<>>
  /\ srv' = [id |-> Head(requests).id, call |-> Head(requests).call, busy |-> TRUE,
             issued |-> 0, words |-> <<>>]
  /\ requests' = Tail(requests)
  /\ UNCHANGED <<client, asked, took, replies, torn, up, faults, ran>>

Current == srv.busy /\ srv.issued < Len(srv.call.reqs)
Runs(k) ==
  ran' = IF srv.id >= first /\ srv.call.reqs[k].op # "mask"
         THEN [ran EXCEPT ![k] = @ + 1] ELSE ran

\* The probe runs the next request, or one poll of a match read.
Run ==
  /\ Current
  /\ Runs(srv.issued + 1)
  /\ srv' = [srv EXCEPT !.issued = @ + 1,
                        !.words = @ \o WordsOf(srv.call.reqs, srv.issued + 1)]
  /\ UNCHANGED <<client, stream>>

Poll ==
  /\ Current /\ srv.call.reqs[srv.issued + 1].op = "match"
  /\ srv.id >= first => ran[srv.issued + 1] = 0 \* polls after the first look the same
  /\ Runs(srv.issued + 1)
  /\ UNCHANGED <<client, stream, srv>>

Replies(st, done, ws) ==
  /\ srv' = [srv EXCEPT !.busy = FALSE]
  /\ replies' = IF up THEN Append(replies, [id |-> srv.id, cmd |-> Cmd(srv.call),
                                            status |-> st, done |-> done, words |-> ws])
                ELSE replies
  /\ UNCHANGED <<client, asked, took, requests, torn, up, faults, ran>>

\* transfer, transferBlock, swjPins: the list is through.  An empty one fails.  The
\* words of a list that do not go into the packet are cut off, and the count still
\* says all of it; a client asks for no block that long.
Answer ==
  /\ srv.busy /\ srv.issued = Len(srv.call.reqs)
  /\ srv.call.reqs # <<>> \/ srv.call.kind = "pins"
  /\ \E n \in 0..Len(srv.words) :
       /\ n = Len(srv.words) \/ srv.call.kind = "transfer"
       /\ Replies("OK", srv.issued, SubSeq(srv.words, 1, n))

\* MUTANT of Fail: a list that stops is not answered.
FailSilent ==
  /\ srv.busy
  /\ srv' = [srv EXCEPT !.busy = FALSE]
  /\ UNCHANGED <<client, stream, ran>>

\* The list stops: at the next request, or at the read that would confirm the last.
\* Only the target answers WAIT.
Fail ==
  /\ srv.busy
  /\ \E st \in {"WAIT", "ERROR"} :
       /\ st = "WAIT" => srv.call.reqs # <<>>
       /\ Replies(st, srv.issued, <<>>)

-----------------------------------------------------------------------------
Client == Refuse \/ EmptyBlock \/ Send \/ Receive \/ ReceiveTorn \/ ReadFails
Server == Take \/ Run \/ Answer \/ Fail

Next == Call \/ Client \/ TimeOut \/ Return \/ Lose \/ Redial \/ Server \/ Poll

Spec == Init /\ [][Next]_vars

\* The client's goroutine and the server's both run, and a stream delivers or breaks.
\* A deadline need not be set, and a stream need not break.
FairSpec == Spec /\ WF_vars(Client) /\ WF_vars(Server)

-----------------------------------------------------------------------------
(* Properties. *)

Packet(p) == p.id \in 1..asked /\ p.call \in Calls \cup {Pins}
TypeOK ==
  /\ call \in Calls \cup {Pins, NoCall}
  /\ pc \in {"idle", "send", "wait", "done"} /\ result \in {"none", "ok", "error"}
  /\ tries \in 0..Resends
  /\ values \in Seq(Word)
  /\ first \in 1..(asked + 1) /\ took \in 0..asked
  /\ \A i \in DOMAIN requests : Packet(requests[i])
  /\ \A i \in DOMAIN replies : replies[i].id \in 1..asked
  /\ torn \in BOOLEAN /\ up \in BOOLEAN /\ faults \subseteq Faults
  /\ srv = NoPacket \/ (Packet(srv) /\ srv.issued \in 0..Len(srv.call.reqs))
  /\ ran \in [DOMAIN call.reqs -> Nat]

\* "A reply belongs to whoever asked last": a call that succeeds has succeeded on
\* the reply to the packet it sent last (client.go Transport, exec).  It may have
\* been made after calls whose Exchange was given up, and over a new connection, as
\* long as these left nothing behind.
OwnReply ==
  Clean /\ pc = "done" /\ result = "ok" /\ tries > 0 => took = asked

\* Such a call, if it succeeds, returns the words of its own requests, in order, and
\* every request of it has run, no more often than the list was sent.
Delivered ==
  Clean /\ pc = "done" /\ result = "ok" /\ call.kind # "pins" =>
    /\ values = FlattenSeq([k \in DOMAIN call.reqs |-> WordsOf(call.reqs, k)])
    /\ \A k \in DOMAIN call.reqs :
         call.reqs[k].op \in {"read", "write"} => ran[k] \in 1..tries

\* Whatever deadlines pass and streams break, and whatever of earlier calls is still
\* running: no request of a list runs more often than the list was sent, and no word
\* of a block more than once.  A caller whose call failed knows that much of an
\* auto-incrementing register (client.go doTransfer, BlockRead, BlockWrite).
RunsAtMost ==
  \A k \in DOMAIN call.reqs :
    call.reqs[k].op \in {"read", "write"} =>
      ran[k] <= IF call.kind = "transfer" THEN tries ELSE 1

\* Every call returns, with a deadline and without, over a stream that stands and one
\* that breaks (client.go transferRetries; server.go answers whatever fails).
LinkReturns == (pc = "send") ~> (pc = "done")

\* "Resending the list is safe even when it contains writes": no write runs twice
\* (client.go transferRetries).
WritesOnce == \A k \in DOMAIN call.reqs : call.reqs[k].op = "write" => ran[k] <= 1

\* A remote probe keeps the promise of a local one: a block call, which is never
\* sent again, runs its words in order and each at most once, and returns them in
\* that order, on the far side of the stream (client.go BlockRead, BlockWrite).  That
\* is for a client that waits: one that gives up leaves a call that still runs.
InBlock == faults = {} /\ call.kind \in {"blockread", "blockwrite"}
Mine == srv.id >= first
BlockCall == IF InBlock THEN call ELSE NoCall
BlockRan == IF InBlock THEN ran ELSE <<>>
BlockIssued == IF InBlock /\ Mine THEN srv.issued ELSE 0
BlockWords ==
  CASE ~InBlock -> <<>>
    [] InBlock /\ pc = "done" -> values
    [] OTHER -> IF Mine THEN srv.words ELSE <<>>
BlockResult ==
  CASE ~InBlock \/ pc = "idle" -> "idle"
    [] InBlock /\ pc = "done" -> result
    [] OTHER -> "running"
Remote == INSTANCE InOrderProbe WITH
  call <- BlockCall, ran <- BlockRan, issued <- BlockIssued, words <- BlockWords,
  result <- BlockResult
RemoteOrdered == Remote!Spec
=============================================================================
