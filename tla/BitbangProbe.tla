---------------------------- MODULE BitbangProbe ----------------------------
(***************************************************************************)
(* probe/bitbang: the transfer engine that turns a pin-level driver into a *)
(* swd.Probe.  One action is one wire transfer (one call of p.transfer's   *)
(* loop body), so that the posted-read pipeline, the WAIT retries and the  *)
(* failure of any single transfer interleave with the target in every      *)
(* way the wire allows.                                                    *)
(*                                                                         *)
(* The target answers each transfer OK, WAIT, FAULT or with a protocol or  *)
(* parity error.  An access it acknowledged may still fail inside the AP,  *)
(* or lose its write data: that only shows as a sticky error, which every  *)
(* later transfer is refused for except the DP reads and writes that reach *)
(* DPIDR, CTRL/STAT and ABORT (port "exempt").                             *)
(***************************************************************************)
EXTENDS ProbeCalls, SequencesExt

CONSTANTS
  WaitRetry,  \* swd.Config.WaitRetry
  MatchRetry, \* swd.Config.MatchRetry
  MaxBlock    \* Probe.maxBlock

ASSUME RetryAssumption ==
  /\ WaitRetry \in Nat
  /\ MatchRetry \in Nat
  /\ MaxBlock \in Nat \ {0}

VARIABLES
  call,       \* the call being served, NoCall between calls
  ran,        \* target: ran[k] is how often request k reached it
  pc,         \* "idle", "entry", "list", "poll", "done"
  at,         \* the request being served; at - 1 requests are completed
  postRead,   \* an AP read was posted and its value not collected
  checkWrite, \* a write has not been followed by a read
  waits,      \* WAIT retries left for this wire transfer
  polls,      \* match retries left for this match read
  status,     \* outcome of the last wire transfer
  values,     \* the words collected
  polled,     \* <<request, word>> of every comparison a match read made
  rdbuff,     \* target: the word the last AP read left behind
  sticky,     \* target: an error flag is set
  lost        \* target: writes acknowledged that did not land

target == <<rdbuff, sticky, lost>>
vars == <<call, ran, pc, at, postRead, checkWrite, waits, polls, status,
           values, polled, rdbuff, sticky, lost>>

\* What RDBUFF holds from before the call.
Stale == DataWord(0)

Acks == {"OK", "WAIT", "FAULT", "ERROR"}
Here == call.reqs[at]
InList == pc = "list" /\ call.kind = "transfer" /\ at <= Len(call.reqs)

Init ==
  /\ call = NoCall /\ ran = <<>>
  /\ pc = "idle" /\ at = 1 /\ status = "none"
  /\ postRead = FALSE /\ checkWrite = FALSE
  /\ waits = WaitRetry /\ polls = MatchRetry
  /\ values = <<>> /\ polled = {}
  /\ rdbuff = Stale /\ lost = {} /\ sticky = FALSE

-----------------------------------------------------------------------------
(* The wire.  An access is [req, ap, read, exempt]: req is the request whose
   register it reaches, 0 for RDBUFF. *)

Access(k) == [req |-> k, ap |-> call.reqs[k].port = "ap",
              read |-> call.reqs[k].op \in {"read", "match"},
              exempt |-> call.reqs[k].port = "exempt"]
Rdbuff == [req |-> 0, ap |-> FALSE, read |-> TRUE, exempt |-> FALSE]

\* The acknowledges the target can give.
CanAck(a, ack) ==
  \/ ack = "ERROR"
  \/ ack = "OK" /\ (sticky => a.exempt)
  \/ ack = "WAIT" /\ ~a.exempt /\ ~sticky
  \/ ack = "FAULT" /\ ~a.exempt

\* The access takes effect.  It may fail after its acknowledge (late).
Takes(a) ==
  /\ sticky => a.exempt
  /\ ran' = IF a.req = 0 THEN ran ELSE [ran EXCEPT ![a.req] = @ + 1]
  /\ rdbuff' = IF a.ap /\ a.read THEN DataWord(a.req) ELSE rdbuff
  /\ \E late \in IF a.ap \/ ~a.read THEN BOOLEAN ELSE {FALSE} :
       /\ \/ sticky' = (sticky \/ late)
          \/ a.exempt /\ ~a.read /\ ~late /\ sticky' = FALSE \* ABORT clears it
       /\ lost' = IF late /\ ~a.read THEN lost \cup {a.req} ELSE lost

\* The access does not take effect.
Refuses(ack) ==
  /\ sticky' = (sticky \/ ack = "FAULT")
  /\ UNCHANGED <<ran, rdbuff, lost>>

\* One wire transfer: with an error the host does not know which it was.
Wire(a, ack) ==
  /\ CanAck(a, ack)
  /\ \/ ack \in {"OK", "ERROR"} /\ Takes(a)
     \/ ack # "OK" /\ Refuses(ack)

\* MUTANTS of Retried: the count is not checked; it wraps; a transfer whose answer
\* was lost is repeated like one that answered WAIT.
RetriedUnchecked(ack) ==
  /\ ack = "WAIT" /\ waits' = waits - 1
  /\ UNCHANGED <<pc, at, postRead, checkWrite, polls, status, values, polled>>
RetriedForever(ack) ==
  /\ ack = "WAIT"
  /\ waits' = IF waits = 0 THEN WaitRetry ELSE waits - 1
  /\ UNCHANGED <<pc, at, postRead, checkWrite, polls, status, values, polled>>
RetriedOnError(ack) ==
  /\ ack \in {"WAIT", "ERROR"} /\ waits > 0
  /\ waits' = waits - 1
  /\ UNCHANGED <<pc, at, postRead, checkWrite, polls, status, values, polled>>

\* transfer: WAIT is retried while retries are left.
Retried(ack) ==
  /\ ack = "WAIT" /\ waits > 0
  /\ waits' = waits - 1
  /\ UNCHANGED <<pc, at, postRead, checkWrite, polls, status, values, polled>>

\* Any other failure ends the call with the words collected so far.
Stopped(ack) ==
  /\ ack # "OK" /\ ~(ack = "WAIT" /\ waits > 0)
  /\ pc' = "done" /\ status' = ack
  /\ UNCHANGED <<at, postRead, checkWrite, waits, polls, values, polled>>

\* One transfer on behalf of the probe: repeated, fatal, or followed by Then.
Transferred(a, Then) ==
  /\ \E ack \in Acks :
       /\ Wire(a, ack)
       /\ \/ Retried(ack) \/ Stopped(ack)
          \/ ack = "OK" /\ waits' = WaitRetry /\ Then
  /\ UNCHANGED call

Stamp(k) == IF call.reqs[k].ts THEN <<TsWord(k)>> ELSE <<>>

-----------------------------------------------------------------------------
(* Transfer. *)

Call ==
  /\ pc = "idle"
  /\ call' \in Calls
  /\ ran' = [k \in DOMAIN call'.reqs |-> 0]
  /\ pc' = "entry"
  /\ UNCHANGED <<at, postRead, checkWrite, waits, polls, status, values, polled>>
  /\ UNCHANGED target

\* The caller has its answer, and may have cleared the sticky error.  The probe
\* keeps nothing of the call: its variables are locals of Transfer.
Return ==
  /\ pc = "done"
  /\ call' = NoCall /\ ran' = <<>>
  /\ pc' = "idle" /\ at' = 1 /\ status' = "none"
  /\ postRead' = FALSE /\ checkWrite' = FALSE
  /\ waits' = WaitRetry /\ polls' = MatchRetry
  /\ values' = <<>> /\ polled' = {}
  /\ rdbuff' = Stale /\ lost' = {}
  /\ sticky' \in {FALSE, sticky}

\* The context is cancelled, or a block call is too long or names no register.
Refuse ==
  /\ pc = "entry"
  /\ pc' = "done"
  /\ UNCHANGED <<call, ran, at, postRead, checkWrite, waits, polls, status, values, polled>>
  /\ UNCHANGED target

Enter ==
  /\ pc = "entry"
  /\ call.kind # "transfer" =>
       /\ Len(call.reqs) <= MaxBlock
       /\ \A k \in DOMAIN call.reqs : call.reqs[k].port # "bad"
  /\ pc' = "list"
  /\ UNCHANGED <<call, ran, at, postRead, checkWrite, waits, polls, status, values, polled>>
  /\ UNCHANGED target

\* rawRequest rejects the register: the values collected are dropped, and so is
\* a posted read.
Reject ==
  /\ InList /\ Here.port = "bad"
  /\ pc' = "done" /\ status' = "none" /\ values' = <<>>
  /\ UNCHANGED <<call, ran, at, postRead, checkWrite, waits, polls, polled>>
  /\ UNCHANGED target

\* An AP read behind an AP read collects the one before it and posts itself.
Collect ==
  /\ InList /\ postRead /\ Here.port = "ap" /\ Here.op = "read"
  /\ Transferred(Access(at),
       /\ status' = "OK"
       /\ values' = Append(values, rdbuff) \o Stamp(at)
       /\ checkWrite' = FALSE
       /\ at' = at + 1
       /\ UNCHANGED <<pc, postRead, polls, polled>>)

\* Anything else behind an AP read drains RDBUFF before it is looked at.
Drain ==
  /\ InList /\ postRead
  /\ Here.port # "bad" /\ ~(Here.port = "ap" /\ Here.op = "read")
  /\ Transferred(Rdbuff,
       /\ status' = "OK"
       /\ values' = Append(values, rdbuff)
       /\ postRead' = FALSE
       /\ UNCHANGED <<pc, at, checkWrite, polls, polled>>)

Post ==
  /\ InList /\ ~postRead /\ Here.port = "ap" /\ Here.op = "read"
  /\ Transferred(Access(at),
       /\ status' = "OK"
       /\ values' = values \o Stamp(at)
       /\ postRead' = TRUE /\ checkWrite' = FALSE
       /\ at' = at + 1
       /\ UNCHANGED <<pc, polls, polled>>)

ReadDP ==
  /\ InList /\ ~postRead /\ Here.port \in {"dp", "exempt"} /\ Here.op = "read"
  /\ Transferred(Access(at),
       /\ status' = "OK"
       /\ values' = Append(values \o Stamp(at), DataWord(at))
       /\ checkWrite' = FALSE
       /\ at' = at + 1
       /\ UNCHANGED <<pc, postRead, polls, polled>>)

Write ==
  /\ InList /\ ~postRead /\ Here.port # "bad" /\ Here.op = "write"
  /\ Transferred(Access(at),
       /\ status' = "OK"
       /\ values' = values \o Stamp(at)
       /\ checkWrite' = TRUE
       /\ at' = at + 1
       /\ UNCHANGED <<pc, postRead, polls, polled>>)

\* MUTANT of SetMask: a mask counts as the read that confirms a write.
SetMaskConfirms ==
  /\ InList /\ ~postRead /\ Here.port # "bad" /\ Here.op = "mask"
  /\ status' = "OK" /\ checkWrite' = FALSE
  /\ at' = at + 1
  /\ UNCHANGED <<call, ran, pc, postRead, waits, polls, values, polled>>
  /\ UNCHANGED target

SetMask ==
  /\ InList /\ ~postRead /\ Here.port # "bad" /\ Here.op = "mask"
  /\ status' = "OK"
  /\ at' = at + 1
  /\ UNCHANGED <<call, ran, pc, postRead, checkWrite, waits, polls, values, polled>>
  /\ UNCHANGED target

\* MUTANT of MatchPost: an AP register is polled like a DP register.
MatchUnposted ==
  /\ InList /\ ~postRead /\ Here.port = "ap" /\ Here.op = "match"
  /\ pc' = "poll"
  /\ UNCHANGED <<call, ran, at, postRead, checkWrite, waits, polls, status, values, polled>>
  /\ UNCHANGED target

\* matchRead: an AP register is posted once before it is polled.
MatchPost ==
  /\ InList /\ ~postRead /\ Here.port = "ap" /\ Here.op = "match"
  /\ Transferred(Access(at),
       /\ status' = "OK"
       /\ pc' = "poll"
       /\ UNCHANGED <<at, postRead, checkWrite, polls, values, polled>>)

MatchDP ==
  /\ InList /\ ~postRead /\ Here.port \in {"dp", "exempt"} /\ Here.op = "match"
  /\ pc' = "poll"
  /\ UNCHANGED <<call, ran, at, postRead, checkWrite, waits, polls, status, values, polled>>
  /\ UNCHANGED target

\* The word a poll brings back: from an AP, the one posted before.
PolledWord == IF Here.port = "ap" THEN rdbuff ELSE DataWord(at)

\* One poll: the word matches, or a retry is spent, or the retries are spent.
MatchPoll ==
  /\ pc = "poll"
  /\ Transferred(Access(at),
       /\ polled' = polled \cup {<<at, PolledWord>>}
       /\ \/ /\ pc' = "list" /\ status' = "OK"
             /\ at' = at + 1 /\ checkWrite' = FALSE
             /\ polls' = MatchRetry
          \/ /\ polls > 0 /\ polls' = polls - 1
             /\ status' = "OK"
             /\ UNCHANGED <<pc, at, checkWrite>>
          \/ /\ polls = 0 /\ pc' = "done" /\ status' = "MISMATCH"
             /\ UNCHANGED <<at, checkWrite, polls>>
       /\ UNCHANGED <<postRead, values>>)

AtEnd(kind) == pc = "list" /\ call.kind = kind /\ at > Len(call.reqs)

\* The end of the list: the posted read is collected, or else a write that no
\* read followed is confirmed.
LastTransfer ==
  /\ AtEnd("transfer") /\ (postRead \/ checkWrite)
  /\ Transferred(Rdbuff,
       /\ status' = "OK"
       /\ values' = IF postRead THEN Append(values, rdbuff) ELSE values
       /\ postRead' = FALSE /\ checkWrite' = FALSE
       /\ UNCHANGED <<pc, at, polls, polled>>)

\* MUTANT of Finish: a posted read is left uncollected.
FinishUndrained ==
  /\ AtEnd("transfer") /\ ~checkWrite
  /\ pc' = "done"
  /\ UNCHANGED <<call, ran, at, postRead, checkWrite, waits, polls, status, values, polled>>
  /\ UNCHANGED target

\* The list is served.  An empty one ran no transfer: its status is none, and
\* the call fails.
Finish ==
  /\ AtEnd("transfer") /\ ~postRead /\ ~checkWrite
  /\ pc' = "done"
  /\ UNCHANGED <<call, ran, at, postRead, checkWrite, waits, polls, status, values, polled>>
  /\ UNCHANGED target

-----------------------------------------------------------------------------
(* BlockRead and BlockWrite. *)

InBlock(kind) == pc = "list" /\ call.kind = kind /\ at <= Len(call.reqs)

\* The first AP read primes the pipeline.
BlockPost ==
  /\ InBlock("blockread") /\ Here.port = "ap" /\ ~postRead
  /\ Transferred(Access(at),
       /\ status' = "OK"
       /\ postRead' = TRUE
       /\ UNCHANGED <<pc, at, checkWrite, polls, values, polled>>)

\* MUTANT of BlockCollect: the last word is collected by one more AP read.
BlockCollectAP ==
  /\ InBlock("blockread") /\ Here.port = "ap" /\ postRead
  /\ Transferred(Access(IF at = Len(call.reqs) THEN at ELSE at + 1),
       /\ status' = "OK"
       /\ values' = Append(values, rdbuff)
       /\ at' = at + 1
       /\ postRead' = (at < Len(call.reqs))
       /\ UNCHANGED <<pc, checkWrite, polls, polled>>)

\* Every later AP read collects the one before it, and RDBUFF the last.
BlockCollect ==
  /\ InBlock("blockread") /\ Here.port = "ap" /\ postRead
  /\ Transferred(IF at = Len(call.reqs) THEN Rdbuff ELSE Access(at + 1),
       /\ status' = "OK"
       /\ values' = Append(values, rdbuff)
       /\ at' = at + 1
       /\ postRead' = (at < Len(call.reqs))
       /\ UNCHANGED <<pc, checkWrite, polls, polled>>)

BlockReadDP ==
  /\ InBlock("blockread") /\ Here.port # "ap"
  /\ Transferred(Access(at),
       /\ status' = "OK"
       /\ values' = Append(values, DataWord(at))
       /\ at' = at + 1
       /\ UNCHANGED <<pc, postRead, checkWrite, polls, polled>>)

BlockWriteWord ==
  /\ InBlock("blockwrite")
  /\ Transferred(Access(at),
       /\ status' = "OK"
       /\ at' = at + 1
       /\ checkWrite' = TRUE
       /\ UNCHANGED <<pc, postRead, polls, values, polled>>)

\* A block write confirms its last word with a read.
BlockConfirm ==
  /\ AtEnd("blockwrite") /\ checkWrite
  /\ Transferred(Rdbuff,
       /\ status' = "OK"
       /\ checkWrite' = FALSE
       /\ UNCHANGED <<pc, at, postRead, polls, values, polled>>)

\* A block call of no words ran no transfer and is fine.
BlockFinish ==
  /\ AtEnd("blockread") \/ (AtEnd("blockwrite") /\ ~checkWrite)
  /\ pc' = "done" /\ status' = "OK"
  /\ UNCHANGED <<call, ran, at, postRead, checkWrite, waits, polls, values, polled>>
  /\ UNCHANGED target

-----------------------------------------------------------------------------
\* What the probe does on its own once it was called.
Step ==
  \/ Refuse \/ Enter
  \/ Reject \/ Collect \/ Drain \/ Post \/ ReadDP \/ Write \/ SetMask
  \/ MatchPost \/ MatchDP \/ MatchPoll \/ LastTransfer \/ Finish
  \/ BlockPost \/ BlockCollect \/ BlockReadDP \/ BlockWriteWord \/ BlockConfirm \/ BlockFinish

Next == Call \/ Return \/ Step

Spec == Init /\ [][Next]_vars

\* The calls are made by a goroutine that runs until the call returns; whether
\* another call is made is the caller's choice.
FairSpec == Spec /\ WF_vars(Step)

-----------------------------------------------------------------------------
(* Properties. *)

\* Requests whose own access has run: a block read posts one ahead.
Issued == IF call.kind = "blockread" /\ postRead THEN at ELSE at - 1

TypeOK ==
  /\ call \in Calls \cup {NoCall}
  /\ pc \in {"idle", "entry", "list", "poll", "done"}
  /\ at \in 1..(Len(call.reqs) + 1)
  /\ ran \in [DOMAIN call.reqs -> Nat]
  /\ postRead \in BOOLEAN /\ checkWrite \in BOOLEAN
  /\ waits \in 0..WaitRetry /\ polls \in 0..MatchRetry
  /\ status \in Acks \cup {"none", "MISMATCH"}
  /\ values \in Seq(Word)
  /\ polled \subseteq (DOMAIN call.reqs) \X Word
  /\ rdbuff \in Word
  /\ sticky \in BOOLEAN
  /\ lost \subseteq DOMAIN call.reqs

Plain(k) == call.reqs[k].op \in {"read", "write"}

\* However the wire misbehaves, a request behind the one being served has not
\* reached the target, and every plain request before it has reached it exactly
\* once: no access is skipped, repeated or run out of order, which is what an
\* auto-incrementing register needs (bitbang.go Transfer, BlockRead, BlockWrite).
RunsOnceInOrder ==
  \A k \in DOMAIN call.reqs :
    /\ k > Issued + 1 => ran[k] = 0
    /\ k <= Issued /\ Plain(k) => ran[k] = 1
    /\ Plain(k) => ran[k] <= 1
    /\ call.reqs[k].op = "mask" => ran[k] = 0

\* The words the requests 1..n contribute, in request order.
ExpectedWords(n) == FlattenSeq([k \in 1..n |-> WordsOf(call.reqs, k)])

\* Every request of the call brings the words probe.go says: no match read asks for a
\* time stamp.
StampsAgreed == \A k \in DOMAIN call.reqs : call.reqs[k].op = "match" => ~call.reqs[k].ts

\* A call that returns OK returns one word per read, each that request's own, in
\* request order, with time stamps immediately before (probe.go Transfer); of a list
\* with a time-stamped match read, StampsReturned says what is missing.
WordsInOrder ==
  pc = "done" /\ status = "OK" /\ StampsAgreed => values = ExpectedWords(Len(call.reqs))

\* "A request with Timestamp set contributes an extra word" (probe.go Transfer,
\* Request.Timestamp), a mask apart, which moves nothing.
StampsReturned ==
  pc = "done" /\ status = "OK" =>
    \A k \in DOMAIN call.reqs :
      call.reqs[k].ts /\ call.reqs[k].op # "mask" => \E i \in DOMAIN values : values[i] = TsWord(k)

\* A match read compares what its own register held, never a value some earlier
\* read posted (bitbang.go matchRead).
MatchComparesOwnRead == \A p \in polled : p[2] = DataWord(p[1])

\* OK means no write was lost without a transfer that could have shown it: a
\* lost write is followed, up to the next ABORT, by nothing but DP registers
\* that answer OK whatever the sticky flags say.
WritesConfirmed ==
  pc = "done" /\ status = "OK" =>
    \A j \in lost :
      /\ \E k \in (j + 1)..Len(call.reqs) : call.reqs[k].port = "exempt"
      /\ \A k \in (j + 1)..Len(call.reqs) :
           \/ call.reqs[k].port = "exempt" \/ call.reqs[k].op = "mask"
           \/ \E m \in (j + 1)..(k - 1) :
                call.reqs[m].port = "exempt" /\ call.reqs[m].op = "write"

\* What the pipeline rests on.  A posted read is the last request issued, and
\* its word is the one RDBUFF holds; a match read on an AP polls what it posted.
Pipeline ==
  /\ pc \in {"idle", "entry"} => at = 1 /\ ~postRead /\ polled = {} /\ lost = {}
  /\ pc = "poll" =>
       /\ call.kind = "transfer" /\ at <= Len(call.reqs)
       /\ Here.op = "match" /\ ~postRead
       /\ Here.port = "ap" => rdbuff = DataWord(at)
  /\ postRead =>
       /\ call.kind \in {"transfer", "blockread"}
       /\ Issued \in DOMAIN call.reqs
       /\ pc # "done" => rdbuff = DataWord(Issued) /\ call.reqs[Issued].port = "ap"

\* While a call runs, the request at hand has not taken effect.
Untouched ==
  pc # "done" =>
    \A k \in DOMAIN call.reqs : Plain(k) /\ k > Issued => ran[k] = 0

IInv == TypeOK /\ Pipeline /\ Untouched /\ RunsOnceInOrder /\ MatchComparesOwnRead

\* Every call returns: retries are bounded (bitbang.go transfer, matchRead).
CallReturns == (pc = "entry") ~> (pc = "done")

\* The engine implements in-order execution of the list.  For the words of a match read
\* with a time stamp WordsOf follows the engine, which sends none: see StampsReturned.
Ordered == INSTANCE InOrderProbe WITH
  issued <- Issued,
  words <- IF pc # "done" /\ postRead THEN Append(values, rdbuff) ELSE values,
  result <- CASE pc = "idle" -> "idle"
              [] pc = "done" -> IF status = "OK" THEN "ok" ELSE "error"
              [] OTHER -> "running"
OrderedSpec == Ordered!Spec
=============================================================================
