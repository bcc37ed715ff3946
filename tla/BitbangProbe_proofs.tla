------------------------ MODULE BitbangProbe_proofs ------------------------
(***************************************************************************)
(* What holds of the transfer engine for every set of calls, every retry   *)
(* limit and every block size.                                             *)
(***************************************************************************)
EXTENDS BitbangProbe, InductionFacts, TLAPS

USE RetryAssumption

-----------------------------------------------------------------------------
(* Calls and accesses. *)

LEMMA CallShape ==
  ASSUME TypeOK
  PROVE  /\ call.reqs \in Seq(Request)
         /\ Len(call.reqs) \in Nat
         /\ DOMAIN call.reqs = 1..Len(call.reqs)
         /\ \A k \in 1..Len(call.reqs) : call.reqs[k] \in Request
<1>1. call.reqs \in Seq(Request)
  BY CallsAssumption DEF TypeOK, IsCall, NoCall
<1> QED BY <1>1

LEMMA StampType ==
  ASSUME NEW k \in Nat
  PROVE  Stamp(k) \in Seq(Word)
<1>1. TsWord(k) \in Word
  BY DEF TsWord, Word
<1>2. <<TsWord(k)>> \in Seq(Word) /\ <<>> \in Seq(Word)
  BY <1>1
<1> QED BY <1>2 DEF Stamp

\* One wire transfer keeps the target's state well typed.
LEMMA WireType ==
  ASSUME TypeOK, NEW k \in 1..Len(call.reqs), NEW a \in {Access(k), Rdbuff},
         NEW ack \in Acks, Wire(a, ack), call' = call
  PROVE  /\ ran' \in [DOMAIN call.reqs -> Nat]
         /\ rdbuff' \in Word /\ sticky' \in BOOLEAN
         /\ lost' \subseteq DOMAIN call.reqs
<1> USE CallShape
<1>1. a.req \in {0, k}
  BY DEF Access, Rdbuff
<1>2. a.read /\ a.ap => a.req = k
  BY DEF Access, Rdbuff
<1>3. ~a.read => a.req = k
  BY DEF Access, Rdbuff
<1>4. CASE Takes(a)
  <2>1. ran' \in [DOMAIN call.reqs -> Nat]
    BY <1>1, <1>4 DEF Takes, TypeOK
  <2>2. rdbuff' \in Word
    BY <1>1, <1>2, <1>4 DEF Takes, TypeOK, DataWord, Word
  <2>3. sticky' \in BOOLEAN
    BY <1>4 DEF Takes, TypeOK
  <2>4. lost' \subseteq DOMAIN call.reqs
    BY <1>3, <1>4 DEF Takes, TypeOK
  <2> QED BY <2>1, <2>2, <2>3, <2>4
<1>5. CASE Refuses(ack)
  BY <1>5 DEF Refuses, TypeOK
<1> QED BY <1>4, <1>5 DEF Wire


-----------------------------------------------------------------------------
(* Type correctness: one lemma per kind of action. *)

\* The actions that serve the request at hand with one wire transfer.
LEMMA TypeServe ==
  ASSUME TypeOK,
         \/ Collect \/ Drain \/ Post \/ ReadDP \/ Write \/ MatchPost
         \/ BlockPost \/ BlockReadDP \/ BlockWriteWord
  PROVE  TypeOK'
<1> USE CallShape
<1>1. call' = call /\ at <= Len(call.reqs)
  BY DEF InList, InBlock, Transferred, Collect, Drain, Post, ReadDP, Write, MatchPost,
         BlockPost, BlockReadDP, BlockWriteWord
<1>2. at \in 1..Len(call.reqs) /\ at + 1 \in 1..(Len(call.reqs) + 1)
  BY <1>1 DEF TypeOK
<1>3. rdbuff \in Word /\ DataWord(at) \in Word /\ Stamp(at) \in Seq(Word)
  BY <1>2, StampType DEF TypeOK, DataWord, Word
<1>4. /\ Append(values, rdbuff) \in Seq(Word)
      /\ Append(values, rdbuff) \o Stamp(at) \in Seq(Word)
      /\ values \o Stamp(at) \in Seq(Word)
      /\ Append(values \o Stamp(at), DataWord(at)) \in Seq(Word)
      /\ Append(values, DataWord(at)) \in Seq(Word)
  BY <1>3 DEF TypeOK
<1>5. PICK a \in {Access(at), Rdbuff} : \E ack \in Acks : Wire(a, ack)
  BY DEF Transferred, Collect, Drain, Post, ReadDP, Write, MatchPost, BlockPost,
         BlockReadDP, BlockWriteWord
<1>6. /\ ran' \in [DOMAIN call.reqs -> Nat]
      /\ rdbuff' \in Word /\ sticky' \in BOOLEAN
      /\ lost' \subseteq DOMAIN call.reqs
  BY <1>1, <1>2, <1>5, WireType
<1>7. polls' = polls /\ polled' = polled
  BY DEF Retried, Stopped, Transferred, Collect, Drain, Post, ReadDP, Write, MatchPost,
         BlockPost, BlockReadDP, BlockWriteWord
<1>8. pc' \in {pc, "done", "poll"} /\ at' \in {at, at + 1}
  BY DEF Retried, Stopped, Transferred, Collect, Drain, Post, ReadDP, Write, MatchPost,
         BlockPost, BlockReadDP, BlockWriteWord
<1>9. status' \in Acks \cup {status}
  BY DEF Acks, Retried, Stopped, Transferred, Collect, Drain, Post, ReadDP, Write, MatchPost,
         BlockPost, BlockReadDP, BlockWriteWord
<1>10. postRead' \in {postRead, TRUE, FALSE} /\ checkWrite' \in {checkWrite, TRUE, FALSE}
  BY DEF Retried, Stopped, Transferred, Collect, Drain, Post, ReadDP, Write, MatchPost,
         BlockPost, BlockReadDP, BlockWriteWord
<1>11. waits' = waits \/ (waits > 0 /\ waits' = waits - 1) \/ waits' = WaitRetry
  BY DEF Retried, Stopped, Transferred, Collect, Drain, Post, ReadDP, Write, MatchPost,
         BlockPost, BlockReadDP, BlockWriteWord
<1>12. values' \in {values, Append(values, rdbuff), Append(values, rdbuff) \o Stamp(at),
                    values \o Stamp(at), Append(values \o Stamp(at), DataWord(at)),
                    Append(values, DataWord(at))}
  BY DEF Retried, Stopped, Transferred, Collect, Drain, Post, ReadDP, Write, MatchPost,
         BlockPost, BlockReadDP, BlockWriteWord
<1>13. waits' \in 0..WaitRetry
  BY <1>11 DEF TypeOK
<1>14. values' \in Seq(Word)
  BY <1>4, <1>12 DEF TypeOK
<1>15. /\ pc' \in {"idle", "entry", "list", "poll", "done"}
       /\ at' \in 1..(Len(call.reqs) + 1)
       /\ postRead' \in BOOLEAN /\ checkWrite' \in BOOLEAN
       /\ status' \in Acks \cup {"none", "MISMATCH"}
  BY <1>2, <1>8, <1>9, <1>10 DEF TypeOK
<1> QED BY <1>1, <1>6, <1>7, <1>13, <1>14, <1>15 DEF TypeOK

\* The transfers that collect what a posted read left behind, and the last one.
LEMMA TypeCollect ==
  ASSUME TypeOK, BlockCollect \/ LastTransfer \/ BlockConfirm
  PROVE  TypeOK'
<1> USE CallShape
<1>1. call' = call /\ polled' = polled /\ polls' = polls
  BY DEF Retried, Stopped, Transferred, BlockCollect, LastTransfer, BlockConfirm
<1>2. /\ ran' \in [DOMAIN call.reqs -> Nat]
      /\ rdbuff' \in Word /\ sticky' \in BOOLEAN
      /\ lost' \subseteq DOMAIN call.reqs
  <2>1. CASE BlockCollect
    <3>1. at \in 1..Len(call.reqs) /\ (at # Len(call.reqs) => at + 1 \in 1..Len(call.reqs))
      BY <2>1 DEF BlockCollect, InBlock, TypeOK
    <3>2. PICK ack \in Acks :
             Wire(IF at = Len(call.reqs) THEN Rdbuff ELSE Access(at + 1), ack)
      BY <2>1 DEF BlockCollect, Transferred
    <3>3. CASE at = Len(call.reqs)
      BY <1>1, <3>1, <3>2, <3>3, WireType
    <3>4. CASE at # Len(call.reqs)
      BY <1>1, <3>1, <3>2, <3>4, WireType
    <3> QED BY <3>3, <3>4
  <2>2. CASE LastTransfer \/ BlockConfirm
    <3>1. PICK ack \in Acks : Wire(Rdbuff, ack)
      BY <2>2 DEF LastTransfer, BlockConfirm, Transferred
    <3>2. CASE Takes(Rdbuff)
      BY <3>2 DEF Takes, Rdbuff, TypeOK
    <3>3. CASE Refuses(ack)
      BY <3>3 DEF Refuses, TypeOK
    <3> QED BY <3>1, <3>2, <3>3 DEF Wire
  <2> QED BY <2>1, <2>2
<1>3. /\ pc' \in {pc, "done"} /\ at' \in {at, at + 1}
      /\ at' = at + 1 => at <= Len(call.reqs)
  BY DEF Retried, Stopped, Transferred, InBlock, BlockCollect, LastTransfer,
         BlockConfirm, TypeOK
<1>4. status' \in Acks \cup {status}
  BY DEF Acks, Retried, Stopped, Transferred, BlockCollect, LastTransfer, BlockConfirm
<1>5. values' = values \/ values' = Append(values, rdbuff)
  BY DEF Retried, Stopped, Transferred, BlockCollect, LastTransfer, BlockConfirm
<1>6. postRead' = postRead \/ postRead' = FALSE \/ postRead' = (at < Len(call.reqs))
  BY DEF Retried, Stopped, Transferred, BlockCollect, LastTransfer, BlockConfirm
<1>7. checkWrite' = checkWrite \/ checkWrite' = FALSE
  BY DEF Retried, Stopped, Transferred, BlockCollect, LastTransfer, BlockConfirm
<1>8. postRead' \in BOOLEAN /\ checkWrite' \in BOOLEAN
  <2>1. postRead \in BOOLEAN /\ checkWrite \in BOOLEAN
    BY DEF TypeOK
  <2>2. (at < Len(call.reqs)) \in BOOLEAN
    OBVIOUS
  <2>3. postRead' \in BOOLEAN
    BY <1>6, <2>1, <2>2, Zenon
  <2> QED BY <1>7, <2>1, <2>3
<1>9. waits' = waits \/ (waits > 0 /\ waits' = waits - 1) \/ waits' = WaitRetry
  BY DEF Retried, Stopped, Transferred, BlockCollect, LastTransfer, BlockConfirm
<1>10. waits' \in 0..WaitRetry
  BY <1>9 DEF TypeOK
<1>11. values \in Seq(Word) /\ rdbuff \in Word
  BY DEF TypeOK
<1>12. values' \in Seq(Word)
  BY <1>5, <1>11
<1>13. pc' \in {"idle", "entry", "list", "poll", "done"}
  BY <1>3 DEF TypeOK
<1>14. at' \in 1..(Len(call.reqs) + 1)
  BY <1>3 DEF TypeOK
<1>15. status' \in Acks \cup {"none", "MISMATCH"}
  BY <1>4 DEF TypeOK
<1> QED BY <1>1, <1>2, <1>8, <1>10, <1>12, <1>13, <1>14, <1>15 DEF TypeOK

\* A poll: Pipeline says that the request being polled is one of the list.
LEMMA TypePoll ==
  ASSUME TypeOK, Pipeline, MatchPoll
  PROVE  TypeOK'
<1> USE CallShape
<1>1. call' = call /\ at \in 1..Len(call.reqs)
  BY DEF MatchPoll, Transferred, Pipeline, TypeOK
<1>2. PICK ack \in Acks : Wire(Access(at), ack)
  BY DEF MatchPoll, Transferred
<1>3. /\ ran' \in [DOMAIN call.reqs -> Nat]
      /\ rdbuff' \in Word /\ sticky' \in BOOLEAN
      /\ lost' \subseteq DOMAIN call.reqs
  BY <1>1, <1>2, WireType
<1>4. PolledWord \in Word
  BY <1>1 DEF PolledWord, DataWord, Word, TypeOK
<1>5. polled' = polled \/ polled' = polled \cup {<<at, PolledWord>>}
  BY DEF Retried, Stopped, Transferred, MatchPoll
<1>6. pc' \in {pc, "done", "list"} /\ at' \in {at, at + 1} /\ values' = values
  BY DEF Retried, Stopped, Transferred, MatchPoll
<1>7. /\ status' \in Acks \cup {status, "MISMATCH"}
      /\ postRead' = postRead /\ checkWrite' \in {checkWrite, FALSE}
  BY DEF Acks, Retried, Stopped, Transferred, MatchPoll
<1>8. /\ waits' = waits \/ (waits > 0 /\ waits' = waits - 1) \/ waits' = WaitRetry
      /\ polls' = polls \/ (polls > 0 /\ polls' = polls - 1) \/ polls' = MatchRetry
  BY DEF Retried, Stopped, Transferred, MatchPoll
<1>9. waits' \in 0..WaitRetry /\ polls' \in 0..MatchRetry
  <2>1. waits \in 0..WaitRetry /\ polls \in 0..MatchRetry
    BY DEF TypeOK
  <2>2. WaitRetry \in 0..WaitRetry /\ MatchRetry \in 0..MatchRetry
    BY <2>1
  <2>3. waits' \in 0..WaitRetry
    BY <1>8, <2>1, <2>2
  <2>4. polls' \in 0..MatchRetry
    BY <1>8, <2>1, <2>2
  <2> QED BY <2>3, <2>4
<1>10. polled' \subseteq (DOMAIN call.reqs) \X Word
  BY <1>1, <1>4, <1>5 DEF TypeOK
<1>11. /\ pc' \in {"idle", "entry", "list", "poll", "done"} /\ values' \in Seq(Word)
       /\ postRead' \in BOOLEAN /\ checkWrite' \in BOOLEAN
  BY <1>6, <1>7 DEF TypeOK
<1>12. at' \in 1..(Len(call.reqs) + 1)
  BY <1>1, <1>6
<1>13. status' \in Acks \cup {"none", "MISMATCH"}
  BY <1>7 DEF TypeOK
<1> QED BY <1>1, <1>3, <1>9, <1>10, <1>11, <1>12, <1>13 DEF TypeOK

\* The steps that use no wire.
LEMMA TypeQuiet ==
  ASSUME TypeOK,
         \/ Refuse \/ Enter \/ Reject \/ SetMask \/ MatchDP \/ Finish \/ BlockFinish
         \/ UNCHANGED vars
  PROVE  TypeOK'
<1> USE CallShape
<1>1. CASE Refuse \/ Enter \/ MatchDP \/ Finish \/ BlockFinish \/ UNCHANGED vars
  BY <1>1 DEF Refuse, Enter, MatchDP, Finish, BlockFinish, target, vars, TypeOK, Acks
<1>2. CASE Reject
  BY <1>2 DEF Reject, target, TypeOK
<1>3. CASE SetMask
  BY <1>3 DEF SetMask, InList, target, TypeOK, Acks
<1> QED BY <1>1, <1>2, <1>3

LEMMA TypeCall ==
  ASSUME TypeOK, Pipeline, Call \/ Return
  PROVE  TypeOK'
<1>1. CASE Call
  <2>1. call' \in Calls /\ call'.reqs \in Seq(Request)
    BY <1>1, CallsAssumption DEF Call, IsCall
  <2>2. at' = 1 /\ 1 \in 1..(Len(call'.reqs) + 1)
    BY <1>1, <2>1 DEF Call, Pipeline
  <2>3. ran' \in [DOMAIN call'.reqs -> Nat] /\ polled' = polled /\ lost' = lost
    BY <1>1 DEF Call, target
  <2>4. polled = {} /\ lost = {}
    BY <1>1 DEF Call, Pipeline
  <2>5. /\ pc' = "entry" /\ postRead' = postRead /\ checkWrite' = checkWrite
        /\ waits' = waits /\ polls' = polls /\ status' = status /\ values' = values
        /\ rdbuff' = rdbuff /\ sticky' = sticky
    BY <1>1 DEF Call, target
  <2>6. /\ waits' \in 0..WaitRetry /\ polls' \in 0..MatchRetry
        /\ status' \in Acks \cup {"none", "MISMATCH"} /\ values' \in Seq(Word)
        /\ postRead' \in BOOLEAN /\ checkWrite' \in BOOLEAN
        /\ rdbuff' \in Word /\ sticky' \in BOOLEAN
    BY <2>5 DEF TypeOK
  <2> QED BY <2>1, <2>2, <2>3, <2>4, <2>5, <2>6 DEF TypeOK
<1>2. CASE Return
  <2>1. /\ call' = NoCall /\ call'.reqs = <<>> /\ DOMAIN call'.reqs = {} /\ Len(call'.reqs) = 0
        /\ ran' = <<>> /\ pc' = "idle" /\ at' = 1 /\ status' = "none" /\ values' = <<>>
        /\ waits' = WaitRetry /\ polls' = MatchRetry /\ polled' = {} /\ lost' = {}
    BY <1>2 DEF Return, NoCall
  <2>2. postRead' \in BOOLEAN /\ checkWrite' \in BOOLEAN /\ sticky' \in BOOLEAN
    BY <1>2 DEF Return, TypeOK
  <2>3. rdbuff' \in Word
    BY <1>2 DEF Return, Stale, DataWord, Word
  <2>4. ran' \in [DOMAIN call'.reqs -> Nat]
    BY <2>1
  <2>5. waits' \in 0..WaitRetry /\ polls' \in 0..MatchRetry
    BY <2>1
  <2> QED BY <2>1, <2>2, <2>3, <2>4, <2>5 DEF TypeOK
<1> QED BY <1>1, <1>2

-----------------------------------------------------------------------------
(* How often each request has run. *)

LEMMA TakesAccess ==
  ASSUME NEW k \in Nat \ {0}, Takes(Access(k))
  PROVE  /\ ran' = [ran EXCEPT ![k] = @ + 1]
         /\ rdbuff' = IF call.reqs[k].port = "ap" /\ call.reqs[k].op \in {"read", "match"}
                       THEN DataWord(k) ELSE rdbuff
BY DEF Takes, Access

LEMMA TakesRdbuff ==
  ASSUME Takes(Rdbuff)
  PROVE  ran' = ran /\ rdbuff' = rdbuff
BY DEF Takes, Rdbuff

\* The request behind the issued ones is the only one a step may run.  It is
\* counted as issued when it ran, or when it was none to run; it may run without
\* being counted when it is a match read, or when the call ends with it.
LEMMA CountsKept ==
  ASSUME TypeOK, Untouched, RunsOnceInOrder, pc # "done", call' = call,
         NEW k \in Nat, k = Issued + 1, Issued \in Nat, Issued' \in Nat,
         \/ Issued' = Issued /\ ran' = ran
         \/ /\ k \in DOMAIN call.reqs
            /\ ran' = [ran EXCEPT ![k] = @ + 1]
            /\ call.reqs[k].op # "mask"
            /\ \/ Issued' = k
               \/ Issued' = Issued /\ (call.reqs[k].op = "match" \/ pc' = "done")
         \/ Issued' = k /\ ran' = ran /\ (k \in DOMAIN call.reqs => ~Plain(k))
  PROVE  RunsOnceInOrder' /\ Untouched'
<1> USE CallShape
<1>1. ran \in [DOMAIN call.reqs -> Nat]
  BY DEF TypeOK
<1>2. \A j \in DOMAIN call.reqs : Plain(j)' = Plain(j)
  BY DEF Plain
<1>3. \A j \in DOMAIN call.reqs : Plain(j) /\ j > Issued => ran[j] = 0
  BY DEF Untouched
<1>4. SUFFICES ASSUME NEW j \in DOMAIN call.reqs
      PROVE  /\ j > Issued' + 1 => ran'[j] = 0
             /\ j <= Issued' /\ Plain(j) => ran'[j] = 1
             /\ Plain(j) => ran'[j] <= 1
             /\ call.reqs[j].op = "mask" => ran'[j] = 0
             /\ pc' # "done" /\ Plain(j) /\ j > Issued' => ran'[j] = 0
  BY <1>2 DEF RunsOnceInOrder, Untouched
<1>5. /\ j > Issued + 1 => ran[j] = 0
      /\ j <= Issued /\ Plain(j) => ran[j] = 1
      /\ Plain(j) => ran[j] <= 1
      /\ call.reqs[j].op = "mask" => ran[j] = 0
      /\ Plain(j) /\ j > Issued => ran[j] = 0
  BY <1>3 DEF RunsOnceInOrder
<1>6. CASE Issued' = Issued /\ ran' = ran
  BY <1>5, <1>6
<1>7. CASE Issued' = k /\ ran' = ran /\ (k \in DOMAIN call.reqs => ~Plain(k))
  BY <1>5, <1>7
<1>8. CASE /\ k \in DOMAIN call.reqs
           /\ ran' = [ran EXCEPT ![k] = @ + 1]
           /\ call.reqs[k].op # "mask"
           /\ \/ Issued' = k
              \/ Issued' = Issued /\ (call.reqs[k].op = "match" \/ pc' = "done")
  <2>1. ran'[j] = IF j = k THEN ran[j] + 1 ELSE ran[j]
    BY <1>1, <1>8
  <2>2. CASE j = k
    <3>1. Plain(k) => ran'[k] = 1
      BY <1>5, <2>1, <2>2, <1>1
    <3>2. Plain(k) => call.reqs[k].op # "match"
      BY DEF Plain
    <3>3. CASE Issued' = k
      BY <1>8, <2>2, <3>1, <3>3
    <3>4. CASE Issued' = Issued /\ call.reqs[k].op = "match"
      BY <1>8, <2>2, <3>1, <3>2, <3>4
    <3>5. CASE Issued' = Issued /\ pc' = "done"
      BY <1>8, <2>2, <3>1, <3>5
    <3> QED BY <1>8, <3>3, <3>4, <3>5
  <2>3. CASE j # k
    BY <1>5, <1>8, <2>1, <2>3
  <2> QED BY <2>2, <2>3
<1> QED BY <1>6, <1>7, <1>8

\* A transfer that is retried or that ends the call keeps the invariant: at most
\* the request at hand has run without being counted.
LEMMA FailureKeeps ==
  ASSUME IInv, NEW ack \in Acks, call' = call, pc \in {"list", "poll"},
         NEW a, a = Rdbuff \/ (a = Access(Issued + 1) /\ Issued + 1 \in DOMAIN call.reqs
                               /\ call.reqs[Issued + 1].op # "mask"),
         Wire(a, ack), Retried(ack) \/ Stopped(ack), Issued \in Nat
  PROVE  Pipeline' /\ Untouched' /\ RunsOnceInOrder' /\ MatchComparesOwnRead'
<1> USE DEF IInv
<1>1. /\ at' = at /\ postRead' = postRead /\ polled' = polled /\ Issued' = Issued
      /\ (pc' = pc /\ ack = "WAIT") \/ (pc' = "done" /\ ack # "OK")
  BY DEF Retried, Stopped, Issued
<1>2. CASE Refuses(ack)
  <2>1. ran' = ran /\ rdbuff' = rdbuff
    BY <1>2 DEF Refuses
  <2>2. RunsOnceInOrder' /\ Untouched'
    BY <1>1, <2>1, CountsKept
  <2>3. Pipeline' /\ MatchComparesOwnRead'
    BY <1>1, <2>1 DEF Pipeline, MatchComparesOwnRead, Here
  <2> QED BY <2>2, <2>3
<1>3. CASE Takes(a) /\ ack = "ERROR"
  <2>1. pc' = "done"
    BY <1>1, <1>3
  <2>2. RunsOnceInOrder' /\ Untouched'
    <3>1. CASE a = Rdbuff
      BY <1>1, <1>3, <3>1, TakesRdbuff, CountsKept
    <3>2. CASE a # Rdbuff
      <4> DEFINE k == Issued + 1
      <4>1. k \in Nat \ {0} /\ k \in DOMAIN call.reqs /\ call.reqs[k].op # "mask"
        BY <3>2
      <4>2. ran' = [ran EXCEPT ![k] = @ + 1]
        BY <1>3, <3>2, <4>1, TakesAccess
      <4>3. Issued' \in Nat /\ Issued' = Issued /\ pc # "done"
        BY <1>1
      <4> HIDE DEF k
      <4> QED BY <2>1, <4>1, <4>2, <4>3, CountsKept DEF k
    <3> QED BY <3>1, <3>2
  <2>3. Pipeline' /\ MatchComparesOwnRead'
    BY <1>1, <2>1 DEF Pipeline, MatchComparesOwnRead, Here
  <2> QED BY <2>2, <2>3
<1> QED BY <1>1, <1>2, <1>3 DEF Wire

-----------------------------------------------------------------------------
(* The invariant, one lemma per kind of action. *)

Kept == Pipeline /\ Untouched /\ RunsOnceInOrder /\ MatchComparesOwnRead

\* A transfer that reaches the request at hand: it fails, or is counted as served
\* or as posted, or begins the polls of a match read.
LEMMA AccessKeeps ==
  ASSUME IInv, call' = call, pc = "list", Issued = at - 1,
         at \in DOMAIN call.reqs, call.reqs[at].op # "mask",
         NEW ack \in Acks, Wire(Access(at), ack),
         \/ Retried(ack) \/ Stopped(ack)
         \/ /\ ack = "OK" /\ polled' = polled
            /\ \/ pc' = "list" /\ at' = at + 1 /\ postRead' = FALSE
               \/ /\ pc' = "list" /\ postRead' = TRUE
                  /\ \/ at' = at + 1 /\ call.kind = "transfer"
                     \/ at' = at /\ call.kind = "blockread"
                  /\ call.reqs[at].op = "read" /\ call.reqs[at].port = "ap"
               \/ /\ pc' = "poll" /\ at' = at /\ postRead' = FALSE
                  /\ call.kind = "transfer" /\ call.reqs[at].op = "match"
  PROVE  Kept'
<1> USE CallShape
<1>1. TypeOK /\ Pipeline /\ Untouched /\ RunsOnceInOrder /\ MatchComparesOwnRead
  BY DEF IInv
<1>2. at \in Nat \ {0} /\ Issued \in Nat /\ at = Issued + 1
  BY <1>1
<1>3. CASE Retried(ack) \/ Stopped(ack)
  BY <1>2, <1>3, FailureKeeps DEF Kept
<1>4. CASE ack = "OK" /\ ~Retried(ack) /\ ~Stopped(ack)
  <2>1. Takes(Access(at))
    BY <1>4 DEF Wire
  <2>2. /\ ran' = [ran EXCEPT ![at] = @ + 1]
        /\ rdbuff' = IF call.reqs[at].port = "ap" /\ call.reqs[at].op \in {"read", "match"}
                      THEN DataWord(at) ELSE rdbuff
    BY <1>2, <2>1, TakesAccess
  <2>3. Issued' = at \/ (Issued' = Issued /\ call.reqs[at].op = "match")
    BY <1>2, <1>4 DEF Issued
  <2>4. RunsOnceInOrder' /\ Untouched'
    <3>1. Issued' \in Nat
      BY <1>2, <2>3
    <3> HIDE CallShape
    <3>2. CASE Issued' = at
      BY <1>1, <1>2, <2>2, <3>1, <3>2, CountsKept
    <3>3. CASE Issued' = Issued /\ call.reqs[at].op = "match"
      BY <1>1, <1>2, <2>2, <3>1, <3>3, CountsKept
    <3> QED BY <2>3, <3>2, <3>3
  <2>5. Pipeline'
    <3>1. CASE pc' = "list" /\ postRead' = FALSE
      BY <3>1 DEF Pipeline
    <3>2. CASE pc' = "list" /\ postRead' = TRUE
      <4>1. Issued' = at /\ call.kind \in {"transfer", "blockread"}
        BY <1>2, <1>4, <3>2 DEF Issued
      <4>2. rdbuff' = DataWord(at) /\ call.reqs[at].port = "ap"
        BY <1>4, <2>2, <3>2
      <4> QED BY <3>2, <4>1, <4>2 DEF Pipeline
    <3>3. CASE pc' = "poll"
      <4>1. /\ at' = at /\ postRead' = FALSE /\ call.kind = "transfer"
            /\ call.reqs[at].op = "match" /\ at <= Len(call.reqs)
        BY <1>1, <1>4, <3>3
      <4>2. call.reqs[at].port = "ap" => rdbuff' = DataWord(at)
        BY <2>2, <4>1
      <4> QED BY <3>3, <4>1, <4>2 DEF Pipeline, Here
    <3> QED BY <1>4, <3>1, <3>2, <3>3
  <2>6. MatchComparesOwnRead'
    BY <1>1, <1>4 DEF MatchComparesOwnRead
  <2> QED BY <2>4, <2>5, <2>6 DEF Kept
<1> QED BY <1>3, <1>4

\* A read of RDBUFF: it fails, or nothing is posted any more.
LEMMA RdbuffKeeps ==
  ASSUME IInv, call' = call, pc = "list", Issued \in Nat,
         NEW ack \in Acks, Wire(Rdbuff, ack),
         \/ Retried(ack) \/ Stopped(ack)
         \/ /\ ack = "OK" /\ polled' = polled
            /\ pc' = "list" /\ Issued' = Issued /\ postRead' = FALSE
  PROVE  Kept'
<1>1. TypeOK /\ Pipeline /\ Untouched /\ RunsOnceInOrder /\ MatchComparesOwnRead
  BY DEF IInv
<1>2. CASE Retried(ack) \/ Stopped(ack)
  BY <1>2, FailureKeeps DEF Kept
<1>3. CASE ack = "OK" /\ ~Retried(ack) /\ ~Stopped(ack)
  <2>1. Takes(Rdbuff)
    BY <1>3 DEF Wire
  <2>2. RunsOnceInOrder' /\ Untouched'
    BY <1>1, <1>3, <2>1, TakesRdbuff, CountsKept
  <2>3. Pipeline' /\ MatchComparesOwnRead'
    BY <1>1, <1>3 DEF Pipeline, MatchComparesOwnRead
  <2> QED BY <2>2, <2>3 DEF Kept
<1> QED BY <1>2, <1>3

\* The actions of a transfer list that run the request at hand.
LEMMA ListKeeps ==
  ASSUME IInv, Collect \/ Post \/ ReadDP \/ Write \/ MatchPost
  PROVE  Kept'
<1> USE CallShape
<1>1. TypeOK
  BY DEF IInv
<1>2. /\ pc = "list" /\ call.kind = "transfer" /\ at \in DOMAIN call.reqs /\ call' = call
      /\ Issued = at - 1 /\ call.reqs[at].op # "mask"
  <2>1. pc = "list" /\ call.kind = "transfer" /\ at <= Len(call.reqs) /\ call' = call
    BY DEF InList, Transferred, Collect, Post, ReadDP, Write, MatchPost
  <2>2. call.reqs[at].op # "mask"
    BY DEF Here, Collect, Post, ReadDP, Write, MatchPost
  <2> QED BY <1>1, <2>1, <2>2 DEF TypeOK, Issued
<1>3. CASE Collect
  <2>1. postRead = TRUE /\ call.reqs[at].op = "read" /\ call.reqs[at].port = "ap"
    BY <1>1, <1>3 DEF Collect, Here, TypeOK
  <2>2. PICK ack \in Acks :
          /\ Wire(Access(at), ack)
          /\ \/ Retried(ack) \/ Stopped(ack)
             \/ /\ ack = "OK" /\ polled' = polled
                /\ pc' = pc /\ at' = at + 1 /\ postRead' = postRead
    BY <1>3 DEF Collect, Transferred
  <2> QED BY <1>2, <2>1, <2>2, AccessKeeps
<1>4. CASE Post
  <2>1. call.reqs[at].op = "read" /\ call.reqs[at].port = "ap"
    BY <1>4 DEF Post, Here
  <2>2. PICK ack \in Acks :
          /\ Wire(Access(at), ack)
          /\ \/ Retried(ack) \/ Stopped(ack)
             \/ /\ ack = "OK" /\ polled' = polled
                /\ pc' = pc /\ at' = at + 1 /\ postRead' = TRUE
    BY <1>4 DEF Post, Transferred
  <2> QED BY <1>2, <2>1, <2>2, AccessKeeps
<1>5. CASE ReadDP
  <2>1. postRead = FALSE
    BY <1>1, <1>5 DEF ReadDP, TypeOK
  <2>2. PICK ack \in Acks :
          /\ Wire(Access(at), ack)
          /\ \/ Retried(ack) \/ Stopped(ack)
             \/ /\ ack = "OK" /\ polled' = polled
                /\ pc' = pc /\ at' = at + 1 /\ postRead' = postRead
    BY <1>5 DEF ReadDP, Transferred
  <2> QED BY <1>2, <2>1, <2>2, AccessKeeps
<1>6. CASE Write
  <2>1. postRead = FALSE
    BY <1>1, <1>6 DEF Write, TypeOK
  <2>2. PICK ack \in Acks :
          /\ Wire(Access(at), ack)
          /\ \/ Retried(ack) \/ Stopped(ack)
             \/ /\ ack = "OK" /\ polled' = polled
                /\ pc' = pc /\ at' = at + 1 /\ postRead' = postRead
    BY <1>6 DEF Write, Transferred
  <2> QED BY <1>2, <2>1, <2>2, AccessKeeps
<1>7. CASE MatchPost
  <2>1. postRead = FALSE /\ call.reqs[at].op = "match"
    BY <1>1, <1>7 DEF MatchPost, Here, TypeOK
  <2>2. PICK ack \in Acks :
          /\ Wire(Access(at), ack)
          /\ \/ Retried(ack) \/ Stopped(ack)
             \/ /\ ack = "OK" /\ polled' = polled
                /\ pc' = "poll" /\ at' = at /\ postRead' = postRead
    BY <1>7 DEF MatchPost, Transferred
  <2> QED BY <1>2, <2>1, <2>2, AccessKeeps
<1> QED BY <1>3, <1>4, <1>5, <1>6, <1>7

\* The block calls.  In a block every request is the same one, so that what is
\* posted and what is at hand have the same register.
LEMMA BlockKeeps ==
  ASSUME IInv, BlockPost \/ BlockReadDP \/ BlockWriteWord
  PROVE  Kept'
<1> USE CallShape
<1>1. TypeOK /\ Pipeline
  BY DEF IInv
<1>2. /\ pc = "list" /\ call.kind \in {"blockread", "blockwrite"}
      /\ at \in DOMAIN call.reqs /\ call' = call
  <2>1. /\ pc = "list" /\ call.kind \in {"blockread", "blockwrite"}
        /\ at <= Len(call.reqs) /\ call' = call
    BY DEF InBlock, Transferred, BlockPost, BlockReadDP, BlockWriteWord
  <2> QED BY <1>1, <2>1 DEF TypeOK
<1>3. /\ call.kind = "blockread" => call.reqs[at].op = "read"
      /\ call.kind = "blockwrite" => call.reqs[at].op = "write"
  BY <1>1, <1>2, CallsAssumption DEF TypeOK, NoCall, IsCall
<1>4. CASE BlockPost
  <2>1. call.kind = "blockread" /\ call.reqs[at].port = "ap" /\ Issued = at - 1
    BY <1>4 DEF BlockPost, InBlock, Here, Issued
  <2>2. PICK ack \in Acks :
          /\ Wire(Access(at), ack)
          /\ \/ Retried(ack) \/ Stopped(ack)
             \/ /\ ack = "OK" /\ polled' = polled
                /\ pc' = pc /\ at' = at /\ postRead' = TRUE
    BY <1>4 DEF BlockPost, Transferred
  <2> QED BY <1>2, <1>3, <2>1, <2>2, AccessKeeps
<1>5. CASE BlockReadDP \/ BlockWriteWord
  <2>1. postRead = FALSE
    <3>1. CASE BlockReadDP
      <4>1. call.kind = "blockread" /\ call.reqs[at].port # "ap"
        BY <3>1 DEF BlockReadDP, InBlock, Here
      <4>2. postRead => Issued = at
        BY <4>1 DEF Issued
      <4> QED BY <1>1, <1>2, <4>1, <4>2 DEF Pipeline, TypeOK
    <3>2. CASE BlockWriteWord
      BY <1>1, <3>2 DEF BlockWriteWord, InBlock, Pipeline, TypeOK
    <3> QED BY <1>5, <3>1, <3>2
  <2>2. Issued = at - 1
    BY <2>1 DEF Issued
  <2>3. PICK ack \in Acks :
          /\ Wire(Access(at), ack)
          /\ \/ Retried(ack) \/ Stopped(ack)
             \/ /\ ack = "OK" /\ polled' = polled
                /\ pc' = pc /\ at' = at + 1 /\ postRead' = postRead
    <3>1. CASE BlockReadDP
      BY <3>1 DEF BlockReadDP, Transferred
    <3>2. CASE BlockWriteWord
      BY <3>2 DEF BlockWriteWord, Transferred
    <3> QED BY <1>5, <3>1, <3>2
  <2> QED BY <1>2, <1>3, <2>1, <2>2, <2>3, AccessKeeps
<1> QED BY <1>4, <1>5

\* A block read collects the word it posted and posts the next, or reads RDBUFF.
LEMMA BlockCollectKeeps ==
  ASSUME IInv, BlockCollect
  PROVE  Kept'
<1> USE CallShape
<1>1. TypeOK /\ Pipeline /\ Untouched /\ RunsOnceInOrder /\ MatchComparesOwnRead
  BY DEF IInv
<1>2. /\ pc = "list" /\ call.kind = "blockread" /\ at \in 1..Len(call.reqs) /\ call' = call
      /\ postRead /\ Issued = at /\ call.reqs[at].port = "ap"
  <2>1. /\ pc = "list" /\ call.kind = "blockread" /\ at <= Len(call.reqs) /\ call' = call
        /\ postRead /\ call.reqs[at].port = "ap"
    BY DEF BlockCollect, InBlock, Transferred, Here
  <2> QED BY <1>1, <2>1 DEF TypeOK, Issued
<1>3. PICK ack \in Acks :
        /\ Wire(IF at = Len(call.reqs) THEN Rdbuff ELSE Access(at + 1), ack)
        /\ \/ Retried(ack) \/ Stopped(ack)
           \/ /\ ack = "OK" /\ polled' = polled /\ pc' = pc /\ at' = at + 1
              /\ postRead' = (at < Len(call.reqs))
  BY DEF BlockCollect, Transferred
<1>4. CASE at = Len(call.reqs)
  <2>1. (at < Len(call.reqs)) = FALSE /\ Wire(Rdbuff, ack) /\ Issued \in Nat
    BY <1>2, <1>3, <1>4
  <2>2. CASE Retried(ack) \/ Stopped(ack)
    BY <1>2, <2>1, <2>2, RdbuffKeeps
  <2>3. CASE ack = "OK" /\ ~Retried(ack) /\ ~Stopped(ack)
    <3>1. postRead' = FALSE
      BY <1>3, <2>1, <2>3, Zenon
    <3>2. Issued' = Issued /\ pc' = "list" /\ polled' = polled
      BY <1>2, <1>3, <2>3, <3>1 DEF Issued
    <3> QED BY <1>2, <2>1, <2>3, <3>1, <3>2, RdbuffKeeps
  <2> QED BY <1>3, <2>2, <2>3
<1>5. CASE at # Len(call.reqs)
  <2> DEFINE k == at + 1
  <2>1. /\ k \in 1..Len(call.reqs) /\ k \in Nat \ {0} /\ k = Issued + 1
        /\ call.reqs[k].op = "read" /\ call.reqs[k].port = "ap"
    <3>1. k \in 1..Len(call.reqs)
      BY <1>2, <1>5
    <3>2. call.reqs[k].op = "read" /\ call.reqs[k] = call.reqs[at]
      BY <1>1, <1>2, <3>1, CallsAssumption DEF TypeOK, NoCall, IsCall
    <3> QED BY <1>2, <3>1, <3>2
  <2>2. Wire(Access(k), ack)
    BY <1>3, <1>5
  <2>3. CASE Retried(ack) \/ Stopped(ack)
    BY <1>2, <2>1, <2>2, <2>3, FailureKeeps DEF Kept
  <2>4. CASE ack = "OK" /\ ~Retried(ack) /\ ~Stopped(ack)
    <3>1. Takes(Access(k))
      BY <2>2, <2>4 DEF Wire
    <3>2. ran' = [ran EXCEPT ![k] = @ + 1] /\ rdbuff' = DataWord(k)
      BY <2>1, <3>1, TakesAccess
    <3>3. pc' = "list" /\ at' = k /\ postRead' /\ polled' = polled /\ Issued' = k
      <4>1. at < Len(call.reqs)
        BY <1>2, <1>5
      <4>2. postRead'
        BY <1>3, <2>4, <4>1, Zenon
      <4> QED BY <1>2, <1>3, <2>4, <4>2 DEF Issued
    <3>4. RunsOnceInOrder' /\ Untouched'
      <4> HIDE DEF k
      <4>1. Issued \in Nat /\ Issued' \in Nat
        BY <1>2, <2>1, <3>3
      <4> QED BY <1>1, <1>2, <2>1, <3>2, <3>3, <4>1, CountsKept
    <3>5. Pipeline'
      <4> HIDE DEF k
      <4> QED BY <1>2, <2>1, <3>2, <3>3 DEF Pipeline
    <3>6. MatchComparesOwnRead'
      BY <1>1, <3>3 DEF MatchComparesOwnRead
    <3> QED BY <3>4, <3>5, <3>6 DEF Kept
  <2> QED BY <1>3, <2>3, <2>4
<1> QED BY <1>4, <1>5

\* The reads of RDBUFF on behalf of no request.
LEMMA DrainKeeps ==
  ASSUME IInv, Drain \/ LastTransfer \/ BlockConfirm
  PROVE  Kept'
<1> USE CallShape
<1>1. TypeOK /\ Pipeline
  BY DEF IInv
<1>2. CASE Drain \/ LastTransfer
  <2>1. pc = "list" /\ call.kind = "transfer" /\ call' = call /\ Issued = at - 1
    BY <1>2 DEF Drain, LastTransfer, InList, AtEnd, Transferred, Issued
  <2>2. PICK ack \in Acks :
          /\ Wire(Rdbuff, ack)
          /\ \/ Retried(ack) \/ Stopped(ack)
             \/ /\ ack = "OK" /\ polled' = polled
                /\ pc' = pc /\ at' = at /\ postRead' = FALSE
    <3>1. CASE Drain
      BY <3>1 DEF Drain, Transferred
    <3>2. CASE LastTransfer
      BY <3>2 DEF LastTransfer, Transferred
    <3> QED BY <1>2, <3>1, <3>2
  <2>3. Issued \in Nat
    BY <1>1, <2>1 DEF TypeOK
  <2>4. ack = "OK" /\ at' = at /\ postRead' = FALSE => Issued' = Issued
    BY <2>1 DEF Issued
  <2> QED BY <2>1, <2>2, <2>3, <2>4, RdbuffKeeps
<1>3. CASE BlockConfirm
  <2>1. pc = "list" /\ call.kind = "blockwrite" /\ call' = call /\ Issued = at - 1
    BY <1>3 DEF BlockConfirm, AtEnd, Transferred, Issued
  <2>2. postRead = FALSE
    BY <1>1, <2>1 DEF Pipeline, TypeOK
  <2>3. PICK ack \in Acks :
          /\ Wire(Rdbuff, ack)
          /\ \/ Retried(ack) \/ Stopped(ack)
             \/ /\ ack = "OK" /\ polled' = polled
                /\ pc' = pc /\ at' = at /\ postRead' = postRead
    BY <1>3 DEF BlockConfirm, Transferred
  <2>4. Issued \in Nat
    BY <1>1, <2>1 DEF TypeOK
  <2>5. ack = "OK" /\ at' = at /\ postRead' = postRead => Issued' = Issued
    BY <2>1, <2>2 DEF Issued
  <2> QED BY <2>1, <2>2, <2>3, <2>4, <2>5, RdbuffKeeps
<1> QED BY <1>2, <1>3

\* A poll compares what this match read posted, or what its DP register holds.
LEMMA PollKeeps ==
  ASSUME IInv, MatchPoll
  PROVE  Kept'
<1> USE CallShape
<1>1. TypeOK /\ Pipeline /\ Untouched /\ RunsOnceInOrder /\ MatchComparesOwnRead
  BY DEF IInv
<1>2. /\ pc = "poll" /\ call' = call /\ call.kind = "transfer"
      /\ at \in 1..Len(call.reqs) /\ at \in Nat \ {0}
      /\ call.reqs[at].op = "match" /\ Issued = at - 1 /\ postRead = FALSE
      /\ call.reqs[at].port = "ap" => rdbuff = DataWord(at)
  <2>1. pc = "poll" /\ call' = call
    BY DEF MatchPoll, Transferred
  <2>2. /\ call.kind = "transfer" /\ at <= Len(call.reqs) /\ Here.op = "match"
        /\ ~postRead /\ Here.port = "ap" => rdbuff = DataWord(at)
    BY <1>1, <2>1 DEF Pipeline
  <2>3. ~postRead
    BY <1>1, <2>1 DEF Pipeline
  <2>4. at \in Nat /\ at # 0 /\ postRead \in BOOLEAN
    BY <1>1 DEF TypeOK
  <2>5. Here.port = "ap" => rdbuff = DataWord(at)
    BY <1>1, <2>1 DEF Pipeline
  <2> QED BY <2>1, <2>2, <2>3, <2>4, <2>5 DEF Here, Issued
<1>3. PICK ack \in Acks :
        /\ Wire(Access(at), ack)
        /\ \/ Retried(ack) \/ Stopped(ack)
           \/ /\ ack = "OK" /\ polled' = polled \cup {<<at, PolledWord>>}
              /\ postRead' = postRead
              /\ \/ pc' = "list" /\ at' = at + 1
                 \/ pc' = pc /\ at' = at
                 \/ pc' = "done" /\ at' = at
  BY DEF MatchPoll, Transferred
<1>4. CASE Retried(ack) \/ Stopped(ack)
  BY <1>2, <1>3, <1>4, FailureKeeps DEF Kept
<1>5. CASE ack = "OK" /\ ~Retried(ack) /\ ~Stopped(ack)
  <2>1. Takes(Access(at))
    BY <1>3, <1>5 DEF Wire
  <2>2. ran' = [ran EXCEPT ![at] = @ + 1]
    BY <1>2, <2>1, TakesAccess
  <2>3. call.reqs[at].port = "ap" => rdbuff' = DataWord(at)
    BY <1>2, <2>1, TakesAccess
  <2>4. /\ polled' = polled \cup {<<at, PolledWord>>} /\ postRead' = FALSE
        /\ \/ pc' = "list" /\ at' = at + 1 /\ Issued' = at
           \/ pc' = "poll" /\ at' = at /\ Issued' = Issued
           \/ pc' = "done" /\ at' = at /\ Issued' = Issued
    BY <1>2, <1>3, <1>5 DEF Issued
  <2>5. RunsOnceInOrder' /\ Untouched'
    <3>1. Issued \in Nat /\ Issued' \in Nat /\ at = Issued + 1 /\ at \in DOMAIN call.reqs
      BY <1>2, <2>4
    <3> HIDE CallShape
    <3>2. CASE Issued' = at
      BY <1>1, <1>2, <2>2, <3>1, <3>2, CountsKept
    <3>3. CASE Issued' = Issued
      BY <1>1, <1>2, <2>2, <3>1, <3>3, CountsKept
    <3> QED BY <2>4, <3>2, <3>3
  <2>6. Pipeline'
    BY <1>2, <2>3, <2>4 DEF Pipeline, Here
  <2>7. PolledWord = DataWord(at)
    BY <1>2 DEF PolledWord, Here
  <2>8. MatchComparesOwnRead'
    BY <1>1, <2>4, <2>7 DEF MatchComparesOwnRead
  <2> QED BY <2>5, <2>6, <2>8 DEF Kept
<1> QED BY <1>3, <1>4, <1>5

\* The steps that use no wire.
LEMMA QuietKeeps ==
  ASSUME IInv,
         \/ Refuse \/ Enter \/ Reject \/ SetMask \/ MatchDP \/ Finish \/ BlockFinish
         \/ UNCHANGED vars
  PROVE  Kept'
<1> USE CallShape
<1>1. TypeOK /\ Pipeline /\ Untouched /\ RunsOnceInOrder /\ MatchComparesOwnRead
  BY DEF IInv
<1>2. /\ call' = call /\ ran' = ran /\ polled' = polled /\ postRead' = postRead
      /\ rdbuff' = rdbuff
  BY DEF Refuse, Enter, Reject, SetMask, MatchDP, Finish, BlockFinish, target, vars
<1>3. MatchComparesOwnRead'
  BY <1>1, <1>2 DEF MatchComparesOwnRead
<1>4. CASE Refuse \/ Reject \/ Finish \/ BlockFinish \/ Enter \/ UNCHANGED vars
  <2>1. at' = at /\ lost' = lost /\ (pc' = pc \/ pc' \in {"done", "list"})
        /\ (pc' # "done" => pc # "done")
    BY <1>4 DEF Refuse, Enter, Reject, Finish, BlockFinish, target, vars, AtEnd, InList
  <2>2. Issued' = Issued
    BY <1>2, <2>1 DEF Issued
  <2>3. Pipeline'
    BY <1>1, <1>2, <2>1, <2>2 DEF Pipeline, Here
  <2>4. RunsOnceInOrder' /\ Untouched'
    BY <1>1, <1>2, <2>1, <2>2 DEF RunsOnceInOrder, Untouched, Plain
  <2> QED BY <1>3, <2>3, <2>4 DEF Kept
<1>5. CASE SetMask
  <2>1. /\ pc = "list" /\ pc' = pc /\ at' = at + 1 /\ postRead = FALSE
        /\ Here.op = "mask"
    BY <1>1, <1>5 DEF SetMask, InList, TypeOK
  <2>2. Issued = at - 1 /\ Issued' = at /\ Issued \in Nat /\ Issued' \in Nat
        /\ at = Issued + 1
    BY <1>1, <1>2, <2>1 DEF Issued, TypeOK
  <2>3. ~Plain(at)
    BY <2>1 DEF Plain, Here
  <2>4. RunsOnceInOrder' /\ Untouched'
    BY <1>1, <1>2, <2>1, <2>2, <2>3, CountsKept
  <2>5. Pipeline'
    BY <1>2, <2>1 DEF Pipeline
  <2> QED BY <1>3, <2>4, <2>5 DEF Kept
<1>6. CASE MatchDP
  <2>1. /\ pc = "list" /\ pc' = "poll" /\ at' = at /\ postRead = FALSE
        /\ call.kind = "transfer" /\ at <= Len(call.reqs)
        /\ Here.op = "match" /\ Here.port # "ap"
    BY <1>1, <1>6 DEF MatchDP, InList, TypeOK
  <2>2. Issued' = Issued
    BY <1>2, <2>1 DEF Issued
  <2>3. RunsOnceInOrder' /\ Untouched'
    BY <1>1, <1>2, <2>1, <2>2 DEF RunsOnceInOrder, Untouched, Plain
  <2>4. Pipeline'
    BY <1>2, <2>1 DEF Pipeline, Here
  <2> QED BY <1>3, <2>3, <2>4 DEF Kept
<1> QED BY <1>4, <1>5, <1>6

LEMMA CallKeeps ==
  ASSUME IInv, Call \/ Return
  PROVE  Kept'
<1>1. TypeOK /\ Pipeline
  BY DEF IInv
<1>2. CASE Call
  <2>1. /\ pc = "idle" /\ pc' = "entry" /\ at' = at /\ postRead' = postRead
        /\ polled' = polled /\ lost' = lost
        /\ ran' = [k \in DOMAIN call'.reqs |-> 0]
    BY <1>2 DEF Call, target
  <2>2. at' = 1 /\ ~postRead' /\ polled' = {} /\ lost' = {}
    BY <1>1, <2>1 DEF Pipeline
  <2>3. call'.reqs \in Seq(Request) /\ DOMAIN call'.reqs = 1..Len(call'.reqs)
    BY <1>2, CallsAssumption DEF Call, IsCall
  <2>4. Issued' = 0
    BY <2>2 DEF Issued
  <2>5. RunsOnceInOrder' /\ Untouched'
    BY <2>1, <2>3, <2>4 DEF RunsOnceInOrder, Untouched, Plain
  <2> QED BY <2>1, <2>2, <2>5 DEF Kept, Pipeline, MatchComparesOwnRead
<1>3. CASE Return
  <2>1. /\ call'.reqs = <<>> /\ pc' = "idle" /\ at' = 1 /\ ~postRead' /\ polled' = {}
        /\ lost' = {}
    BY <1>3 DEF Return, NoCall
  <2> QED BY <2>1
      DEF Kept, Pipeline, RunsOnceInOrder, Untouched, MatchComparesOwnRead, Issued
<1> QED BY <1>2, <1>3

-----------------------------------------------------------------------------
(* The invariant holds of the specification. *)

LEMMA Initially == Init => IInv
<1> SUFFICES ASSUME Init PROVE IInv
  OBVIOUS
<1>1. /\ call = NoCall /\ call.reqs = <<>> /\ DOMAIN call.reqs = {} /\ Len(call.reqs) = 0
      /\ ran = <<>> /\ pc = "idle" /\ at = 1 /\ status = "none" /\ postRead = FALSE
      /\ checkWrite = FALSE /\ values = <<>> /\ polled = {} /\ sticky = FALSE /\ lost = {}
      /\ waits = WaitRetry /\ polls = MatchRetry
  BY DEF Init, NoCall
<1>2. rdbuff \in Word
  BY DEF Init, Stale, DataWord, Word
<1>3. ran \in [DOMAIN call.reqs -> Nat] /\ values \in Seq(Word)
  BY <1>1
<1>4. TypeOK
  <2>1. /\ waits \in 0..WaitRetry /\ polls \in 0..MatchRetry
        /\ at \in 1..(Len(call.reqs) + 1)
    BY <1>1
  <2>2. /\ pc \in {"idle", "entry", "list", "poll", "done"}
        /\ status \in Acks \cup {"none", "MISMATCH"}
        /\ polled \subseteq (DOMAIN call.reqs) \X Word /\ lost \subseteq DOMAIN call.reqs
        /\ postRead \in BOOLEAN /\ checkWrite \in BOOLEAN /\ sticky \in BOOLEAN
    BY <1>1
  <2> QED BY <1>1, <1>2, <1>3, <2>1, <2>2 DEF TypeOK
<1>5. Pipeline /\ Untouched /\ RunsOnceInOrder /\ MatchComparesOwnRead
  BY <1>1 DEF Pipeline, Untouched, RunsOnceInOrder, MatchComparesOwnRead
<1> QED BY <1>4, <1>5 DEF IInv

LEMMA Stepwise == IInv /\ [Next]_vars => IInv'
<1> SUFFICES ASSUME IInv, [Next]_vars PROVE IInv'
  OBVIOUS
<1>1. TypeOK /\ Pipeline
  BY DEF IInv
<1>2. CASE \/ Refuse \/ Enter \/ Reject \/ SetMask \/ MatchDP \/ Finish \/ BlockFinish
           \/ UNCHANGED vars
  BY <1>1, <1>2, TypeQuiet, QuietKeeps DEF IInv, Kept
<1>3. CASE Call \/ Return
  BY <1>1, <1>3, TypeCall, CallKeeps DEF IInv, Kept
<1>4. CASE Collect \/ Post \/ ReadDP \/ Write \/ MatchPost
  BY <1>1, <1>4, TypeServe, ListKeeps DEF IInv, Kept
<1>5. CASE BlockPost \/ BlockReadDP \/ BlockWriteWord
  BY <1>1, <1>5, TypeServe, BlockKeeps DEF IInv, Kept
<1>6. CASE BlockCollect
  BY <1>1, <1>6, TypeCollect, BlockCollectKeeps DEF IInv, Kept
<1>7. CASE Drain
  BY <1>1, <1>7, TypeServe, DrainKeeps DEF IInv, Kept
<1>8. CASE LastTransfer \/ BlockConfirm
  BY <1>1, <1>8, TypeCollect, DrainKeeps DEF IInv, Kept
<1>9. CASE MatchPoll
  BY <1>1, <1>9, TypePoll, PollKeeps DEF IInv, Kept
<1> QED BY <1>2, <1>3, <1>4, <1>5, <1>6, <1>7, <1>8, <1>9 DEF Next, Step

LEMMA Invariance == Spec => []IInv
BY Initially, Stepwise, PTL DEF Spec

\* The variables of Transfer, BlockRead and BlockWrite keep their types: in
\* particular no index runs off the request list and no retry count wraps.
THEOREM TypeCorrect == Spec => []TypeOK
<1>1. IInv => TypeOK
  BY DEF IInv
<1> QED BY <1>1, Invariance, PTL

\* Whatever the wire answers and whatever list is asked for, requests reach the
\* target in list order and each plain one at most once (bitbang.go Transfer).
THEOREM RunsOnce == Spec => []RunsOnceInOrder
<1>1. IInv => RunsOnceInOrder
  BY DEF IInv
<1> QED BY <1>1, Invariance, PTL

\* A match read never compares a value some earlier read posted (matchRead).
THEOREM MatchOwn == Spec => []MatchComparesOwnRead
<1>1. IInv => MatchComparesOwnRead
  BY DEF IInv
<1> QED BY <1>1, Invariance, PTL

-----------------------------------------------------------------------------
(* The engine implements InOrderProbe: each wire transfer is a step of the  *)
(* abstract probe or none.                                                  *)

\* What InOrderProbe calls words and result.
Words == IF pc # "done" /\ postRead THEN Append(values, rdbuff) ELSE values
Outcome == CASE pc = "idle" -> "idle"
             [] pc = "done" -> IF status = "OK" THEN "ok" ELSE "error"
             [] OTHER -> "running"

\* A call starts from nothing; one that has succeeded has nothing outstanding.
Fresh ==
  /\ pc \in {"idle", "entry"} => values = <<>> /\ status = "none" /\ ~checkWrite
  /\ call.kind = "blockread" => ~checkWrite
  /\ pc = "done" /\ status = "OK" => at = Len(call.reqs) + 1 /\ ~checkWrite /\ ~postRead

\* A step of the abstract probe, or none.
Moves == Ordered!Next \/ UNCHANGED Ordered!vars

LEMMA Still ==
  ASSUME UNCHANGED <<call, ran>>, Issued' = Issued, Words' = Words, Outcome' = Outcome
  PROVE  UNCHANGED Ordered!vars
BY DEF Ordered!vars, Words, Outcome

LEMMA SameWords ==
  ASSUME NEW reqs, NEW k
  PROVE  Ordered!WordsOf(reqs, k) = WordsOf(reqs, k)
BY DEF WordsOf, TsWord, DataWord, Ordered!WordsOf, Ordered!TsWord, Ordered!DataWord

LEMMA RunMoves ==
  ASSUME call' = call, Outcome = "running", Outcome' = "running",
         NEW k, k = Issued + 1, Issued < Len(call.reqs), Issued' = k,
         Words' = Words \o WordsOf(call.reqs, k),
         \/ call.reqs[k].op = "mask" /\ ran' = ran
         \/ call.reqs[k].op # "mask" /\ ran' = [ran EXCEPT ![k] = @ + 1]
  PROVE  Ordered!Next
<1>1. Ordered!WordsOf(call.reqs, Issued + 1) = WordsOf(call.reqs, k)
  BY SameWords
<1>2. ran' = CASE call.reqs[Issued + 1].op = "mask" -> ran
               [] OTHER -> [ran EXCEPT ![Issued + 1] = @ + 1]
  OBVIOUS
<1>3. Ordered!Run
  BY <1>1, <1>2 DEF Ordered!Run, Words, Outcome
<1> QED BY <1>3 DEF Ordered!Next

LEMMA PollMoves ==
  ASSUME call' = call, Outcome = "running", Outcome' = "running",
         NEW k, k = Issued + 1, Issued < Len(call.reqs), Issued' = Issued,
         Words' = Words, call.reqs[k].op = "match", ran' = [ran EXCEPT ![k] = @ + 1]
  PROVE  Ordered!Next
<1>1. Ordered!Poll
  BY DEF Ordered!Poll, Words, Outcome
<1> QED BY <1>1 DEF Ordered!Next

LEMMA SucceedMoves ==
  ASSUME UNCHANGED <<call, ran>>, Outcome = "running", Outcome' = "ok",
         Issued = Len(call.reqs), Issued' = Issued, Words' = Words
  PROVE  Ordered!Next
<1>1. Ordered!Succeed
  BY DEF Ordered!Succeed, Words, Outcome
<1> QED BY <1>1 DEF Ordered!Next

LEMMA FailMoves ==
  ASSUME call' = call, Outcome = "running", Outcome' = "error", Issued' = Issued,
         NEW n \in 0..Len(Words), Words' = SubSeq(Words, 1, n),
         NEW k, k = Issued + 1,
         ran' = ran \/ (Issued < Len(call.reqs) /\ ran' = [ran EXCEPT ![k] = @ + 1])
  PROVE  Ordered!Next
<1>1. Ordered!Fail
  <2>1. \E m \in 0..Len(Words) : Words' = SubSeq(Words, 1, m)
    OBVIOUS
  <2> QED BY <2>1 DEF Ordered!Fail, Words, Outcome
<1> QED BY <1>1 DEF Ordered!Next

\* The words before the one that is posted, or all, or none, are a prefix.
LEMMA KeptWords ==
  ASSUME TypeOK
  PROVE  /\ Words \in Seq(Word)
         /\ \E n \in 0..Len(Words) : values = SubSeq(Words, 1, n)
         /\ \E n \in 0..Len(Words) : <<>> = SubSeq(Words, 1, n)
<1>1. values \in Seq(Word) /\ rdbuff \in Word
  BY DEF TypeOK
<1>2. Words = values \/ Words = Append(values, rdbuff)
  BY DEF Words
<1>3. Words \in Seq(Word) /\ Len(Words) \in Nat /\ Len(values) \in Nat
  BY <1>1, <1>2
<1>4. Len(values) <= Len(Words) /\ \A i \in 1..Len(values) : Words[i] = values[i]
  BY <1>1, <1>2
<1>5. values = SubSeq(Words, 1, Len(values))
  <2>1. SubSeq(Words, 1, Len(values)) = [i \in 1..Len(values) |-> Words[i]]
    BY <1>1, <1>3, <1>4
  <2>2. values = [i \in 1..Len(values) |-> values[i]]
    BY <1>1
  <2> QED BY <1>4, <2>1, <2>2
<1>6. <<>> = SubSeq(Words, 1, 0)
  BY <1>3
<1>7. Len(values) \in 0..Len(Words) /\ 0 \in 0..Len(Words)
  BY <1>3, <1>4
<1> HIDE DEF Words
<1> QED BY <1>3, <1>5, <1>6, <1>7

\* A wire transfer that is repeated is no step; one that is not ends the call.
LEMMA FailureMoves ==
  ASSUME IInv, NEW ack \in Acks, call' = call, pc \in {"list", "poll"},
         NEW k, k = Issued + 1, Issued \in Nat,
         NEW a, a = Rdbuff \/ (a = Access(k) /\ k \in DOMAIN call.reqs),
         Wire(a, ack), Retried(ack) \/ Stopped(ack)
  PROVE  Moves
<1> USE CallShape
<1>1. TypeOK
  BY DEF IInv
<1>2. Outcome = "running"
  BY DEF Outcome
<1>3. CASE Retried(ack)
  <2>1. /\ ack = "WAIT" /\ pc' = pc /\ at' = at /\ postRead' = postRead
        /\ values' = values /\ status' = status
    BY <1>3 DEF Retried
  <2>2. ran' = ran /\ rdbuff' = rdbuff
    BY <2>1 DEF Wire, Refuses
  <2> QED BY <2>1, <2>2, Still DEF Issued, Words, Outcome, Moves
<1>4. CASE Stopped(ack)
  <2>1. /\ ack # "OK" /\ pc' = "done" /\ status' = ack /\ at' = at /\ postRead' = postRead
        /\ values' = values
    BY <1>4 DEF Stopped
  <2>2. Outcome' = "error" /\ Words' = values /\ Issued' = Issued
    BY <2>1 DEF Outcome, Words, Issued
  <2>3. PICK n \in 0..Len(Words) : values = SubSeq(Words, 1, n)
    BY <1>1, KeptWords
  <2>4. ran' = ran \/ (Issued < Len(call.reqs) /\ ran' = [ran EXCEPT ![k] = @ + 1])
    <3>1. CASE Refuses(ack)
      BY <3>1 DEF Refuses
    <3>2. CASE Takes(a) /\ a = Rdbuff
      BY <3>2, TakesRdbuff
    <3>3. CASE Takes(a) /\ a = Access(k) /\ k \in DOMAIN call.reqs
      <4>1. k \in Nat \ {0} /\ Issued < Len(call.reqs)
        BY <1>1, <3>3
      <4> QED BY <3>3, <4>1, TakesAccess
    <3> QED BY <3>1, <3>2, <3>3 DEF Wire
  <2> HIDE CallShape
  <2>5. Words' = SubSeq(Words, 1, n)
    BY <2>2, <2>3
  <2>6. Ordered!Next
    BY <1>2, <2>2, <2>4, <2>5, FailMoves
  <2> QED BY <2>6 DEF Moves
<1> QED BY <1>3, <1>4

\* What each kind of request adds to the words.
LEMMA WordsServed ==
  ASSUME TypeOK, NEW k \in DOMAIN call.reqs, NEW s \in Seq(Word)
  PROVE  LET op == call.reqs[k].op
             ws == s \o WordsOf(call.reqs, k)
         IN  /\ op = "read" => ws = Append(s \o Stamp(k), DataWord(k))
             /\ op = "read" /\ ~call.reqs[k].ts => ws = Append(s, DataWord(k))
             /\ op = "write" => ws = s \o Stamp(k)
             /\ op = "write" /\ ~call.reqs[k].ts => ws = s
             /\ op \in {"match", "mask"} => ws = s
<1> USE CallShape
<1>1. k \in Nat /\ <<TsWord(k)>> \in Seq(Word) /\ <<DataWord(k)>> \in Seq(Word) /\ <<>> \in Seq(Word)
  BY DEF TsWord, DataWord, Word
<1>2. Stamp(k) \in Seq(Word) /\ (~call.reqs[k].ts => Stamp(k) = <<>>)
  BY <1>1 DEF Stamp
<1>3. s \o <<>> = s /\ <<>> \o <<DataWord(k)>> = <<DataWord(k)>> /\ <<>> \o <<>> = <<>>
      /\ Stamp(k) \o <<>> = Stamp(k)
  BY <1>1, <1>2
<1>4. CASE call.reqs[k].op = "read"
  <2>1. WordsOf(call.reqs, k) = Stamp(k) \o <<DataWord(k)>>
    BY <1>4 DEF WordsOf, Stamp
  <2> DEFINE st == Stamp(k)
             d == DataWord(k)
  <2>2. st \in Seq(Word) /\ d \in Word
    BY <1>1, <1>2 DEF DataWord, Word
  <2> HIDE DEF st, d
  <2>3. s \o (st \o <<d>>) = Append(s \o st, d) /\ s \o <<d>> = Append(s, d)
    BY <2>2
  <2>4. s \o (Stamp(k) \o <<DataWord(k)>>) = Append(s \o Stamp(k), DataWord(k))
        /\ s \o <<DataWord(k)>> = Append(s, DataWord(k))
    BY <2>3 DEF st, d
  <2> QED BY <1>2, <1>3, <1>4, <2>1, <2>4
<1>5. CASE call.reqs[k].op = "write"
  <2>1. WordsOf(call.reqs, k) = Stamp(k) \o <<>>
    BY <1>5 DEF WordsOf, Stamp
  <2> QED BY <1>2, <1>3, <1>5, <2>1
<1>6. CASE call.reqs[k].op \in {"match", "mask"}
  <2>1. WordsOf(call.reqs, k) = <<>> \o <<>>
    BY <1>6 DEF WordsOf
  <2> QED BY <1>3, <1>6, <2>1
<1> QED BY <1>4, <1>5, <1>6 DEF Request

\* The actions of a transfer list that run the request at hand: what is posted
\* when it is done is counted as read.
LEMMA ListMoves ==
  ASSUME IInv, Collect \/ Post \/ ReadDP \/ Write \/ MatchPost
  PROVE  Moves
<1> USE CallShape
<1>1. TypeOK /\ Pipeline
  BY DEF IInv
<1>2. /\ pc = "list" /\ call.kind = "transfer" /\ at \in DOMAIN call.reqs /\ call' = call
      /\ Issued = at - 1 /\ call.reqs[at].op # "mask"
  <2>1. pc = "list" /\ call.kind = "transfer" /\ at <= Len(call.reqs) /\ call' = call
    BY DEF InList, Transferred, Collect, Post, ReadDP, Write, MatchPost
  <2>2. call.reqs[at].op # "mask"
    BY DEF Here, Collect, Post, ReadDP, Write, MatchPost
  <2> QED BY <1>1, <2>1, <2>2 DEF TypeOK, Issued
<1>3. /\ at \in Nat \ {0} /\ Issued \in Nat /\ at = Issued + 1 /\ Issued < Len(call.reqs)
      /\ values \in Seq(Word) /\ rdbuff \in Word /\ Append(values, rdbuff) \in Seq(Word)
      /\ postRead \in BOOLEAN
  <2>1. values \in Seq(Word) /\ rdbuff \in Word
    BY <1>1 DEF TypeOK
  <2> QED BY <1>1, <1>2, <2>1 DEF TypeOK
<1>4. PICK ack \in Acks :
        /\ Wire(Access(at), ack)
        /\ \/ Retried(ack) \/ Stopped(ack)
           \/ /\ ack = "OK"
              /\ \/ /\ Collect /\ pc' = pc /\ at' = at + 1 /\ postRead' = postRead
                    /\ values' = Append(values, rdbuff) \o Stamp(at)
                 \/ /\ Post /\ pc' = pc /\ at' = at + 1 /\ postRead' = TRUE
                    /\ values' = values \o Stamp(at)
                 \/ /\ ReadDP /\ pc' = pc /\ at' = at + 1 /\ postRead' = postRead
                    /\ values' = Append(values \o Stamp(at), DataWord(at))
                 \/ /\ Write /\ pc' = pc /\ at' = at + 1 /\ postRead' = postRead
                    /\ values' = values \o Stamp(at)
                 \/ /\ MatchPost /\ pc' = "poll" /\ at' = at /\ postRead' = postRead
                    /\ values' = values
  <2>1. CASE Collect
    BY <2>1 DEF Collect, Transferred
  <2>2. CASE Post
    BY <2>2 DEF Post, Transferred
  <2>3. CASE ReadDP
    BY <2>3 DEF ReadDP, Transferred
  <2>4. CASE Write
    BY <2>4 DEF Write, Transferred
  <2>5. CASE MatchPost
    BY <2>5 DEF MatchPost, Transferred
  <2> QED BY <2>1, <2>2, <2>3, <2>4, <2>5
<1>5. CASE Retried(ack) \/ Stopped(ack)
  BY <1>2, <1>3, <1>4, <1>5, FailureMoves
<1>6. CASE ack = "OK" /\ ~Retried(ack) /\ ~Stopped(ack)
  <2>1. Takes(Access(at))
    BY <1>4, <1>6 DEF Wire
  <2>2. /\ ran' = [ran EXCEPT ![at] = @ + 1]
        /\ rdbuff' = IF call.reqs[at].port = "ap" /\ call.reqs[at].op \in {"read", "match"}
                      THEN DataWord(at) ELSE rdbuff
    BY <1>3, <2>1, TakesAccess
  <2>3. Outcome = "running" /\ Outcome' = "running" /\ pc' # "done"
    BY <1>2, <1>4, <1>6 DEF Outcome
  <2>4. Words = IF postRead THEN Append(values, rdbuff) ELSE values
    BY <1>2 DEF Words
  <2>5. Words' = IF postRead' THEN Append(values', rdbuff') ELSE values'
    BY <2>3 DEF Words
  <2>6. CASE MatchPost
    <3>1. postRead = FALSE /\ call.reqs[at].op = "match"
      BY <1>3, <2>6 DEF MatchPost, Here
    <3>2. ~Collect /\ ~Post /\ ~ReadDP /\ ~Write
      BY <3>1 DEF Collect, Post, ReadDP, Write, Here
    <3>3. postRead' = postRead /\ Words' = Words /\ Issued' = Issued
      BY <1>2, <1>4, <1>6, <2>4, <2>5, <3>1, <3>2 DEF Issued
    <3>4. Ordered!Next
      BY <1>2, <1>3, <2>2, <2>3, <3>1, <3>3, PollMoves
    <3> QED BY <3>4 DEF Moves
  <2>7. CASE ~MatchPost
    <3>1. Issued' = at
      BY <1>2, <1>3, <1>4, <1>6, <2>7 DEF Issued
    <3> DEFINE w == WordsOf(call.reqs, at)
    <3>2. Words' = Words \o w
      <4>1. CASE /\ Collect /\ postRead' = postRead
                 /\ values' = Append(values, rdbuff) \o Stamp(at)
        <5>1. postRead = TRUE /\ call.reqs[at].op = "read" /\ call.reqs[at].port = "ap"
          BY <1>3, <4>1 DEF Collect, Here
        <5>2. rdbuff' = DataWord(at)
          BY <2>2, <5>1
        <5>3. Append(values, rdbuff) \o w
                = Append(Append(values, rdbuff) \o Stamp(at), DataWord(at))
          BY <1>1, <1>2, <1>3, <5>1, WordsServed
        <5>4. Words = Append(values, rdbuff) /\ Words' = Append(values', rdbuff')
          BY <2>4, <2>5, <4>1, <5>1
        <5> QED BY <4>1, <5>2, <5>3, <5>4
      <4>2. CASE Post /\ postRead' = TRUE /\ values' = values \o Stamp(at)
        <5>1. postRead = FALSE /\ call.reqs[at].op = "read" /\ call.reqs[at].port = "ap"
          BY <1>3, <4>2 DEF Post, Here
        <5>2. rdbuff' = DataWord(at)
          BY <2>2, <5>1
        <5>3. values \o w = Append(values \o Stamp(at), DataWord(at))
          BY <1>1, <1>2, <1>3, <5>1, WordsServed
        <5>4. Words = values /\ Words' = Append(values', rdbuff')
          BY <2>4, <2>5, <4>2, <5>1
        <5> QED BY <4>2, <5>2, <5>3, <5>4
      <4>3. CASE /\ ReadDP /\ postRead' = postRead
                 /\ values' = Append(values \o Stamp(at), DataWord(at))
        <5>1. postRead = FALSE /\ call.reqs[at].op = "read"
          BY <1>3, <4>3 DEF ReadDP, Here
        <5>2. values \o w = Append(values \o Stamp(at), DataWord(at))
          BY <1>1, <1>2, <1>3, <5>1, WordsServed
        <5>3. Words = values /\ Words' = values'
          BY <2>4, <2>5, <4>3, <5>1
        <5> QED BY <4>3, <5>2, <5>3
      <4>4. CASE Write /\ postRead' = postRead /\ values' = values \o Stamp(at)
        <5>1. postRead = FALSE /\ call.reqs[at].op = "write"
          BY <1>3, <4>4 DEF Write, Here
        <5>2. values \o w = values \o Stamp(at)
          BY <1>1, <1>2, <1>3, <5>1, WordsServed
        <5>3. Words = values /\ Words' = values'
          BY <2>4, <2>5, <4>4, <5>1
        <5> QED BY <4>4, <5>2, <5>3
      <4> QED BY <1>4, <1>6, <2>7, <4>1, <4>2, <4>3, <4>4
    <3>3. Ordered!Next
      BY <1>2, <1>3, <2>2, <2>3, <3>1, <3>2, RunMoves
    <3> QED BY <3>3 DEF Moves
  <2> QED BY <2>6, <2>7
<1> QED BY <1>4, <1>5, <1>6

\* In a block every request is the same plain one.
LEMMA BlockShape ==
  ASSUME TypeOK, NEW k \in DOMAIN call.reqs, call.kind \in {"blockread", "blockwrite"}
  PROVE  /\ call.kind = "blockread" => call.reqs[k].op = "read"
         /\ call.kind = "blockwrite" => call.reqs[k].op = "write"
         /\ ~call.reqs[k].ts
         /\ \A j \in DOMAIN call.reqs : call.reqs[j] = call.reqs[k]
<1>1. call \in Calls
  BY DEF TypeOK, NoCall
<1> QED BY <1>1, CallsAssumption DEF IsCall

LEMMA BlockMoves ==
  ASSUME IInv, BlockPost \/ BlockReadDP \/ BlockWriteWord
  PROVE  Moves
<1> USE CallShape
<1>1. TypeOK /\ Pipeline
  BY DEF IInv
<1>2. /\ pc = "list" /\ call.kind \in {"blockread", "blockwrite"}
      /\ at \in DOMAIN call.reqs /\ call' = call
  <2>1. /\ pc = "list" /\ call.kind \in {"blockread", "blockwrite"}
        /\ at <= Len(call.reqs) /\ call' = call
    BY DEF InBlock, Transferred, BlockPost, BlockReadDP, BlockWriteWord
  <2> QED BY <1>1, <2>1 DEF TypeOK
<1>3. /\ call.kind = "blockread" => call.reqs[at].op = "read"
      /\ call.kind = "blockwrite" => call.reqs[at].op = "write"
      /\ ~call.reqs[at].ts
  BY <1>1, <1>2, BlockShape
<1>4. values \in Seq(Word) /\ postRead \in BOOLEAN
  BY <1>1 DEF TypeOK
<1>5. postRead = FALSE
  <2>1. CASE BlockPost
    BY <1>4, <2>1 DEF BlockPost
  <2>2. CASE BlockReadDP
    <3>1. call.kind = "blockread" /\ call.reqs[at].port # "ap"
      BY <2>2 DEF BlockReadDP, InBlock, Here
    <3>2. postRead => Issued = at
      BY <3>1 DEF Issued
    <3> QED BY <1>1, <1>2, <1>4, <3>1, <3>2 DEF Pipeline
  <2>3. CASE BlockWriteWord
    BY <1>1, <1>4, <2>3 DEF BlockWriteWord, InBlock, Pipeline
  <2> QED BY <2>1, <2>2, <2>3
<1>6. /\ Issued = at - 1 /\ at \in Nat \ {0} /\ Issued \in Nat /\ at = Issued + 1
      /\ Issued < Len(call.reqs)
  BY <1>1, <1>2, <1>5 DEF Issued, TypeOK
<1>7. PICK ack \in Acks :
        /\ Wire(Access(at), ack)
        /\ \/ Retried(ack) \/ Stopped(ack)
           \/ /\ ack = "OK" /\ pc' = pc
              /\ \/ /\ BlockPost /\ at' = at /\ postRead' = TRUE /\ values' = values
                 \/ /\ BlockReadDP /\ at' = at + 1 /\ postRead' = postRead
                    /\ values' = Append(values, DataWord(at))
                 \/ /\ BlockWriteWord /\ at' = at + 1 /\ postRead' = postRead
                    /\ values' = values
  <2>1. CASE BlockPost
    BY <2>1 DEF BlockPost, Transferred
  <2>2. CASE BlockReadDP
    BY <2>2 DEF BlockReadDP, Transferred
  <2>3. CASE BlockWriteWord
    BY <2>3 DEF BlockWriteWord, Transferred
  <2> QED BY <2>1, <2>2, <2>3
<1>8. CASE Retried(ack) \/ Stopped(ack)
  BY <1>2, <1>6, <1>7, <1>8, FailureMoves
<1>9. CASE ack = "OK" /\ ~Retried(ack) /\ ~Stopped(ack)
  <2>1. Takes(Access(at))
    BY <1>7, <1>9 DEF Wire
  <2>2. /\ ran' = [ran EXCEPT ![at] = @ + 1]
        /\ rdbuff' = IF call.reqs[at].port = "ap" /\ call.reqs[at].op \in {"read", "match"}
                      THEN DataWord(at) ELSE rdbuff
    BY <1>6, <2>1, TakesAccess
  <2>3. Outcome = "running" /\ Outcome' = "running" /\ pc' # "done"
    BY <1>2, <1>7, <1>9 DEF Outcome
  <2>4. Words = values
    BY <1>5 DEF Words
  <2>5. Words' = IF postRead' THEN Append(values', rdbuff') ELSE values'
    BY <2>3 DEF Words
  <2> DEFINE w == WordsOf(call.reqs, at)
  <2>6. /\ call.reqs[at].op = "read" => values \o w = Append(values, DataWord(at))
        /\ call.reqs[at].op = "write" => values \o w = values
    BY <1>1, <1>2, <1>3, <1>4, WordsServed
  <2>7. Issued' = at /\ Words' = Words \o w /\ call.reqs[at].op # "mask"
    <3>1. CASE BlockPost /\ at' = at /\ postRead' = TRUE /\ values' = values
      <4>1. call.kind = "blockread" /\ call.reqs[at].port = "ap"
        BY <3>1 DEF BlockPost, InBlock, Here
      <4>2. rdbuff' = DataWord(at) /\ call.reqs[at].op = "read"
        BY <1>3, <2>2, <4>1
      <4>3. Issued' = at
        BY <1>2, <3>1, <4>1 DEF Issued
      <4> QED BY <2>4, <2>5, <2>6, <3>1, <4>2, <4>3
    <3>2. CASE /\ BlockReadDP /\ at' = at + 1 /\ postRead' = postRead
               /\ values' = Append(values, DataWord(at))
      <4>1. call.reqs[at].op = "read"
        BY <1>3, <3>2 DEF BlockReadDP, InBlock
      <4>2. Issued' = at
        BY <1>5, <1>6, <3>2 DEF Issued
      <4> QED BY <1>5, <2>4, <2>5, <2>6, <3>2, <4>1, <4>2
    <3>3. CASE BlockWriteWord /\ at' = at + 1 /\ postRead' = postRead /\ values' = values
      <4>1. call.reqs[at].op = "write"
        BY <1>3, <3>3 DEF BlockWriteWord, InBlock
      <4>2. Issued' = at
        BY <1>5, <1>6, <3>3 DEF Issued
      <4> QED BY <1>5, <2>4, <2>5, <2>6, <3>3, <4>1, <4>2
    <3> QED BY <1>7, <1>9, <3>1, <3>2, <3>3
  <2>8. Ordered!Next
    BY <1>2, <1>6, <2>2, <2>3, <2>7, RunMoves
  <2> QED BY <2>8 DEF Moves
<1> QED BY <1>7, <1>8, <1>9

\* A block read counts the next word as it collects the one before; the last it
\* had counted already.
LEMMA BlockCollectMoves ==
  ASSUME IInv, BlockCollect
  PROVE  Moves
<1> USE CallShape
<1>1. TypeOK /\ Pipeline
  BY DEF IInv
<1>2. /\ pc = "list" /\ call.kind = "blockread" /\ at \in 1..Len(call.reqs) /\ call' = call
      /\ postRead = TRUE /\ Issued = at /\ call.reqs[at].port = "ap"
  <2>1. /\ pc = "list" /\ call.kind = "blockread" /\ at <= Len(call.reqs) /\ call' = call
        /\ postRead /\ call.reqs[at].port = "ap"
    BY DEF BlockCollect, InBlock, Transferred, Here
  <2> QED BY <1>1, <2>1 DEF TypeOK, Issued
<1>3. PICK ack \in Acks :
        /\ Wire(IF at = Len(call.reqs) THEN Rdbuff ELSE Access(at + 1), ack)
        /\ \/ Retried(ack) \/ Stopped(ack)
           \/ /\ ack = "OK" /\ pc' = pc /\ at' = at + 1
              /\ values' = Append(values, rdbuff)
              /\ postRead' = (at < Len(call.reqs))
  BY DEF BlockCollect, Transferred
<1>4. values \in Seq(Word) /\ rdbuff \in Word /\ Append(values, rdbuff) \in Seq(Word)
  <2>1. values \in Seq(Word) /\ rdbuff \in Word
    BY <1>1 DEF TypeOK
  <2> QED BY <2>1
<1>5. Words = Append(values, rdbuff) /\ Outcome = "running"
  BY <1>2 DEF Words, Outcome
<1> DEFINE k == at + 1
<1>6. k = Issued + 1 /\ Issued \in Nat /\ k \in Nat \ {0}
  BY <1>2
<1>7. at # Len(call.reqs) => k \in DOMAIN call.reqs /\ Issued < Len(call.reqs)
  BY <1>2
<1>8. CASE Retried(ack) \/ Stopped(ack)
  <2>1. CASE at = Len(call.reqs)
    BY <1>2, <1>3, <1>6, <1>8, <2>1, FailureMoves
  <2>2. CASE at # Len(call.reqs)
    BY <1>2, <1>3, <1>6, <1>7, <1>8, <2>2, FailureMoves
  <2> QED BY <2>1, <2>2
<1>9. CASE ack = "OK" /\ ~Retried(ack) /\ ~Stopped(ack)
  <2>1. /\ pc' = "list" /\ at' = at + 1 /\ values' = Append(values, rdbuff)
        /\ postRead' = (at < Len(call.reqs)) /\ Outcome' = "running"
    BY <1>2, <1>3, <1>9 DEF Outcome
  <2>2. CASE at = Len(call.reqs)
    <3>1. (at < Len(call.reqs)) = FALSE /\ Takes(Rdbuff)
      BY <1>2, <1>3, <1>9, <2>2 DEF Wire
    <3>2. postRead' = FALSE
      BY <2>1, <3>1, Zenon
    <3>3. Words' = Words /\ Issued' = Issued
      BY <1>2, <1>5, <2>1, <3>2 DEF Words, Issued
    <3>4. ran' = ran
      BY <3>1, TakesRdbuff
    <3> QED BY <1>2, <1>5, <2>1, <3>3, <3>4, Still DEF Moves
  <2>3. CASE at # Len(call.reqs)
    <3>1. (at < Len(call.reqs)) = TRUE
      BY <1>2, <2>3
    <3>2. postRead' = TRUE
      BY <2>1, <3>1, Zenon
    <3>3. call.reqs[k].op = "read" /\ ~call.reqs[k].ts /\ call.reqs[k].port = "ap"
      BY <1>1, <1>2, <1>7, <2>3, BlockShape
    <3>4. Takes(Access(k))
      BY <1>3, <1>9, <2>3 DEF Wire
    <3>5. ran' = [ran EXCEPT ![k] = @ + 1] /\ rdbuff' = DataWord(k)
      BY <1>6, <3>3, <3>4, TakesAccess
    <3>6. Issued' = k
      BY <1>2, <2>1, <3>2 DEF Issued
    <3>7. Words' = Append(Append(values, rdbuff), DataWord(k))
      BY <2>1, <3>2, <3>5 DEF Words
    <3>8. Append(values, rdbuff) \o WordsOf(call.reqs, k)
            = Append(Append(values, rdbuff), DataWord(k))
      BY <1>1, <1>4, <1>7, <2>3, <3>3, WordsServed
    <3>9. Words' = Words \o WordsOf(call.reqs, k)
      BY <1>5, <3>7, <3>8
    <3> HIDE DEF k
    <3>10. Ordered!Next
      BY <1>2, <1>5, <1>6, <1>7, <2>1, <2>3, <3>3, <3>5, <3>6, <3>9, RunMoves
    <3> QED BY <3>10 DEF Moves
  <2> QED BY <2>2, <2>3
<1> QED BY <1>3, <1>8, <1>9

\* What a read of RDBUFF collects was counted when it was posted.
LEMMA DrainMoves ==
  ASSUME IInv, Drain \/ LastTransfer \/ BlockConfirm
  PROVE  Moves
<1> USE CallShape
<1>1. TypeOK /\ Pipeline
  BY DEF IInv
<1>2. /\ pc = "list" /\ call' = call /\ Issued = at - 1 /\ postRead \in BOOLEAN
      /\ call.kind \in {"transfer", "blockwrite"}
      /\ call.kind = "blockwrite" => postRead = FALSE
  BY <1>1 DEF Drain, LastTransfer, BlockConfirm, InList, AtEnd, Transferred, Issued, TypeOK,
              Pipeline
<1>3. PICK ack \in Acks :
        /\ Wire(Rdbuff, ack)
        /\ \/ Retried(ack) \/ Stopped(ack)
           \/ /\ ack = "OK" /\ pc' = pc /\ at' = at /\ postRead' = FALSE
              /\ values' = IF postRead THEN Append(values, rdbuff) ELSE values
  <2>1. CASE Drain
    BY <2>1 DEF Drain, Transferred
  <2>2. CASE LastTransfer
    BY <2>2 DEF LastTransfer, Transferred
  <2>3. CASE BlockConfirm
    BY <1>2, <2>3 DEF BlockConfirm, AtEnd, Transferred
  <2> QED BY <2>1, <2>2, <2>3
<1>4. Issued \in Nat
  BY <1>1, <1>2 DEF TypeOK
<1>5. CASE Retried(ack) \/ Stopped(ack)
  BY <1>2, <1>3, <1>4, <1>5, FailureMoves
<1>6. CASE ack = "OK" /\ ~Retried(ack) /\ ~Stopped(ack)
  <2>1. Takes(Rdbuff)
    BY <1>3, <1>6 DEF Wire
  <2>2. Words' = Words /\ Issued' = Issued /\ Outcome' = Outcome
    BY <1>2, <1>3, <1>6 DEF Words, Issued, Outcome
  <2> QED BY <1>2, <2>1, <2>2, TakesRdbuff, Still DEF Moves
<1> QED BY <1>3, <1>5, <1>6

\* A match read is one request: it is run when it matches and fails when it is out
\* of retries.
LEMMA MatchMoves ==
  ASSUME IInv, MatchPoll
  PROVE  Moves
<1> USE CallShape
<1>1. TypeOK /\ Pipeline
  BY DEF IInv
<1>2. /\ pc = "poll" /\ call' = call /\ call.kind = "transfer"
      /\ at \in DOMAIN call.reqs /\ at \in Nat \ {0}
      /\ call.reqs[at].op = "match" /\ Issued = at - 1 /\ postRead = FALSE
  <2>1. pc = "poll" /\ call' = call
    BY DEF MatchPoll, Transferred
  <2>2. call.kind = "transfer" /\ at <= Len(call.reqs) /\ Here.op = "match" /\ ~postRead
    BY <1>1, <2>1 DEF Pipeline
  <2>3. at \in Nat /\ at # 0 /\ postRead \in BOOLEAN
    BY <1>1 DEF TypeOK
  <2> QED BY <2>1, <2>2, <2>3 DEF Here, Issued
<1>3. Issued \in Nat /\ at = Issued + 1 /\ Issued < Len(call.reqs) /\ values \in Seq(Word)
  BY <1>1, <1>2 DEF TypeOK
<1>4. PICK ack \in Acks :
        /\ Wire(Access(at), ack)
        /\ \/ Retried(ack) \/ Stopped(ack)
           \/ /\ ack = "OK" /\ postRead' = postRead /\ values' = values
              /\ \/ pc' = "list" /\ at' = at + 1
                 \/ pc' = pc /\ at' = at
                 \/ pc' = "done" /\ status' = "MISMATCH" /\ at' = at
  BY DEF MatchPoll, Transferred
<1>5. CASE Retried(ack) \/ Stopped(ack)
  BY <1>2, <1>3, <1>4, <1>5, FailureMoves
<1>6. CASE ack = "OK" /\ ~Retried(ack) /\ ~Stopped(ack)
  <2>1. Takes(Access(at))
    BY <1>4, <1>6 DEF Wire
  <2>2. ran' = [ran EXCEPT ![at] = @ + 1]
    BY <1>2, <2>1, TakesAccess
  <2>3. Words = values /\ Words' = values /\ Outcome = "running"
    BY <1>2, <1>4, <1>6 DEF Words, Outcome
  <2>4. CASE pc' = "list" /\ at' = at + 1
    <3>1. Outcome' = "running" /\ Issued' = at
      BY <1>2, <1>4, <1>6, <2>4 DEF Outcome, Issued
    <3>2. values \o WordsOf(call.reqs, at) = values
      BY <1>1, <1>2, <1>3, WordsServed
    <3>3. Words' = Words \o WordsOf(call.reqs, at) /\ call.reqs[at].op # "mask"
      BY <1>2, <2>3, <3>2
    <3>4. Ordered!Next
      BY <1>2, <1>3, <2>2, <2>3, <3>1, <3>3, RunMoves
    <3> QED BY <3>4 DEF Moves
  <2>5. CASE pc' = pc /\ at' = at
    <3>1. Outcome' = "running" /\ Issued' = Issued /\ Words' = Words
      BY <1>2, <1>4, <1>6, <2>3, <2>5 DEF Outcome, Issued
    <3>2. Ordered!Next
      BY <1>2, <1>3, <2>2, <2>3, <3>1, PollMoves
    <3> QED BY <3>2 DEF Moves
  <2>6. CASE pc' = "done" /\ status' = "MISMATCH" /\ at' = at
    <3>1. Outcome' = "error" /\ Issued' = Issued
      BY <1>2, <1>4, <1>6, <2>6 DEF Outcome, Issued
    <3>2. PICK n \in 0..Len(Words) : values = SubSeq(Words, 1, n)
      BY <1>1, KeptWords
    <3>3. Words' = SubSeq(Words, 1, n)
      BY <2>3, <3>2
    <3>4. Ordered!Next
      BY <1>2, <1>3, <2>2, <2>3, <3>1, <3>3, FailMoves
    <3> QED BY <3>4 DEF Moves
  <2> QED BY <1>4, <1>6, <2>4, <2>5, <2>6
<1> QED BY <1>4, <1>5, <1>6

\* The steps that use no wire.  A call fails that is refused, that names a register
\* that does not exist, or whose list is empty.
LEMMA QuietMoves ==
  ASSUME IInv, Fresh,
         \/ Refuse \/ Enter \/ Reject \/ SetMask \/ MatchDP \/ Finish \/ BlockFinish
         \/ UNCHANGED vars
  PROVE  Moves
<1> USE CallShape
<1>1. TypeOK /\ Pipeline
  BY DEF IInv
<1>2. /\ call' = call /\ ran' = ran /\ postRead' = postRead /\ rdbuff' = rdbuff
      /\ values \in Seq(Word)
  <2>1. values \in Seq(Word)
    BY <1>1 DEF TypeOK
  <2> QED BY <2>1 DEF Refuse, Enter, Reject, SetMask, MatchDP, Finish, BlockFinish, target, vars
<1>3. CASE UNCHANGED vars
  BY <1>3, Still DEF vars, Words, Issued, Outcome, Moves
<1>4. CASE Enter \/ MatchDP
  <2>1. /\ pc \in {"entry", "list"} /\ pc' \in {"list", "poll"}
        /\ at' = at /\ values' = values
    BY <1>4 DEF Enter, MatchDP, InList
  <2> QED BY <1>2, <2>1, Still DEF Words, Issued, Outcome, Moves
<1>5. CASE SetMask
  <2>1. /\ pc = "list" /\ pc' = pc /\ at' = at + 1 /\ values' = values /\ postRead = FALSE
        /\ call.reqs[at].op = "mask" /\ at <= Len(call.reqs) /\ at \in Nat \ {0}
        /\ at \in DOMAIN call.reqs
    BY <1>1, <1>5 DEF SetMask, InList, Here, TypeOK
  <2>2. /\ Outcome = "running" /\ Outcome' = "running" /\ Words = values /\ Words' = values
        /\ Issued = at - 1 /\ Issued' = at /\ at = Issued + 1 /\ Issued < Len(call.reqs)
    BY <1>2, <2>1 DEF Outcome, Words, Issued
  <2>3. values \o WordsOf(call.reqs, at) = values
    BY <1>1, <1>2, <2>1, WordsServed
  <2>4. Words' = Words \o WordsOf(call.reqs, at)
    BY <2>2, <2>3
  <2>5. Ordered!Next
    BY <1>2, <2>1, <2>2, <2>4, RunMoves
  <2> QED BY <2>5 DEF Moves
<1>6. CASE Refuse \/ Reject \/ Finish \/ BlockFinish
  <2>1. /\ pc \in {"entry", "list"} /\ pc' = "done" /\ at' = at
        /\ values' = values \/ (values' = <<>> /\ status' = "none")
    BY <1>6 DEF Refuse, Reject, Finish, BlockFinish, InList, AtEnd
  <2>2. Outcome = "running" /\ Issued' = Issued /\ Words' = values'
    BY <1>2, <2>1 DEF Outcome, Issued, Words
  <2>3. PICK n \in 0..Len(Words) : values' = SubSeq(Words, 1, n)
    BY <1>1, <2>1, KeptWords
  <2>4. CASE status' = "OK"
    <3>1. Finish \/ BlockFinish
      BY <1>6, <2>4 DEF Refuse, Reject, Fresh
    <3>2. /\ at = Len(call.reqs) + 1 /\ postRead = FALSE /\ values' = values
          /\ Issued = Len(call.reqs)
      <4>1. at > Len(call.reqs) /\ at \in 1..(Len(call.reqs) + 1) /\ postRead \in BOOLEAN
        BY <1>1, <3>1 DEF Finish, BlockFinish, AtEnd, TypeOK
      <4>2. at = Len(call.reqs) + 1
        BY <4>1
      <4>3. ~postRead
        <5>1. CASE Finish
          BY <5>1 DEF Finish
        <5>2. CASE BlockFinish /\ call.kind = "blockread"
          BY <1>1, <4>2, <5>2 DEF Pipeline, Issued
        <5>3. CASE BlockFinish /\ call.kind = "blockwrite"
          BY <1>1, <5>3 DEF Pipeline
        <5> QED BY <3>1, <5>1, <5>2, <5>3 DEF BlockFinish, AtEnd
      <4>4. values' = values
        BY <3>1 DEF Finish, BlockFinish
      <4> QED BY <4>1, <4>2, <4>3, <4>4 DEF Issued
    <3>3. Outcome' = "ok" /\ Words' = Words
      BY <2>1, <2>2, <2>4, <3>2 DEF Outcome, Words
    <3>4. Ordered!Next
      BY <1>2, <2>2, <3>2, <3>3, SucceedMoves
    <3> QED BY <3>4 DEF Moves
  <2>5. CASE status' # "OK"
    <3>1. Outcome' = "error"
      BY <2>1, <2>5 DEF Outcome
    <3>2. Words' = SubSeq(Words, 1, n)
      BY <2>2, <2>3
    <3> HIDE CallShape
    <3>3. Ordered!Next
      BY <1>2, <2>2, <3>1, <3>2, FailMoves
    <3> QED BY <3>3 DEF Moves
  <2> QED BY <2>4, <2>5
<1> QED BY <1>3, <1>4, <1>5, <1>6

LEMMA CallMoves ==
  ASSUME IInv, Fresh, Call \/ Return
  PROVE  Moves
<1>1. Pipeline
  BY DEF IInv
<1>2. CASE Call
  <2>1. /\ pc = "idle" /\ pc' = "entry" /\ at = 1 /\ at' = 1 /\ postRead' = postRead
        /\ ~postRead /\ values = <<>> /\ values' = <<>> /\ call' \in Calls
        /\ ran' = [k \in DOMAIN call'.reqs |-> 0]
    BY <1>1, <1>2 DEF Call, target, Pipeline, Fresh
  <2>2. Outcome = "idle" /\ Outcome' = "running" /\ Words' = <<>> /\ Issued' = 0
    BY <2>1 DEF Outcome, Words, Issued
  <2>3. Ordered!Begin
    BY <2>1, <2>2 DEF Ordered!Begin, Outcome, Words
  <2> QED BY <2>3 DEF Moves, Ordered!Next
<1>3. CASE Return
  <2>1. /\ pc = "done" /\ pc' = "idle" /\ at' = 1 /\ postRead' = FALSE /\ values' = <<>>
        /\ call' = NoCall /\ ran' = <<>>
    BY <1>3 DEF Return
  <2>2. /\ Outcome \in {"ok", "error"} /\ Outcome' = "idle" /\ Words' = <<>> /\ Issued' = 0
        /\ call' = Ordered!NoCall
    BY <2>1 DEF Outcome, Words, Issued, NoCall, Ordered!NoCall
  <2>3. Ordered!Return
    BY <2>1, <2>2 DEF Ordered!Return, Outcome, Words
  <2> QED BY <2>3 DEF Moves, Ordered!Next
<1> QED BY <1>2, <1>3

LEMMA FreshKept ==
  ASSUME IInv, Fresh, [Next]_vars
  PROVE  Fresh'
<1>1. TypeOK /\ Pipeline
  BY DEF IInv
<1>2. CASE Call \/ Return \/ UNCHANGED vars
  <2>1. CASE Call
    BY <2>1 DEF Call, target, Fresh
  <2>2. CASE Return
    BY <2>2 DEF Return, Fresh, NoCall
  <2>3. CASE UNCHANGED vars
    BY <2>3 DEF vars, Fresh
  <2> QED BY <1>2, <2>1, <2>2, <2>3
<1>3. CASE \/ Collect \/ Drain \/ Post \/ ReadDP \/ Write \/ MatchPost \/ LastTransfer
           \/ BlockPost \/ BlockCollect \/ BlockReadDP \/ BlockWriteWord \/ BlockConfirm
  <2>1. /\ pc = "list" /\ call' = call
        /\ pc' \in {"list", "poll"} \/ (pc' = "done" /\ status' # "OK")
        /\ checkWrite' = checkWrite \/ ~checkWrite' \/ call.kind # "blockread"
    BY <1>3 DEF Collect, Drain, Post, ReadDP, Write, MatchPost, LastTransfer, BlockPost,
         BlockCollect, BlockReadDP, BlockWriteWord, BlockConfirm, InList, InBlock, AtEnd,
         Transferred, Retried, Stopped
  <2> QED BY <2>1 DEF Fresh
<1>4. CASE MatchPoll
  <2>1. /\ pc = "poll" /\ call' = call /\ call.kind = "transfer"
        /\ pc' \in {"list", "poll"} \/ (pc' = "done" /\ status' # "OK")
    BY <1>1, <1>4 DEF MatchPoll, Transferred, Retried, Stopped, Pipeline
  <2> QED BY <2>1 DEF Fresh
<1>5. CASE Refuse \/ Enter \/ Reject \/ SetMask \/ MatchDP
  <2>1. /\ call' = call /\ checkWrite' = checkWrite
        /\ pc' \in {"list", "poll"} \/ (pc' = "done" /\ status' # "OK")
    BY <1>5 DEF Refuse, Enter, Reject, SetMask, MatchDP, InList, Fresh
  <2> QED BY <2>1 DEF Fresh
<1>6. CASE Finish \/ BlockFinish
  <2>1. /\ call' = call /\ checkWrite' = checkWrite /\ postRead' = postRead /\ at' = at
        /\ pc = "list" /\ pc' = "done" /\ at > Len(call.reqs)
    BY <1>6 DEF Finish, BlockFinish, AtEnd
  <2>2. ~checkWrite
    BY <1>6 DEF Finish, BlockFinish, AtEnd, Fresh
  <2>3. at = Len(call.reqs) + 1
    BY <1>1, <2>1, CallShape DEF TypeOK
  <2>4. ~postRead
    <3>1. CASE Finish
      BY <3>1 DEF Finish
    <3>2. CASE BlockFinish /\ call.kind = "blockread"
      BY <1>1, <2>3, <3>2, CallShape DEF Pipeline, Issued
    <3>3. CASE BlockFinish /\ call.kind = "blockwrite"
      BY <1>1, <3>3 DEF Pipeline
    <3> QED BY <1>6, <3>1, <3>2, <3>3 DEF BlockFinish, AtEnd
  <2> QED BY <2>1, <2>2, <2>3, <2>4 DEF Fresh
<1> QED BY <1>2, <1>3, <1>4, <1>5, <1>6 DEF Next, Step

LEMMA StepMoves ==
  ASSUME IInv, Fresh, [Next]_vars
  PROVE  Moves
BY ListMoves, BlockMoves, BlockCollectMoves, DrainMoves, MatchMoves, QuietMoves, CallMoves
   DEF Next, Step

LEMMA FreshInvariance == Spec => [](IInv /\ Fresh)
<1>1. Init => Fresh
  BY DEF Init, Fresh, NoCall
<1>2. IInv /\ Fresh /\ [Next]_vars => (IInv /\ Fresh)'
  BY Stepwise, FreshKept
<1> QED BY <1>1, <1>2, Initially, PTL DEF Spec

\* The engine, with its posted reads, its retries and whatever the wire answers,
\* implements the probe that runs a list in order (bitbang.go, against probe.go).
THEOREM Refines == Spec => OrderedSpec
<1>1. Init => Ordered!Init
  <2> SUFFICES ASSUME Init PROVE Ordered!Init
    OBVIOUS
  <2>1. Issued = 0 /\ Words = <<>> /\ Outcome = "idle"
    BY DEF Init, Issued, Words, Outcome
  <2>2. call = Ordered!NoCall /\ ran = <<>>
    BY DEF Init, NoCall, Ordered!NoCall
  <2> QED BY <2>1, <2>2 DEF Ordered!Init, Words, Outcome
<1>2. IInv /\ Fresh /\ [Next]_vars => [Ordered!Next]_(Ordered!vars)
  BY StepMoves DEF Moves
<1> QED BY <1>1, <1>2, FreshInvariance, PTL DEF Spec, OrderedSpec, Ordered!Spec

-----------------------------------------------------------------------------
(* The words of a call.  InOrderProbe's steps keep them those of the requests  *)
(* that have run, and the engine takes no other.                               *)

\* What a call has collected, with what is posted, is what its requests bring.
Collected == Outcome \in {"running", "ok"} => Words = ExpectedWords(Issued)

LEMMA NothingExpected == ExpectedWords(0) = <<>>
<1>1. [k \in 1..0 |-> WordsOf(call.reqs, k)] = <<>>
  OBVIOUS
<1> QED BY <1>1, FlattenEmpty DEF ExpectedWords

LEMMA OneMoreExpected ==
  ASSUME TypeOK, NEW n \in Nat, n < Len(call.reqs)
  PROVE  ExpectedWords(n + 1) = ExpectedWords(n) \o WordsOf(call.reqs, n + 1)
<1> DEFINE s == [k \in 1..(n + 1) |-> WordsOf(call.reqs, k)]
           t == [k \in 1..n |-> WordsOf(call.reqs, k)]
<1>1. \A k \in 1..(n + 1) : WordsOf(call.reqs, k) \in Seq(Word)
  <2> SUFFICES ASSUME NEW k \in 1..(n + 1) PROVE WordsOf(call.reqs, k) \in Seq(Word)
    OBVIOUS
  <2>1. <<TsWord(k)>> \in Seq(Word) /\ <<DataWord(k)>> \in Seq(Word) /\ <<>> \in Seq(Word)
    BY DEF TsWord, DataWord, Word
  <2> QED BY <2>1 DEF WordsOf
<1>2. s \in [1..(n + 1) -> Seq(Word)]
  BY <1>1
<1>3. t = [k \in 1..n |-> s[k]]
  OBVIOUS
<1>4. s[n + 1] = WordsOf(call.reqs, n + 1)
  OBVIOUS
<1>5. FlattenSeq(s) = FlattenSeq(t) \o s[n + 1]
  <2> HIDE DEF s, t
  <2> QED BY <1>2, <1>3, FlattenStep
<1> QED BY <1>4, <1>5 DEF ExpectedWords

LEMMA CollectedKept ==
  ASSUME TypeOK, Collected, Moves, Issued \in Nat
  PROVE  Collected'
<1>1. CASE Ordered!Begin
  <2>1. Issued' = 0 /\ Words' = <<>>
    BY <1>1 DEF Ordered!Begin, Words
  <2> QED BY <2>1, NothingExpected DEF Collected, ExpectedWords
<1>2. CASE Ordered!Run
  <2>1. /\ Outcome = "running" /\ Issued < Len(call.reqs) /\ Issued' = Issued + 1
        /\ call' = call /\ Words' = Words \o WordsOf(call.reqs, Issued + 1)
    BY <1>2, SameWords DEF Ordered!Run, Words, Outcome
  <2>2. Words' = ExpectedWords(Issued + 1)
    BY <2>1, OneMoreExpected DEF Collected
  <2> QED BY <2>1, <2>2 DEF Collected, ExpectedWords
<1>3. CASE Ordered!Poll \/ Ordered!Succeed \/ UNCHANGED Ordered!vars
  <2>1. /\ Words' = Words /\ Issued' = Issued /\ call' = call
        /\ Outcome \in {"running", "ok"} \/ Outcome' = Outcome
    BY <1>3 DEF Ordered!Poll, Ordered!Succeed, Ordered!vars, Words, Outcome
  <2> QED BY <2>1 DEF Collected, ExpectedWords
<1>4. CASE Ordered!Fail \/ Ordered!Return
  <2>1. Outcome' \in {"error", "idle"}
    BY <1>4 DEF Ordered!Fail, Ordered!Return, Outcome
  <2> QED BY <2>1 DEF Collected
<1> QED BY <1>1, <1>2, <1>3, <1>4 DEF Moves, Ordered!Next

\* A call that returns OK returns one word per read, each that request's own, in
\* request order, time stamps immediately before, if no match read asks for one
\* (probe.go Transfer).
THEOREM ReturnsItsWords == Spec => []WordsInOrder
<1>1. Init => Collected
  <2> SUFFICES ASSUME Init PROVE Collected
    OBVIOUS
  <2>1. Outcome = "idle"
    BY DEF Init, Outcome
  <2> QED BY <2>1 DEF Collected
<1>2. IInv => Issued \in Nat
  BY DEF IInv, TypeOK, Issued
<1>3. IInv /\ Fresh /\ Collected /\ [Next]_vars => Collected'
  BY <1>2, StepMoves, CollectedKept DEF IInv
<1>4. IInv /\ Fresh /\ Collected => WordsInOrder
  <2> SUFFICES ASSUME IInv, Fresh, Collected, pc = "done", status = "OK"
      PROVE  values = ExpectedWords(Len(call.reqs))
    BY DEF WordsInOrder
  <2>1. Outcome = "ok" /\ Words = values
    BY DEF Outcome, Words
  <2>2. Issued = Len(call.reqs)
    BY CallShape DEF IInv, Fresh, Issued
  <2> QED BY <2>1, <2>2 DEF Collected
<1> QED BY <1>1, <1>3, <1>4, FreshInvariance, PTL DEF Spec

-----------------------------------------------------------------------------
(* Lost writes.  The sticky flag is set by each, until an ABORT clears it; a   *)
(* transfer that is answered OK behind a lost write says that there was one.   *)

Cleared(j, n) ==
  \E m \in (j + 1)..(n - 1) : call.reqs[m].port = "exempt" /\ call.reqs[m].op = "write"
Answered(j, n) == \E k \in (j + 1)..(n - 1) : call.reqs[k].port = "exempt"
Harmless(k) == call.reqs[k].port = "exempt" \/ call.reqs[k].op = "mask"

Accounted ==
  pc # "done" \/ status = "OK" =>
    /\ lost \subseteq 1..(at - 1)
    /\ \A j \in lost :
         /\ sticky \/ Cleared(j, at)
         /\ checkWrite \/ Answered(j, at)
         /\ \A k \in (j + 1)..(at - 1) : Harmless(k) \/ Cleared(j, k)

\* A transfer that completes the request at hand.
LEMMA ServeAccounts ==
  ASSUME TypeOK, Accounted, pc # "done", call' = call, at \in DOMAIN call.reqs,
         at' = at + 1, NEW a, Takes(a), a.exempt => call.reqs[at].port = "exempt",
         \/ a.read
         \/ a = Access(at) /\ call.reqs[at].op = "write" /\ checkWrite'
  PROVE  Accounted'
<1> USE CallShape
<1>1. at \in Nat /\ at >= 1 /\ lost \subseteq 1..(at - 1) /\ sticky \in BOOLEAN
  BY DEF TypeOK, Accounted
<1>2. sticky => call.reqs[at].port = "exempt"
  BY DEF Takes
<1>3. /\ lost' = lost \/ (lost' = lost \cup {at} /\ sticky' /\ checkWrite')
      /\ \/ sticky => sticky'
         \/ call.reqs[at].port = "exempt" /\ call.reqs[at].op = "write"
  <2>1. CASE a.read
    BY <2>1 DEF Takes
  <2>2. CASE a = Access(at) /\ call.reqs[at].op = "write" /\ checkWrite' /\ ~a.read
    <3>1. a.req = at
      BY <2>2 DEF Access
    <3>2. PICK late \in BOOLEAN :
            /\ \/ sticky' = (sticky \/ late)
               \/ a.exempt /\ ~late /\ sticky' = FALSE
            /\ lost' = IF late THEN lost \cup {at} ELSE lost
      BY <2>2, <3>1 DEF Takes
    <3> QED BY <1>1, <2>2, <3>2
  <2> QED BY <2>1, <2>2
<1>4. lost' \subseteq 1..(at' - 1)
  <2>1. at' - 1 = at /\ 1..(at - 1) \subseteq 1..at /\ at \in 1..at
    BY <1>1
  <2> QED BY <1>1, <1>3, <2>1
<1>5. ASSUME NEW j \in lost'
      PROVE  /\ sticky' \/ Cleared(j, at)'
             /\ checkWrite' \/ Answered(j, at)'
             /\ \A k \in (j + 1)..(at' - 1) : Harmless(k)' \/ Cleared(j, k)'
  <2>1. CASE j \notin lost
    <3>1. j = at /\ sticky' /\ checkWrite'
      BY <1>3, <1>5, <2>1
    <3>2. (j + 1)..(at' - 1) = {}
      BY <1>1, <3>1
    <3> QED BY <3>1, <3>2
  <2>2. CASE j \in lost
    <3>1. /\ sticky \/ Cleared(j, at)
          /\ \A k \in (j + 1)..(at - 1) : Harmless(k) \/ Cleared(j, k)
      BY <2>2 DEF Accounted
    <3>2. j \in Nat /\ j + 1 <= at /\ at \in (j + 1)..(at' - 1)
      BY <1>1, <2>2
    <3>3. Cleared(j, at) => Cleared(j, at)' /\ Answered(j, at)'
      BY <3>2 DEF Cleared, Answered
    <3>4. call.reqs[at].port = "exempt" => Answered(j, at)'
      BY <3>2 DEF Answered
    <3>5. call.reqs[at].port = "exempt" /\ call.reqs[at].op = "write" => Cleared(j, at)'
      BY <3>2 DEF Cleared
    <3>6. ASSUME NEW k \in (j + 1)..(at' - 1)
          PROVE  Harmless(k)' \/ Cleared(j, k)'
      <4>1. CASE k = at
        <5>1. sticky => Harmless(k)'
          BY <1>2, <4>1 DEF Harmless
        <5>2. Cleared(j, at) => Cleared(j, k)'
          BY <4>1 DEF Cleared
        <5> QED BY <3>1, <5>1, <5>2
      <4>2. CASE k # at
        <5>1. k \in (j + 1)..(at - 1)
          BY <1>1, <3>2, <3>6, <4>2
        <5>2. Harmless(k) \/ Cleared(j, k)
          BY <3>1, <5>1
        <5> QED BY <5>2 DEF Harmless, Cleared
      <4> QED BY <4>1, <4>2
    <3>7. sticky' \/ Cleared(j, at)'
      BY <1>3, <3>1, <3>3, <3>5
    <3>8. Answered(j, at)'
      BY <1>2, <3>1, <3>3, <3>4
    <3> QED BY <3>6, <3>7, <3>8
  <2> QED BY <2>1, <2>2
<1> QED BY <1>4, <1>5 DEF Accounted

\* A step that completes none.  One that forgets the last write reads a register
\* that is not exempt, and is refused where the write was lost.
LEMMA StayAccounts ==
  ASSUME Accounted, pc # "done", UNCHANGED <<call, at, lost>>, sticky => sticky',
         checkWrite' = checkWrite \/ ~sticky
  PROVE  Accounted'
<1>1. lost' \subseteq 1..(at' - 1)
  BY DEF Accounted
<1>2. ASSUME NEW j \in lost'
      PROVE  /\ sticky' \/ Cleared(j, at)'
             /\ checkWrite' \/ Answered(j, at)'
             /\ \A k \in (j + 1)..(at' - 1) : Harmless(k)' \/ Cleared(j, k)'
  <2>1. /\ sticky \/ Cleared(j, at)
        /\ checkWrite \/ Answered(j, at)
        /\ \A k \in (j + 1)..(at - 1) : Harmless(k) \/ Cleared(j, k)
    BY <1>2 DEF Accounted
  <2>2. Cleared(j, at) => Cleared(j, at)' /\ Answered(j, at)'
    BY DEF Cleared, Answered
  <2>3. Answered(j, at) => Answered(j, at)'
    BY DEF Answered
  <2>4. \A k \in (j + 1)..(at' - 1) : Harmless(k)' \/ Cleared(j, k)'
    BY <2>1 DEF Harmless, Cleared
  <2> QED BY <2>1, <2>2, <2>3, <2>4
<1> QED BY <1>1, <1>2 DEF Accounted

\* A transfer on behalf of the probe that is repeated, or ends the call.
LEMMA FailureAccounts ==
  ASSUME Accounted, pc # "done", call' = call, NEW ack \in Acks, NEW a, Wire(a, ack),
         Retried(ack) \/ Stopped(ack)
  PROVE  Accounted'
<1>1. CASE Retried(ack)
  <2>1. /\ ack = "WAIT" /\ at' = at /\ checkWrite' = checkWrite
    BY <1>1 DEF Retried
  <2>2. lost' = lost /\ (sticky => sticky')
    BY <2>1 DEF Wire, Refuses
  <2> QED BY <2>1, <2>2, StayAccounts
<1>2. CASE Stopped(ack)
  <2>1. pc' = "done" /\ status' # "OK"
    BY <1>2 DEF Stopped
  <2> QED BY <2>1 DEF Accounted
<1> QED BY <1>1, <1>2

LEMMA AccessAccounts ==
  ASSUME IInv, Accounted, Collect \/ Post \/ ReadDP \/ Write \/ MatchPost
  PROVE  Accounted'
<1> USE CallShape
<1>1. TypeOK
  BY DEF IInv
<1>2. /\ pc = "list" /\ at \in DOMAIN call.reqs /\ call' = call
      /\ Write => call.reqs[at].op = "write"
      /\ ~Write => call.reqs[at].op \in {"read", "match"}
  <2>1. pc = "list" /\ at <= Len(call.reqs) /\ call' = call
    BY DEF InList, Transferred, Collect, Post, ReadDP, Write, MatchPost
  <2>2. /\ Write => call.reqs[at].op = "write"
        /\ ~Write => call.reqs[at].op \in {"read", "match"}
    BY DEF Here, Collect, Post, ReadDP, Write, MatchPost
  <2> QED BY <1>1, <2>1, <2>2 DEF TypeOK
<1>3. PICK ack \in Acks :
        /\ Wire(Access(at), ack)
        /\ \/ Retried(ack) \/ Stopped(ack)
           \/ /\ ack = "OK"
              /\ \/ at' = at + 1 /\ (Write => checkWrite')
                 \/ MatchPost /\ at' = at /\ checkWrite' = checkWrite
  <2>1. CASE Collect
    BY <1>2, <2>1 DEF Collect, Transferred, Write, Here
  <2>2. CASE Post
    BY <1>2, <2>2 DEF Post, Transferred, Write, Here
  <2>3. CASE ReadDP
    BY <1>2, <2>3 DEF ReadDP, Transferred, Write, Here
  <2>4. CASE Write
    BY <2>4 DEF Write, Transferred
  <2>5. CASE MatchPost
    BY <2>5 DEF MatchPost, Transferred
  <2> QED BY <2>1, <2>2, <2>3, <2>4, <2>5
<1>4. CASE Retried(ack) \/ Stopped(ack)
  BY <1>2, <1>3, <1>4, FailureAccounts
<1>5. CASE ack = "OK" /\ ~Retried(ack) /\ ~Stopped(ack)
  <2> DEFINE a == Access(at)
  <2>1. Takes(a)
    BY <1>3, <1>5 DEF Wire
  <2>2. /\ a.exempt => call.reqs[at].port = "exempt"
        /\ ~Write => a.read
    BY <1>2 DEF Access
  <2>3. CASE at' = at + 1 /\ (Write => checkWrite')
    <3>1. a.read \/ (a = Access(at) /\ call.reqs[at].op = "write" /\ checkWrite')
      BY <1>2, <2>2, <2>3
    <3> HIDE DEF a
    <3> HIDE CallShape
    <3> QED BY <1>1, <1>2, <2>1, <2>2, <2>3, <3>1, ServeAccounts
  <2>4. CASE MatchPost /\ at' = at /\ checkWrite' = checkWrite
    <3>1. a.read
      BY <1>2, <2>4 DEF Access, MatchPost, Here
    <3>2. lost' = lost /\ (sticky => sticky')
      BY <2>1, <3>1 DEF Takes
    <3> QED BY <1>2, <2>4, <3>2, StayAccounts
  <2> QED BY <1>3, <1>5, <2>3, <2>4
<1> QED BY <1>3, <1>4, <1>5

LEMMA BlockAccounts ==
  ASSUME IInv, Accounted, BlockPost \/ BlockCollect \/ BlockReadDP \/ BlockWriteWord
  PROVE  Accounted'
<1> USE CallShape
<1>1. TypeOK
  BY DEF IInv
<1>2. /\ pc = "list" /\ call.kind \in {"blockread", "blockwrite"}
      /\ at \in DOMAIN call.reqs /\ call' = call
      /\ call.kind = "blockwrite" <=> BlockWriteWord
  <2>1. /\ pc = "list" /\ call.kind \in {"blockread", "blockwrite"}
        /\ at <= Len(call.reqs) /\ call' = call
        /\ call.kind = "blockwrite" <=> BlockWriteWord
    BY DEF InBlock, Transferred, BlockPost, BlockCollect, BlockReadDP, BlockWriteWord
  <2> QED BY <1>1, <2>1 DEF TypeOK
<1>3. /\ call.kind = "blockread" => call.reqs[at].op = "read"
      /\ call.kind = "blockwrite" => call.reqs[at].op = "write"
      /\ \A j \in DOMAIN call.reqs : call.reqs[j] = call.reqs[at]
  BY <1>1, <1>2, BlockShape
<1>4. PICK ack \in Acks, a \in {Rdbuff, Access(at), Access(at + 1)} :
        /\ Wire(a, ack)
        /\ a = Access(at + 1) => at + 1 \in DOMAIN call.reqs /\ ~BlockWriteWord
        /\ a = Rdbuff => ~BlockWriteWord
        /\ \/ Retried(ack) \/ Stopped(ack)
           \/ /\ ack = "OK"
              /\ \/ at' = at + 1 /\ (BlockWriteWord => checkWrite' /\ a = Access(at))
                 \/ BlockPost /\ at' = at /\ checkWrite' = checkWrite
  <2>1. CASE BlockPost
    BY <1>2, <2>1 DEF BlockPost, InBlock, Transferred, Access, Rdbuff
  <2>2. CASE BlockReadDP
    BY <1>2, <2>2 DEF BlockReadDP, InBlock, Transferred, Access, Rdbuff
  <2>3. CASE BlockWriteWord
    <3>1. Access(at) # Rdbuff /\ Access(at) # Access(at + 1)
      BY <1>1 DEF Access, Rdbuff, TypeOK
    <3> QED BY <2>3, <3>1 DEF BlockWriteWord, Transferred
  <2>4. CASE BlockCollect
    <3>1. ~BlockWriteWord
      BY <2>4 DEF BlockCollect, BlockWriteWord, InBlock
    <3>2. at # Len(call.reqs) => at + 1 \in DOMAIN call.reqs
      <4>1. at \in 1..Len(call.reqs) /\ Len(call.reqs) \in Nat
        BY <1>1, <1>2
      <4>2. at # Len(call.reqs) => at + 1 \in 1..Len(call.reqs)
        BY <4>1
      <4> QED BY <1>1, <4>2
    <3>3. Rdbuff # Access(at + 1)
      BY <1>1 DEF Access, Rdbuff, TypeOK
    <3> QED BY <2>4, <3>1, <3>2, <3>3 DEF BlockCollect, Transferred
  <2> QED BY <2>1, <2>2, <2>3, <2>4
<1>5. CASE Retried(ack) \/ Stopped(ack)
  BY <1>2, <1>4, <1>5, FailureAccounts
<1>6. CASE ack = "OK" /\ ~Retried(ack) /\ ~Stopped(ack)
  <2>1. Takes(a)
    BY <1>4, <1>6 DEF Wire
  <2>2. a.exempt => call.reqs[at].port = "exempt"
    <3>1. CASE a = Rdbuff
      BY <3>1 DEF Rdbuff
    <3>2. CASE a = Access(at)
      BY <3>2 DEF Access
    <3>3. CASE a = Access(at + 1)
      <4>1. call.reqs[at + 1] = call.reqs[at]
        BY <1>3, <1>4, <3>3
      <4> QED BY <3>3, <4>1 DEF Access
    <3> QED BY <1>4, <3>1, <3>2, <3>3
  <2>3. ~BlockWriteWord => a.read
    <3>1. CASE a = Rdbuff
      BY <3>1 DEF Rdbuff
    <3>2. CASE a = Access(at)
      BY <1>2, <1>3, <3>2 DEF Access
    <3>3. CASE a = Access(at + 1)
      BY <1>2, <1>3, <1>4, <3>3 DEF Access
    <3> QED BY <1>4, <3>1, <3>2, <3>3
  <2>4. CASE at' = at + 1 /\ (BlockWriteWord => checkWrite' /\ a = Access(at))
    <3>1. a.read \/ (a = Access(at) /\ call.reqs[at].op = "write" /\ checkWrite')
      BY <1>2, <1>3, <2>3, <2>4
    <3> HIDE CallShape
    <3> QED BY <1>1, <1>2, <2>1, <2>2, <2>4, <3>1, ServeAccounts
  <2>5. CASE BlockPost /\ at' = at /\ checkWrite' = checkWrite
    <3>1. a.read
      BY <2>3, <2>5 DEF BlockPost, BlockWriteWord, InBlock
    <3>2. lost' = lost /\ (sticky => sticky')
      BY <2>1, <3>1 DEF Takes
    <3> QED BY <1>2, <2>5, <3>2, StayAccounts
  <2> QED BY <1>4, <1>6, <2>4, <2>5
<1> QED BY <1>4, <1>5, <1>6

LEMMA DrainAccounts ==
  ASSUME IInv, Accounted, Drain \/ LastTransfer \/ BlockConfirm
  PROVE  Accounted'
<1>1. pc = "list" /\ call' = call
  BY DEF Drain, LastTransfer, BlockConfirm, InList, AtEnd, Transferred
<1>2. PICK ack \in Acks :
        /\ Wire(Rdbuff, ack)
        /\ Retried(ack) \/ Stopped(ack) \/ (ack = "OK" /\ at' = at)
        /\ Retried(ack) \/ Stopped(ack) \/ checkWrite' = checkWrite \/ checkWrite' = FALSE
  BY DEF Drain, LastTransfer, BlockConfirm, Transferred
<1>3. CASE Retried(ack) \/ Stopped(ack)
  BY <1>1, <1>2, <1>3, FailureAccounts
<1>4. CASE ack = "OK" /\ ~Retried(ack) /\ ~Stopped(ack)
  <2>1. ~sticky /\ lost' = lost
    BY <1>2, <1>4 DEF Wire, Takes, Refuses, Rdbuff
  <2> QED BY <1>1, <1>2, <1>4, <2>1, StayAccounts
<1> QED BY <1>2, <1>3, <1>4

LEMMA PollAccounts ==
  ASSUME IInv, Accounted, MatchPoll
  PROVE  Accounted'
<1> USE CallShape
<1>1. TypeOK /\ Pipeline
  BY DEF IInv
<1>2. /\ pc = "poll" /\ call' = call /\ at \in DOMAIN call.reqs
      /\ call.reqs[at].op = "match"
  <2>1. pc = "poll" /\ call' = call
    BY DEF MatchPoll, Transferred
  <2>2. at <= Len(call.reqs) /\ Here.op = "match"
    BY <1>1, <2>1 DEF Pipeline
  <2> QED BY <1>1, <2>1, <2>2 DEF Here, TypeOK
<1>3. PICK ack \in Acks :
        /\ Wire(Access(at), ack)
        /\ \/ Retried(ack) \/ Stopped(ack)
           \/ /\ ack = "OK"
              /\ \/ at' = at + 1
                 \/ at' = at /\ checkWrite' = checkWrite
  BY DEF MatchPoll, Transferred
<1>4. CASE Retried(ack) \/ Stopped(ack)
  BY <1>2, <1>3, <1>4, FailureAccounts
<1>5. CASE ack = "OK" /\ ~Retried(ack) /\ ~Stopped(ack)
  <2> DEFINE a == Access(at)
  <2>1. Takes(a) /\ a.read /\ (a.exempt => call.reqs[at].port = "exempt")
    BY <1>2, <1>3, <1>5 DEF Wire, Access
  <2>2. CASE at' = at + 1
    <3> HIDE DEF a
    <3> HIDE CallShape
    <3> QED BY <1>1, <1>2, <2>1, <2>2, ServeAccounts
  <2>3. CASE at' = at /\ checkWrite' = checkWrite
    <3>1. lost' = lost /\ (sticky => sticky')
      BY <2>1 DEF Takes
    <3> QED BY <1>2, <2>3, <3>1, StayAccounts
  <2> QED BY <1>3, <1>5, <2>2, <2>3
<1> QED BY <1>3, <1>4, <1>5

LEMMA QuietAccounts ==
  ASSUME IInv, Fresh, Accounted,
         \/ Refuse \/ Enter \/ Reject \/ SetMask \/ MatchDP \/ Finish \/ BlockFinish
         \/ Call \/ Return \/ UNCHANGED vars
  PROVE  Accounted'
<1> USE CallShape
<1>1. TypeOK /\ Pipeline
  BY DEF IInv
<1>2. CASE Refuse \/ Enter \/ MatchDP \/ Finish \/ BlockFinish
  <2>1. pc # "done" /\ UNCHANGED <<call, at, lost, sticky, checkWrite>>
    BY <1>2 DEF Refuse, Enter, MatchDP, Finish, BlockFinish, InList, AtEnd, target
  <2> QED BY <2>1, StayAccounts
<1>3. CASE Reject
  BY <1>3 DEF Reject, Accounted
<1>4. CASE SetMask
  <2>1. /\ pc = "list" /\ call' = call /\ at' = at + 1 /\ lost' = lost /\ sticky' = sticky
        /\ checkWrite' = checkWrite /\ call.reqs[at].op = "mask" /\ at \in Nat \ {0}
    BY <1>1, <1>4 DEF SetMask, InList, Here, target, TypeOK
  <2>2. lost \subseteq 1..(at - 1)
    BY <2>1 DEF Accounted
  <2>3. ASSUME NEW j \in lost
        PROVE  /\ sticky' \/ Cleared(j, at)'
               /\ checkWrite' \/ Answered(j, at)'
               /\ \A k \in (j + 1)..(at' - 1) : Harmless(k)' \/ Cleared(j, k)'
    <3>1. /\ sticky \/ Cleared(j, at)
          /\ checkWrite \/ Answered(j, at)
          /\ \A k \in (j + 1)..(at - 1) : Harmless(k) \/ Cleared(j, k)
      BY <2>1, <2>3 DEF Accounted
    <3>2. j \in Nat
      BY <2>2, <2>3
    <3>3. (Cleared(j, at) => Cleared(j, at)') /\ (Answered(j, at) => Answered(j, at)')
      BY <2>1, <3>2 DEF Cleared, Answered
    <3>4. ASSUME NEW k \in (j + 1)..(at' - 1)
          PROVE  Harmless(k)' \/ Cleared(j, k)'
      <4>1. k = at \/ k \in (j + 1)..(at - 1)
        BY <2>1, <3>2, <3>4
      <4>2. k = at => Harmless(k)'
        BY <2>1 DEF Harmless
      <4> QED BY <2>1, <3>1, <4>1, <4>2 DEF Harmless, Cleared
    <3> QED BY <2>1, <3>1, <3>3, <3>4
  <2>4. lost' \subseteq 1..(at' - 1)
    BY <2>1, <2>2
  <2> QED BY <2>1, <2>3, <2>4 DEF Accounted
<1>5. CASE Call \/ Return
  <2>1. lost' = {}
    BY <1>1, <1>5 DEF Call, Return, target, Pipeline
  <2> QED BY <2>1 DEF Accounted
<1>6. CASE UNCHANGED vars
  BY <1>6 DEF vars, Accounted, Cleared, Answered, Harmless
<1> QED BY <1>2, <1>3, <1>4, <1>5, <1>6

\* OK means no write was lost without a transfer that could have shown it
\* (bitbang.go Transfer's and BlockWrite's last read).
THEOREM LossesShow == Spec => []WritesConfirmed
<1>1. Init => Accounted
  BY DEF Init, Accounted
<1>2. IInv /\ Fresh /\ Accounted /\ [Next]_vars => Accounted'
  BY AccessAccounts, BlockAccounts, DrainAccounts, PollAccounts, QuietAccounts
     DEF Next, Step
<1>3. IInv /\ Fresh /\ Accounted => WritesConfirmed
  <2> SUFFICES ASSUME IInv, Fresh, Accounted, pc = "done", status = "OK", NEW j \in lost
      PROVE  /\ \E k \in (j + 1)..Len(call.reqs) : call.reqs[k].port = "exempt"
             /\ \A k \in (j + 1)..Len(call.reqs) :
                  \/ call.reqs[k].port = "exempt" \/ call.reqs[k].op = "mask"
                  \/ \E m \in (j + 1)..(k - 1) :
                       call.reqs[m].port = "exempt" /\ call.reqs[m].op = "write"
    BY DEF WritesConfirmed
  <2>1. at - 1 = Len(call.reqs) /\ ~checkWrite
    BY CallShape DEF Fresh, IInv
  <2> QED BY <2>1 DEF Accounted, Cleared, Answered, Harmless
<1> QED BY <1>1, <1>2, <1>3, FreshInvariance, PTL DEF Spec
=============================================================================
