---------------------------- MODULE InOrderProbe ----------------------------
(***************************************************************************)
(* What swd.Probe promises of Transfer, BlockRead and BlockWrite, with no  *)
(* wire, no posted reads and no retries: the requests of a call are run    *)
(* one at a time, in order, each at most once, and the caller gets the     *)
(* words of the requests that ran, in that order.                          *)
(***************************************************************************)
EXTENDS ProbeCalls

VARIABLES
  call,   \* the call being served, or the last one served
  issued, \* how many of its requests have run
  ran,    \* ran[k]: how many times request k reached the target
  words,  \* the words read so far, or, once it returned, the words returned
  result  \* "idle", "running", "ok" or "error"

vars == <<call, issued, ran, words, result>>

Init ==
  /\ call = NoCall
  /\ issued = 0
  /\ ran = <<>>
  /\ words = <<>>
  /\ result = "idle"

Begin ==
  /\ result = "idle"
  /\ call' \in Calls
  /\ issued' = 0
  /\ ran' = [k \in DOMAIN call'.reqs |-> 0]
  /\ words' = <<>>
  /\ result' = "running"

\* The caller has what the call returned.
Return ==
  /\ result \in {"ok", "error"}
  /\ call' = NoCall /\ issued' = 0 /\ ran' = <<>> /\ words' = <<>>
  /\ result' = "idle"

\* A match read is one request however often it polls.
Poll ==
  /\ result = "running"
  /\ issued < Len(call.reqs)
  /\ call.reqs[issued + 1].op = "match"
  /\ ran' = [ran EXCEPT ![issued + 1] = @ + 1]
  /\ UNCHANGED <<call, issued, words, result>>

Run ==
  /\ result = "running"
  /\ issued < Len(call.reqs)
  /\ issued' = issued + 1
  /\ words' = words \o WordsOf(call.reqs, issued + 1)
  /\ ran' = CASE call.reqs[issued + 1].op = "mask" -> ran
              [] OTHER -> [ran EXCEPT ![issued + 1] = @ + 1]
  /\ UNCHANGED <<call, result>>

Succeed ==
  /\ result = "running"
  /\ issued = Len(call.reqs)
  /\ result' = "ok"
  /\ UNCHANGED <<call, issued, ran, words>>

\* A call may fail at any point, with the request it failed on run or not.  What
\* it returns is a prefix of the words of the requests that ran before it.
Fail ==
  /\ result = "running"
  /\ result' = "error"
  /\ \E n \in 0..Len(words) : words' = SubSeq(words, 1, n)
  /\ \/ ran' = ran
     \/ /\ issued < Len(call.reqs)
        /\ ran' = [ran EXCEPT ![issued + 1] = @ + 1]
  /\ UNCHANGED <<call, issued>>

Next == Begin \/ Return \/ Poll \/ Run \/ Succeed \/ Fail

Spec == Init /\ [][Next]_vars
=============================================================================
