----------------------------- MODULE ProbeCalls -----------------------------
(***************************************************************************)
(* The calls a user of swd.Probe makes (probe.go) and the words they bring *)
(* back.  A word is <<request, kind>>: DataWord(k) is what request k read, *)
(* TsWord(k) the time stamp it asked for.  Which request a word belongs to *)
(* is all the properties tell apart.                                       *)
(***************************************************************************)
EXTENDS Naturals, Sequences

CONSTANT Calls \* the calls the caller may make: [kind, reqs]

Ports == {"ap", "dp", "exempt", "bad"}
Request == [op: {"read", "match", "write", "mask"}, port: Ports, ts: BOOLEAN]
Kinds == {"transfer", "blockread", "blockwrite"}

\* A block call is n copies of one plain request.
IsCall(c) ==
  /\ c.kind \in Kinds
  /\ c.reqs \in Seq(Request)
  /\ c.kind = "blockread" =>
       \A j \in DOMAIN c.reqs : c.reqs[j].op = "read" /\ ~c.reqs[j].ts
  /\ c.kind = "blockwrite" =>
       \A j \in DOMAIN c.reqs : c.reqs[j].op = "write" /\ ~c.reqs[j].ts
  /\ c.kind # "transfer" =>
       \A j, k \in DOMAIN c.reqs : c.reqs[j] = c.reqs[k]

ASSUME CallsAssumption == \A c \in Calls : DOMAIN c = {"kind", "reqs"} /\ IsCall(c)

DataWord(k) == <<k, "data">>
TsWord(k) == <<k, "ts">>
Word == Nat \X {"data", "ts"}

\* No call.
NoCall == [kind |-> "transfer", reqs |-> <<>>]

\* The words the bit-bang engine sends for request k: its time stamp, then what it
\* read.  A match read and a match mask contribute none, with a time stamp or without,
\* although probe.go says a request with one brings its word and client.go counts it:
\* see StampsReturned in BitbangProbe.
WordsOf(reqs, k) ==
  (IF reqs[k].ts /\ reqs[k].op \in {"read", "write"} THEN <<TsWord(k)>> ELSE <<>>)
  \o (IF reqs[k].op = "read" THEN <<DataWord(k)>> ELSE <<>>)
=============================================================================
