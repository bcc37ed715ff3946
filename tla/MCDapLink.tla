----------------------------- MODULE MCDapLink -----------------------------
(* The calls of the instances checked. *)
EXTENDS DapLink

R(op, port, ts) == [op |-> op, port |-> port, ts |-> ts]
Rd == R("read", "ap", FALSE)
Wr == R("write", "ap", FALSE)
T(reqs) == [kind |-> "transfer", reqs |-> reqs]

\* Lists: a write behind which the list can stop and a time stamp; a match read, with a
\* time stamp and without, and a mask; nothing; a register that does not exist.
MCLists ==
  {T(<<Wr, R("read", "ap", TRUE)>>), T(<<R("match", "ap", TRUE), Rd>>),
   T(<<R("mask", "ap", FALSE), R("match", "ap", FALSE), Wr>>), T(<<>>),
   T(<<R("read", "bad", FALSE)>>)}

\* Blocks, of none, of two words, whose replies look alike, and of a register that does
\* not exist.
Block(kind, r, n) == [kind |-> kind, reqs |-> [k \in 1..n |-> r]]
MCBlocks ==
  {Block("blockread", Rd, n) : n \in {0, 2}}
  \cup {Block("blockwrite", Wr, 2), Block("blockread", R("read", "bad", FALSE), 2)}

MCCalls == MCLists \cup MCBlocks
=============================================================================
