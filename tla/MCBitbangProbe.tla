--------------------------- MODULE MCBitbangProbe ---------------------------
(* Small instance of BitbangProbe: every list of up to MaxList requests, and  *)
(* block calls of up to MaxBlock + 1 words.                                   *)
EXTENDS BitbangProbe

CONSTANT MaxList

\* One request of each shape: "exempt" stands for DPIDR, CTRL/STAT and ABORT.
Shapes ==
  {[op |-> o, port |-> p, ts |-> FALSE] :
      o \in {"read", "match", "write"}, p \in {"ap", "dp"}}
  \cup {[op |-> o, port |-> "exempt", ts |-> FALSE] : o \in {"read", "write"}}
  \cup {[op |-> "mask", port |-> "dp", ts |-> FALSE],
        [op |-> "read", port |-> "bad", ts |-> FALSE],
        [op |-> "read", port |-> "ap", ts |-> TRUE],
        [op |-> "write", port |-> "dp", ts |-> TRUE],
        [op |-> "read", port |-> "dp", ts |-> TRUE],
        [op |-> "match", port |-> "dp", ts |-> TRUE]}

Block(o, p, n) == [k \in 1..n |-> [op |-> o, port |-> p, ts |-> FALSE]]

MCCalls ==
  [kind : {"transfer"}, reqs : BoundedSeq(Shapes, MaxList)]
  \cup {[kind |-> "blockread", reqs |-> Block("read", p, n)] :
           p \in {"ap", "dp", "bad"}, n \in 0..(MaxBlock + 1)}
  \cup {[kind |-> "blockwrite", reqs |-> Block("write", p, n)] :
           p \in {"ap", "dp"}, n \in 0..(MaxBlock + 1)}
=============================================================================
