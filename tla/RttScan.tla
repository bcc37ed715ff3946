------------------------------ MODULE RttScan ------------------------------
(***************************************************************************)
(* Finding a control block (rtt.go: FindRTTControlBlock, scan, readHeader) *)
(* as a function of what target memory holds.  Addresses count in a unit   *)
(* of which the ID takes IdLen and the header read with it HeaderLen.      *)
(***************************************************************************)
EXTENDS Naturals, FiniteSetsExt

CONSTANTS
  IdLen,      \* len(cbID)
  HeaderLen,  \* cbOffBuffers: the ID and the counts behind it
  SearchSize, \* searchSize: addresses 0 .. SearchSize - 1 are searched
  BlockSize,  \* blockSize
  None        \* no address

ASSUME ScanAssumption ==
  /\ IdLen \in Nat \ {0} /\ HeaderLen \in Nat /\ HeaderLen > IdLen
  /\ BlockSize \in Nat /\ BlockSize >= IdLen
  /\ SearchSize \in Nat /\ SearchSize >= IdLen
  /\ None \notin Nat

\* Memory: the addresses that answer, where the ID is spelt out, and where a
\* control block stands behind it rather than the string in the firmware.
Span(first, last) == first..(last - 1)
IsMemory(m) ==
  /\ m.ids \subseteq Nat /\ m.good \subseteq m.ids
  /\ \A a, b \in m.ids : a < b => a + IdLen <= b
  /\ \A a \in m.good : Span(a, a + HeaderLen) \subseteq m.mapped

\* One read.  A read of an address that does not answer leaves the sticky error
\* set, and while it is set every read fails.
Reads(m, sticky, first, last) == ~sticky /\ Span(first, last) \subseteq m.mapped

\* The candidates in one buffer are tried in order: a good one ends the search,
\* one whose header does not read leaves the sticky error and the search goes on.
Candidates(m, first, last) == {a \in m.ids : first <= a /\ a + IdLen <= last}
Faulting(m, first, last) ==
  {a \in Candidates(m, first, last) : ~ Reads(m, FALSE, a, a + HeaderLen)}
Accepted(m, first, last) ==
  {a \in Candidates(m, first, last) \cap m.good :
     \A b \in Faulting(m, first, last) : a < b}

\* MUTANT of Overlap: one short of what an ID across a boundary needs.
ShortOverlap == IdLen - 2

Overlap == IdLen - 1

\* scan, at a block, with a ClearErrors that does its work: one that fails ends the
\* search with its error, which is left out, as is a cancelled context.
\* At a block: "tail" is whether the last block's end was carried forward,
\* "sticky" whether an error is left from before.
Place == [at : 0..(SearchSize + BlockSize), tail : BOOLEAN, sticky : BOOLEAN]
Lower(a, b) == IF a < b THEN a ELSE b
BlockEnd(s) == Lower(s.at + BlockSize, SearchSize)
BufferAt(s) == IF s.tail THEN s.at - Overlap ELSE s.at
Answers(m, s) == Reads(m, s.sticky, s.at, BlockEnd(s))
Hits(m, s) == IF Answers(m, s) THEN Accepted(m, BufferAt(s), BlockEnd(s)) ELSE {}
NextBlock(m, s) ==
  [at |-> s.at + BlockSize,
   tail |-> Answers(m, s) /\ BlockEnd(s) - s.at >= Overlap,
   sticky |-> Answers(m, s) /\ Faulting(m, BufferAt(s), BlockEnd(s)) # {}]
ScanFrom(m) ==
  LET from[s \in Place] ==
        IF s.at >= SearchSize THEN [addr |-> None, sticky |-> s.sticky]
        ELSE IF Hits(m, s) # {} THEN [addr |-> Min(Hits(m, s)), sticky |-> FALSE]
        ELSE from[NextBlock(m, s)]
  IN  from

FindRTTControlBlock(m, sticky) == ScanFrom(m)[[at |-> 0, tail |-> FALSE, sticky |-> sticky]]

-----------------------------------------------------------------------------
(* What it is for, said without the walk: the first control block whose ID *)
(* lies in the range and in blocks that answer.                            *)

BlockOf(a) == (a \div BlockSize) * BlockSize
Within(m, a) ==
  /\ a + IdLen <= SearchSize
  /\ Span(BlockOf(a), Lower(BlockOf(a + IdLen - 1) + BlockSize, SearchSize)) \subseteq m.mapped

Reachable(m) == {a \in m.good : Within(m, a)}
FirstReachable(m) == IF Reachable(m) = {} THEN None ELSE Min(Reachable(m))

\* Nothing in the range spells out the ID and has its header reach into a hole.
NoHalfHeader(m) ==
  \A a \in m.ids : Within(m, a) => Span(a, a + HeaderLen) \subseteq m.mapped
=============================================================================
