----------------------------- MODULE MCRttRing -----------------------------
(* Memories to search: one hole or none, and up to two places that spell   *)
(* out the ID, with any of them a control block.                           *)
EXTENDS RttRing

CONSTANT Top \* the highest address

MCMemories ==
  LET all == 0..Top
      holes == {Span(a, b) : a \in all, b \in all}
      starts == {a \in all : a + IdLen <= Top + 1}
      ids == {{}} \cup {{a, b} : a \in starts, b \in starts}
  IN  {m \in [mapped : {all \ h : h \in holes}, ids : ids, good : ids] : IsMemory(m)}
=============================================================================
