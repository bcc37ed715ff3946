--------------------------- MODULE InductionFacts ---------------------------
(***************************************************************************)
(* What the proofs need induction for, stated once.  Each set of naturals  *)
(* has a least element: where a formula is false for some number there is  *)
(* a first one, and that is the induction the other proofs make.  Min and  *)
(* Max name the least and greatest element, and FlattenSeq, which is       *)
(* recursive, appends one sequence after the other.                        *)
(***************************************************************************)
EXTENDS Naturals, SequencesExt, FiniteSetsExt, FiniteSetTheorems, TLAPS

\* Sets of numbers have a least one: of the finite sets 0..x, x in T, one has
\* none of the others strictly inside.
LEMMA Least ==
  ASSUME NEW T, T \subseteq Nat, T # {}
  PROVE  \E m \in T : \A y \in T : m <= y
<1> DEFINE F == {0..x : x \in T}
           R == StrictSubsetOrdering(Nat)
<1>1. F \subseteq FiniteSubsetsOf(Nat) /\ F # {}
  <2>1. \A x \in T : IsFiniteSet(0..x) /\ 0..x \subseteq Nat
    BY FS_Interval
  <2> QED BY <2>1 DEF FiniteSubsetsOf
<1>2. PICK f \in F : \A g \in F : ~ (<<g, f>> \in R)
  <2>1. IsWellFoundedOn(R, FiniteSubsetsOf(Nat))
    BY FS_StrictSubsetOrderingWellFounded
  <2> HIDE DEF F, R
  <2> QED BY <1>1, <2>1, WFMin
<1>3. PICK m \in T : f = 0..m
  OBVIOUS
<1>4. ASSUME NEW y \in T, y < m
      PROVE  FALSE
  <2>1. 0..y \in F
    OBVIOUS
  <2>2. 0..y \subseteq 0..m /\ 0..y # 0..m /\ 0..y \subseteq Nat /\ 0..m \subseteq Nat
    <3>1. m \in 0..m /\ m \notin 0..y
      BY <1>4
    <3>2. m \in Nat /\ y \in Nat
      OBVIOUS
    <3> QED BY <1>4, <3>1, <3>2
  <2> QED BY <1>2, <1>3, <2>1, <2>2 DEF StrictSubsetOrdering
<1> QED BY <1>4

LEMMA MinIsLeast ==
  ASSUME NEW S, S \subseteq Nat, S # {}
  PROVE  Min(S) \in S /\ \A x \in S : Min(S) <= x
BY Least DEF Min

\* A finite range of numbers has a greatest element, and Max names it.
LEMMA Greatest ==
  ASSUME NEW hi \in Nat, NEW S, S \subseteq 0..hi, S # {}
  PROVE  Max(S) \in S /\ Max(S) \in Nat /\ \A x \in S : x <= Max(S)
<1>0. \A x \in S : x \in Nat /\ x <= hi
  OBVIOUS
<1> DEFINE T == {hi - x : x \in S}
<1>1. T \subseteq Nat /\ T # {}
  <2>1. \A x \in S : hi - x \in Nat
    BY <1>0
  <2> QED BY <2>1
<1>2. PICK m \in T : \A y \in T : m <= y
  <2> HIDE DEF T
  <2> QED BY <1>1, Least
<1>3. PICK a \in S : m = hi - a
  OBVIOUS
<1>4. \A x \in S : a >= x
  <2> SUFFICES ASSUME NEW x \in S PROVE a >= x
    OBVIOUS
  <2>1. m <= hi - x
    BY <1>2
  <2>2. a \in Nat /\ x \in Nat
    BY <1>0
  <2> QED BY <1>3, <2>1, <2>2
<1>5. Max(S) \in S /\ \A x \in S : Max(S) >= x
  BY <1>4 DEF Max
<1> QED BY <1>0, <1>5

-----------------------------------------------------------------------------
\* FlattenSeq is the last value of a function, which exists for each length, and is
\* the same for all of them as far as they go.
FlattenBy(f, s, n) ==
  f = [i \in 1..n |-> IF i = 1 THEN s[i] ELSE f[i - 1] \o s[i]]

LEMMA FlattenExists ==
  ASSUME NEW s, NEW n \in Nat
  PROVE  \E f : FlattenBy(f, s, n)
<1> DEFINE T == {m \in Nat : ~ \E f : FlattenBy(f, s, m)}
<1> SUFFICES ASSUME T # {} PROVE FALSE
  OBVIOUS
<1>1. PICK m \in T : \A y \in T : m <= y
  <2>1. T \subseteq Nat
    OBVIOUS
  <2> HIDE DEF T
  <2> QED BY <2>1, Least
<1>2. m # 0
  <2>1. FlattenBy(<<>>, s, 0)
    BY DEF FlattenBy
  <2> QED BY <2>1
<1>3. m - 1 \in Nat /\ m - 1 \notin T
  BY <1>1, <1>2
<1>4. PICK g : FlattenBy(g, s, m - 1)
  BY <1>3
<1> DEFINE h == [i \in 1..m |-> IF i = 1 THEN s[i] ELSE g[i - 1] \o s[i]]
<1>5. \A i \in 1..(m - 1) : h[i] = g[i]
  <2>1. \A i \in 1..(m - 1) : g[i] = IF i = 1 THEN s[i] ELSE g[i - 1] \o s[i]
    BY <1>4 DEF FlattenBy
  <2>2. \A i \in 1..(m - 1) : i \in 1..m
    BY <1>3
  <2> QED BY <2>1, <2>2
<1>6. \A i \in 1..m : i # 1 => i - 1 \in 1..(m - 1)
  BY <1>3
<1>7. \A i \in 1..m : i # 1 => h[i] = h[i - 1] \o s[i]
  BY <1>5, <1>6
<1>8. FlattenBy(h, s, m)
  <2>1. \A i \in 1..m : h[i] = IF i = 1 THEN s[i] ELSE h[i - 1] \o s[i]
    BY <1>7
  <2>2. h = [i \in 1..m |-> h[i]]
    OBVIOUS
  <2> HIDE DEF h
  <2> QED BY <2>1, <2>2 DEF FlattenBy
<1> QED BY <1>8, <1>1

AgreeOn(f, g, n) == \A i \in 1..n : f[i] = g[i]

LEMMA FlattenUnique ==
  ASSUME NEW n \in Nat, NEW m \in Nat, m = n + 1, NEW s, NEW t, AgreeOn(s, t, n),
         NEW f, NEW g, FlattenBy(f, s, m), FlattenBy(g, t, n)
  PROVE  AgreeOn(f, g, n)
<1> DEFINE T == {i \in 1..n : f[i] # g[i]}
<1> SUFFICES ASSUME T # {} PROVE FALSE
  BY DEF AgreeOn
<1>1. PICK i \in T : \A y \in T : i <= y
  <2>1. T \subseteq Nat
    OBVIOUS
  <2> HIDE DEF T
  <2> QED BY <2>1, Least
<1>2. i \in 1..n /\ i \in 1..m
  OBVIOUS
<1>3. /\ f[i] = IF i = 1 THEN s[i] ELSE f[i - 1] \o s[i]
      /\ g[i] = IF i = 1 THEN t[i] ELSE g[i - 1] \o t[i]
  BY <1>2 DEF FlattenBy
<1>4. i # 1 => f[i - 1] = g[i - 1]
  BY <1>1
<1>5. s[i] = t[i]
  BY <1>2 DEF AgreeOn
<1> QED BY <1>1, <1>2, <1>3, <1>4, <1>5

LEMMA FlattenIs ==
  ASSUME NEW n \in Nat \ {0}, NEW s, DOMAIN s = 1..n, Len(s) = n
  PROVE  \E f : FlattenBy(f, s, n) /\ FlattenSeq(s) = f[n]
<1> DEFINE F == CHOOSE f : FlattenBy(f, s, n)
<1>1. FlattenBy(F, s, n)
  BY FlattenExists
<1>2. FlattenSeq(s) = F[n]
  BY DEF FlattenSeq, FlattenBy
<1> QED BY <1>1, <1>2

LEMMA FlattenEmpty == FlattenSeq(<<>>) = <<>>
BY DEF FlattenSeq

\* FlattenSeq of one sequence more appends it.
LEMMA FlattenStep ==
  ASSUME NEW S, NEW n \in Nat, NEW s, s \in [1..(n + 1) -> Seq(S)],
         NEW t, t = [k \in 1..n |-> s[k]]
  PROVE  FlattenSeq(s) = FlattenSeq(t) \o s[n + 1]
<1>1. /\ n + 1 \in Nat \ {0} /\ DOMAIN s = 1..(n + 1) /\ Len(s) = n + 1
      /\ DOMAIN t = 1..n /\ Len(t) = n
  OBVIOUS
<1>2. PICK f : FlattenBy(f, s, n + 1) /\ FlattenSeq(s) = f[n + 1]
  BY <1>1, FlattenIs
<1>3. n + 1 \in 1..(n + 1)
  OBVIOUS
<1>4. f[n + 1] = IF n + 1 = 1 THEN s[n + 1] ELSE f[(n + 1) - 1] \o s[n + 1]
  BY <1>2, <1>3 DEF FlattenBy
<1>5. CASE n = 0
  <2>1. t = <<>> /\ s[1] \in Seq(S)
    BY <1>5
  <2>2. <<>> \o s[1] = s[1]
    BY <2>1
  <2> QED BY <1>2, <1>4, <1>5, <2>1, <2>2, FlattenEmpty
<1>6. CASE n # 0
  <2>1. PICK g : FlattenBy(g, t, n) /\ FlattenSeq(t) = g[n]
    BY <1>1, <1>6, FlattenIs
  <2> DEFINE m == n + 1
  <2>2. FlattenBy(f, s, m) /\ FlattenBy(g, t, n) /\ m = n + 1 /\ m \in Nat
    BY <1>2, <2>1
  <2>3. AgreeOn(s, t, n)
    BY DEF AgreeOn
  <2>4. AgreeOn(f, g, n)
    <3> HIDE DEF m
    <3> QED BY <2>2, <2>3, FlattenUnique
  <2>5. n + 1 # 1 /\ (n + 1) - 1 = n /\ n \in 1..n
    BY <1>6
  <2> QED BY <1>2, <1>4, <2>1, <2>4, <2>5 DEF AgreeOn
<1> QED BY <1>5, <1>6
=============================================================================
