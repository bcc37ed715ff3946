----------------------------- MODULE MemShadow -----------------------------
(***************************************************************************)
(* target/dp and target/mem: the clients that remember what they last left *)
(* in the target's SELECT, CSW and TAR registers and skip the writes that  *)
(* would change nothing.  One action is one register access on the probe,  *)
(* because each may fail on its own, with its write landed or not.         *)
(*                                                                         *)
(* An address is <<region, offset>>, in words: a region is the 1 kB window *)
(* inside which TAR increments on its own, and wraps.                      *)
(***************************************************************************)
EXTENDS Naturals

CONSTANTS
  Regions,     \* number of auto-increment regions in the address space
  RegionWords, \* words in one (tarAutoIncRegion / 4)
  MaxRun,      \* the most words one call asks for (a bound on the calls made)
  Late,        \* registers whose write may land although the access failed
  Unknown      \* the register is not shadowed

ASSUME MemAssumption ==
  /\ Regions \in Nat \ {0} /\ RegionWords \in Nat \ {0} /\ MaxRun \in Nat
  /\ Late \subseteq {"SELECT", "CSW", "TAR"}
  /\ Unknown \notin {"mem", "other"} \cup {"inc", "fixed", "odd"}
  /\ Unknown \notin (0..(Regions - 1)) \X (0..(RegionWords - 1))

VARIABLES
  tSel, tCSW, tTAR, \* target: the registers
  sel,              \* dp.Client: selectValue, Unknown unless selectKnown
  csw, tar,         \* mem.Client: the shadows, Unknown unless known
  op,               \* the call being served
  disturbed,        \* clients whose shadow something else made wrong
  reached           \* <<wanted, reached>> of every data access of the call

target == <<tSel, tCSW, tTAR>>
shadow == <<sel, csw, tar>>
vars == <<tSel, tCSW, tTAR, sel, csw, tar, op, disturbed, reached>>

Banks == {"mem", "other"} \* CSW, TAR and DRW are in "mem"
Modes == {"inc", "fixed", "odd"}
Addr == (0..(Regions - 1)) \X (0..(RegionWords - 1))

\* The word n words beyond a, and where n accesses from a leave TAR (n <= RegionWords).
Beyond(a, n) ==
  IF a[2] + n < RegionWords THEN <<a[1], a[2] + n>>
  ELSE <<IF a[1] + 1 = Regions THEN 0 ELSE a[1] + 1, a[2] + n - RegionWords>>
Wrapped(a, n) ==
  <<a[1], IF a[2] + n < RegionWords THEN a[2] + n ELSE a[2] + n - RegionWords>>

Idle == [kind |-> "idle", at |-> <<0, 0>>, left |-> 0]
Ops == [kind : {"word"}, at : Addr, left : {1}]             \* Read/WriteTargetReg
       \cup [kind : {"block"}, at : Addr, left : 1..MaxRun] \* Read/WriteTargetMem
       \* dp.ReadAPReg of another bank; WriteReg of CSW or TAR; dp.Init and mem.Init
       \cup [kind : {"other", "rawCSW", "rawTAR", "open"}, at : {<<0, 0>>}, left : {0}]

Init ==
  /\ tSel \in Banks /\ tCSW \in Modes /\ tTAR \in Addr
  /\ sel = Unknown /\ csw = Unknown /\ tar = Unknown
  /\ op = Idle /\ disturbed = {} /\ reached = {}

-----------------------------------------------------------------------------
(* What happens between calls. *)

\* A target reset, another debugger, another target on the wire.
Disturb ==
  /\ op = Idle
  /\ tSel' \in Banks /\ tCSW' \in Modes /\ tTAR' \in Addr
  /\ disturbed' = {"dp", "mem"}
  /\ UNCHANGED <<shadow, op, reached>>

\* dp.Invalidate, mem.Invalidate.  mem.ClearErrors does the second and clears
\* the DP's error flags, which are not modelled: any access may fail.
InvalidateDP ==
  /\ op = Idle
  /\ sel' = Unknown /\ disturbed' = disturbed \ {"dp"}
  /\ UNCHANGED <<target, csw, tar, op, reached>>

InvalidateMem ==
  /\ op = Idle
  /\ csw' = Unknown /\ tar' = Unknown /\ disturbed' = disturbed \ {"mem"}
  /\ UNCHANGED <<target, sel, op, reached>>

\* Flasher.apBatch: raw transfers that write CSW and TAR, of which any prefix
\* may run, and mem.Invalidate.
Batch ==
  /\ op = Idle /\ disturbed = {}
  /\ IF tSel = "mem" THEN tCSW' \in {tCSW, "fixed"} /\ tTAR' \in Addr
     ELSE UNCHANGED <<tCSW, tTAR>>
  /\ csw' = Unknown /\ tar' = Unknown
  /\ UNCHANGED <<tSel, sel, op, disturbed, reached>>

\* A call.  WriteReg drops the shadow before its write.
Call ==
  /\ op = Idle
  /\ op' \in Ops
  /\ op'.kind # "open" => disturbed = {}
  /\ IF op'.kind \in {"rawCSW", "rawTAR"} THEN csw' = Unknown /\ tar' = Unknown
     ELSE UNCHANGED <<csw, tar>>
  /\ reached' = {}
  /\ UNCHANGED <<target, sel, disturbed>>

-----------------------------------------------------------------------------
(* Accesses. *)

\* An access is done, or reported failed; a failed write may have landed.
Outcomes(reg) == {"ok", "refused"} \cup (IF reg \in Late THEN {"late"} ELSE {})

Bank == IF op.kind = "other" THEN "other" ELSE "mem"
Mode == IF op.kind = "word" THEN "fixed" ELSE "inc"
OnMemory == op.kind \in {"word", "block", "stage"}

\* MUTANT of DropTAR: the shadow outlives an access that failed.
KeepTAR == tar

\* The TAR shadow after a fault on the way to DRW.
DropTAR == IF OnMemory /\ op.kind # "stage" /\ csw = Mode THEN Unknown ELSE tar

\* MUTANT of Failed: the access is made again from its start, TAR included.
FailedAgain == op' = op /\ csw' = csw /\ tar' = Unknown

\* setCSW and setTAR forget the register whose write failed, and a failed DRW
\* access TAR; every other failure leaves the shadows as they are.
Failed ==
  /\ op' = Idle
  /\ csw' = IF OnMemory /\ csw # Mode THEN Unknown ELSE csw
  /\ tar' = DropTAR

\* selectAP: before any AP access, unless SELECT is known to be right.
SelectAP ==
  /\ op.kind \notin {"idle", "open"} /\ sel # Bank
  /\ \E out \in Outcomes("SELECT") :
       /\ tSel' = IF out = "refused" THEN tSel ELSE Bank
       /\ \/ out = "ok" /\ sel' = Bank /\ UNCHANGED <<csw, tar, op>>
          \/ out # "ok" /\ Failed /\ UNCHANGED sel
  /\ UNCHANGED <<tCSW, tTAR, disturbed, reached>>

\* setCSW.  It is also the last step of mem.Init.
SetCSW ==
  /\ OnMemory /\ csw # Mode /\ sel = "mem"
  /\ \E out \in Outcomes("CSW") :
       /\ tCSW' = IF out # "refused" /\ tSel = "mem" THEN Mode ELSE tCSW
       /\ \/ /\ out = "ok" /\ csw' = Mode
             /\ op' = IF op.kind = "stage" THEN Idle ELSE op
             /\ UNCHANGED tar
          \/ out # "ok" /\ Failed
  /\ UNCHANGED <<tSel, tTAR, sel, disturbed, reached>>

SetTAR ==
  /\ OnMemory /\ op.kind # "stage" /\ csw = Mode /\ tar # op.at /\ sel = "mem"
  /\ \E out \in Outcomes("TAR") :
       /\ tTAR' = IF out # "refused" /\ tSel = "mem" THEN op.at ELSE tTAR
       /\ \/ out = "ok" /\ tar' = op.at /\ UNCHANGED <<csw, op>>
          \/ out # "ok" /\ Failed
  /\ UNCHANGED <<tSel, tCSW, sel, disturbed, reached>>

\* MUTANT of RunToBoundary: one word too many.
RunOverBoundary(a, remaining) ==
  IF RegionWords - a[2] < remaining THEN RegionWords - a[2] + 1 ELSE remaining

RunToBoundary(a, remaining) ==
  IF RegionWords - a[2] < remaining THEN RegionWords - a[2] ELSE remaining

\* MUTANT of TarAdvanced: TAR carries out of its region.
TarCarried(a, n) == <<a[1], a[2] + n>>

TarAdvanced(a, n) == Wrapped(a, n)

\* What access i of a run is meant for, and what it reaches.
Wanted(i) == [bank |-> "mem", at |-> Beyond(op.at, i), word |-> TRUE]
Reached(i) == [bank |-> tSel, at |-> IF tCSW = "inc" THEN Wrapped(tTAR, i) ELSE tTAR,
               word |-> tCSW # "odd"]

\* A run of DRW accesses up to the end of the region, of which the first k run.
Run ==
  /\ OnMemory /\ op.kind # "stage" /\ csw = Mode /\ tar = op.at /\ sel = "mem"
  /\ \E n \in 0..RegionWords, k \in 0..RegionWords :
       /\ n = RunToBoundary(op.at, op.left) /\ k <= n
       /\ reached' = reached \cup
            {<<Wanted(i), Reached(i)>> : i \in {j \in 0..RegionWords : j < k}}
       /\ tTAR' = IF tSel = "mem" /\ tCSW = "inc" THEN Wrapped(tTAR, k) ELSE tTAR
       /\ \/ /\ k = n
             /\ tar' = IF op.kind = "block" THEN TarAdvanced(op.at, n) ELSE tar
             /\ op' = IF n = op.left THEN Idle
                      ELSE [op EXCEPT !.at = Beyond(@, n), !.left = @ - n]
             /\ UNCHANGED csw
          \/ Failed
  /\ UNCHANGED <<tSel, tCSW, sel, disturbed>>

\* A register of another bank.
ReadOther ==
  /\ op.kind = "other" /\ sel = "other"
  /\ \/ reached' = reached \cup {<<[bank |-> "other"], [bank |-> tSel]>>}
     \/ UNCHANGED reached
  /\ op' = Idle
  /\ UNCHANGED <<target, shadow, disturbed>>

\* WriteReg of CSW or TAR with a value of the caller's.
WriteRaw ==
  /\ op.kind \in {"rawCSW", "rawTAR"} /\ sel = "mem"
  /\ \/ UNCHANGED target
     \/ /\ tSel = "mem" /\ UNCHANGED tSel
        /\ \/ op.kind = "rawCSW" /\ tCSW' \in Modes /\ UNCHANGED tTAR
           \/ op.kind = "rawTAR" /\ tTAR' \in Addr /\ UNCHANGED tCSW
  /\ op' = Idle
  /\ UNCHANGED <<shadow, disturbed, reached>>

\* dp.Init: the sticky errors, SELECT, and the power requests, any of which may
\* fail; then mem.Init drops its shadow and reads CSW.
InitDP ==
  /\ op.kind = "open"
  /\ \/ op' = Idle /\ UNCHANGED <<tSel, shadow, disturbed>>
     \/ /\ "SELECT" \in Late
        /\ tSel' = "mem" /\ op' = Idle /\ UNCHANGED <<shadow, disturbed>>
     \/ /\ tSel' = "mem" /\ sel' = "mem"
        /\ \/ op' = Idle /\ disturbed' = disturbed \ {"dp"} /\ UNCHANGED <<csw, tar>>
           \/ /\ op' = [op EXCEPT !.kind = "check"]
              /\ csw' = Unknown /\ tar' = Unknown /\ disturbed' = {}
  /\ UNCHANGED <<tCSW, tTAR, reached>>

\* The rest of mem.Init: CSW is read, and the AP must be enabled.
CheckEnabled ==
  /\ op.kind = "check" /\ sel = "mem"
  /\ \/ op' = Idle
     \/ op' = [op EXCEPT !.kind = "stage"]
  /\ UNCHANGED <<target, shadow, disturbed, reached>>

-----------------------------------------------------------------------------
Step == SelectAP \/ SetCSW \/ SetTAR \/ Run \/ ReadOther \/ WriteRaw \/ InitDP \/ CheckEnabled

Next == Disturb \/ InvalidateDP \/ InvalidateMem \/ Batch \/ Call \/ Step

Spec == Init /\ [][Next]_vars

\* A call runs on its caller's goroutine until it returns.
FairSpec == Spec /\ WF_vars(Step)

-----------------------------------------------------------------------------
(* Properties. *)

\* A call runs only on shadows that are right, bring-up excepted; a raw write and
\* the end of a bring-up run with the memory client's shadow dropped.
Dropped == {"rawCSW", "rawTAR", "check", "stage"}
OpInv ==
  /\ op.kind \notin {"idle", "open"} => disturbed = {}
  /\ op.kind \in Dropped => csw = Unknown /\ tar = Unknown

OpType == Ops \cup {Idle} \cup [kind : {"check", "stage"}, at : {<<0, 0>>}, left : {0}]

TypeOK ==
  /\ tSel \in Banks /\ tCSW \in Modes /\ tTAR \in Addr
  /\ sel \in Banks \cup {Unknown}
  /\ csw \in {"inc", "fixed", Unknown}
  /\ tar \in Addr \cup {Unknown}
  /\ op \in OpType
  /\ disturbed \subseteq {"dp", "mem"}

\* Whatever failed on the way here, what a client remembers is what the target
\* holds, unless something else moved it and the client was not told yet
\* (dp.go selectAP, memap.go setCSW, setTAR, tarAdvanced).
SelectTrue == "dp" \notin disturbed /\ sel # Unknown => tSel = sel
StagedTrue ==
  "mem" \notin disturbed =>
    /\ csw # Unknown => tCSW = csw
    /\ tar # Unknown => tTAR = tar
ShadowTrue == SelectTrue /\ StagedTrue

\* Every word a call reads or writes is the one it asked for: the skipped
\* register writes, the auto-increment and its wrap are invisible, also in a call
\* that fails half way.
AccessesLand == \A p \in reached : p[1] = p[2]

IInv == TypeOK /\ OpInv /\ ShadowTrue /\ AccessesLand

\* A call of any length ends (memap.go ReadTargetMem, WriteTargetMem).
MemReturns == (op # Idle) ~> (op = Idle)
=============================================================================
