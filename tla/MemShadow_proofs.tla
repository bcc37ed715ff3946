-------------------------- MODULE MemShadow_proofs --------------------------
(***************************************************************************)
(* What holds of the register shadows for every size of the auto-increment *)
(* region, every address space and every length of a call, when a write of *)
(* SELECT that is reported failed did not land.                            *)
(***************************************************************************)
EXTENDS MemShadow, TLAPS

USE MemAssumption

-----------------------------------------------------------------------------
(* Addresses. *)

LEMMA AddrFacts ==
  ASSUME NEW a \in Addr, NEW n \in 0..RegionWords
  PROVE  /\ Wrapped(a, n) \in Addr /\ Beyond(a, n) \in Addr
         /\ n < RegionWords - a[2] => Wrapped(a, n) = Beyond(a, n)
         /\ Wrapped(a, 0) = a
<1>1. a[1] \in 0..(Regions - 1) /\ a[2] \in 0..(RegionWords - 1) /\ a = <<a[1], a[2]>>
  BY DEF Addr
<1>2. Wrapped(a, n) \in Addr
  BY <1>1 DEF Wrapped, Addr
<1>3. Beyond(a, n) \in Addr
  <2>1. (IF a[1] + 1 = Regions THEN 0 ELSE a[1] + 1) \in 0..(Regions - 1)
    BY <1>1
  <2>2. a[2] + n >= RegionWords => a[2] + n - RegionWords \in 0..(RegionWords - 1)
    BY <1>1
  <2>3. a[2] + n < RegionWords => a[2] + n \in 0..(RegionWords - 1)
    BY <1>1
  <2> QED BY <1>1, <2>1, <2>2, <2>3 DEF Beyond, Addr
<1>4. n < RegionWords - a[2] => Wrapped(a, n) = Beyond(a, n)
  BY <1>1 DEF Wrapped, Beyond
<1>5. Wrapped(a, 0) = a
  BY <1>1 DEF Wrapped
<1> QED BY <1>2, <1>3, <1>4, <1>5

LEMMA RunFits ==
  ASSUME NEW a \in Addr, NEW left \in Nat
  PROVE  /\ RunToBoundary(a, left) \in 0..RegionWords
         /\ RunToBoundary(a, left) <= RegionWords - a[2]
         /\ RunToBoundary(a, left) <= left
<1>1. a[2] \in 0..(RegionWords - 1)
  BY DEF Addr
<1> QED BY <1>1 DEF RunToBoundary

LEMMA OpFacts ==
  ASSUME op \in OpType
  PROVE  /\ op.kind \in {"idle", "word", "block", "other", "rawCSW", "rawTAR", "open",
                         "check", "stage"}
         /\ op.at \in Addr /\ op.left \in Nat
         /\ (op = Idle) <=> (op.kind = "idle")
         /\ op.kind = "word" => op.left = 1
BY DEF OpType, Ops, Idle, Addr

-----------------------------------------------------------------------------
(* Failures. *)

LEMMA FailedKeeps ==
  ASSUME IInv, Failed
  PROVE  /\ op' = Idle
         /\ csw' \in {csw, Unknown} /\ tar' \in {tar, Unknown}
         /\ csw # Mode /\ OnMemory => csw' = Unknown
         /\ csw = Mode /\ OnMemory /\ op.kind # "stage" => tar' = Unknown
BY DEF Failed, DropTAR

-----------------------------------------------------------------------------
(* One step. *)

LEMMA Between ==
  ASSUME IInv, Disturb \/ InvalidateDP \/ InvalidateMem \/ Batch \/ UNCHANGED vars
  PROVE  IInv'
<1> USE DEF IInv, target, shadow, Dropped
<1>1. CASE Disturb
  <2>1. TypeOK' /\ OpInv' /\ AccessesLand'
    BY <1>1 DEF Disturb, TypeOK, OpInv, AccessesLand, Idle
  <2>2. ShadowTrue'
    BY <1>1 DEF Disturb, ShadowTrue, SelectTrue, StagedTrue
  <2> QED BY <2>1, <2>2
<1>2. CASE InvalidateDP
  <2>1. TypeOK' /\ OpInv' /\ AccessesLand'
    BY <1>2 DEF InvalidateDP, TypeOK, OpInv, AccessesLand
  <2>2. ShadowTrue'
    BY <1>2 DEF InvalidateDP, ShadowTrue, SelectTrue, StagedTrue
  <2> QED BY <2>1, <2>2
<1>3. CASE InvalidateMem
  <2>1. TypeOK' /\ OpInv' /\ AccessesLand'
    BY <1>3 DEF InvalidateMem, TypeOK, OpInv, AccessesLand
  <2>2. ShadowTrue'
    BY <1>3 DEF InvalidateMem, ShadowTrue, SelectTrue, StagedTrue
  <2> QED BY <2>1, <2>2
<1>4. CASE Batch
  <2>1. TypeOK' /\ OpInv' /\ AccessesLand'
    BY <1>4 DEF Batch, TypeOK, OpInv, AccessesLand, Modes
  <2>2. ShadowTrue'
    BY <1>4 DEF Batch, ShadowTrue, SelectTrue, StagedTrue
  <2> QED BY <2>1, <2>2
<1>5. CASE UNCHANGED vars
  BY <1>5 DEF vars, TypeOK, OpInv, ShadowTrue, SelectTrue, StagedTrue, AccessesLand
<1> QED BY <1>1, <1>2, <1>3, <1>4, <1>5

LEMMA CallKeeps ==
  ASSUME IInv, Call
  PROVE  IInv'
<1> USE DEF IInv, target, shadow
<1>1. TypeOK'
  <2>1. op' \in OpType /\ csw' \in {csw, Unknown} /\ tar' \in {tar, Unknown}
    BY DEF Call, OpType
  <2> QED BY <2>1 DEF Call, TypeOK
<1>2. op'.kind \in Dropped => csw' = Unknown /\ tar' = Unknown
  BY DEF Call, Ops, Dropped
<1>3. OpInv'
  BY <1>2 DEF Call, OpInv
<1>4. ShadowTrue'
  BY DEF Call, ShadowTrue, SelectTrue, StagedTrue
<1>5. AccessesLand'
  BY DEF Call, AccessesLand
<1> QED BY <1>1, <1>3, <1>4, <1>5

\* A register write that fails, or that sets register and shadow alike.
LEMMA StagingKeeps ==
  ASSUME IInv, "SELECT" \notin Late, SelectAP \/ SetCSW \/ SetTAR
  PROVE  IInv'
<1> USE DEF IInv, Dropped
<1>1. TypeOK /\ OpInv /\ ShadowTrue /\ AccessesLand
  OBVIOUS
<1>2. /\ op.kind \in {"idle", "word", "block", "other", "rawCSW", "rawTAR", "open",
                       "check", "stage"}
      /\ op.at \in Addr /\ op.left \in Nat
  BY <1>1, OpFacts DEF TypeOK
<1>3. Mode \in {"inc", "fixed"} /\ Bank \in Banks
  BY DEF Mode, Bank, Banks
<1>4. op.kind \notin {"idle", "open"} /\ disturbed = {} /\ disturbed' = {} /\ reached' = reached
  BY <1>1 DEF SelectAP, SetCSW, SetTAR, OnMemory, OpInv
<1>5. AccessesLand'
  BY <1>4 DEF AccessesLand
<1>6. Idle \in OpType /\ Idle.kind = "idle"
  BY DEF OpType, Idle
<1>7. CASE SelectAP
  <2>1. PICK out \in Outcomes("SELECT") :
          /\ tSel' = IF out = "refused" THEN tSel ELSE Bank
          /\ \/ out = "ok" /\ sel' = Bank /\ UNCHANGED <<csw, tar, op>>
             \/ out # "ok" /\ Failed /\ UNCHANGED sel
    BY <1>7 DEF SelectAP
  <2>2. out \in {"ok", "refused"}
    BY DEF Outcomes
  <2>3. UNCHANGED <<tCSW, tTAR>>
    BY <1>7 DEF SelectAP
  <2>4. CASE out = "ok"
    BY <1>1, <1>3, <1>4, <1>5, <2>1, <2>3, <2>4
    DEF TypeOK, OpInv, ShadowTrue, SelectTrue, StagedTrue
  <2>5. CASE out = "refused"
    <3>1. /\ tSel' = tSel /\ sel' = sel /\ op' = Idle
          /\ csw' \in {csw, Unknown} /\ tar' \in {tar, Unknown}
      BY <2>1, <2>5, FailedKeeps
    <3> QED BY <1>1, <1>4, <1>5, <1>6, <2>3, <3>1
        DEF TypeOK, OpInv, ShadowTrue, SelectTrue, StagedTrue
  <2> QED BY <2>2, <2>4, <2>5
<1>8. CASE SetCSW
  <2>1. PICK out \in Outcomes("CSW") :
          /\ tCSW' = IF out # "refused" /\ tSel = "mem" THEN Mode ELSE tCSW
          /\ \/ /\ out = "ok" /\ csw' = Mode
                /\ op' = IF op.kind = "stage" THEN Idle ELSE op
                /\ UNCHANGED tar
             \/ out # "ok" /\ Failed
    BY <1>8 DEF SetCSW
  <2>2. tSel = "mem" /\ OnMemory /\ csw # Mode
    BY <1>1, <1>4, <1>8 DEF SetCSW, ShadowTrue, SelectTrue
  <2>3. UNCHANGED <<tSel, tTAR, sel>>
    BY <1>8 DEF SetCSW
  <2>4. tCSW' \in {tCSW, Mode}
    BY <2>1
  <2>5. CASE out = "ok"
    <3>1. tCSW' = Mode /\ csw' = Mode /\ tar' = tar /\ op' \in {op, Idle}
          /\ op'.kind \notin Dropped
      BY <1>6, <2>1, <2>2, <2>5 DEF OnMemory
    <3>2. TypeOK'
      BY <1>1, <1>3, <1>4, <1>6, <2>3, <3>1 DEF TypeOK, Modes
    <3>3. OpInv' /\ ShadowTrue'
      BY <1>1, <1>4, <2>3, <3>1 DEF OpInv, ShadowTrue, SelectTrue, StagedTrue
    <3> QED BY <1>5, <3>2, <3>3
  <2>6. CASE out # "ok"
    <3>1. op' = Idle /\ csw' = Unknown /\ tar' \in {tar, Unknown}
      BY <2>1, <2>2, <2>6, FailedKeeps
    <3>2. TypeOK'
      BY <1>1, <1>3, <1>4, <1>6, <2>3, <2>4, <3>1 DEF TypeOK, Modes
    <3>3. OpInv' /\ ShadowTrue'
      BY <1>1, <1>4, <1>6, <2>3, <3>1 DEF OpInv, ShadowTrue, SelectTrue, StagedTrue
    <3> QED BY <1>5, <3>2, <3>3
  <2> QED BY <2>5, <2>6
<1>9. CASE SetTAR
  <2>1. PICK out \in Outcomes("TAR") :
          /\ tTAR' = IF out # "refused" /\ tSel = "mem" THEN op.at ELSE tTAR
          /\ \/ out = "ok" /\ tar' = op.at /\ UNCHANGED <<csw, op>>
             \/ out # "ok" /\ Failed
    BY <1>9 DEF SetTAR
  <2>2. tSel = "mem" /\ OnMemory /\ csw = Mode /\ op.kind # "stage" /\ op.kind \notin Dropped
    BY <1>1, <1>4, <1>9 DEF SetTAR, ShadowTrue, SelectTrue, OnMemory
  <2>3. UNCHANGED <<tSel, tCSW, sel>>
    BY <1>9 DEF SetTAR
  <2>4. tTAR' \in Addr
    BY <1>1, <1>2, <2>1 DEF TypeOK
  <2>5. CASE out = "ok"
    <3>1. tTAR' = op.at /\ tar' = op.at /\ csw' = csw /\ op' = op
      BY <2>1, <2>2, <2>5
    <3>2. TypeOK'
      BY <1>1, <1>2, <1>4, <2>3, <2>4, <3>1 DEF TypeOK
    <3>3. OpInv' /\ ShadowTrue'
      BY <1>1, <1>4, <2>2, <2>3, <3>1 DEF OpInv, ShadowTrue, SelectTrue, StagedTrue
    <3> QED BY <1>5, <3>2, <3>3
  <2>6. CASE out # "ok"
    <3>1. op' = Idle /\ csw' \in {csw, Unknown} /\ tar' = Unknown
      BY <2>1, <2>2, <2>6, FailedKeeps
    <3> QED BY <1>1, <1>4, <1>5, <1>6, <2>3, <2>4, <3>1
        DEF TypeOK, OpInv, ShadowTrue, SelectTrue, StagedTrue
  <2> QED BY <2>5, <2>6
<1> QED BY <1>7, <1>8, <1>9

\* A run stops at the end of the region at the latest, so that its addresses are
\* the wanted ones and the shadow wraps like TAR does.
LEMMA RunKeeps ==
  ASSUME IInv, Run
  PROVE  IInv'
<1> USE DEF IInv, Dropped
<1>1. TypeOK /\ OpInv /\ ShadowTrue /\ AccessesLand
  OBVIOUS
<1>2. /\ op.kind \in {"word", "block"} /\ op.at \in Addr /\ op.left \in Nat
      /\ disturbed = {} /\ sel = "mem" /\ csw = Mode /\ tar = op.at
      /\ op.kind = "word" => op.left = 1
  BY <1>1, OpFacts DEF Run, OnMemory, TypeOK, OpInv
<1>3. /\ Mode \in {"inc", "fixed"} /\ Mode # Unknown /\ op.at # Unknown
      /\ tSel = "mem" /\ tCSW = Mode /\ tTAR = op.at
      /\ op.kind = "block" => Mode = "inc"
      /\ op.kind = "word" => Mode = "fixed"
  <2>1. Mode \in {"inc", "fixed"} /\ Mode # Unknown /\ op.at # Unknown
    BY <1>2 DEF Mode, Addr
  <2>2. tSel = "mem" /\ tCSW = Mode /\ tTAR = op.at
    BY <1>1, <1>2, <2>1 DEF ShadowTrue, SelectTrue, StagedTrue
  <2> QED BY <1>2, <2>1, <2>2 DEF Mode
<1>4. PICK n \in 0..RegionWords, k \in 0..RegionWords :
        /\ n = RunToBoundary(op.at, op.left) /\ k <= n
        /\ reached' = reached \cup
             {<<Wanted(i), Reached(i)>> : i \in {j \in 0..RegionWords : j < k}}
        /\ tTAR' = IF tSel = "mem" /\ tCSW = "inc" THEN Wrapped(tTAR, k) ELSE tTAR
        /\ \/ /\ k = n
              /\ tar' = IF op.kind = "block" THEN TarAdvanced(op.at, n) ELSE tar
              /\ op' = IF n = op.left THEN Idle
                       ELSE [op EXCEPT !.at = Beyond(@, n), !.left = @ - n]
              /\ UNCHANGED csw
           \/ Failed
  BY DEF Run
<1>5. UNCHANGED <<tSel, tCSW, sel, disturbed>>
  BY DEF Run
<1>6. n <= RegionWords - op.at[2] /\ n <= op.left /\ op.at[2] \in 0..(RegionWords - 1)
  BY <1>2, <1>4, RunFits DEF Addr
<1>7. op.kind = "word" => n = 1
  BY <1>2, <1>4, <1>6 DEF RunToBoundary
<1>8. AccessesLand'
  <2>1. SUFFICES ASSUME NEW i \in 0..RegionWords, i < k
                 PROVE  Wanted(i) = Reached(i)
    BY <1>1, <1>4 DEF AccessesLand
  <2>2. CASE op.kind = "block"
    <3>1. Wrapped(op.at, i) = Beyond(op.at, i)
      BY <1>2, <1>4, <1>6, <2>1, AddrFacts
    <3> QED BY <1>3, <2>2, <3>1 DEF Wanted, Reached
  <2>3. CASE op.kind = "word"
    <3>1. i = 0
      BY <1>4, <1>7, <2>1, <2>3
    <3>2. Beyond(op.at, i) = op.at
      BY <1>2, <1>6, <3>1, AddrFacts
    <3> QED BY <1>3, <2>3, <3>2 DEF Wanted, Reached
  <2> QED BY <1>2, <2>2, <2>3
<1>9. tTAR' \in Addr
  BY <1>1, <1>2, <1>3, <1>4, AddrFacts
<1>10. CASE Failed
  <2>1. op' = Idle /\ csw' \in {csw, Unknown} /\ tar' = Unknown
    BY <1>2, <1>10, FailedKeeps DEF OnMemory
  <2>2. Idle \in OpType /\ Idle.kind = "idle"
    BY DEF OpType, Idle
  <2> QED BY <1>1, <1>2, <1>5, <1>8, <1>9, <2>1, <2>2
      DEF TypeOK, OpInv, ShadowTrue, SelectTrue, StagedTrue
<1>11. CASE /\ k = n
            /\ tar' = IF op.kind = "block" THEN TarAdvanced(op.at, n) ELSE tar
            /\ op' = IF n = op.left THEN Idle
                     ELSE [op EXCEPT !.at = Beyond(@, n), !.left = @ - n]
            /\ UNCHANGED csw
  <2>1. tar' = tTAR'
    BY <1>2, <1>3, <1>4, <1>11 DEF TarAdvanced
  <2>2. op' \in OpType /\ op'.kind \notin Dropped
    <3>1. CASE n = op.left
      BY <1>11, <3>1 DEF OpType, Idle
    <3>2. CASE n # op.left
      <4>1. op.kind = "block"
        BY <1>2, <1>7, <3>2
      <4>2. Beyond(op.at, n) \in Addr
        BY <1>2, AddrFacts
      <4>3. op \in [kind : {"block"}, at : Addr, left : 1..MaxRun]
        BY <1>1, <4>1 DEF TypeOK, OpType, Ops, Idle
      <4>4. op.left - n \in 1..MaxRun
        BY <1>6, <3>2, <4>3
      <4>5. op' \in [kind : {"block"}, at : Addr, left : 1..MaxRun]
        BY <1>11, <3>2, <4>2, <4>3, <4>4
      <4> QED BY <4>5 DEF OpType, Ops
    <3> QED BY <3>1, <3>2
  <2>3. TypeOK'
    BY <1>1, <1>5, <1>9, <1>11, <2>1, <2>2 DEF TypeOK
  <2>4. OpInv' /\ ShadowTrue'
    BY <1>1, <1>2, <1>3, <1>5, <1>11, <2>1, <2>2
    DEF OpInv, ShadowTrue, SelectTrue, StagedTrue
  <2> QED BY <1>8, <2>3, <2>4
<1> QED BY <1>4, <1>10, <1>11

LEMMA OthersKeep ==
  ASSUME IInv, "SELECT" \notin Late, ReadOther \/ WriteRaw \/ InitDP \/ CheckEnabled
  PROVE  IInv'
<1> USE DEF IInv, target, shadow, Dropped
<1>1. /\ Idle \in OpType /\ Idle.kind = "idle"
      /\ op.kind \in {"open", "check"} =>
           /\ op.at = <<0, 0>> /\ op.left = 0
           /\ op \in [kind : {"open", "check"}, at : {<<0, 0>>}, left : {0}]
  BY DEF OpType, Ops, Idle, TypeOK
<1>2. CASE ReadOther
  <2>1. tSel = "other"
    BY <1>2 DEF ReadOther, OpInv, ShadowTrue, SelectTrue
  <2>2. AccessesLand'
    BY <1>2, <2>1 DEF ReadOther, AccessesLand
  <2> QED BY <1>1, <1>2, <2>2
      DEF ReadOther, TypeOK, OpInv, ShadowTrue, SelectTrue, StagedTrue
<1>3. CASE WriteRaw
  <2>1. op.kind \in Dropped /\ disturbed = {} /\ csw = Unknown /\ tar = Unknown
    BY <1>3 DEF WriteRaw, OpInv
  <2>2. op' = Idle /\ UNCHANGED <<tSel, sel, csw, tar, disturbed, reached>>
    BY <1>3 DEF WriteRaw
  <2>3. tCSW' \in Modes /\ tTAR' \in Addr
    BY <1>3 DEF WriteRaw, TypeOK
  <2>4. TypeOK' /\ OpInv'
    BY <1>1, <2>1, <2>2, <2>3 DEF TypeOK, OpInv
  <2>5. ShadowTrue' /\ AccessesLand'
    BY <2>1, <2>2 DEF ShadowTrue, SelectTrue, StagedTrue, AccessesLand
  <2> QED BY <2>4, <2>5
<1>4. CASE InitDP
  <2>1. op' \in {Idle, [op EXCEPT !.kind = "check"]} /\ UNCHANGED <<tCSW, tTAR, reached>>
    BY <1>4 DEF InitDP
  <2>2. \/ op' = Idle /\ UNCHANGED <<tSel, sel, csw, tar, disturbed>>
        \/ /\ tSel' = "mem" /\ sel' = "mem"
           /\ \/ op' = Idle /\ disturbed' = disturbed \ {"dp"} /\ UNCHANGED <<csw, tar>>
              \/ csw' = Unknown /\ tar' = Unknown /\ disturbed' = {}
    BY <1>4 DEF InitDP
  <2>3. op' \in OpType
    BY <1>1, <1>4, <2>1 DEF InitDP, OpType
  <2>4. TypeOK'
    BY <2>1, <2>2, <2>3 DEF TypeOK, Banks
  <2>5. OpInv'
    BY <1>1, <1>4 DEF InitDP, OpInv
  <2>6. ShadowTrue' /\ AccessesLand'
    BY <2>1, <2>2 DEF ShadowTrue, SelectTrue, StagedTrue, AccessesLand
  <2> QED BY <2>4, <2>5, <2>6
<1>5. CASE CheckEnabled
  <2>1. disturbed = {} /\ csw = Unknown /\ tar = Unknown /\ op.kind = "check"
    BY <1>5 DEF CheckEnabled, OpInv
  <2>2. UNCHANGED <<tSel, tCSW, tTAR, sel, csw, tar, disturbed, reached>>
    BY <1>5 DEF CheckEnabled
  <2>3. op' \in OpType
    BY <1>1, <1>5, <2>1 DEF CheckEnabled, OpType
  <2>4. TypeOK' /\ OpInv'
    BY <2>1, <2>2, <2>3 DEF TypeOK, OpInv
  <2>5. ShadowTrue' /\ AccessesLand'
    BY <2>2 DEF ShadowTrue, SelectTrue, StagedTrue, AccessesLand
  <2> QED BY <2>4, <2>5
<1> QED BY <1>2, <1>3, <1>4, <1>5

-----------------------------------------------------------------------------
(* The theorems. *)

LEMMA Initially == Init => IInv
BY DEF Init, IInv, TypeOK, OpType, OpInv, Dropped, Idle, ShadowTrue, SelectTrue, StagedTrue,
       AccessesLand

LEMMA Stepwise ==
  ASSUME "SELECT" \notin Late, IInv, [Next]_vars
  PROVE  IInv'
<1>1. \/ Disturb \/ InvalidateDP \/ InvalidateMem \/ Batch \/ UNCHANGED vars
      \/ Call
      \/ SelectAP \/ SetCSW \/ SetTAR
      \/ Run
      \/ ReadOther \/ WriteRaw \/ InitDP \/ CheckEnabled
  BY DEF Next, Step
<1> QED BY <1>1, Between, CallKeeps, StagingKeeps, RunKeeps, OthersKeep

LEMMA Invariance ==
  ASSUME "SELECT" \notin Late
  PROVE  Spec => []IInv
<1>1. Init => IInv
  BY Initially
<1>2. IInv /\ [Next]_vars => IInv'
  BY Stepwise
<1> QED BY <1>1, <1>2, PTL DEF Spec

\* The shadows never disagree with the target, whatever sequence of calls, failures,
\* invalidations and batches led here, as long as nothing unannounced moved the
\* registers and a failed SELECT write did not land (dp.Client, mem.Client).
THEOREM ShadowsTrue ==
  ASSUME "SELECT" \notin Late
  PROVE  Spec => []ShadowTrue
<1>1. IInv => ShadowTrue
  BY DEF IInv
<1> QED BY <1>1, Invariance, PTL

\* Every word of every block transfer is read or written at the address asked for,
\* for every region size and length (memap.go ReadTargetMem, WriteTargetMem).
THEOREM WordsLand ==
  ASSUME "SELECT" \notin Late
  PROVE  Spec => []AccessesLand
<1>1. IInv => AccessesLand
  BY DEF IInv
<1> QED BY <1>1, Invariance, PTL

\* The clients' state stays within its type (dp.Client, mem.Client).
THEOREM ShadowTypes ==
  ASSUME "SELECT" \notin Late
  PROVE  Spec => []TypeOK
<1>1. IInv => TypeOK
  BY DEF IInv
<1> QED BY <1>1, Invariance, PTL
=============================================================================
