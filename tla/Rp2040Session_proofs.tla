------------------------ MODULE Rp2040Session_proofs ------------------------
(***************************************************************************)
(* For every number of sectors, every erase block and bounce buffer, every *)
(* set of options and cores and any number of failures: what a Session     *)
(* reports is so, what it promises about flash and the wire is kept.       *)
(***************************************************************************)
EXTENDS Rp2040Session, InductionFacts, TLAPS

USE ChipAssumption, RunAssumption, SessionAssumption

-----------------------------------------------------------------------------
(* Types. *)

ResetPlaces == {"release", "demcr", "arm", "sysreset", "poll", "disarm", "settle"}
ReadPlaces == {"ssi", "read", "mapAttach", "mapIF", "mapEX", "mapFC", "mapCX"}
WritePlaces == {"prepIF", "prepEX", "erase", "program", "call"}
Places == {"idle", "attach", "plan", "finFC", "finCX", "verify"}
          \cup ResetPlaces \cup ReadPlaces \cup WritePlaces

Resets == {"no", "halt", "run"}
Asked == [erase : {"auto", "all", "none"}, pre : BOOLEAN, verify : BOOLEAN, reset : Resets]
Run == [op : {"none", "program", "read", "reset"}, at : Places, opts : Asked,
        plan : [Sectors -> {"skip", "erase", "program"}], next : Nat,
        err : BOOLEAN, verified : BOOLEAN, wasMapped : BOOLEAN, saw : BOOLEAN,
        wasReset : BOOLEAN]
Result == [op : {"none", "program", "read", "reset", "open", "close", "rescue"},
           ok : BOOLEAN, verified : BOOLEAN, mapped : BOOLEAN, wasReset : BOOLEAN,
           reset : Resets]

FlasherTyped ==
  /\ chip \in Chip
  /\ csw \in {"fixed", "moved"} /\ cswSet \in BOOLEAN
  /\ run \in Run /\ cancelled \in BOOLEAN /\ faults \in 0..MaxFaults
  /\ result \in Result

Stages == {"idle", "switch", "idr", "init", "dormant", "clear", "assert", "deassert", "check"}
WireTyped ==
  /\ wire \in Wire
  /\ bring \in [op : {"none", "open", "close", "rescue"}, at : Stages,
                target : Cores \cup {Port, None}]
  /\ session \in Cores \cup {Port, None}

-----------------------------------------------------------------------------
(* What is true at each place of a call on the Session. *)

\* A result is that of the last call, and stands until the next.
OneCall ==
  /\ BringIdle \/ At("idle")
  /\ ~ BringIdle \/ ~ At("idle") => result.op = "none"
  /\ ~ At("idle") => session # None
  /\ run.op = "none" <=> At("idle")

\* Which call may be where.
Placed ==
  /\ run.op = "read" => run.at \in ReadPlaces
  /\ run.op = "reset" => run.at \in ResetPlaces
  /\ run.at \in ResetPlaces => run.opts.reset # "no"
  /\ run.at = "plan" => ~ NeedsRead(run.opts)
  /\ run.at = "call" => NextProgram # {}

\* Flash is mapped as it was until Prep, and mapped behind Finish.
KnowsMapped ==
  /\ run.at \in {"attach", "ssi", "mapAttach"} => chip.mapped = run.wasMapped
  /\ run.at \in {"read", "verify"} => chip.mapped
  /\ run.op = "program" /\ run.at \in ResetPlaces /\ ~ (run.wasReset /\ HaltAfter) => chip.mapped
  /\ run.at = "sysreset" => chip.catch = HaltAfter

\* A reset seen by the polls of FlashImage is its own.
OwnReset ==
  /\ run.op = "program" /\ ~ run.wasReset =>
       ~ run.saw /\ (run.at # "attach" => ~ chip.resetSt)
  /\ run.at \in {"disarm", "settle"} => run.saw

\* Verified is said of what is in flash now.
AllImage == \A s \in Sectors : chip.flash[s] = "image"
VerifiedNow == run.verified => run.at \in {"verify"} \cup ResetPlaces /\ AllImage

\* What EraseAuto is still to touch is not the image.
ToDo(s) ==
  /\ run.at \in {"program", "call"} => s >= run.next
  /\ run.plan[s] # "skip"
LeftWrong ==
  run.opts.erase = "auto" /\ run.at \in WritePlaces =>
    \A s \in Sectors : ToDo(s) => chip.flash[s] # "image"

FlasherInv ==
  /\ FlasherTyped /\ Placed /\ KnowsMapped /\ OwnReset /\ VerifiedNow /\ LeftWrong
  /\ BatchesWordSized

-----------------------------------------------------------------------------
(* What is true at each stage of a call that brings the wire up or down. *)

SelectedSeen(t) == [mode |-> "swd", sel |-> t, seen |-> TRUE]
Staged ==
  /\ bring.op = "none" \/ bring.at = "idle" => BringIdle
  /\ bring.op = "rescue" => bring.target = Port
  /\ bring.op = "open" => bring.target # None
  /\ bring.at \in {"switch", "idr"} => bring.op \in {"open", "rescue"}
  /\ bring.at = "init" => bring.op = "open"
  /\ bring.at \in {"clear", "assert", "deassert", "check"} => bring.op = "rescue"
  /\ bring.op \in {"open", "rescue"} => session = None

HasWire ==
  /\ session # None => wire = SelectedSeen(session) /\ ~ chip.held
  /\ bring.at = "idr" => wire = Selected(bring.target)
  /\ bring.at \in {"init", "clear", "assert", "deassert", "check"} =>
       wire = SelectedSeen(bring.target)
  /\ bring.at = "init" => bring.target \in Cores /\ ~ chip.held

LetsGo ==
  /\ bring.at = "deassert" => chip.held
  /\ bring.at = "check" => chip.held \/ chip.resetSt
  /\ bring.at = "dormant" /\ bring.op = "rescue" => ~ chip.held /\ chip.resetSt

WireInv == WireTyped /\ Staged /\ HasWire /\ LetsGo

Results == ReadsAreFlash /\ BootsAfter /\ ResetDone /\ WireOwned
Inv == OneCall /\ FlasherInv /\ WireInv /\ Results

-----------------------------------------------------------------------------
LEMMA Lists ==
  /\ Idle \in Run /\ NoResult \in Result
  /\ Idle.op = "none" /\ Idle.at = "idle" /\ ~ Idle.verified
  /\ NoResult.op = "none"
BY DEF Idle, Run, Nothing, NoPlan, Asked, Places, Resets, NoResult, Result

\* A chip that was changed in some respects is a chip.
LEMMA ChipSteps ==
  ASSUME NEW c \in Chip
  PROVE  /\ Halt(c) \in Chip /\ Resume(c) \in Chip /\ SeeReset(c) \in Chip
         /\ Unmapped(c) \in Chip /\ Mapped(c) \in Chip
         /\ ResetsTo(c) \subseteq Chip
         /\ Hold(c) \in Chip /\ Release(c) \in Chip
<1>1. Halt(c) \in Chip /\ Resume(c) \in Chip /\ SeeReset(c) \in Chip
  BY DEF Halt, Resume, SeeReset, Chip
<1>2. Unmapped(c) \in Chip /\ Mapped(c) \in Chip
  BY DEF Unmapped, Mapped, Chip
<1>3. ResetsTo(c) \subseteq Chip
  <2>1. ASSUME NEW m \in BOOLEAN
        PROVE  [c EXCEPT !.resetSt = TRUE, !.halted = c.catch, !.mapped = m] \in Chip
    BY DEF Chip
  <2>2. c.catch \in BOOLEAN
    BY DEF Chip
  <2> QED BY <2>1, <2>2 DEF ResetsTo
<1>4. Hold(c) \in Chip
  BY DEF Hold, Chip
<1>5. Release(c) \in Chip
  BY DEF Release, Chip
<1> QED BY <1>1, <1>2, <1>3, <1>4, <1>5

\* What such a change leaves alone.
LEMMA ChipFields ==
  ASSUME NEW c \in Chip
  PROVE  /\ \A d \in {Halt(c), Resume(c), SeeReset(c)} :
              d.mapped = c.mapped /\ d.flash = c.flash /\ d.held = c.held /\ d.catch = c.catch
         /\ Halt(c).resetSt = c.resetSt /\ Halt(c).halted
         /\ Resume(c).resetSt = c.resetSt /\ ~ Resume(c).halted
         /\ ~ SeeReset(c).resetSt /\ SeeReset(c).halted = c.halted
         /\ \A d \in {Unmapped(c), Mapped(c)} :
              d.flash = c.flash /\ d.held = c.held /\ d.resetSt = c.resetSt
              /\ d.catch = c.catch
         /\ Mapped(c).mapped /\ ~ Unmapped(c).mapped
         /\ \A d \in ResetsTo(c) : d.resetSt /\ d.halted = c.catch /\ (~ c.catch => d.mapped)
              /\ d.flash = c.flash /\ d.held = c.held
<1>1. \A d \in {Halt(c), Resume(c), SeeReset(c)} :
        d.mapped = c.mapped /\ d.flash = c.flash /\ d.held = c.held /\ d.catch = c.catch
  BY DEF Halt, Resume, SeeReset, Chip
<1>3. /\ Halt(c).resetSt = c.resetSt /\ Halt(c).halted
      /\ Resume(c).resetSt = c.resetSt /\ ~ Resume(c).halted
      /\ ~ SeeReset(c).resetSt /\ SeeReset(c).halted = c.halted
  BY DEF Halt, Resume, SeeReset, Chip
<1>4. /\ \A d \in {Unmapped(c), Mapped(c)} :
           d.flash = c.flash /\ d.held = c.held /\ d.resetSt = c.resetSt /\ d.catch = c.catch
      /\ Mapped(c).mapped /\ ~ Unmapped(c).mapped
  BY DEF Unmapped, Mapped, Chip
<1>5. \A d \in ResetsTo(c) : d.resetSt /\ d.halted = c.catch /\ (~ c.catch => d.mapped)
        /\ d.flash = c.flash /\ d.held = c.held
  <2> SUFFICES ASSUME NEW d \in ResetsTo(c)
               PROVE  d.resetSt /\ d.halted = c.catch /\ (~ c.catch => d.mapped)
                      /\ d.flash = c.flash /\ d.held = c.held
    OBVIOUS
  <2>1. PICK m \in IF c.catch THEN BOOLEAN ELSE {TRUE} :
          d = [c EXCEPT !.resetSt = TRUE, !.halted = c.catch, !.mapped = m]
    BY DEF ResetsTo
  <2>2. ~ c.catch => m
    BY <2>1
  <2>3. d.resetSt /\ d.halted = c.catch /\ d.mapped = m /\ d.flash = c.flash /\ d.held = c.held
    BY <2>1 DEF Chip
  <2> QED BY <2>2, <2>3
<1> QED BY <1>1, <1>3, <1>4, <1>5

LEMMA FlashSteps ==
  ASSUME NEW c \in Chip, NEW range, NEW to \in [Contents -> Contents]
  PROVE  Whole(c, range, to) \in Chip /\ Partly(c, range, to) \subseteq Chip
<1>1. Whole(c, range, to) \in Chip
  BY DEF Whole, Chip
<1>2. Partly(c, range, to) \subseteq Chip
  BY DEF Partly, Chip
<1> QED BY <1>1, <1>2

LEMMA Routines == Erased \in [Contents -> Contents] /\ Programmed \in [Contents -> Contents]
BY DEF Erased, Programmed, Contents

-----------------------------------------------------------------------------
(* What every step on the Session has in common. *)

\* The access size after a step, the chip after one, and the faults.
Sized == csw' \in {"fixed", "moved"} /\ cswSet' \in BOOLEAN /\ BatchesWordSized'
OneChip == chip' \in Chip /\ chip'.held = chip.held
Counted == faults' \in 0..MaxFaults /\ cancelled' \in BOOLEAN

LEMMA AccessSizes ==
  ASSUME FlasherTyped, BatchesWordSized,
         \/ MemBlock \/ MemReg \/ Batch \/ BatchFails \/ UNCHANGED <<csw, cswSet>>
         \/ csw' \in {csw, "fixed", "moved"} /\ cswSet' = FALSE
  PROVE  Sized
<1> USE DEF Sized, BatchesWordSized
<1>1. cswSet \in BOOLEAN /\ csw \in {"fixed", "moved"}
  BY DEF FlasherTyped
<1>2. CASE MemBlock \/ (csw' \in {csw, "fixed", "moved"} /\ cswSet' = FALSE)
  BY <1>1, <1>2 DEF MemBlock
<1>4. CASE MemReg \/ UNCHANGED <<csw, cswSet>>
  <2>1. cswSet' = cswSet /\ csw' \in {csw, "fixed"}
    BY <1>4 DEF MemReg
  <2>2. cswSet' \in BOOLEAN /\ csw' \in {"fixed", "moved"}
    BY <1>1, <2>1
  <2>3. cswSet' => csw' = "fixed"
    BY <2>1
  <2> QED BY <2>2, <2>3
<1>3. CASE Batch \/ BatchFails
  <2>1. CASE cswSet
    BY <1>1, <1>3, <2>1 DEF Batch, BatchFails
  <2>2. CASE ~ cswSet
    BY <1>1, <1>3, <2>2 DEF Batch, BatchFails
  <2> QED BY <2>1, <2>2
<1> QED BY <1>2, <1>3, <1>4

LEMMA Faults ==
  ASSUME FlasherTyped, Answered \/ Fault
  PROVE  faults' \in 0..MaxFaults
BY DEF FlasherTyped, Answered, Fault, FaultMet

\* A call goes on from one place to the next.
LEMMA GoesOn ==
  ASSUME Inv, OnSession, ~ At("idle"), OneChip, Sized, Counted, UNCHANGED result,
         run' \in Run, run'.op = run.op, run'.at # "idle",
         Placed', KnowsMapped', OwnReset', VerifiedNow', LeftWrong'
  PROVE  Inv'
<1> USE DEF OnSession
<1>1. BringIdle' /\ result'.op = "none"
  BY DEF Inv, OneCall, BringIdle
<1>2. OneCall'
  BY <1>1 DEF Inv, OneCall, At
<1>3. FlasherInv'
  BY DEF Inv, FlasherInv, FlasherTyped, OneChip, Sized, Counted
<1>4. WireInv'
  BY DEF Inv, WireInv, WireTyped, Staged, HasWire, LetsGo, BringIdle, Resting, OneChip
<1>5. Results'
  BY <1>1, <1>4 DEF Results, ReadsAreFlash, BootsAfter, ResetDone, WireOwned, WireInv,
                    HasWire, SelectedSeen, Selected
<1> QED BY <1>2, <1>3, <1>4, <1>5 DEF Inv

\* A call returns, and what it reports is so.
Boots(settled, ok) ==
  run.op \in {"program", "read"} /\ settled /\ (run.wasMapped \/ ok)
  /\ ~ (run.wasReset /\ HaltAfter) => chip'.mapped
LeftAsAsked(ok) ==
  ok /\ run.op \in {"program", "reset"} /\ run.opts.reset # "no" =>
    chip'.halted = HaltAfter /\ (run.op = "program" => run.wasReset)
LEMMA Returned ==
  ASSUME Inv, OnSession, ~ At("idle"), OneChip, Sized, faults' \in 0..MaxFaults,
         NEW ok \in BOOLEAN, NEW settled \in BOOLEAN, NEW verified \in BOOLEAN,
         ReturnWith(ok, settled, verified),
         run.op = "program" /\ verified => AllImage',
         run.op = "read" /\ ok => chip'.mapped,
         Boots(settled, ok), LeftAsAsked(ok)
  PROVE  Inv'
<1> USE DEF OnSession
<1>1. run \in Run /\ run.op # "none" /\ BringIdle'
  BY DEF Inv, FlasherInv, FlasherTyped, OneCall, BringIdle
<1>2. run' = Idle /\ run'.op = "none" /\ run'.at = "idle" /\ ~ run'.verified /\ run' \in Run
  BY Lists DEF ReturnWith
<1>3. result' \in Result /\ result'.op = run.op /\ result'.op \in {"program", "read", "reset"}
      /\ result'.ok = ok /\ result'.verified = verified /\ result'.reset = run.opts.reset
      /\ result'.mapped = (settled /\ (run.wasMapped \/ ok)) /\ result'.wasReset = run.wasReset
  BY <1>1 DEF ReturnWith, Result, Run, Asked
<1>4. OneCall'
  BY <1>1, <1>2 DEF OneCall, At
<1>5. FlasherInv'
  <2>1. FlasherTyped'
    BY <1>2, <1>3 DEF FlasherTyped, OneChip, Sized, ReturnWith
  <2>2. Placed' /\ KnowsMapped' /\ OwnReset' /\ VerifiedNow' /\ LeftWrong'
    BY <1>2 DEF Placed, KnowsMapped, OwnReset, VerifiedNow, LeftWrong, ResetPlaces, WritePlaces
  <2> QED BY <2>1, <2>2 DEF FlasherInv, Sized
<1>6. WireInv'
  BY DEF Inv, WireInv, WireTyped, Staged, HasWire, LetsGo, BringIdle, Resting, OneChip
<1>7. Results'
  <2>1. ReadsAreFlash'
    BY <1>3 DEF ReadsAreFlash, AllImage
  <2>2. BootsAfter'
    BY <1>3 DEF BootsAfter, Boots, HaltAfter
  <2>3. ResetDone'
    BY <1>3 DEF ResetDone, LeftAsAsked, HaltAfter
  <2>4. WireOwned'
    BY <1>3, <1>6 DEF WireOwned, WireInv, HasWire, SelectedSeen, Selected
  <2> QED BY <2>1, <2>2, <2>3, <2>4 DEF Results
<1> QED BY <1>4, <1>5, <1>6, <1>7 DEF Inv

-----------------------------------------------------------------------------
(* The calls begin, and the core is stopped. *)

LEMMA CommandKeeps ==
  ASSUME Inv, OnSession, Commands
  PROVE  Inv'
<1> USE DEF OnSession
<1>1. PICK op \in {"program", "read", "reset"}, o \in Asked,
           step \in {"attach", "ssi", "release"} :
        /\ Start(op, o, step)
        /\ op = "program" <=> step = "attach"
        /\ op = "read" <=> step = "ssi"
        /\ step = "release" => o.reset # "no"
  <2>1. CASE FlashImage
    <3>1. PICK o \in Options : Start("program", o, "attach")
      BY <2>1 DEF FlashImage
    <3>2. o \in Asked
      BY DEF Asked, Resets, RunAssumption
    <3> QED BY <3>1, <3>2
  <2>2. CASE ReadMemory
    <3>1. Nothing \in Asked
      BY DEF Nothing, Asked, Resets
    <3> QED BY <2>2, <3>1 DEF ReadMemory
  <2>3. CASE Reset
    <3>1. PICK r \in {"halt", "run"} : Start("reset", [Nothing EXCEPT !.reset = r], "release")
      BY <2>3 DEF Reset
    <3> DEFINE o == [Nothing EXCEPT !.reset = r]
    <3>2. o \in Asked /\ o.reset # "no"
      BY DEF Nothing, Asked, Resets
    <3> QED BY <3>1, <3>2
  <2> QED BY <2>1, <2>2, <2>3 DEF Commands
<1>2. /\ run'.op = op /\ run'.at = step /\ run'.opts = o /\ run'.wasMapped = chip.mapped
      /\ ~ run'.verified /\ ~ run'.saw /\ ~ run'.wasReset /\ run' \in Run
  <2>1. chip.mapped \in BOOLEAN
    BY DEF Inv, FlasherInv, FlasherTyped, Chip
  <2> QED BY <1>1, <2>1 DEF Start, Idle, Run, Nothing, NoPlan, Asked, Places, Resets,
                            ResetPlaces, ReadPlaces
<1>3. UNCHANGED <<chip, csw, cswSet, cancelled, faults>> /\ result' = NoResult /\ At("idle")
  BY <1>1 DEF Start
<1>4. OneCall'
  BY <1>2, <1>3, Lists DEF OneCall, At, BringIdle
<1>5. FlasherInv'
  <2>1. FlasherTyped' /\ BatchesWordSized'
    BY <1>2, <1>3, Lists DEF FlasherTyped, BatchesWordSized, Inv, FlasherInv
  <2>2. Placed' /\ LeftWrong'
    BY <1>1, <1>2 DEF Placed, LeftWrong, ReadPlaces, ResetPlaces, WritePlaces
  <2>3. KnowsMapped'
    BY <1>1, <1>2, <1>3 DEF KnowsMapped, ResetPlaces
  <2>4. OwnReset' /\ VerifiedNow'
    BY <1>1, <1>2 DEF OwnReset, VerifiedNow
  <2> QED BY <2>1, <2>2, <2>3, <2>4 DEF FlasherInv
<1>6. WireInv'
  BY <1>3 DEF Inv, WireInv, WireTyped, Staged, HasWire, LetsGo, BringIdle, Resting
<1>7. Results'
  BY <1>3, <1>6, Lists DEF Results, ReadsAreFlash, BootsAfter, ResetDone, WireOwned, WireInv,
                    HasWire, SelectedSeen, Selected
<1> QED BY <1>4, <1>5, <1>6, <1>7 DEF Inv

\* What the invariant says of a call that runs.
LEMMA Running ==
  ASSUME Inv
  PROVE  /\ chip \in Chip /\ run \in Run /\ run.opts \in Asked /\ cancelled \in BOOLEAN
         /\ faults \in 0..MaxFaults /\ csw \in {"fixed", "moved"} /\ cswSet \in BOOLEAN
         /\ run.plan \in [Sectors -> {"skip", "erase", "program"}]
         /\ FlasherTyped /\ Placed /\ KnowsMapped /\ OwnReset /\ VerifiedNow /\ LeftWrong
         /\ BatchesWordSized /\ (At("idle") <=> run.op = "none")
BY DEF Inv, FlasherInv, FlasherTyped, OneCall, Run

LEMMA CancelKeeps ==
  ASSUME Inv, OnSession, Cancel
  PROVE  Inv'
<1>1. OneChip /\ Sized /\ Counted /\ UNCHANGED <<result, run, chip>> /\ ~ At("idle")
  BY Running, AccessSizes DEF Cancel, OneChip, Counted
<1>2. Placed' /\ KnowsMapped' /\ OwnReset' /\ VerifiedNow' /\ LeftWrong'
  <2>1. NextProgram' = NextProgram
    BY <1>1 DEF NextProgram, Wanted
  <2> QED BY <1>1, <2>1, Running DEF Placed, KnowsMapped, OwnReset, VerifiedNow, LeftWrong,
                                     AllImage, ToDo, HaltAfter
<1> QED BY <1>1, <1>2, Running, GoesOn DEF At

LEMMA AttachKeeps ==
  ASSUME Inv, OnSession, Attach
  PROVE  Inv'
<1>1. ~ At("idle") /\ Sized /\ faults' \in 0..MaxFaults
  BY Running, AccessSizes, Faults DEF Attach, At, LoadJumpTable
<1>2. OneChip /\ chip'.mapped = chip.mapped /\ chip'.flash = chip.flash
      /\ (chip' = Stopped(chip) => ~ chip'.resetSt)
  <2>1. chip' \in {chip, Halt(chip), Stopped(chip)}
    BY DEF Attach, Left
  <2> DEFINE h == Halt(chip)
  <2>2. h \in Chip /\ h.mapped = chip.mapped /\ h.flash = chip.flash /\ h.held = chip.held
    BY Running, ChipSteps, ChipFields
  <2>3. SeeReset(h) \in Chip /\ SeeReset(h).mapped = h.mapped /\ SeeReset(h).flash = h.flash
        /\ SeeReset(h).held = h.held /\ ~ SeeReset(h).resetSt
    <3> HIDE DEF h
    <3> QED BY <2>2, ChipSteps, ChipFields
  <2> QED BY <2>1, <2>2, <2>3, Running DEF OneChip, Stopped
<1>3. CASE Answered /\ chip' = Stopped(chip) /\ LoadJumpTable
        /\ Goto(IF At("mapAttach") THEN "mapIF"
                ELSE IF NeedsRead(run.opts) THEN "ssi" ELSE "plan")
  <2>1. /\ run'.at = IF At("mapAttach") THEN "mapIF"
                     ELSE IF NeedsRead(run.opts) THEN "ssi" ELSE "plan"
        /\ run' = [run EXCEPT !.at = run'.at] /\ run' \in Run
    BY <1>3, Running DEF Goto, Run, Places, ReadPlaces
  <2>2. UNCHANGED <<cancelled, result>>
    BY <1>3 DEF Goto
  <2>3. Placed' /\ LeftWrong' /\ VerifiedNow'
    BY <2>1, Running DEF Placed, LeftWrong, VerifiedNow, Attach, At, ReadPlaces, ResetPlaces,
                         WritePlaces, Run
  <2>4. KnowsMapped' /\ OwnReset'
    BY <1>2, <1>3, <2>1, Running DEF KnowsMapped, OwnReset, Attach, At, ResetPlaces, Run, ReadPlaces
  <2> QED BY <1>1, <1>2, <2>1, <2>2, <2>3, <2>4, Running, GoesOn DEF Counted, Run
<1>4. CASE Return(FALSE, TRUE)
  <2>1. ~ run.verified /\ (run.at \in {"attach", "mapAttach"})
    BY Running DEF Attach, At, VerifiedNow, ResetPlaces
  <2>2. Boots(TRUE, FALSE)
    BY <1>2, <2>1, Running DEF Boots, KnowsMapped
  <2> QED BY <1>1, <1>2, <1>4, <2>1, <2>2, Returned, Running DEF Return, LeftAsAsked, Run
<1> QED BY <1>3, <1>4 DEF Attach

LEMMA EnsureXIPKeeps ==
  ASSUME Inv, OnSession, EnsureXIP
  PROVE  Inv'
<1>1. ~ At("idle") /\ Sized /\ faults' \in 0..MaxFaults /\ OneChip /\ UNCHANGED chip
  BY Running, AccessSizes, Faults DEF EnsureXIP, At, OneChip
<1>2. CASE Goto(IF chip.mapped THEN "read" ELSE "mapAttach")
  <2>1. /\ run'.at = IF chip.mapped THEN "read" ELSE "mapAttach"
        /\ run' = [run EXCEPT !.at = run'.at] /\ run' \in Run
    BY <1>2, Running DEF Goto, Run, Places, ReadPlaces
  <2>2. Placed' /\ LeftWrong' /\ VerifiedNow'
    BY <2>1, Running DEF Placed, LeftWrong, VerifiedNow, EnsureXIP, At, ReadPlaces, ResetPlaces,
                         WritePlaces, Run
  <2>3. KnowsMapped' /\ OwnReset'
    BY <1>1, <2>1, Running DEF KnowsMapped, OwnReset, EnsureXIP, At, ResetPlaces, Run
  <2> QED BY <1>1, <1>2, <2>1, <2>2, <2>3, Running, GoesOn DEF Counted, Goto, Run
<1>3. CASE Return(FALSE, TRUE)
  <2>1. ~ run.verified /\ Boots(TRUE, FALSE)
    BY <1>1, Running DEF EnsureXIP, At, VerifiedNow, ResetPlaces, Boots, KnowsMapped
  <2> QED BY <1>1, <1>3, <2>1, Returned, Running DEF Return, LeftAsAsked, Run
<1> QED BY <1>2, <1>3 DEF EnsureXIP

-----------------------------------------------------------------------------
(* Bootrom calls. *)

LEMMA RomCall ==
  ASSUME Inv, NEW after \in Chip, after.held = chip.held,
         Ran(after) \/ Failed({after})
  PROVE  /\ OneChip /\ Sized /\ faults' \in 0..MaxFaults
         /\ chip'.mapped \in {chip.mapped, after.mapped}
         /\ chip'.flash \in {chip.flash, after.flash}
         /\ chip'.resetSt \in {chip.resetSt, after.resetSt}
<1>1. Sized /\ faults' \in 0..MaxFaults
  BY Running, AccessSizes, Faults DEF Ran, Failed
<1>2. chip' \in {chip, after, Halt(after)}
  BY DEF Ran, Failed, Left
<1> DEFINE h == Halt(after)
<1>3. h \in Chip /\ h.mapped = after.mapped /\ h.flash = after.flash /\ h.held = after.held
      /\ h.resetSt = after.resetSt
  BY ChipSteps, ChipFields
<1> HIDE DEF h
<1>4. chip' \in {chip, after, h}
  BY <1>2 DEF h
<1> QED BY <1>1, <1>3, <1>4, Running DEF OneChip

LEMMA PrepKeeps ==
  ASSUME Inv, OnSession, Prep
  PROVE  Inv'
<1>1. PICK s \in {"mapIF", "prepIF", "mapEX", "prepEX"} :
        LET after == IF s \in {"mapEX", "prepEX"} THEN Unmapped(chip) ELSE chip IN
        /\ At(s)
        /\ \/ Ran(after) /\ Goto(Then[s])
           \/ Failed({after}) /\ Return(FALSE, FALSE)
  BY DEF Prep
<1> DEFINE after == IF s \in {"mapEX", "prepEX"} THEN Unmapped(chip) ELSE chip
<1>2. after \in Chip /\ after.held = chip.held /\ after.flash = chip.flash
      /\ after.resetSt = chip.resetSt
  <2>1. chip \in Chip
    BY Running
  <2>2. Unmapped(chip) \in Chip
    BY <2>1, ChipSteps
  <2>3. /\ Unmapped(chip).held = chip.held /\ Unmapped(chip).flash = chip.flash
        /\ Unmapped(chip).resetSt = chip.resetSt
    BY <2>1, ChipFields
  <2> QED BY <2>1, <2>2, <2>3
<1>3. run.at = s /\ ((Ran(after) /\ Goto(Then[s])) \/ (Failed({after}) /\ Return(FALSE, FALSE)))
  BY <1>1 DEF At
<1> HIDE DEF after
<1>4. ~ At("idle") /\ Sized /\ faults' \in 0..MaxFaults /\ OneChip
      /\ chip'.flash = chip.flash /\ chip'.resetSt = chip.resetSt
  BY <1>2, <1>3, RomCall DEF At
<1>5. CASE Goto(Then[s])
  <2>1. Then[s] = IF s = "mapIF" THEN "mapEX" ELSE IF s = "prepIF" THEN "prepEX"
                  ELSE IF s = "mapEX" THEN "mapFC" ELSE "erase"
    BY DEF Then
  <2>2. run'.at = Then[s] /\ run' = [run EXCEPT !.at = run'.at] /\ run' \in Run
    BY <1>5, <2>1, Running DEF Goto, Run, Places, ReadPlaces, WritePlaces
  <2>3. Placed' /\ VerifiedNow'
    BY <1>3, <2>1, <2>2, Running DEF Placed, VerifiedNow, ReadPlaces, ResetPlaces, Run
  <2>4. KnowsMapped' /\ OwnReset'
    BY <1>3, <1>4, <2>1, <2>2, Running DEF KnowsMapped, OwnReset, ResetPlaces, Run
  <2>5. LeftWrong'
    BY <1>3, <1>4, <2>1, <2>2, Running DEF LeftWrong, ToDo, WritePlaces, Run
  <2> QED BY <1>4, <1>5, <2>1, <2>2, <2>3, <2>4, <2>5, Running, GoesOn DEF Counted, Goto, Run
<1>6. CASE Return(FALSE, FALSE)
  <2>1. ~ run.verified
    BY <1>3, Running DEF VerifiedNow, ResetPlaces
  <2> QED BY <1>4, <1>6, <2>1, Returned, Running DEF Return, LeftAsAsked, Boots, Run
<1> QED BY <1>3, <1>5, <1>6

LEMMA FlushCacheKeeps ==
  ASSUME Inv, OnSession, FlushCache
  PROVE  Inv'
<1>1. run.at \in {"mapFC", "finFC"} /\ (Ran(chip) \/ Failed({chip}))
  BY DEF FlushCache, At
<1>2. ~ At("idle") /\ Sized /\ faults' \in 0..MaxFaults /\ OneChip
      /\ chip'.resetSt = chip.resetSt
  BY <1>1, Running, RomCall DEF At
<1>3. Then[run.at] = IF run.at = "mapFC" THEN "mapCX" ELSE "finCX"
  BY <1>1 DEF Then
<1>4. \E e \in BOOLEAN : run' = [run EXCEPT !.at = Then[run.at], !.err = e]
  <2>1. CASE Goto(Then[run.at])
    <3>1. run' = [run EXCEPT !.at = Then[run.at], !.err = run.err] /\ run.err \in BOOLEAN
      BY <2>1, Running DEF Goto, Run
    <3> QED BY <3>1
  <2> QED BY <2>1 DEF FlushCache
<1>5. UNCHANGED <<cancelled, result>>
  BY DEF FlushCache, Goto
<1>6. run'.at \in {"mapCX", "finCX"} /\ run' \in Run /\ run'.op = run.op
      /\ run'.verified = run.verified /\ run'.saw = run.saw /\ run'.wasReset = run.wasReset
      /\ (run'.at = "finCX" => run.at = "finFC")
  BY <1>1, <1>3, <1>4, Running DEF Run, Places, ReadPlaces
<1>7. Placed' /\ VerifiedNow' /\ LeftWrong'
  BY <1>1, <1>6, Running DEF Placed, VerifiedNow, LeftWrong, ReadPlaces, ResetPlaces, WritePlaces
<1>8. KnowsMapped' /\ OwnReset'
  BY <1>1, <1>2, <1>6, Running DEF KnowsMapped, OwnReset, ResetPlaces
<1> QED BY <1>2, <1>5, <1>6, <1>7, <1>8, Running, GoesOn DEF Counted

LEMMA EnterXIPKeeps ==
  ASSUME Inv, OnSession, EnterXIP
  PROVE  Inv'
<1>1. run.at \in {"mapCX", "finCX"}
      /\ \/ Ran(Mapped(chip)) /\ (Goto(Then[run.at]) \/ Return(FALSE, TRUE))
         \/ Failed({Mapped(chip)}) /\ Return(FALSE, FALSE)
  BY DEF EnterXIP, At
<1> DEFINE m == Mapped(chip)
<1>2. m \in Chip /\ m.mapped /\ m.flash = chip.flash /\ m.resetSt = chip.resetSt
      /\ m.held = chip.held
  BY Running, ChipSteps, ChipFields
<1> HIDE DEF m
<1>3. ~ At("idle") /\ Sized /\ faults' \in 0..MaxFaults /\ OneChip
      /\ chip'.flash = chip.flash /\ chip'.resetSt = chip.resetSt
  BY <1>1, <1>2, RomCall DEF At, m
<1>4. Ran(m) => chip'.mapped
  BY <1>2, ChipFields DEF Ran
<1>5. ~ run.verified
  BY <1>1, Running DEF VerifiedNow, ResetPlaces
<1>6. CASE Ran(m) /\ Goto(Then[run.at])
  <2>1. Then[run.at] = IF run.at = "mapCX" THEN "read" ELSE "verify"
    BY <1>1 DEF Then
  <2>2. run'.at = Then[run.at] /\ run' = [run EXCEPT !.at = run'.at] /\ run' \in Run
    BY <1>1, <1>6, <2>1, Running DEF Goto, Run, Places, ReadPlaces, WritePlaces
  <2>3. Placed' /\ VerifiedNow' /\ LeftWrong'
    BY <1>1, <1>5, <2>1, <2>2, Running
    DEF Placed, VerifiedNow, LeftWrong, ReadPlaces, ResetPlaces, WritePlaces, Run
  <2>4. KnowsMapped' /\ OwnReset'
    BY <1>1, <1>3, <1>4, <1>6, <2>1, <2>2, Running DEF KnowsMapped, OwnReset, ResetPlaces, Run
  <2> QED BY <1>1, <1>3, <1>6, <2>1, <2>2, <2>3, <2>4, Running, GoesOn DEF Counted, Goto, Run
<1>7. CASE Ran(m) /\ Return(FALSE, TRUE)
  BY <1>3, <1>4, <1>5, <1>7, Returned, Running DEF Return, LeftAsAsked, Boots, Run
<1>8. CASE Return(FALSE, FALSE)
  BY <1>3, <1>5, <1>8, Returned, Running DEF Return, LeftAsAsked, Boots, Run
<1> QED BY <1>1, <1>6, <1>7, <1>8 DEF m

-----------------------------------------------------------------------------
(* The plan. *)

LEMMA Planned ==
  ASSUME Inv, OnSession, UNCHANGED chip, Sized, faults' \in 0..MaxFaults,
         run.at \in {"plan", "read"}, run.op # "read",
         NEW plan \in [Sectors -> {"skip", "erase", "program"}], NEW verified \in BOOLEAN,
         Plan(plan, verified),
         verified => AllImage /\ plan = NoPlan,
         plan = NoPlan => chip.mapped,
         run.opts.erase = "auto" =>
           \A s \in Sectors : plan[s] # "skip" => chip.flash[s] # "image"
  PROVE  Inv'
<1>1. ~ At("idle") /\ OneChip
  BY Running DEF OneChip, At
<1>2. run'.at = (IF plan = NoPlan THEN "verify" ELSE "prepIF")
      /\ run' = [run EXCEPT !.plan = plan, !.verified = verified, !.at = run'.at]
      /\ UNCHANGED <<cancelled, result>>
  BY Running DEF Plan, Run
<1>3. run' \in Run /\ run'.op = run.op /\ run'.opts = run.opts /\ run'.plan = plan
      /\ run'.verified = verified /\ run'.saw = run.saw /\ run'.wasReset = run.wasReset
  <2>1. run \in Run
    BY Running
  <2>2. run'.at \in Places
    BY <1>2 DEF Places, WritePlaces
  <2>3. run' \in Run
    BY <1>2, <2>1, <2>2 DEF Run
  <2> QED BY <1>2, <2>1, <2>3 DEF Run
<1>4. Placed'
  BY <1>2, <1>3, Running DEF Placed, ResetPlaces, At
<1>5. KnowsMapped' /\ OwnReset'
  BY <1>2, <1>3, Running DEF KnowsMapped, OwnReset, ResetPlaces
<1>6. VerifiedNow'
  BY <1>2, <1>3 DEF VerifiedNow, AllImage
<1>7. LeftWrong'
  BY <1>2, <1>3 DEF LeftWrong, ToDo, WritePlaces
<1> QED BY <1>1, <1>2, <1>3, <1>4, <1>5, <1>6, <1>7, Running, GoesOn DEF Counted

LEMMA SectorZero == 0 \in Sectors
BY ChipAssumption DEF Sectors

LEMMA PlanUnreadKeeps ==
  ASSUME Inv, OnSession, PlanUnread
  PROVE  Inv'
<1> DEFINE kind == IF run.opts.erase = "none" THEN "program" ELSE "erase"
           plan == [s \in Sectors |-> kind]
<1>1. run.at = "plan" /\ Plan(plan, FALSE) /\ UNCHANGED <<chip, csw, cswSet, faults>>
  BY DEF PlanUnread, At
<1>2. Sized /\ faults' \in 0..MaxFaults
  BY <1>1, Running, AccessSizes
<1>3. run.op # "read" /\ run.opts.erase # "auto"
  BY <1>1, Running DEF Placed, NeedsRead, ReadPlaces
<1>4. plan # NoPlan /\ plan \in [Sectors -> {"skip", "erase", "program"}]
  BY SectorZero DEF NoPlan
<1> HIDE DEF plan
<1> QED BY <1>1, <1>2, <1>3, <1>4, Planned

LEMMA PlanForSkips ==
  ASSUME NEW o \in Asked, NEW seen \in [Sectors -> Contents]
  PROVE  /\ PlanFor(o, seen) \in [Sectors -> {"skip", "erase", "program"}]
         /\ \A s \in Sectors : PlanFor(o, seen)[s] = "skip" <=> seen[s] = "image"
         /\ PlanFor(o, seen) = NoPlan <=> \A s \in Sectors : seen[s] = "image"
<1>1. PlanFor(o, seen) \in [Sectors -> {"skip", "erase", "program"}]
  BY DEF PlanFor
<1>2. \A s \in Sectors : PlanFor(o, seen)[s] = "skip" <=> seen[s] = "image"
  BY DEF PlanFor
<1>3. (\A s \in Sectors : seen[s] = "image") => PlanFor(o, seen) = NoPlan
  BY DEF PlanFor, NoPlan
<1>4. PlanFor(o, seen) = NoPlan => \A s \in Sectors : seen[s] = "image"
  BY <1>2 DEF NoPlan
<1> QED BY <1>1, <1>2, <1>3, <1>4

LEMMA ReadFlashKeeps ==
  ASSUME Inv, OnSession, ReadFlash
  PROVE  Inv'
<1>1. run.at = "read" /\ UNCHANGED chip /\ Sized /\ faults' \in 0..MaxFaults
      /\ ~ At("idle") /\ OneChip
  BY Running, AccessSizes, Faults DEF ReadFlash, At, OneChip
<1>2. chip.mapped /\ ~ run.verified /\ Seen = {chip.flash} /\ chip.flash \in [Sectors -> Contents]
  BY <1>1, Running DEF KnowsMapped, VerifiedNow, ResetPlaces, Seen, Chip
<1>3. CASE run.op = "read" /\ Return(TRUE, TRUE)
  BY <1>1, <1>2, <1>3, Returned, Running DEF Return, LeftAsAsked, Boots, Run
<1>4. CASE Return(FALSE, TRUE)
  BY <1>1, <1>2, <1>4, Returned, Running DEF Return, LeftAsAsked, Boots, Run
<1>5. CASE /\ run.op # "read"
           /\ Plan(PlanFor(run.opts, chip.flash), \A s \in Sectors : chip.flash[s] = "image")
  <2> DEFINE plan == PlanFor(run.opts, chip.flash)
  <2>1. /\ plan \in [Sectors -> {"skip", "erase", "program"}]
        /\ \A s \in Sectors : plan[s] = "skip" <=> chip.flash[s] = "image"
        /\ plan = NoPlan <=> AllImage
    BY <1>2, Running, PlanForSkips DEF AllImage
  <2>2. Plan(plan, AllImage) /\ AllImage \in BOOLEAN
    BY <1>5 DEF AllImage
  <2> HIDE DEF plan
  <2> QED BY <1>1, <1>2, <1>5, <2>1, <2>2, Planned
<1> QED BY <1>2, <1>3, <1>4, <1>5 DEF ReadFlash

-----------------------------------------------------------------------------
(* The write. *)

LEMMA Ranges ==
  ASSUME run \in Run, NEW r \in {NextErase, NextProgram}, r # {}
  PROVE  /\ Max(r) \in Nat /\ Max(r) >= run.next
         /\ \A s \in r : s \in Sectors /\ s <= Max(r) /\ s >= run.next /\ run.plan[s] # "skip"
<1>1. PICK w, last : /\ w \in {Wanted({"erase"}), Wanted({"erase", "program"})} /\ w # {}
                     /\ r = RunFrom(Min(w), w, last)
  BY DEF NextErase, NextProgram
<1>2. w \subseteq Sectors /\ \A s \in w : s >= run.next /\ run.plan[s] # "skip"
  BY <1>1 DEF Wanted
<1>3. Sectors \subseteq Nat /\ Sectors = 0..(NSectors - 1) /\ NSectors - 1 \in Nat
  BY ChipAssumption DEF Sectors
<1>4. Min(w) \in Nat
  BY <1>1, <1>2, <1>3, MinIsLeast
<1>5. r \subseteq w
  <2> SUFFICES ASSUME NEW s \in r PROVE s \in w
    OBVIOUS
  <2>1. s \in Min(w)..last /\ \A t \in Min(w)..s : t \in w
    BY <1>1 DEF RunFrom
  <2>2. s \in Int /\ Min(w) <= s
    BY <1>4, <2>1
  <2> QED BY <1>4, <2>1, <2>2
<1>6. Max(r) \in r /\ Max(r) \in Nat /\ \A s \in r : s <= Max(r)
  BY <1>2, <1>3, <1>5, Greatest
<1> QED BY <1>2, <1>5, <1>6

\* A run of a routine over a range leaves the rest of flash alone, and the part
\* the chip has besides.
LEMMA OnlyInRange ==
  ASSUME NEW c \in Chip, NEW range, NEW to \in [Contents -> Contents],
         NEW d \in {c, Whole(c, range, to)} \cup Partly(c, range, to)
  PROVE  /\ d \in Chip /\ d.held = c.held /\ d.resetSt = c.resetSt /\ d.mapped = c.mapped
         /\ \A s \in Sectors : s \notin range => d.flash[s] = c.flash[s]
         /\ \A s \in Sectors : d.flash[s] # c.flash[s] => d.flash[s] \in {to[c.flash[s]], "other"}
<1>1. CASE d = c
  BY <1>1
<1>2. CASE d = Whole(c, range, to)
  <2>1. d = [c EXCEPT !.flash =
               [s \in Sectors |-> IF s \in range THEN to[c.flash[s]] ELSE c.flash[s]]]
    BY <1>2 DEF Whole, Chip
  <2>2. d.flash = [s \in Sectors |-> IF s \in range THEN to[c.flash[s]] ELSE c.flash[s]]
        /\ d.held = c.held /\ d.resetSt = c.resetSt /\ d.mapped = c.mapped
    BY <2>1 DEF Chip
  <2> QED BY <1>2, <2>2, FlashSteps
<1>3. CASE d \in Partly(c, range, to)
  <2>1. PICK g \in [Sectors -> Contents] :
          /\ d = [c EXCEPT !.flash = g]
          /\ \A s \in Sectors : \/ g[s] = c.flash[s]
                                \/ s \in range /\ g[s] \in {to[c.flash[s]], "other"}
    BY <1>3 DEF Partly
  <2>2. d.flash = g /\ d.held = c.held /\ d.resetSt = c.resetSt /\ d.mapped = c.mapped
    BY <2>1 DEF Chip
  <2> QED BY <1>3, <2>1, <2>2, FlashSteps
<1> QED BY <1>1, <1>2, <1>3

\* An error of the write: Finish still has to map flash again.
LEMMA WriteFailedKeeps ==
  ASSUME Inv, OnSession, OneChip, Sized, faults' \in 0..MaxFaults, WriteFailed,
         run.at \in {"erase", "program", "call"}, chip'.resetSt = chip.resetSt
  PROVE  Inv'
<1>1. run'.at = "finFC" /\ run' = [run EXCEPT !.at = "finFC", !.err = TRUE] /\ run' \in Run
      /\ UNCHANGED <<cancelled, result>> /\ ~ At("idle")
  BY Running DEF WriteFailed, Run, Places, At
<1>2. Placed' /\ VerifiedNow' /\ LeftWrong'
  BY <1>1, Running DEF Placed, VerifiedNow, LeftWrong, ReadPlaces, ResetPlaces, WritePlaces, Run
<1>3. KnowsMapped' /\ OwnReset'
  BY <1>1, Running DEF KnowsMapped, OwnReset, ResetPlaces, Run
<1> QED BY <1>1, <1>2, <1>3, Running, GoesOn DEF Counted, Run

LEMMA WroteKeeps ==
  ASSUME Inv, OnSession, OneChip, Sized, faults' \in 0..MaxFaults,
         run.at \in {"erase", "call"}, chip'.resetSt = chip.resetSt,
         NEW r \in {NextErase, NextProgram}, r # {},
         WriteOn(r, IF run.at = "erase" THEN "erase" ELSE "program"),
         \A s \in Sectors : s \notin r => chip'.flash[s] = chip.flash[s],
         run.at = "erase" => \A s \in Sectors : chip'.flash[s] \in {chip.flash[s], "blank"}
  PROVE  Inv'
<1>1. Max(r) \in Nat /\ Max(r) >= run.next /\ \A s \in r : s <= Max(r)
  BY Running, Ranges
<1>2. run'.at = (IF run.at = "erase" THEN "erase" ELSE "program")
      /\ run' = [run EXCEPT !.next = Max(r) + 1, !.at = run'.at]
      /\ UNCHANGED <<cancelled, result>> /\ ~ At("idle")
  BY Running DEF WriteOn, Run, At
<1>3. run' \in Run /\ run'.next = Max(r) + 1 /\ run'.plan = run.plan /\ run'.opts = run.opts
      /\ run'.op = run.op /\ run'.verified = run.verified /\ run'.saw = run.saw
      /\ run'.wasReset = run.wasReset
  <2>1. run'.at \in Places /\ Max(r) + 1 \in Nat
    BY <1>1, <1>2 DEF Places, WritePlaces
  <2>2. run \in Run
    BY Running
  <2> QED BY <1>2, <2>1, <2>2 DEF Run
<1>4. Placed' /\ VerifiedNow'
  BY <1>2, <1>3, Running DEF Placed, VerifiedNow, ReadPlaces, ResetPlaces
<1>5. KnowsMapped' /\ OwnReset'
  BY <1>2, <1>3, Running DEF KnowsMapped, OwnReset, ResetPlaces
<1>6. LeftWrong'
  <2> SUFFICES ASSUME run.opts.erase = "auto", NEW s \in Sectors, ToDo(s)'
               PROVE  chip'.flash[s] # "image"
    BY <1>3 DEF LeftWrong
  <2>1. run.plan[s] # "skip" /\ (run.at = "call" => s >= Max(r) + 1)
    BY <1>2, <1>3 DEF ToDo
  <2>2. s \in Nat /\ run.next \in Nat
    BY Running DEF Sectors, Run
  <2>3. ToDo(s) /\ (run.at = "call" => s \notin r)
    BY <1>1, <2>1, <2>2 DEF ToDo
  <2>4. chip.flash[s] # "image"
    BY <2>3, Running DEF LeftWrong, WritePlaces
  <2> QED BY <2>3, <2>4
<1> QED BY <1>2, <1>3, <1>4, <1>5, <1>6, Running, GoesOn DEF Counted

LEMMA EraseRangeKeeps ==
  ASSUME Inv, OnSession, EraseRange
  PROVE  Inv'
<1> DEFINE whole == Whole(chip, NextErase, Erased)
           partly == Partly(chip, NextErase, Erased)
<1>1. run.at = "erase" /\ NextErase # {}
      /\ \/ Ran(whole) /\ WriteOn(NextErase, "erase")
         \/ Failed(partly) /\ WriteFailed
  BY DEF EraseRange, At
<1>2. \A d \in {chip, whole} \cup partly :
        /\ d \in Chip /\ d.held = chip.held /\ d.resetSt = chip.resetSt
        /\ \A s \in Sectors : s \notin NextErase => d.flash[s] = chip.flash[s]
        /\ \A s \in Sectors : d.flash[s] # chip.flash[s] =>
             d.flash[s] \in {Erased[chip.flash[s]], "other"}
  BY OnlyInRange, Running, Routines
<1> HIDE DEF whole, partly
<1>3. Sized /\ faults' \in 0..MaxFaults
  BY <1>1, Running, AccessSizes, Faults DEF Ran, Failed
<1>4. CASE Ran(whole) /\ WriteOn(NextErase, "erase")
  <2>1. chip' = Halt(whole) /\ whole \in Chip
    BY <1>2, <1>4 DEF Ran
  <2>2. OneChip /\ chip'.resetSt = chip.resetSt /\ chip'.flash = whole.flash
    <3>1. Halt(whole) \in Chip /\ Halt(whole).held = whole.held
          /\ Halt(whole).resetSt = whole.resetSt /\ Halt(whole).flash = whole.flash
      BY <2>1, ChipSteps, ChipFields
    <3> QED BY <1>2, <2>1, <3>1 DEF OneChip
  <2>3. \A s \in Sectors : chip'.flash[s] \in {chip.flash[s], "blank"}
    <3>1. whole = [chip EXCEPT !.flash =
              [s \in Sectors |-> IF s \in NextErase THEN Erased[chip.flash[s]] ELSE chip.flash[s]]]
      BY Running DEF Whole, Chip, whole
    <3>2. \A s \in Sectors : chip.flash[s] \in Contents
      BY Running DEF Chip
    <3> QED BY <2>2, <3>1, <3>2, Running DEF Erased, Chip
  <2> QED BY <1>1, <1>2, <1>3, <1>4, <2>2, <2>3, WroteKeeps
<1>5. CASE Failed(partly) /\ WriteFailed
  <2>1. OneChip /\ chip'.resetSt = chip.resetSt
    BY <1>2, <1>5 DEF Failed, Left, OneChip
  <2> QED BY <1>1, <1>3, <1>5, <2>1, WriteFailedKeeps
<1> QED BY <1>1, <1>4, <1>5

LEMMA FillBufferKeeps ==
  ASSUME Inv, OnSession, FillBuffer
  PROVE  Inv'
<1>1. run.at = "program" /\ NextProgram # {} /\ UNCHANGED chip /\ Sized /\ faults' \in 0..MaxFaults
      /\ ~ At("idle") /\ OneChip
  BY Running, AccessSizes, Faults DEF FillBuffer, At, OneChip
<1>2. CASE Goto("call")
  <2>1. run' = [run EXCEPT !.at = "call"] /\ run' \in Run
    BY <1>2, Running DEF Goto, Run, Places, WritePlaces
  <2>2. Placed' /\ VerifiedNow'
    <3>1. run'.plan = run.plan /\ run'.next = run.next
      BY <2>1, Running DEF Run
    <3>2. NextProgram' # {}
      BY <1>1, <3>1 DEF NextProgram, Wanted
    <3> QED BY <1>1, <2>1, <3>2, Running DEF Placed, VerifiedNow, ReadPlaces, ResetPlaces, Run
  <2>3. KnowsMapped' /\ OwnReset'
    BY <1>1, <2>1, Running DEF KnowsMapped, OwnReset, ResetPlaces, Run
  <2>4. LeftWrong'
    BY <1>1, <2>1, Running DEF LeftWrong, ToDo, WritePlaces, Run
  <2> QED BY <1>1, <1>2, <2>1, <2>2, <2>3, <2>4, Running, GoesOn DEF Counted, Goto, Run
<1>3. CASE WriteFailed
  BY <1>1, <1>3, WriteFailedKeeps
<1> QED BY <1>2, <1>3 DEF FillBuffer

LEMMA ProgramKeeps ==
  ASSUME Inv, OnSession, Program
  PROVE  Inv'
<1> DEFINE whole == Whole(chip, NextProgram, Programmed)
           partly == Partly(chip, NextProgram, Programmed)
<1>1. run.at = "call" /\ NextProgram # {}
      /\ \/ Ran(whole) /\ WriteOn(NextProgram, "program")
         \/ Failed(partly) /\ WriteFailed
  BY Running DEF Program, At, Placed
<1>2. \A d \in {chip, whole} \cup partly :
        /\ d \in Chip /\ d.held = chip.held /\ d.resetSt = chip.resetSt
        /\ \A s \in Sectors : s \notin NextProgram => d.flash[s] = chip.flash[s]
  BY OnlyInRange, Running, Routines
<1> HIDE DEF whole, partly
<1>3. Sized /\ faults' \in 0..MaxFaults
  BY <1>1, Running, AccessSizes, Faults DEF Ran, Failed
<1>4. CASE Ran(whole) /\ WriteOn(NextProgram, "program")
  <2>1. chip' = Halt(whole) /\ whole \in Chip
    BY <1>2, <1>4 DEF Ran
  <2>2. OneChip /\ chip'.resetSt = chip.resetSt /\ chip'.flash = whole.flash
    <3>1. Halt(whole) \in Chip /\ Halt(whole).held = whole.held
          /\ Halt(whole).resetSt = whole.resetSt /\ Halt(whole).flash = whole.flash
      BY <2>1, ChipSteps, ChipFields
    <3> QED BY <1>2, <2>1, <3>1 DEF OneChip
  <2> QED BY <1>1, <1>2, <1>3, <1>4, <2>2, WroteKeeps
<1>5. CASE Failed(partly) /\ WriteFailed
  <2>1. OneChip /\ chip'.resetSt = chip.resetSt
    BY <1>2, <1>5 DEF Failed, Left, OneChip
  <2> QED BY <1>1, <1>3, <1>5, <2>1, WriteFailedKeeps
<1> QED BY <1>1, <1>4, <1>5

LEMMA WrittenKeeps ==
  ASSUME Inv, OnSession, Written
  PROVE  Inv'
<1>1. /\ run.at \in {"erase", "program"} /\ ~ At("idle")
      /\ run'.at = (IF run.at = "erase" THEN "program" ELSE "finFC")
      /\ run' = [run EXCEPT !.next = 0, !.at = run'.at]
      /\ UNCHANGED <<chip, csw, cswSet, cancelled, faults, result>>
  BY Running DEF Written, At, Run
<1>2. Sized /\ OneChip /\ Counted
  BY <1>1, Running, AccessSizes DEF OneChip, Counted
<1>3. run' \in Run /\ run'.op = run.op /\ run'.plan = run.plan /\ run'.opts = run.opts
      /\ run'.next = 0 /\ run'.verified = run.verified /\ run'.saw = run.saw
      /\ run'.wasReset = run.wasReset
  <2>1. PICK at \in Places : run' = [run EXCEPT !.next = 0, !.at = at]
    BY <1>1 DEF Places, WritePlaces
  <2> QED BY <2>1, Running DEF Run
<1>4. Placed' /\ VerifiedNow'
  BY <1>1, <1>3, Running DEF Placed, VerifiedNow, ReadPlaces, ResetPlaces
<1>5. KnowsMapped' /\ OwnReset'
  BY <1>1, <1>3, Running DEF KnowsMapped, OwnReset, ResetPlaces
<1>6. LeftWrong'
  BY <1>1, <1>3, Running DEF LeftWrong, ToDo, WritePlaces
<1> QED BY <1>1, <1>2, <1>3, <1>4, <1>5, <1>6, GoesOn

-----------------------------------------------------------------------------
(* Verify, and the reset. *)

\* The call has verified flash, or was not asked to, and goes on to the reset or
\* returns.
LEMMA VerifiedKeeps ==
  ASSUME Inv, OnSession, UNCHANGED chip, Sized, faults' \in 0..MaxFaults, run.at = "verify",
         NEW verified \in BOOLEAN, verified => AllImage, AfterVerify(verified)
  PROVE  Inv'
<1>1. ~ At("idle") /\ OneChip /\ chip.mapped /\ run.op = "program"
  BY Running DEF At, OneChip, KnowsMapped, Placed, ReadPlaces, ResetPlaces, Run
<1>2. CASE run.opts.reset = "no"
  <2>1. ReturnWith(TRUE, TRUE, verified)
    BY <1>2 DEF AfterVerify
  <2> QED BY <1>1, <1>2, <2>1, Returned DEF AllImage, Boots, LeftAsAsked
<1>3. CASE run.opts.reset # "no"
  <2>1. run' = [run EXCEPT !.verified = verified, !.at = "release"] /\ run' \in Run
        /\ UNCHANGED <<cancelled, result>>
    <3>1. "release" \in Places /\ run \in Run
      BY Running DEF Places, ResetPlaces
    <3>2. run' = [run EXCEPT !.verified = verified, !.at = "release"]
          /\ UNCHANGED <<cancelled, result>>
      BY <1>3 DEF AfterVerify
    <3> QED BY <3>1, <3>2 DEF Run
  <2>2. Placed' /\ LeftWrong'
    BY <1>1, <1>3, <2>1, Running DEF Placed, LeftWrong, WritePlaces, ResetPlaces, Run
  <2>3. VerifiedNow'
    BY <2>1, Running DEF VerifiedNow, AllImage, ResetPlaces, Run
  <2>4. KnowsMapped' /\ OwnReset'
    BY <1>1, <2>1, Running DEF KnowsMapped, OwnReset, ResetPlaces, Run
  <2> QED BY <1>1, <2>1, <2>2, <2>3, <2>4, Running, GoesOn DEF Counted, Run
<1> QED BY <1>2, <1>3

LEMMA VerifyKeeps ==
  ASSUME Inv, OnSession, Verify
  PROVE  Inv'
<1>1. run.at = "verify" /\ UNCHANGED chip /\ ~ At("idle") /\ OneChip
  BY Running DEF Verify, At, OneChip
<1>2. Sized /\ faults' \in 0..MaxFaults
  BY Running, AccessSizes, Faults DEF Verify
<1>3. chip.mapped /\ Seen = {chip.flash}
  BY <1>1, Running DEF KnowsMapped, Seen
<1>4. CASE AllImage /\ AfterVerify(TRUE)
  BY <1>1, <1>2, <1>4, VerifiedKeeps
<1>5. CASE AfterVerify(run.verified)
  BY <1>1, <1>2, <1>5, VerifiedKeeps, Running DEF VerifiedNow, Run
<1>6. CASE ~ run.verified /\ Return(FALSE, TRUE)
  BY <1>1, <1>2, <1>3, <1>6, Returned, Running DEF Return, LeftAsAsked, Boots, Run
<1> QED BY <1>3, <1>4, <1>5, <1>6 DEF Verify, AllImage

\* A step within the reset, and a return from it.
Moved(at, saw, wasReset) == [run EXCEPT !.at = at, !.saw = saw, !.wasReset = wasReset]
LEMMA ResetGoes ==
  ASSUME Inv, OnSession, OneChip, Sized, faults' \in 0..MaxFaults,
         UNCHANGED <<cancelled, result>>, chip'.flash = chip.flash,
         run.at \in ResetPlaces, NEW at \in ResetPlaces, NEW saw \in BOOLEAN,
         NEW wasReset \in BOOLEAN,
         run' = Moved(at, saw, wasReset),
         run.op = "program" /\ ~ (wasReset /\ HaltAfter) => chip'.mapped,
         at = "sysreset" => chip'.catch = HaltAfter,
         run.op = "program" /\ ~ wasReset => ~ saw /\ ~ chip'.resetSt,
         at \in {"disarm", "settle"} => saw
  PROVE  Inv'
<1>1. ~ At("idle") /\ run.op # "read"
  BY Running DEF At, ResetPlaces, Placed, ReadPlaces
<1>2. run'.at = at /\ run'.op = run.op /\ run'.opts = run.opts /\ run'.saw = saw
      /\ run'.wasReset = wasReset /\ run'.verified = run.verified /\ run' \in Run
  <2>1. at \in Places
    BY DEF Places
  <2> QED BY <2>1, Running DEF Run, Moved
<1>3. Placed' /\ LeftWrong'
  BY <1>1, <1>2, Running DEF Placed, LeftWrong, ResetPlaces, WritePlaces
<1>4. VerifiedNow'
  BY <1>2, Running DEF VerifiedNow, AllImage
<1>5. KnowsMapped' /\ OwnReset'
  BY <1>2 DEF KnowsMapped, OwnReset, HaltAfter, ResetPlaces
<1> QED BY <1>1, <1>2, <1>3, <1>4, <1>5, Running, GoesOn DEF Counted, ResetPlaces

LEMMA ResetReturns ==
  ASSUME Inv, OnSession, OneChip, Sized, faults' \in 0..MaxFaults, chip'.flash = chip.flash,
         chip'.mapped = chip.mapped, run.at \in ResetPlaces, NEW ok \in BOOLEAN,
         Return(ok, TRUE), ok => chip'.halted = HaltAfter /\ run.saw
  PROVE  Inv'
<1>1. ~ At("idle") /\ run.op # "read" /\ run.verified \in BOOLEAN
  BY Running DEF At, ResetPlaces, Placed, ReadPlaces, Run
<1>2. run.verified => AllImage'
  BY Running DEF VerifiedNow, AllImage
<1>3. Boots(TRUE, ok)
  BY <1>1, Running DEF Boots, KnowsMapped
<1>4. LeftAsAsked(ok)
  BY Running DEF LeftAsAsked, OwnReset
<1> QED BY <1>1, <1>2, <1>3, <1>4, Returned DEF Return

\* What the invariant says of a reset that goes on.
LEMMA Resetting ==
  ASSUME Inv, run.at \in ResetPlaces
  PROVE  /\ run.op = "program" /\ ~ (run.wasReset /\ HaltAfter) => chip.mapped
         /\ run.op = "program" /\ ~ run.wasReset => ~ run.saw /\ ~ chip.resetSt
         /\ run.at \in {"disarm", "settle"} => run.saw
         /\ run.saw \in BOOLEAN /\ run.wasReset \in BOOLEAN
         /\ \A at : Goto(at) => run' = Moved(at, run.saw, run.wasReset)
         /\ \A d \in {chip, Let(chip)} :
              /\ d \in Chip /\ d.held = chip.held /\ d.flash = chip.flash
              /\ d.mapped = chip.mapped /\ d.resetSt = chip.resetSt
         /\ Let(chip).halted = HaltAfter
<1>1. /\ run.op = "program" /\ ~ (run.wasReset /\ HaltAfter) => chip.mapped
      /\ run.op = "program" /\ ~ run.wasReset => ~ run.saw /\ ~ chip.resetSt
      /\ run.at \in {"disarm", "settle"} => run.saw
  BY Running DEF KnowsMapped, OwnReset, ResetPlaces
<1>2. /\ run.saw \in BOOLEAN /\ run.wasReset \in BOOLEAN
      /\ \A at : Goto(at) => run' = Moved(at, run.saw, run.wasReset)
  BY Running DEF Run, Goto, Moved
<1>3. \A d \in {chip, Let(chip)} :
        /\ d \in Chip /\ d.held = chip.held /\ d.flash = chip.flash
        /\ d.mapped = chip.mapped /\ d.resetSt = chip.resetSt
  <2>1. chip \in Chip
    BY Running
  <2>2. LET d == Halt(chip) IN
          /\ d \in Chip /\ d.held = chip.held /\ d.flash = chip.flash
          /\ d.mapped = chip.mapped /\ d.resetSt = chip.resetSt
    BY <2>1, ChipSteps, ChipFields
  <2>3. LET d == Resume(chip) IN
          /\ d \in Chip /\ d.held = chip.held /\ d.flash = chip.flash
          /\ d.mapped = chip.mapped /\ d.resetSt = chip.resetSt
    BY <2>1, ChipSteps, ChipFields
  <2>4. Let(chip) = Halt(chip) \/ Let(chip) = Resume(chip)
    BY DEF Let
  <2> QED BY <2>1, <2>2, <2>3, <2>4
<1>4. Let(chip).halted = HaltAfter
  <2>1. CASE HaltAfter
    BY <2>1, Running DEF Let, Halt, Chip
  <2>2. CASE ~ HaltAfter
    BY <2>2, Running DEF Let, Resume, HaltAfter, Chip
  <2> QED BY <2>1, <2>2
<1> QED BY <1>1, <1>2, <1>3, <1>4

LEMMA ReleaseCoreKeeps ==
  ASSUME Inv, OnSession, ReleaseCore
  PROVE  Inv'
<1>1. run.at = "release" /\ Goto("demcr")
  BY DEF ReleaseCore, At
<1>2. chip' \in {chip, Let(chip)}
  BY DEF ReleaseCore, Ignored, Left
<1>3. Sized /\ faults' \in 0..MaxFaults
  BY Running, AccessSizes, Faults DEF ReleaseCore, Ignored
<1>4. run.at \in ResetPlaces /\ "demcr" \in ResetPlaces
  BY <1>1 DEF ResetPlaces
<1>5. run' = Moved("demcr", run.saw, run.wasReset) /\ UNCHANGED <<cancelled, result>>
  BY <1>1, <1>4, Resetting DEF Goto
<1>6. OneChip /\ chip'.flash = chip.flash /\ chip'.mapped = chip.mapped
      /\ chip'.resetSt = chip.resetSt
  BY <1>2, <1>4, Resetting DEF OneChip
<1> QED BY <1>3, <1>4, <1>5, <1>6, Resetting, ResetGoes

LEMMA ReadDEMCRKeeps ==
  ASSUME Inv, OnSession, ReadDEMCR
  PROVE  Inv'
<1>1. run.at = "demcr" /\ UNCHANGED chip /\ run.at \in ResetPlaces /\ "arm" \in ResetPlaces
  BY DEF ReadDEMCR, At, ResetPlaces
<1>2. Sized /\ faults' \in 0..MaxFaults /\ OneChip
  BY <1>1, Running, AccessSizes, Faults DEF ReadDEMCR, OneChip
<1>3. CASE Goto("arm")
  <2>1. run' = Moved("arm", run.saw, run.wasReset) /\ UNCHANGED <<cancelled, result>>
    BY <1>1, <1>3, Resetting DEF Goto
  <2> QED BY <1>1, <1>2, <2>1, Resetting, ResetGoes
<1>4. CASE Return(FALSE, TRUE)
  BY <1>1, <1>2, <1>4, ResetReturns
<1> QED BY <1>3, <1>4 DEF ReadDEMCR

WithCatch(b) == [chip EXCEPT !.catch = b]
LEMMA CatchSet ==
  ASSUME chip \in Chip, NEW b \in BOOLEAN, chip' \in {chip, WithCatch(b)}
  PROVE  /\ OneChip /\ chip'.flash = chip.flash
         /\ chip'.mapped = chip.mapped /\ chip'.resetSt = chip.resetSt
         /\ (chip' = WithCatch(b) => chip'.catch = b)
<1>1. LET d == WithCatch(b) IN
        /\ d \in Chip /\ d.held = chip.held /\ d.flash = chip.flash /\ d.catch = b
        /\ d.mapped = chip.mapped /\ d.resetSt = chip.resetSt
  BY DEF Chip, WithCatch
<1> QED BY <1>1 DEF OneChip

LEMMA ArmCatchKeeps ==
  ASSUME Inv, OnSession, ArmCatch
  PROVE  Inv'
<1>1. run.at = "arm" /\ run.at \in ResetPlaces /\ "sysreset" \in ResetPlaces
  BY DEF ArmCatch, At, ResetPlaces
<1>2. chip' \in {chip, WithCatch(HaltAfter)} /\ HaltAfter \in BOOLEAN
      /\ Armed = WithCatch(HaltAfter)
  BY DEF ArmCatch, Left, HaltAfter, Armed, WithCatch
<1>3. OneChip /\ chip'.flash = chip.flash /\ chip'.mapped = chip.mapped
      /\ chip'.resetSt = chip.resetSt /\ (chip' = Armed => chip'.catch = HaltAfter)
  BY <1>2, Running, CatchSet
<1>4. Sized /\ faults' \in 0..MaxFaults
  BY Running, AccessSizes, Faults DEF ArmCatch
<1>5. CASE chip' = Armed /\ Goto("sysreset")
  <2>1. run' = Moved("sysreset", run.saw, run.wasReset) /\ UNCHANGED <<cancelled, result>>
    BY <1>1, <1>5, Resetting DEF Goto
  <2> QED BY <1>1, <1>3, <1>4, <1>5, <2>1, Resetting, ResetGoes
<1>6. CASE Return(FALSE, TRUE)
  BY <1>1, <1>3, <1>4, <1>6, ResetReturns
<1> QED BY <1>5, <1>6 DEF ArmCatch

LEMMA SysResetReqKeeps ==
  ASSUME Inv, OnSession, SysResetReq
  PROVE  Inv'
<1>1. run.at = "sysreset" /\ run.at \in ResetPlaces /\ "poll" \in ResetPlaces
      /\ UNCHANGED <<cancelled, result>> /\ chip.catch = HaltAfter
  BY Running DEF SysResetReq, At, ResetPlaces, KnowsMapped
<1>2. Sized /\ faults' \in 0..MaxFaults
  BY Running, AccessSizes, Faults DEF SysResetReq, Fault
<1>3. CASE chip' \in ResetsTo(chip) /\ run' = [run EXCEPT !.at = "poll", !.wasReset = TRUE]
  <2>1. chip' \in Chip /\ chip'.flash = chip.flash /\ chip'.held = chip.held
        /\ (~ HaltAfter => chip'.mapped)
    <3>1. chip.catch => HaltAfter
      BY <1>1
    <3>2. chip \in Chip
      BY Running
    <3>3. ResetsTo(chip) \subseteq Chip
      BY <3>2, ChipSteps
    <3>4. \A d \in ResetsTo(chip) : (~ chip.catch => d.mapped) /\ d.flash = chip.flash
                                   /\ d.held = chip.held
      BY <3>2, ChipFields
    <3> QED BY <1>3, <3>1, <3>3, <3>4
  <2>2. run' = Moved("poll", run.saw, TRUE)
    BY <1>3, Running DEF Run, Moved
  <2> QED BY <1>1, <1>2, <2>1, <2>2, Resetting, ResetGoes DEF OneChip
<1>4. CASE chip' = chip /\ run' = [run EXCEPT !.at = "poll"]
  <2>1. run' = Moved("poll", run.saw, run.wasReset)
    BY <1>4, Running DEF Run, Moved
  <2>2. OneChip
    BY <1>4, Running DEF OneChip
  <2> QED BY <1>1, <1>2, <1>4, <2>1, <2>2, Resetting, ResetGoes
<1> QED BY <1>3, <1>4 DEF SysResetReq

LEMMA PollKeeps ==
  ASSUME Inv, OnSession, Poll
  PROVE  Inv'
<1>1. run.at = "poll" /\ run.at \in ResetPlaces /\ {"poll", "disarm"} \subseteq ResetPlaces
      /\ UNCHANGED <<cancelled, result>>
  BY DEF Poll, At, ResetPlaces, Goto
<1>2. Sized /\ faults' \in 0..MaxFaults
  BY Running, AccessSizes, Faults DEF Poll
<1>3. chip' \in {chip, SeeReset(chip)} /\ OneChip /\ chip'.flash = chip.flash
      /\ chip'.mapped = chip.mapped /\ (~ chip.resetSt => ~ chip'.resetSt)
  <2>1. chip' \in {chip, SeeReset(chip)}
    BY DEF Poll, Left
  <2>2. CASE chip' = chip
    BY <2>2, Running DEF OneChip
  <2>3. CASE chip' = SeeReset(chip)
    BY <2>3, Running, ChipSteps, ChipFields DEF OneChip
  <2> QED BY <2>1, <2>2, <2>3
<1>4. PICK at \in {"poll", "disarm"}, saw \in BOOLEAN :
        /\ run' = Moved(at, saw, run.wasReset)
        /\ saw => run.saw \/ chip.resetSt
        /\ at = "disarm" => saw
  <2>1. CASE chip.resetSt /\ run' = [run EXCEPT !.saw = TRUE]
    <3>1. run' = Moved("poll", TRUE, run.wasReset)
      BY <1>1, <2>1, Running DEF Run, Moved
    <3> QED BY <2>1, <3>1
  <2>2. CASE run.saw /\ Goto("disarm")
    <3>1. run' = Moved("disarm", run.saw, run.wasReset)
      BY <2>2, <1>1, Resetting
    <3> QED BY <2>2, <3>1, <1>1, Resetting
  <2>3. CASE run' = run
    <3>1. run' = Moved("poll", run.saw, run.wasReset)
      BY <1>1, <2>3, Running DEF Run, Moved
    <3> QED BY <3>1, <1>1, Resetting
  <2> QED BY <2>1, <2>2, <2>3 DEF Poll
<1> QED BY <1>1, <1>2, <1>3, <1>4, Resetting, ResetGoes

LEMMA PollTimeoutKeeps ==
  ASSUME Inv, OnSession, PollTimeout
  PROVE  Inv'
<1>1. run.at \in ResetPlaces /\ UNCHANGED <<chip, csw, cswSet, faults>> /\ Return(FALSE, TRUE)
  BY DEF PollTimeout, At, ResetPlaces
<1> QED BY <1>1, Running, AccessSizes, ResetReturns DEF OneChip

LEMMA DisarmKeeps ==
  ASSUME Inv, OnSession, Disarm
  PROVE  Inv'
<1>1. run.at = "disarm" /\ run.at \in ResetPlaces /\ "settle" \in ResetPlaces
      /\ Goto("settle")
  BY DEF Disarm, At, ResetPlaces
<1>2. Sized /\ faults' \in 0..MaxFaults
  BY Running, AccessSizes, Faults DEF Disarm, Ignored
<1>3. chip' \in {chip, WithCatch(FALSE)}
  BY DEF Disarm, Ignored, Left, WithCatch
<1>4. OneChip /\ chip'.flash = chip.flash /\ chip'.mapped = chip.mapped
      /\ chip'.resetSt = chip.resetSt
  BY <1>3, Running, CatchSet
<1>5. run' = Moved("settle", run.saw, run.wasReset) /\ UNCHANGED <<cancelled, result>>
  BY <1>1, Resetting DEF Goto
<1> QED BY <1>1, <1>2, <1>4, <1>5, Resetting, ResetGoes

LEMMA SettleKeeps ==
  ASSUME Inv, OnSession, Settle
  PROVE  Inv'
<1>1. run.at = "settle" /\ run.at \in ResetPlaces
  BY DEF Settle, At, ResetPlaces
<1>2. Sized /\ faults' \in 0..MaxFaults
  BY Running, AccessSizes, Faults DEF Settle
<1>3. chip' \in {chip, Let(chip)}
  BY DEF Settle, Left
<1>4. OneChip /\ chip'.flash = chip.flash /\ chip'.mapped = chip.mapped
  BY <1>1, <1>3, Resetting DEF OneChip
<1>5. CASE chip' = Let(chip) /\ Return(TRUE, TRUE)
  BY <1>1, <1>2, <1>4, <1>5, Resetting, ResetReturns
<1>6. CASE Return(FALSE, TRUE)
  BY <1>1, <1>2, <1>4, <1>6, ResetReturns
<1> QED BY <1>5, <1>6 DEF Settle

LEMMA ServeKeeps ==
  ASSUME Inv, OnSession, Serve \/ PollTimeout \/ Commands \/ Cancel
  PROVE  Inv'
BY AttachKeeps, EnsureXIPKeeps, PrepKeeps, FlushCacheKeeps, EnterXIPKeeps, PlanUnreadKeeps,
   ReadFlashKeeps, EraseRangeKeeps, FillBufferKeeps, ProgramKeeps, WrittenKeeps, VerifyKeeps,
   ReleaseCoreKeeps, ReadDEMCRKeeps, ArmCatchKeeps, SysResetReqKeeps, PollKeeps, DisarmKeeps,
   SettleKeeps, PollTimeoutKeeps, CommandKeeps, CancelKeeps DEF Serve

-----------------------------------------------------------------------------
(* The calls that bring the wire up and down. *)

\* What the invariant says of such a call: no call on the Session runs.
LEMMA Bringing ==
  ASSUME Inv
  PROVE  /\ wire \in Wire /\ bring.op \in {"none", "open", "close", "rescue"}
         /\ bring.at \in Stages /\ bring.target \in Cores \cup {Port, None}
         /\ session \in Cores \cup {Port, None}
         /\ Staged /\ HasWire /\ LetsGo
         /\ (~ BringIdle \/ session = None => run.at = "idle" /\ run.op = "none" /\ ~ run.verified)
         /\ (~ BringIdle => result.op = "none")
         /\ (bring.at # "idle" <=> ~ BringIdle)
<1>1. WireTyped /\ Staged /\ HasWire /\ LetsGo
  BY DEF Inv, WireInv
<1>2. (~ BringIdle \/ session = None => run.at = "idle" /\ run.op = "none" /\ ~ run.verified)
  BY Running DEF Inv, OneCall, At, VerifiedNow, ResetPlaces
<1>3. ~ BringIdle => result.op = "none"
  BY DEF Inv, OneCall
<1>4. bring.at # "idle" <=> ~ BringIdle
  BY <1>1 DEF Staged, BringIdle, Resting
<1> QED BY <1>1, <1>2, <1>3, <1>4 DEF WireTyped

\* While no call runs on it, the invariant of the flasher is its types.
LEMMA AtRest ==
  ASSUME run.at = "idle", run.op = "none", ~ run.verified, UNCHANGED run,
         FlasherTyped', BatchesWordSized'
  PROVE  FlasherInv'
BY DEF FlasherInv, Placed, KnowsMapped, OwnReset, VerifiedNow, LeftWrong, ReadPlaces,
       ResetPlaces, WritePlaces

LEMMA BringGoes ==
  ASSUME Inv, ~ BringIdle, UNCHANGED run, chip' \in Chip, Sized, Counted,
         UNCHANGED <<session, result>>, wire' \in Wire,
         NEW at \in Stages \ {"idle"}, bring' = [bring EXCEPT !.at = at],
         Staged', HasWire', LetsGo'
  PROVE  Inv'
<1>1. run.at = "idle" /\ run.op = "none" /\ ~ run.verified /\ result.op = "none"
  BY Bringing
<1>2. FlasherInv'
  <2>1. FlasherTyped' /\ BatchesWordSized'
    BY Running DEF FlasherTyped, Sized, Counted
  <2> QED BY <1>1, <2>1, AtRest
<1>3. WireTyped' /\ bring'.at # "idle"
  BY DEF WireTyped, Inv, WireInv
<1>4. ~ BringIdle'
  BY <1>3 DEF BringIdle, Resting
<1>5. OneCall'
  BY <1>1 DEF OneCall, At
<1>6. Results'
  BY <1>1, <1>4 DEF Results, ReadsAreFlash, BootsAfter, ResetDone, WireOwned
<1> QED BY <1>2, <1>3, <1>5, <1>6 DEF Inv, WireInv

LEMMA BringDone ==
  ASSUME Inv, ~ BringIdle, UNCHANGED run, chip' \in Chip, Sized, faults' \in 0..MaxFaults,
         wire' \in Wire, NEW ok \in BOOLEAN, NEW clean \in BOOLEAN,
         NEW s \in Cores \cup {Port, None}, Done(ok, clean, s),
         s # None => wire' = SelectedSeen(s) /\ ~ chip'.held,
         clean => wire'.mode # "swd",
         bring.op = "rescue" /\ ok => ~ chip'.held /\ chip'.resetSt
  PROVE  Inv'
<1>1. run.at = "idle" /\ run.op = "none" /\ ~ run.verified
      /\ bring.op \in {"open", "close", "rescue"}
  BY Bringing DEF Staged
<1>2. bring' = Resting /\ BringIdle' /\ session' = s /\ cancelled' = FALSE
      /\ bring'.op = "none" /\ bring'.at = "idle" /\ bring'.target = None
  BY DEF Done, BringIdle, Resting
<1>3. result' \in Result /\ result'.op = bring.op /\ result'.ok = ok /\ result'.verified = clean
  BY <1>1 DEF Done, NoResult, Result, Resets
<1>4. FlasherInv'
  <2>1. FlasherTyped' /\ BatchesWordSized'
    BY <1>2, <1>3, Running DEF FlasherTyped, Sized
  <2> QED BY <1>1, <2>1, AtRest
<1>5. WireInv'
  <2>1. WireTyped'
    BY <1>2 DEF WireTyped, Resting, Stages
  <2>2. Staged' /\ HasWire' /\ LetsGo'
    BY <1>2 DEF Staged, HasWire, LetsGo
  <2> QED BY <2>1, <2>2 DEF WireInv
<1>6. OneCall'
  BY <1>1, <1>2 DEF OneCall, At
<1>7. Results'
  BY <1>1, <1>2, <1>3 DEF Results, ReadsAreFlash, BootsAfter, ResetDone, WireOwned,
                          SelectedSeen, Selected
<1> QED BY <1>4, <1>5, <1>6, <1>7 DEF Inv

LEMMA Wires ==
  ASSUME wire \in Wire
  PROVE  /\ ToDormant \in Wire /\ ToDormant.mode # "swd"
         /\ \A t \in Cores \cup {Port, None} :
              Selected(t) \in Wire /\ SelectedSeen(t) \in Wire /\ Switched(t) \subseteq Wire
              /\ [Selected(t) EXCEPT !.seen = TRUE] = SelectedSeen(t)
<1>1. Dormant \in Wire
  BY DEF Dormant, Wire
<1>2. ToDormant \in Wire /\ ToDormant.mode # "swd"
  BY <1>1 DEF ToDormant, Dormant, Wire
<1>3. ASSUME NEW t \in Cores \cup {Port, None}
      PROVE  Selected(t) \in Wire /\ SelectedSeen(t) \in Wire
             /\ [Selected(t) EXCEPT !.seen = TRUE] = SelectedSeen(t)
  <2> DEFINE Swd == [mode : {"swd"}, sel : Cores \cup {Port, None}, seen : BOOLEAN]
  <2>1. Selected(t) \in Swd /\ SelectedSeen(t) \in Swd
    BY <1>3 DEF Selected, SelectedSeen
  <2>2. [Selected(t) EXCEPT !.seen = TRUE] = SelectedSeen(t)
    <3> DEFINE w == [Selected(t) EXCEPT !.seen = TRUE]
    <3>1. w \in [mode : {"swd"}, sel : {t}, seen : {TRUE}]
      BY DEF Selected
    <3> HIDE DEF w
    <3>2. w = [mode |-> "swd", sel |-> t, seen |-> TRUE]
      BY <3>1
    <3> QED BY <3>2 DEF w, SelectedSeen
  <2>3. Swd \subseteq Wire
    BY DEF Wire
  <2> QED BY <2>1, <2>2, <2>3
<1>4. [wire EXCEPT !.sel = None, !.seen = FALSE] \in Wire
  BY DEF Wire
<1> QED BY <1>1, <1>2, <1>3, <1>4 DEF Switched

LEMMA BeginKeeps ==
  ASSUME Inv, Open \/ Rescue \/ Close
  PROVE  Inv'
<1>1. PICK op \in {"open", "rescue", "close"}, t \in Cores \cup {Port}, at \in {"switch", "dormant"} :
        /\ Begin(op, t, at)
        /\ op = "close" <=> at = "dormant"
        /\ op = "rescue" => t = Port
        /\ op # "close" => session = None
  <2>1. CASE Open
    BY <2>1 DEF Open
  <2>2. CASE Rescue
    BY <2>2 DEF Rescue
  <2>3. CASE Close
    BY <2>3, Bringing DEF Close
  <2> QED BY <2>1, <2>2, <2>3
<1>2. /\ bring' = [op |-> op, at |-> at, target |-> t] /\ result' = NoResult
      /\ UNCHANGED <<chip, csw, cswSet, run, cancelled, faults, wire, session>>
      /\ BringIdle /\ run.at = "idle"
  BY <1>1 DEF Begin, unrun, At
<1>3. bring'.op = op /\ bring'.at = at /\ bring'.target = t /\ ~ BringIdle'
  BY <1>2 DEF BringIdle, Resting
<1>4. run.op = "none" /\ ~ run.verified
  BY <1>2, Running DEF VerifiedNow, ResetPlaces, At
<1>5. FlasherInv'
  <2>1. FlasherTyped' /\ BatchesWordSized'
    BY <1>2, Running, Lists DEF FlasherTyped, BatchesWordSized
  <2> QED BY <1>2, <1>4, <2>1, AtRest
<1>6. WireInv'
  <2>1. WireTyped'
    BY <1>1, <1>2, Bringing DEF WireTyped, Stages
  <2>2. Staged'
    BY <1>1, <1>2, <1>3, SessionAssumption DEF Staged
  <2>3. HasWire' /\ LetsGo'
    BY <1>1, <1>2, <1>3, Bringing DEF HasWire, LetsGo
  <2> QED BY <2>1, <2>2, <2>3 DEF WireInv
<1>7. OneCall' /\ Results'
  BY <1>2, <1>3, <1>4, Lists DEF OneCall, At, Results, ReadsAreFlash, BootsAfter, ResetDone,
                                  WireOwned
<1> QED BY <1>5, <1>6, <1>7 DEF Inv

\* A step of such a call that leaves the access size and the call counters so.
LEMMA BringSized ==
  ASSUME Inv, UNCHANGED <<csw, cswSet>>, Answered \/ Fault
  PROVE  Sized /\ faults' \in 0..MaxFaults
BY Running, AccessSizes, Faults

LEMMA SwitchKeeps ==
  ASSUME Inv, SwitchAndSelect
  PROVE  Inv'
<1>1. bring.at = "switch" /\ UNCHANGED <<chip, csw, cswSet, run>> /\ (Answered \/ Fault)
  BY DEF SwitchAndSelect, unrun
<1>2. ~ BringIdle /\ Sized /\ faults' \in 0..MaxFaults /\ chip' \in Chip
      /\ bring.op \in {"open", "rescue"} /\ session = None
  BY <1>1, BringSized, Bringing, Running DEF Staged
<1>3. CASE wire' = Selected(bring.target) /\ Step("idr")
  <2>1. bring' = [bring EXCEPT !.at = "idr"] /\ UNCHANGED <<session, result, cancelled>>
    BY <1>3 DEF Step
  <2>2. bring'.at = "idr" /\ bring'.op = bring.op /\ bring'.target = bring.target
    BY <2>1, Bringing DEF Inv, WireInv, WireTyped
  <2>3. wire' \in Wire
    BY <1>3, Wires, Bringing
  <2>4. Staged'
    BY <1>2, <2>1, <2>2, Bringing DEF Staged, BringIdle
  <2>5. HasWire' /\ LetsGo'
    BY <1>1, <1>2, <1>3, <2>1, <2>2, Bringing DEF HasWire, LetsGo
  <2>6. "idr" \in Stages \ {"idle"} /\ Counted
    BY <1>2, <2>1, Running DEF Stages, Counted
  <2> QED BY <1>1, <1>2, <2>1, <2>3, <2>4, <2>5, <2>6, BringGoes
<1>4. CASE /\ wire' \in IF cancelled THEN {wire} ELSE Switched(bring.target)
           /\ Done(FALSE, FALSE, None)
  <2>1. wire' \in Wire
    BY <1>4, Wires, Bringing
  <2> QED BY <1>1, <1>2, <1>4, <2>1, BringDone
<1> QED BY <1>3, <1>4 DEF SwitchAndSelect

LEMMA CheckIDRKeeps ==
  ASSUME Inv, CheckIDR
  PROVE  Inv'
<1>1. bring.at = "idr" /\ UNCHANGED <<chip, csw, cswSet, run>> /\ (Answered \/ Fault)
  BY DEF CheckIDR, unrun
<1>2. /\ ~ BringIdle /\ Sized /\ faults' \in 0..MaxFaults /\ chip' \in Chip
      /\ bring.op \in {"open", "rescue"} /\ session = None
      /\ wire = Selected(bring.target) /\ bring.target \in Cores \cup {Port, None}
  BY <1>1, BringSized, Bringing, Running DEF Staged, HasWire
<1> DEFINE seen == IF Listens THEN [wire EXCEPT !.seen = TRUE] ELSE wire
<1>3. wire.sel = bring.target
  BY <1>2 DEF Selected
<1>4. seen \in Wire /\ wire \in Wire /\ (Listens => seen = SelectedSeen(bring.target))
  BY <1>2, Wires, Bringing
<1> HIDE DEF seen
<1>5. CASE /\ wire' = seen /\ Listens /\ wire.sel \in WantedIDR
           /\ Step(IF bring.op = "rescue" THEN "clear" ELSE "init")
  <2> DEFINE at == IF bring.op = "rescue" THEN "clear" ELSE "init"
  <2>1. bring' = [bring EXCEPT !.at = at] /\ UNCHANGED <<session, result, cancelled>>
        /\ at \in {"clear", "init"} /\ (at = "clear" <=> bring.op = "rescue")
    BY <1>5 DEF Step
  <2> HIDE DEF at
  <2>2. bring'.at = at /\ bring'.op = bring.op /\ bring'.target = bring.target
    BY <2>1, Bringing DEF Inv, WireInv, WireTyped
  <2>3. wire' \in Wire /\ wire' = SelectedSeen(bring.target)
    BY <1>4, <1>5
  <2>4. Staged'
    BY <1>2, <2>1, <2>2, Bringing DEF Staged, BringIdle
  <2>5. at = "init" => bring.target \in Cores /\ ~ chip.held
    BY <1>2, <1>3, <1>5, <2>1 DEF WantedIDR, Listens
  <2>6. HasWire' /\ LetsGo'
    BY <1>1, <1>2, <2>1, <2>2, <2>3, <2>5 DEF HasWire, LetsGo
  <2>7. at \in Stages \ {"idle"} /\ Counted
    BY <1>2, <2>1, Running DEF Stages, Counted
  <2> QED BY <1>1, <1>2, <2>1, <2>3, <2>4, <2>6, <2>7, BringGoes
<1>6. CASE wire' \in {wire, seen} /\ Done(FALSE, FALSE, None)
  BY <1>1, <1>2, <1>4, <1>6, BringDone
<1> QED BY <1>5, <1>6 DEF CheckIDR, seen

LEMMA InitPortKeeps ==
  ASSUME Inv, InitPort
  PROVE  Inv'
<1>1. /\ bring.at = "init" /\ UNCHANGED <<wire, run>> /\ cswSet' = FALSE
      /\ csw' \in {csw, "moved"} /\ (Answered \/ Fault)
  BY DEF InitPort
<1>2. /\ ~ BringIdle /\ bring.op = "open" /\ session = None /\ ~ chip.held
      /\ bring.target \in Cores /\ wire = SelectedSeen(bring.target) /\ wire \in Wire
  BY <1>1, Bringing DEF Staged, HasWire
<1>3. Sized /\ faults' \in 0..MaxFaults
  BY <1>1, Running, AccessSizes, Faults
<1>4. chip' = chip
  <2>1. PowerUp = chip
    BY <1>2, SessionAssumption DEF PowerUp, SelectedSeen
  <2> QED BY <2>1 DEF InitPort, Left
<1>5. CASE Done(TRUE, FALSE, bring.target)
  BY <1>1, <1>2, <1>3, <1>4, <1>5, Running, BringDone
<1>6. CASE Step("dormant")
  <2>1. bring' = [bring EXCEPT !.at = "dormant"] /\ UNCHANGED <<session, result, cancelled>>
    BY <1>6 DEF Step
  <2>2. bring'.at = "dormant" /\ bring'.op = bring.op /\ bring'.target = bring.target
    BY <2>1, Bringing DEF Inv, WireInv, WireTyped
  <2>3. Staged' /\ HasWire' /\ LetsGo'
    BY <1>2, <2>1, <2>2, Bringing DEF Staged, BringIdle, HasWire, LetsGo
  <2>4. "dormant" \in Stages \ {"idle"} /\ Counted
    BY <1>3, <2>1, Running DEF Stages, Counted
  <2> QED BY <1>1, <1>2, <1>3, <1>4, <2>1, <2>3, <2>4, Running, BringGoes
<1> QED BY <1>5, <1>6 DEF InitPort

LEMMA DetachKeeps ==
  ASSUME Inv, Detach
  PROVE  Inv'
<1>1. bring.at = "dormant" /\ UNCHANGED <<chip, csw, cswSet, run>>
      /\ (faults' = faults \/ (faults < MaxFaults /\ faults' = faults + 1))
  BY DEF Detach, unrun
<1>2. ~ BringIdle /\ Sized /\ faults' \in 0..MaxFaults /\ chip' \in Chip
      /\ (bring.op = "rescue" => ~ chip.held /\ chip.resetSt)
  <2>1. faults' \in 0..MaxFaults
    BY <1>1, Running, RunAssumption
  <2> QED BY <1>1, <2>1, BringSized, Bringing, Running, AccessSizes DEF LetsGo
<1>3. CASE wire' = ToDormant /\ Done(bring.op # "open", TRUE, None)
  BY <1>1, <1>2, <1>3, Wires, Bringing, BringDone
<1>4. CASE wire' \in {wire, ToDormant, Selected(None)} /\ Done(FALSE, FALSE, None)
  <2>1. wire' \in Wire
    BY <1>4, Wires, Bringing
  <2> QED BY <1>1, <1>2, <1>4, <2>1, BringDone
<1> QED BY <1>3, <1>4 DEF Detach

\* A step of Rescue behind the DPIDR check: the rescue port is selected.
LEMMA RescueKeeps ==
  ASSUME Inv, bring.at \in {"clear", "assert", "deassert", "check"},
         UNCHANGED <<run, csw, cswSet, wire>>, Answered \/ Fault, chip' \in Chip,
         NEW at \in {"assert", "deassert", "check", "dormant"},
         \/ Done(FALSE, FALSE, None)
         \/ /\ Step(at)
            /\ at = "deassert" => chip'.held
            /\ at = "check" => chip'.held \/ chip'.resetSt
            /\ at = "dormant" => ~ chip'.held /\ chip'.resetSt
  PROVE  Inv'
<1>1. /\ ~ BringIdle /\ bring.op = "rescue" /\ session = None /\ wire \in Wire
      /\ wire = SelectedSeen(bring.target)
  BY Bringing DEF Staged, HasWire
<1>2. Sized /\ faults' \in 0..MaxFaults
  BY BringSized
<1>3. CASE Done(FALSE, FALSE, None)
  BY <1>1, <1>2, <1>3, BringDone
<1>4. CASE Step(at) /\ (at = "deassert" => chip'.held)
           /\ (at = "check" => chip'.held \/ chip'.resetSt)
           /\ (at = "dormant" => ~ chip'.held /\ chip'.resetSt)
  <2>1. bring' = [bring EXCEPT !.at = at] /\ UNCHANGED <<session, result, cancelled>>
    BY <1>4 DEF Step
  <2>2. bring'.at = at /\ bring'.op = bring.op /\ bring'.target = bring.target
    BY <2>1, Bringing DEF Inv, WireInv, WireTyped
  <2>3. Staged'
    BY <1>1, <2>1, <2>2, Bringing DEF Staged, BringIdle
  <2>4. HasWire' /\ LetsGo'
    BY <1>1, <1>4, <2>1, <2>2 DEF HasWire, LetsGo
  <2>5. at \in Stages \ {"idle"} /\ Counted
    BY <1>2, <2>1, Running DEF Stages, Counted
  <2> QED BY <1>1, <1>2, <2>1, <2>3, <2>4, <2>5, BringGoes
<1> QED BY <1>3, <1>4

LEMMA ClearErrorsKeeps ==
  ASSUME Inv, ClearErrors
  PROVE  Inv'
<1>1. /\ bring.at = "clear" /\ UNCHANGED <<chip, run, csw, cswSet, wire>> /\ (Answered \/ Fault)
      /\ (Step("assert") \/ Done(FALSE, FALSE, None))
  BY DEF ClearErrors, unrun
<1> QED BY <1>1, Running, RescueKeeps

LEMMA AssertResetKeeps ==
  ASSUME Inv, AssertReset
  PROVE  Inv'
<1>1. /\ bring.at = "assert" /\ UNCHANGED <<run, csw, cswSet, wire>> /\ (Answered \/ Fault)
      /\ (Step("deassert") /\ chip' = PowerUp) \/ Done(FALSE, FALSE, None)
      /\ chip' \in {chip, PowerUp}
  BY DEF AssertReset, unrun, Left
<1>2. wire.sel = Port
  BY <1>1, Bringing DEF Staged, HasWire, SelectedSeen
<1>3. PowerUp = Hold(chip)
  BY <1>2 DEF PowerUp
<1>4. Hold(chip) \in Chip /\ Hold(chip).held /\ chip \in Chip
  <2>1. chip \in Chip
    BY Running
  <2>2. Hold(chip) \in Chip
    BY <2>1, ChipSteps
  <2>3. Hold(chip).held
    BY <2>1 DEF Hold, Chip
  <2> QED BY <2>1, <2>2, <2>3
<1> QED BY <1>1, <1>3, <1>4, RescueKeeps

LEMMA DeassertKeeps ==
  ASSUME Inv, Deassert
  PROVE  Inv'
<1>1. /\ bring.at = "deassert" /\ UNCHANGED <<run, csw, cswSet, wire>> /\ (Answered \/ Fault)
      /\ (Step("check") \/ Done(FALSE, FALSE, None))
      /\ chip' \in {chip, Release(chip)}
  BY DEF Deassert, unrun, Left
<1>2. chip.held /\ chip \in Chip
  BY <1>1, Bringing, Running DEF LetsGo
<1>3. Release(chip) \in Chip /\ Release(chip).resetSt
  <2>1. Release(chip) \in Chip
    BY <1>2, ChipSteps
  <2>2. Release(chip).resetSt
    BY <1>2 DEF Release, Chip
  <2> QED BY <2>1, <2>2
<1> QED BY <1>1, <1>2, <1>3, RescueKeeps

LEMMA CheckReleasedKeeps ==
  ASSUME Inv, CheckReleased
  PROVE  Inv'
<1>1. /\ bring.at = "check" /\ UNCHANGED <<chip, run, csw, cswSet, wire>> /\ (Answered \/ Fault)
      /\ (Step("dormant") /\ ~ chip.held) \/ Done(FALSE, FALSE, None)
  BY DEF CheckReleased, unrun
<1>2. (chip.held \/ chip.resetSt) /\ chip \in Chip
  BY <1>1, Bringing, Running DEF LetsGo
<1> QED BY <1>1, <1>2, RescueKeeps

LEMMA OtherDebuggerKeeps ==
  ASSUME Inv, OtherDebugger
  PROVE  Inv'
<1>1. /\ session = None /\ BringIdle /\ wire' \in Wire /\ result' = NoResult
      /\ UNCHANGED <<chip, csw, cswSet, run, cancelled, faults, bring, session>>
      /\ run.at = "idle" /\ run.op = "none" /\ ~ run.verified
  BY Bringing DEF OtherDebugger, unrun
<1>2. FlasherInv'
  <2>1. FlasherTyped' /\ BatchesWordSized'
    BY <1>1, Running, Lists DEF FlasherTyped, BatchesWordSized
  <2> QED BY <1>1, <2>1, AtRest
<1>3. WireInv'
  BY <1>1 DEF Inv, WireInv, WireTyped, Staged, HasWire, LetsGo, BringIdle, Resting
<1>4. OneCall' /\ Results'
  BY <1>1, Lists DEF OneCall, At, BringIdle, Results, ReadsAreFlash, BootsAfter, ResetDone,
                     WireOwned
<1> QED BY <1>2, <1>3, <1>4 DEF Inv

LEMMA BringCancelKeeps ==
  ASSUME Inv, BringCancel
  PROVE  Inv'
<1>1. /\ ~ BringIdle /\ cancelled' = TRUE
      /\ UNCHANGED <<chip, csw, cswSet, run, faults, result, wire, bring, session>>
  BY DEF BringCancel, unrun
<1>2. /\ run.at = "idle" /\ run.op = "none" /\ ~ run.verified /\ result.op = "none"
  BY <1>1, Bringing
<1>3. FlasherInv'
  <2>1. FlasherTyped' /\ BatchesWordSized'
    BY <1>1, Running DEF FlasherTyped, BatchesWordSized
  <2> QED BY <1>1, <1>2, <2>1, AtRest
<1>4. WireInv'
  BY <1>1 DEF Inv, WireInv, WireTyped, Staged, HasWire, LetsGo, BringIdle
<1>5. OneCall' /\ Results'
  BY <1>1, <1>2 DEF OneCall, At, BringIdle, Results, ReadsAreFlash, BootsAfter, ResetDone,
                     WireOwned
<1> QED BY <1>3, <1>4, <1>5 DEF Inv

-----------------------------------------------------------------------------
LEMMA Initially == Init => Inv
<1> SUFFICES ASSUME Init PROVE Inv
  OBVIOUS
<1>1. /\ chip \in Chip /\ csw = "moved" /\ cswSet = FALSE /\ run = Idle /\ cancelled = FALSE
      /\ faults = 0 /\ result = NoResult /\ wire \in Wire /\ bring = Resting /\ session = None
  BY DEF Init, FlasherInit
<1>2. run.op = "none" /\ run.at = "idle" /\ ~ run.verified /\ result.op = "none"
      /\ bring.op = "none" /\ bring.at = "idle" /\ BringIdle
  BY <1>1, Lists DEF Resting, BringIdle
<1>3. FlasherInv
  <2>1. FlasherTyped /\ BatchesWordSized
    <3>1. 0 \in 0..MaxFaults
      BY RunAssumption
    <3> QED BY <1>1, <3>1, Lists DEF FlasherTyped, BatchesWordSized
  <2>2. Placed /\ KnowsMapped /\ OwnReset /\ VerifiedNow /\ LeftWrong
    BY <1>2 DEF Placed, KnowsMapped, OwnReset, VerifiedNow, LeftWrong, ResetPlaces, WritePlaces
  <2> QED BY <2>1, <2>2 DEF FlasherInv
<1>4. WireInv
  BY <1>1, <1>2 DEF WireInv, WireTyped, Staged, HasWire, LetsGo, Resting, Stages
<1>5. OneCall /\ Results
  BY <1>1, <1>2 DEF OneCall, At, Results, ReadsAreFlash, BootsAfter, ResetDone, WireOwned
<1> QED BY <1>3, <1>4, <1>5 DEF Inv

LEMMA Stepwise ==
  ASSUME Inv, [Next]_vars
  PROVE  Inv'
<1>1. CASE Open \/ Rescue \/ Close
  BY <1>1, BeginKeeps
<1>2. CASE BringServe
  BY <1>2, SwitchKeeps, CheckIDRKeeps, InitPortKeeps, DetachKeeps, ClearErrorsKeeps,
     AssertResetKeeps, DeassertKeeps, CheckReleasedKeeps DEF BringServe
<1>3. CASE BringCancel \/ OtherDebugger
  BY <1>3, BringCancelKeeps, OtherDebuggerKeeps
<1>4. CASE SessionServe \/ SessionTimeout \/ ((Commands \/ Cancel) /\ OnSession)
  BY <1>4, ServeKeeps DEF SessionServe, SessionTimeout
<1>5. CASE UNCHANGED vars
  <2>1. UNCHANGED <<chip, csw, cswSet, run, cancelled, faults, result, wire, bring, session>>
    BY <1>5 DEF vars
  <2>2. NextProgram' = NextProgram
    BY <2>1 DEF NextProgram, Wanted
  <2>3. FlasherInv'
    BY <2>1, <2>2 DEF Inv, FlasherInv, FlasherTyped, Placed, KnowsMapped, OwnReset,
              VerifiedNow, AllImage, LeftWrong, ToDo, BatchesWordSized, HaltAfter
  <2>4. WireInv' /\ OneCall'
    BY <2>1 DEF Inv, WireInv, WireTyped, Staged, HasWire, LetsGo, BringIdle, OneCall, At
  <2>5. Results'
    BY <2>1 DEF Inv, Results, ReadsAreFlash, BootsAfter, ResetDone, WireOwned, BringIdle
  <2> QED BY <2>3, <2>4, <2>5 DEF Inv
<1> QED BY <1>1, <1>2, <1>3, <1>4, <1>5 DEF Next

LEMMA Invariance == Spec => []Inv
<1>1. Init => Inv
  BY Initially
<1>2. Inv /\ [Next]_vars => Inv'
  BY Stepwise
<1> QED BY <1>1, <1>2, PTL DEF Spec

\* The types.
THEOREM TypesHold == Spec => [](FlasherTyped /\ WireTyped)
<1>1. Inv => FlasherTyped /\ WireTyped
  BY DEF Inv, FlasherInv, WireInv
<1> QED BY <1>1, Invariance, PTL

\* What FlashImage reports verified is in flash, and what ReadMemory returns
\* is flash (flasher.go ensureXIP, flash.go verify, planSectors).
THEOREM ReadsFlash == Spec => []ReadsAreFlash
<1>1. Inv => ReadsAreFlash
  BY DEF Inv, Results
<1> QED BY <1>1, Invariance, PTL

\* However the erase and the write end, flash is mapped again for the boot
\* (flash.go runPlan, flasher.go Prep, Finish).
THEOREM LeavesBootable == Spec => []BootsAfter
<1>1. Inv => BootsAfter
  BY DEF Inv, Results
<1> QED BY <1>1, Invariance, PTL

\* A reset that is reported took place and left the core as asked for
\* (flasher.go Reset).
THEOREM ResetsAsAsked == Spec => []ResetDone
<1>1. Inv => ResetDone
  BY DEF Inv, Results
<1> QED BY <1>1, Invariance, PTL

\* The flag that saves the write of CSW is never stale (flasher.go apBatch,
\* memMoved).
THEOREM FlagNeverStale == Spec => []BatchesWordSized
<1>1. Inv => BatchesWordSized
  BY DEF Inv, FlasherInv
<1> QED BY <1>1, Invariance, PTL

\* An open Session has the wire to itself and its chip out of reset; what
\* reports a clean end leaves the wire dormant (rp2040.go Open, Close, Rescue).
THEOREM OwnsTheWire == Spec => []WireOwned
<1>1. Inv => WireOwned
  BY DEF Inv, Results
<1> QED BY <1>1, Invariance, PTL

LEMMA LetsGoStep ==
  ASSUME Inv, [Next]_vars, bring.op = "open", bring.at \in {"init", "dormant"},
         BringIdle', session' = None
  PROVE  wire'.mode # "swd" \/ (bring.at = "dormant" /\ faults' > faults)
<1>1. ~ BringIdle /\ bring.target # None /\ bring # Resting
  BY Bringing DEF Staged, BringIdle, Resting
<1>2. bring' = Resting
  BY DEF BringIdle
<1>3. CASE InitPort
  <2>1. CASE Done(TRUE, FALSE, bring.target)
    BY <1>1, <2>1 DEF Done
  <2>2. CASE Step("dormant")
    <3>1. bring' = [bring EXCEPT !.at = "dormant"]
      BY <2>2 DEF Step
    <3>2. bring'.at = "dormant"
      BY <3>1, Bringing DEF Inv, WireInv, WireTyped
    <3> QED BY <1>2, <3>2 DEF Resting
  <2> QED BY <1>3, <2>1, <2>2 DEF InitPort
<1>4. CASE Detach
  <2>1. \/ wire' = ToDormant
        \/ bring.at = "dormant" /\ faults < MaxFaults /\ faults' = faults + 1
    BY <1>4 DEF Detach
  <2>2. ToDormant.mode # "swd"
    BY DEF ToDormant, Dormant
  <2>3. faults \in 0..MaxFaults /\ MaxFaults \in Nat
    BY Running, RunAssumption
  <2> QED BY <2>1, <2>2, <2>3
<1>5. CASE BringServe /\ ~ InitPort /\ ~ Detach
  BY <1>5 DEF BringServe, SwitchAndSelect, CheckIDR, ClearErrors, AssertReset, Deassert,
     CheckReleased
<1>6. CASE ~ BringServe
  <2>1. CASE BringCancel \/ UNCHANGED vars
    BY <1>1, <1>2, <2>1 DEF BringCancel, vars
  <2>2. ~ (Open \/ Rescue \/ Close \/ OtherDebugger)
    BY <1>1 DEF Open, Rescue, Close, Begin, OtherDebugger
  <2>3. ~ OnSession
    BY <1>1 DEF OnSession
  <2> QED BY <1>6, <2>1, <2>2, <2>3 DEF Next, SessionServe, SessionTimeout
<1> QED BY <1>3, <1>4, <1>5, <1>6

\* An Open that fails behind Attach lets the wire go, whether its context is over or
\* not, unless an access of the detach fails (session.go Open).
THEOREM FailedOpenLetsGo == Spec => OpenLetsGo
<1> DEFINE LetGo == bring.op = "open" /\ bring.at \in {"init", "dormant"} /\ BringIdle'
                      /\ session' = None
                    => wire'.mode # "swd" \/ (bring.at = "dormant" /\ faults' > faults)
<1>1. Inv /\ [Next]_vars => [LetGo]_vars
  BY LetsGoStep
<1> QED BY <1>1, Invariance, PTL DEF Spec, OpenLetsGo

-----------------------------------------------------------------------------
(* EraseAuto: what a step does to flash. *)

\* Only the erase and the program write flash.
LEMMA FlashLeftAlone ==
  ASSUME Inv, Serve, ~ EraseRange, ~ Program
  PROVE  chip'.flash = chip.flash
<1>1. chip \in Chip
  BY Running
<1>2. \A d \in {Halt(chip), Resume(chip), SeeReset(chip), Unmapped(chip), Mapped(chip)}
            \cup ResetsTo(chip) : d.flash = chip.flash
  BY <1>1, ChipFields
<1>3. /\ Halt(chip) \in Chip /\ Unmapped(chip) \in Chip /\ Mapped(chip) \in Chip
  BY <1>1, ChipSteps
<1>4. /\ SeeReset(Halt(chip)).flash = chip.flash /\ Halt(Unmapped(chip)).flash = chip.flash
      /\ Halt(Mapped(chip)).flash = chip.flash
  BY <1>2, <1>3, ChipFields
<1>5. CASE Attach
  <2>1. chip' \in {chip, Halt(chip), SeeReset(Halt(chip))}
    BY <1>5 DEF Attach, Left, Stopped
  <2> QED BY <1>2, <1>4, <2>1
<1>6. CASE Prep \/ FlushCache \/ EnterXIP
  <2>1. PICK d \in {chip, Unmapped(chip), Mapped(chip)} : chip' \in {chip, d, Halt(d)}
    <3>1. CASE FlushCache
      BY <3>1 DEF FlushCache, Ran, Failed, Left
    <3>2. CASE EnterXIP
      BY <3>2 DEF EnterXIP, Ran, Failed, Left
    <3>3. CASE Prep
      <4>1. PICK after \in {chip, Unmapped(chip)} : Ran(after) \/ Failed({after})
        BY <3>3 DEF Prep
      <4> QED BY <4>1 DEF Ran, Failed, Left
    <3> QED BY <1>6, <3>1, <3>2, <3>3
  <2> QED BY <1>2, <1>4, <2>1
<1>7. CASE ReleaseCore \/ Settle
  <2>1. chip' \in {chip, Halt(chip), Resume(chip)}
    BY <1>7 DEF ReleaseCore, Settle, Ignored, Left, Let
  <2> QED BY <1>2, <2>1
<1>8. CASE ArmCatch \/ Disarm
  <2>1. PICK b \in BOOLEAN : chip' \in {chip, WithCatch(b)}
    BY <1>8 DEF ArmCatch, Disarm, Ignored, Left, Armed, HaltAfter, WithCatch
  <2> QED BY <1>1, <2>1, CatchSet
<1>9. CASE SysResetReq \/ Poll
  <2>1. chip' \in {chip, SeeReset(chip)} \cup ResetsTo(chip)
    BY <1>9 DEF SysResetReq, Poll, Left
  <2> QED BY <1>2, <2>1
<1>10. CASE EnsureXIP \/ PlanUnread \/ ReadFlash \/ FillBuffer \/ Written \/ Verify \/ ReadDEMCR
  BY <1>10 DEF EnsureXIP, PlanUnread, ReadFlash, FillBuffer, Written, Verify, ReadDEMCR
<1> QED BY <1>5, <1>6, <1>7, <1>8, <1>9, <1>10 DEF Serve

\* And these only the sectors they are to.
LEMMA OnlyToDo ==
  ASSUME Inv, EraseRange \/ Program, NEW s \in Sectors, chip'.flash[s] # chip.flash[s]
  PROVE  ToDo(s) /\ run.at \in WritePlaces
<1> DEFINE r == IF EraseRange THEN NextErase ELSE NextProgram
           to == IF EraseRange THEN Erased ELSE Programmed
<1>1. /\ r \in {NextErase, NextProgram} /\ to \in [Contents -> Contents]
      /\ Ran(Whole(chip, r, to)) \/ Failed(Partly(chip, r, to))
      /\ run.at \in WritePlaces
  BY Routines DEF EraseRange, Program, At, WritePlaces
<1> HIDE DEF r, to
<1>2. PICK d \in {chip, Whole(chip, r, to)} \cup Partly(chip, r, to) : chip' \in {d, Halt(d)}
  BY <1>1 DEF Ran, Failed, Left
<1>3. d \in Chip /\ (s \notin r => d.flash[s] = chip.flash[s])
  BY <1>1, OnlyInRange, Running
<1>4. chip'.flash = d.flash
  BY <1>2, <1>3, ChipFields
<1>5. s \in r
  BY <1>3, <1>4
<1>6. s >= run.next /\ run.plan[s] # "skip"
  BY <1>1, <1>5, Ranges, Running
<1> QED BY <1>1, <1>6 DEF ToDo

LEMMA SparesStep ==
  ASSUME Inv, [Next]_vars, run.op = "program", run.opts.erase = "auto",
         NEW s \in Sectors, chip.flash[s] = "image"
  PROVE  chip'.flash[s] = "image"
<1>1. ~ At("idle") /\ BringIdle /\ session # None
  BY DEF Inv, OneCall
<1>2. CASE BringServe
  BY <1>1, <1>2 DEF BringServe, SwitchAndSelect, CheckIDR, InitPort, Detach, ClearErrors,
     AssertReset, Deassert, CheckReleased, BringIdle, Resting
<1>3. CASE Serve
  <2>1. CASE EraseRange \/ Program
    BY <2>1, OnlyToDo, Running DEF LeftWrong
  <2>2. CASE ~ EraseRange /\ ~ Program
    BY <1>3, <2>2, FlashLeftAlone
  <2> QED BY <2>1, <2>2
<1>4. CASE PollTimeout \/ Cancel \/ BringCancel \/ UNCHANGED vars
  BY <1>4 DEF PollTimeout, Cancel, BringCancel, vars
<1>5. CASE Open \/ Rescue \/ Close \/ OtherDebugger \/ Commands
  BY <1>1, <1>5 DEF Open, Rescue, Close, Begin, OtherDebugger, Commands, FlashImage, ReadMemory,
     Reset, Start
<1> QED BY <1>2, <1>3, <1>4, <1>5 DEF Next, SessionServe, SessionTimeout

\* EraseAuto never touches a sector that holds the image already, whatever
\* fails, and however the runs of the plan are cut (flash.go runPlan).
THEOREM AutoSparesRight == Spec => SparesRight
<1> DEFINE Spares == run.op = "program" /\ run.opts.erase = "auto" =>
                       \A s \in Sectors : chip.flash[s] = "image" => chip'.flash[s] = "image"
<1>1. Inv /\ [Next]_vars => [Spares]_vars
  BY SparesStep
<1> QED BY <1>1, Invariance, PTL DEF Spec, SparesRight
=============================================================================
