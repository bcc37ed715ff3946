------------------------------ MODULE FlashRun ------------------------------
(***************************************************************************)
(* target/rp2040's Flasher as a Session uses it: FlashImage, ReadMemory    *)
(* and Reset, one action per bootrom call, bulk read or register access    *)
(* the outcome depends on.  Any of them may fail, with or without its      *)
(* effect; once the caller's context is cancelled all of them fail, and    *)
(* have none.                                                              *)
(***************************************************************************)
EXTENDS Rp2040Chip, FiniteSetsExt

CONSTANTS
  EraseBlock, \* sectors in an erase block (eraseBlockSize / FlashSector)
  Staging,    \* sectors the bounce buffer holds (stagingLen / FlashSector)
  Options,    \* what FlashImage may be asked: [erase, pre, verify, reset]
  MaxFaults   \* accesses that fail (a bound)

ASSUME RunAssumption ==
  /\ EraseBlock \in Nat \ {0} /\ Staging \in Nat \ {0} /\ MaxFaults \in Nat
  /\ Options \subseteq [erase : {"auto", "all", "none"}, pre : BOOLEAN,
                        verify : BOOLEAN, reset : {"no", "halt", "run"}]

VARIABLES
  chip,      \* the target
  csw,       \* the AP's CSW: "fixed" (a word, no increment) or "moved"
  cswSet,    \* Flasher.cswSet
  run,       \* the call being served
  cancelled, \* its context is done
  faults,    \* accesses that have failed
  result     \* what the last call came to

flasher == <<chip, csw, cswSet, run, cancelled, faults, result>>

Nothing == [erase |-> "none", pre |-> FALSE, verify |-> FALSE, reset |-> "no"]
NoPlan == [s \in Sectors |-> "skip"]
Idle == [op |-> "none", at |-> "idle", opts |-> Nothing, plan |-> NoPlan, next |-> 0,
         err |-> FALSE, verified |-> FALSE, wasMapped |-> FALSE, saw |-> FALSE,
         wasReset |-> FALSE]
NoResult == [op |-> "none", ok |-> FALSE, verified |-> FALSE, mapped |-> FALSE,
             wasReset |-> FALSE, reset |-> "no"]

FlasherInit ==
  /\ chip \in {c \in Chip : ~ c.held /\ ~ c.catch}
  /\ csw = "moved" /\ cswSet = FALSE /\ run = Idle /\ cancelled = FALSE
  /\ faults = 0 /\ result = NoResult

At(step) == run.at = step
Goto(step) ==
  /\ run' = [run EXCEPT !.at = step]
  /\ UNCHANGED <<cancelled, result>>

\* The call returns; "settled" is that no access of Prep or Finish failed.
ReturnWith(ok, settled, verified) ==
  /\ run' = Idle /\ cancelled' = FALSE
  /\ result' = [op |-> run.op, ok |-> ok, verified |-> verified,
                mapped |-> settled /\ (run.wasMapped \/ ok),
                wasReset |-> run.wasReset, reset |-> run.opts.reset]
Return(ok, settled) == ReturnWith(ok, settled, run.verified)

\* An access is answered, or it fails.
Answered == ~ cancelled /\ UNCHANGED faults
FaultMet == ~ cancelled /\ faults < MaxFaults /\ faults' = faults + 1
Fault == FaultMet \/ (cancelled /\ UNCHANGED faults)

\* What a failed access may have left of its effects.
Left(effects) == chip' \in IF cancelled THEN {chip} ELSE {chip} \cup effects

-----------------------------------------------------------------------------
(* The access size: apBatch and memMoved.                                  *)

\* MUTANT of MemBlock: the flag outlives what the memory client does.
MemBlockUnsaid == csw' = "moved" /\ UNCHANGED cswSet

\* The memory client moves a block, which leaves CSW incrementing, and the
\* flasher says so.
MemBlock == csw' = "moved" /\ cswSet' = FALSE

\* It moves one register.
MemReg == csw' \in {csw, "fixed"} /\ UNCHANGED cswSet

\* A batch writes CSW first unless the flag says it is right.
Batch == csw' = (IF cswSet THEN csw ELSE "fixed") /\ cswSet' = TRUE
BatchFails == csw' \in {csw, IF cswSet THEN csw ELSE "fixed"} /\ cswSet' = FALSE

-----------------------------------------------------------------------------
(* The calls begin, and the core is stopped.                               *)

NeedsRead(o) == o.pre \/ o.erase = "auto"

Start(op, opts, step) ==
  /\ At("idle")
  /\ run' = [Idle EXCEPT !.op = op, !.opts = opts, !.at = step, !.wasMapped = chip.mapped]
  /\ result' = NoResult
  /\ UNCHANGED <<chip, csw, cswSet, cancelled, faults>>

FlashImage == \E o \in Options : Start("program", o, "attach")
ReadMemory == Start("read", Nothing, "ssi")
Reset == \E r \in {"halt", "run"} : Start("reset", [Nothing EXCEPT !.reset = r], "release")

\* The caller gives up on the call.
Cancel ==
  /\ ~ At("idle") /\ ~ cancelled
  /\ cancelled' = TRUE
  /\ UNCHANGED <<chip, csw, cswSet, run, faults, result>>

\* MUTANT of Stopped: the stop is not polled for.
StoppedUnseen(c) == Halt(c)

\* Flasher.Halt polls DHCSR, and that clears S_RESET_ST.
Stopped(c) == SeeReset(Halt(c))

\* The table of the bootrom's routines is read in blocks of the memory client.
LoadJumpTable == MemBlock

Attach ==
  /\ At("attach") \/ At("mapAttach")
  /\ \/ /\ Answered /\ chip' = Stopped(chip) /\ LoadJumpTable
        /\ Goto(IF At("mapAttach") THEN "mapIF"
                ELSE IF NeedsRead(run.opts) THEN "ssi" ELSE "plan")
     \/ /\ Fault /\ Left({Halt(chip), Stopped(chip)})
        /\ csw' \in {csw, "fixed", "moved"} /\ cswSet' = FALSE
        /\ Return(FALSE, TRUE)

\* MUTANT of EnsureXIP: flash is taken to be mapped.
TrustXIP ==
  /\ At("ssi") /\ UNCHANGED <<chip, faults>> /\ Batch /\ Goto("read")

\* ensureXIP: a batch reads the SSI, and what is not mapped gets mapped.
EnsureXIP ==
  /\ At("ssi") /\ UNCHANGED chip
  /\ \/ Answered /\ Batch /\ Goto(IF chip.mapped THEN "read" ELSE "mapAttach")
     \/ Fault /\ BatchFails /\ Return(FALSE, TRUE)

-----------------------------------------------------------------------------
(* Bootrom calls: romCall.                                                 *)

\* It stops on its breakpoint; or it fails, and has run, or not, or in part.
Ran(after) == Answered /\ chip' = Halt(after) /\ Batch
Failed(afters) == Fault /\ Left(afters) /\ BatchFails

Unmapped(c) == [c EXCEPT !.mapped = FALSE]
Mapped(c) == [c EXCEPT !.mapped = TRUE]

\* Prep: connect_internal_flash and flash_exit_xip, for ensureXIP ("map") and
\* for the write ("prep").  An error ends the call there and then.
Then == [mapIF |-> "mapEX", prepIF |-> "prepEX", mapEX |-> "mapFC", prepEX |-> "erase",
         mapFC |-> "mapCX", finFC |-> "finCX", mapCX |-> "read", finCX |-> "verify"]

Prep ==
  \E s \in {"mapIF", "prepIF", "mapEX", "prepEX"} :
    LET after == IF s \in {"mapEX", "prepEX"} THEN Unmapped(chip) ELSE chip IN
    /\ At(s)
    /\ \/ Ran(after) /\ Goto(Then[s])
       \/ Failed({after}) /\ Return(FALSE, FALSE)

\* Finish: flash_flush_cache and flash_enter_cmd_xip, the second whatever the
\* first came to.  An error of the write, or of either, ends the call.
FlushCache ==
  /\ At("mapFC") \/ At("finFC")
  /\ \/ Ran(chip) /\ Goto(Then[run.at])
     \/ Failed({chip}) /\ run' = [run EXCEPT !.at = Then[run.at], !.err = TRUE]
        /\ UNCHANGED <<cancelled, result>>

EnterXIP ==
  /\ At("mapCX") \/ At("finCX")
  /\ \/ Ran(Mapped(chip)) /\ IF run.err THEN Return(FALSE, TRUE) ELSE Goto(Then[run.at])
     \/ Failed({Mapped(chip)}) /\ Return(FALSE, FALSE)

-----------------------------------------------------------------------------
(* The plan.                                                               *)

\* MUTANT of PlanFor: what is there is not looked at.
PlanBlind(o, seen) == [s \in Sectors |-> IF o.erase = "none" THEN "program" ELSE "erase"]

\* planSectors.
PlanFor(o, seen) ==
  [s \in Sectors |->
     IF seen[s] = "image" THEN "skip"
     ELSE IF o.erase = "none" THEN "program"
     ELSE IF o.erase = "all" \/ seen[s] # "blank" THEN "erase" ELSE "program"]

\* With nothing to do there is nothing to write, only to verify.
Plan(plan, verified) ==
  /\ run' = [run EXCEPT !.plan = plan, !.verified = verified,
                        !.at = IF plan = NoPlan THEN "verify" ELSE "prepIF"]
  /\ UNCHANGED <<cancelled, result>>

PlanUnread ==
  /\ At("plan")
  /\ Plan([s \in Sectors |-> IF run.opts.erase = "none" THEN "program" ELSE "erase"], FALSE)
  /\ UNCHANGED <<chip, csw, cswSet, faults>>

\* A read through the window shows flash when it is mapped, and anything else
\* otherwise.
Seen == IF chip.mapped THEN {chip.flash} ELSE [Sectors -> Contents]

ReadFlash ==
  /\ At("read") /\ UNCHANGED chip /\ MemBlock
  /\ \/ /\ Answered
        /\ IF run.op = "read" THEN Return(TRUE, TRUE)
           ELSE \E seen \in Seen :
                  Plan(PlanFor(run.opts, seen), \A s \in Sectors : seen[s] = "image")
     \/ Fault /\ Return(FALSE, TRUE)

-----------------------------------------------------------------------------
(* The write: runPlan.                                                     *)

\* The next sectors one call takes: a run of the plan, cut at "most" sectors
\* from its start, or at a boundary of "most".
RunFrom(first, wanted, last) ==
  {s \in first..last : \A t \in first..s : t \in wanted}
Wanted(kinds) == {s \in Sectors : s >= run.next /\ run.plan[s] \in kinds}
EraseEnd(s) == (s \div EraseBlock) * EraseBlock + EraseBlock - 1
NextErase ==
  LET w == Wanted({"erase"}) IN
  IF w = {} THEN {} ELSE RunFrom(Min(w), w, EraseEnd(Min(w)))
NextProgram ==
  LET w == Wanted({"erase", "program"}) IN
  IF w = {} THEN {} ELSE RunFrom(Min(w), w, Min(w) + Staging - 1)

WriteOn(range, step) ==
  /\ run' = [run EXCEPT !.next = Max(range) + 1, !.at = step]
  /\ UNCHANGED <<cancelled, result>>

\* MUTANT of WriteFailed: the error goes straight back to the caller.
WriteAbandoned == Return(FALSE, TRUE)

WriteFailed ==
  /\ run' = [run EXCEPT !.at = "finFC", !.err = TRUE]
  /\ UNCHANGED <<cancelled, result>>

EraseRange ==
  /\ At("erase") /\ NextErase # {}
  /\ \/ Ran(Whole(chip, NextErase, Erased)) /\ WriteOn(NextErase, "erase")
     \/ Failed(Partly(chip, NextErase, Erased)) /\ WriteFailed

\* Program fills the bounce buffer over the memory client, and calls.
FillBuffer ==
  /\ At("program") /\ NextProgram # {} /\ UNCHANGED chip /\ MemBlock
  /\ (Answered /\ Goto("call")) \/ (Fault /\ WriteFailed)

Program ==
  /\ At("call")
  /\ \/ Ran(Whole(chip, NextProgram, Programmed)) /\ WriteOn(NextProgram, "program")
     \/ Failed(Partly(chip, NextProgram, Programmed)) /\ WriteFailed

\* From the erases to the programs, and from those to Finish.
Written ==
  /\ (At("erase") /\ NextErase = {}) \/ (At("program") /\ NextProgram = {})
  /\ run' = [run EXCEPT !.at = IF At("erase") THEN "program" ELSE "finFC", !.next = 0]
  /\ UNCHANGED <<chip, csw, cswSet, cancelled, faults, result>>

\* Verify, if asked and not done by the plan's read; then the reset, if asked.
AfterVerify(verified) ==
  IF run.opts.reset = "no"
  THEN ReturnWith(TRUE, TRUE, verified)
  ELSE /\ run' = [run EXCEPT !.verified = verified, !.at = "release"]
       /\ UNCHANGED <<cancelled, result>>

Verify ==
  /\ At("verify") /\ UNCHANGED chip
  /\ IF run.opts.verify /\ ~ run.verified
     THEN /\ MemBlock
          /\ \/ /\ Answered
                /\ \E seen \in Seen :
                     IF \A s \in Sectors : seen[s] = "image"
                     THEN AfterVerify(TRUE) ELSE Return(FALSE, TRUE)
             \/ Fault /\ Return(FALSE, TRUE)
     ELSE AfterVerify(run.verified) /\ UNCHANGED <<csw, cswSet, faults>>

-----------------------------------------------------------------------------
(* Flasher.Reset.                                                          *)

HaltAfter == run.opts.reset = "halt"
Let(c) == IF HaltAfter THEN Halt(c) ELSE Resume(c)

\* An access whose error is ignored: it is answered, or it fails and may have
\* landed all the same.
Ignored(effects) == (Answered /\ chip' \in effects) \/ (Fault /\ Left(effects))

\* The core is let go or stopped; then memMoved.
ReleaseCore ==
  /\ At("release") /\ Ignored({Let(chip)})
  /\ csw' \in {csw, "fixed"} /\ cswSet' = FALSE
  /\ Goto("demcr")

ReadDEMCR ==
  /\ At("demcr") /\ UNCHANGED chip /\ MemReg
  /\ (Answered /\ Goto("arm")) \/ (Fault /\ Return(FALSE, TRUE))

Armed == [chip EXCEPT !.catch = HaltAfter]
ArmCatch ==
  /\ At("arm") /\ MemReg
  /\ \/ Answered /\ chip' = Armed /\ Goto("sysreset")
     \/ Fault /\ Left({Armed}) /\ Return(FALSE, TRUE)

SysResetReq ==
  /\ At("sysreset") /\ MemReg /\ UNCHANGED <<cancelled, result>>
  /\ \/ /\ Answered \/ FaultMet
        /\ chip' \in ResetsTo(chip)
        /\ run' = [run EXCEPT !.at = "poll", !.wasReset = TRUE]
     \/ Fault /\ chip' = chip /\ run' = [run EXCEPT !.at = "poll"]

\* One round of the loop: S_RESET_ST first, then, with it gone, what was asked.
\* A read that fails may have cleared it.
Poll ==
  /\ At("poll")
  /\ \/ /\ Answered /\ chip' = SeeReset(chip) /\ Batch
        /\ IF chip.resetSt
           THEN run' = [run EXCEPT !.saw = TRUE] /\ UNCHANGED <<cancelled, result>>
           ELSE IF run.saw /\ (HaltAfter => chip.halted) THEN Goto("disarm")
           ELSE UNCHANGED <<run, cancelled, result>>
     \/ /\ Fault /\ Left({SeeReset(chip)}) /\ BatchFails
        /\ UNCHANGED <<run, cancelled, result>>

\* MUTANT of PollTimeout: the deadline is looked at behind a poll that was answered.
TimeoutAnswered ==
  /\ At("poll") /\ ~ cancelled /\ Return(FALSE, TRUE)
  /\ UNCHANGED <<chip, csw, cswSet, faults>>

PollTimeout ==
  /\ At("poll") /\ Return(FALSE, TRUE)
  /\ UNCHANGED <<chip, csw, cswSet, faults>>

Disarm ==
  /\ At("disarm") /\ MemReg /\ Ignored({[chip EXCEPT !.catch = FALSE]})
  /\ Goto("settle")

Settle ==
  /\ At("settle")
  /\ \/ Answered /\ chip' = Let(chip) /\ Batch /\ Return(TRUE, TRUE)
     \/ Fault /\ Left({Let(chip)}) /\ BatchFails /\ Return(FALSE, TRUE)

-----------------------------------------------------------------------------
Serve ==
  \/ Attach \/ EnsureXIP \/ Prep \/ FlushCache \/ EnterXIP \/ PlanUnread \/ ReadFlash
  \/ EraseRange \/ FillBuffer \/ Program \/ Written \/ Verify
  \/ ReleaseCore \/ ReadDEMCR \/ ArmCatch \/ SysResetReq \/ Poll \/ Disarm \/ Settle
Commands == FlashImage \/ ReadMemory \/ Reset

FlasherNext == Commands \/ Cancel \/ Serve \/ PollTimeout
FlasherSpec == FlasherInit /\ [][FlasherNext]_flasher
=============================================================================
