--------------------------- MODULE Rp2040Session ---------------------------
(***************************************************************************)
(* target/rp2040 as a caller uses it: Rescue, Open, the calls on the       *)
(* Session (FlashRun), Close, over a multidrop wire another debugger may   *)
(* have left in any state.  A call on the wire, like any other, may fail   *)
(* with or without its effect, and its context may be cancelled.           *)
(***************************************************************************)
EXTENDS FlashRun

CONSTANTS
  Cores, \* TARGET_CORE_0, TARGET_CORE_1
  Port,  \* TARGET_RESCUE: the rescue port
  None   \* no debug port

ASSUME SessionAssumption == Port \notin Cores /\ None \notin Cores \cup {Port}

VARIABLES
  wire,    \* [mode, sel, seen]: which port listens, and has answered DPIDR
  bring,   \* the call being served: [op, at, target]
  session  \* the core the open Session is of, or None

vars == <<chip, csw, cswSet, run, cancelled, faults, result, wire, bring, session>>
unrun == <<csw, cswSet, run>>

Wire == [mode : {"jtag", "dormant"}, sel : {None}, seen : {FALSE}]
        \cup [mode : {"swd"}, sel : Cores \cup {Port, None}, seen : BOOLEAN]
Dormant == [mode |-> "dormant", sel |-> None, seen |-> FALSE]
Selected(t) == [mode |-> "swd", sel |-> t, seen |-> FALSE]

Resting == [op |-> "none", at |-> "idle", target |-> None]
BringIdle == bring = Resting

Init == FlasherInit /\ wire \in Wire /\ bring = Resting /\ session = None

Step(at) == bring' = [bring EXCEPT !.at = at] /\ UNCHANGED <<session, result, cancelled>>

\* The call returns; "clean" is that it owes the wire its dormant state.
Done(ok, clean, s) ==
  /\ bring' = Resting /\ session' = s /\ cancelled' = FALSE
  /\ result' = [NoResult EXCEPT !.op = bring.op, !.ok = ok, !.verified = clean]

\* A cores' port is in reset with its chip; the rescue port never is.
Listens == wire.sel # None /\ (wire.sel = Port \/ ~ chip.held)

-----------------------------------------------------------------------------
(* The wire (sequences.go).                                                *)

\* SwitchAndSelect: JTAG to dormant, dormant to SWD, a line reset, TARGETSEL,
\* in one call that may stop anywhere.
Switched(t) == {wire, [wire EXCEPT !.sel = None, !.seen = FALSE], Dormant,
                Selected(None), Selected(t)}

\* SWDToDormant, which a port in JTAG mode does not follow.
ToDormant == IF wire.mode = "jtag" THEN wire ELSE Dormant

WireAccess(after, lost) ==
  \/ Answered /\ wire' = after
  \/ Fault /\ wire' \in IF cancelled THEN {wire} ELSE {wire} \cup lost

-----------------------------------------------------------------------------
(* Attach, Open, Close.                                                    *)

Begin(op, t, at) ==
  /\ BringIdle /\ At("idle")
  /\ bring' = [op |-> op, at |-> at, target |-> t]
  /\ result' = NoResult
  /\ UNCHANGED <<chip, unrun, cancelled, faults, wire, session>>

\* A target that is none of the three is refused before the wire is touched.
Open == session = None /\ \E t \in Cores \cup {Port} : Begin("open", t, "switch")
Rescue == session = None /\ Begin("rescue", Port, "switch")
Close == session # None /\ Begin("close", session, "dormant")

SwitchAndSelect ==
  /\ bring.at = "switch" /\ UNCHANGED <<chip, unrun>>
  /\ \/ Answered /\ wire' = Selected(bring.target) /\ Step("idr")
     \/ /\ Fault /\ wire' \in IF cancelled THEN {wire} ELSE Switched(bring.target)
        /\ Done(FALSE, FALSE, None)

\* The port whose DPIDR the call takes for an answer: Attach a core's, also
\* when it was asked for the rescue port; Rescue the rescue port's.
WantedIDR == IF bring.op = "rescue" THEN {Port} ELSE Cores

CheckIDR ==
  /\ bring.at = "idr" /\ UNCHANGED <<chip, unrun>>
  /\ LET seen == IF Listens THEN [wire EXCEPT !.seen = TRUE] ELSE wire IN
     \/ /\ Answered /\ wire' = seen
        /\ IF Listens /\ wire.sel \in WantedIDR
           THEN Step(IF bring.op = "rescue" THEN "clear" ELSE "init")
           ELSE Done(FALSE, FALSE, None)
     \/ /\ Fault /\ wire' \in IF cancelled THEN {wire} ELSE {wire, seen}
        /\ Done(FALSE, FALSE, None)

\* A power-up request to the rescue port resets the chip.
PowerUp == IF wire.sel = Port THEN Hold(chip) ELSE chip

\* MUTANT of InitPort: an Open that fails leaves the wire as it is.
InitPortLeaves ==
  /\ bring.at = "init" /\ UNCHANGED <<wire, run>>
  /\ cswSet' = FALSE
  /\ \/ /\ Answered /\ chip' = PowerUp /\ csw' = "moved"
        /\ Done(TRUE, FALSE, bring.target)
     \/ /\ Fault /\ Left({PowerUp}) /\ csw' \in {csw, "moved"}
        /\ Done(FALSE, FALSE, None)

\* dp.Init asks for power and mem.Init sets CSW up; an error of either detaches.
InitPort ==
  /\ bring.at = "init" /\ UNCHANGED <<wire, run>>
  /\ cswSet' = FALSE
  /\ \/ /\ Answered /\ chip' = PowerUp /\ csw' = "moved"
        /\ Done(TRUE, FALSE, bring.target)
     \/ /\ Fault /\ Left({PowerUp}) /\ csw' \in {csw, "moved"}
        /\ Step("dormant")

\* SWDToDormant, the end of Close and Rescue and of an Open that failed behind
\* Attach, which detaches under a context that cannot be cancelled.
Detach ==
  /\ bring.at = "dormant" /\ UNCHANGED <<chip, unrun>>
  /\ LET over == cancelled /\ bring.op # "open" IN
     \/ /\ ~ over /\ UNCHANGED faults
        /\ wire' = ToDormant /\ Done(bring.op # "open", TRUE, None)
     \/ /\ ~ over /\ faults < MaxFaults /\ faults' = faults + 1
        /\ wire' \in {wire, ToDormant, Selected(None)} /\ Done(FALSE, FALSE, None)
     \/ /\ over /\ UNCHANGED <<faults, wire>> /\ Done(FALSE, FALSE, None)

-----------------------------------------------------------------------------
(* Rescue, behind the same switch and DPIDR check.                         *)

ClearErrors ==
  /\ bring.at = "clear" /\ UNCHANGED <<chip, unrun, wire>>
  /\ (Answered /\ Step("assert")) \/ (Fault /\ Done(FALSE, FALSE, None))

AssertReset ==
  /\ bring.at = "assert" /\ UNCHANGED <<unrun, wire>>
  /\ \/ Answered /\ chip' = PowerUp /\ Step("deassert")
     \/ Fault /\ Left({PowerUp}) /\ Done(FALSE, FALSE, None)

\* The write that takes the request away may be acknowledged and not take.
Deassert ==
  /\ bring.at = "deassert" /\ UNCHANGED <<unrun, wire>>
  /\ \/ Answered /\ chip' \in {chip, Release(chip)} /\ Step("check")
     \/ Fault /\ Left({Release(chip)}) /\ Done(FALSE, FALSE, None)

\* MUTANT of CheckReleased: CTRL/STAT is not read back.
TrustRelease ==
  /\ bring.at = "check" /\ UNCHANGED <<chip, unrun, wire, faults>> /\ Step("dormant")

CheckReleased ==
  /\ bring.at = "check" /\ UNCHANGED <<chip, unrun, wire>>
  /\ \/ Answered /\ IF chip.held THEN Done(FALSE, FALSE, None) ELSE Step("dormant")
     \/ Fault /\ Done(FALSE, FALSE, None)

-----------------------------------------------------------------------------
\* Another debugger, while nobody here has the wire.
OtherDebugger ==
  /\ session = None /\ BringIdle
  /\ wire' \in Wire /\ result' = NoResult
  /\ UNCHANGED <<chip, unrun, cancelled, faults, bring, session>>

BringCancel ==
  /\ ~ BringIdle /\ ~ cancelled /\ cancelled' = TRUE
  /\ UNCHANGED <<chip, unrun, faults, result, wire, bring, session>>

BringServe ==
  \/ SwitchAndSelect \/ CheckIDR \/ InitPort \/ Detach
  \/ ClearErrors \/ AssertReset \/ Deassert \/ CheckReleased

OnSession == session # None /\ BringIdle /\ UNCHANGED <<wire, bring, session>>
SessionServe == Serve /\ OnSession
SessionTimeout == PollTimeout /\ OnSession

Next ==
  \/ Open \/ Rescue \/ Close \/ BringServe \/ BringCancel \/ OtherDebugger
  \/ SessionServe \/ SessionTimeout \/ ((Commands \/ Cancel) /\ OnSession)

Spec == Init /\ [][Next]_vars
\* A call goes on, and the deadline of a poll passes.
FairSpec == Spec /\ WF_vars(BringServe) /\ WF_vars(SessionServe) /\ WF_vars(SessionTimeout)

-----------------------------------------------------------------------------
(* Properties. *)

\* What FlashImage reports verified, by a verify or by the read behind the
\* plan, is in flash; what ReadMemory returns from the window is flash, also on
\* a chip that never mapped it (flasher.go ensureXIP, flash.go verify).
ReadsAreFlash ==
  /\ result.op = "program" /\ result.verified =>
       \A s \in Sectors : chip.flash[s] = "image"
  /\ result.op = "read" /\ result.ok => chip.mapped

\* However the erase and the write end, flash is mapped again when FlashImage
\* or ReadMemory returns, unless an access of Prep or Finish itself failed or the
\* core was caught at its reset vector: the target can boot (flash.go:279,
\* flasher.go Finish).
BootsAfter ==
  /\ result.op \in {"program", "read"} /\ result.mapped
  /\ ~ (result.wasReset /\ result.reset = "halt")
  => chip.mapped

\* A reset that is reported leaves the core as it was asked for, and one that
\* FlashImage reports took place: nothing its polls may have left over of
\* S_RESET_ST passes for it, because it has polled the halt before (flasher.go
\* Reset; on its own Reset may still find one from before its call).
ResetDone ==
  result.ok /\ result.op \in {"program", "reset"} /\ result.reset # "no" =>
    /\ chip.halted = (result.reset = "halt")
    /\ result.op = "program" => result.wasReset

\* A batch goes out with CSW at a word and no increment, whatever the memory
\* client moved since: the flag that saves the write is never stale, though
\* Reset writes DEMCR without saying so (flasher.go apBatch, Reset).
BatchesWordSized == cswSet => csw = "fixed"

\* EraseAuto leaves a sector that already holds the image alone, whatever fails
\* around it and however the calls are cut at block and buffer boundaries.
SparesRight ==
  [][run.op = "program" /\ run.opts.erase = "auto" =>
       \A s \in Sectors : chip.flash[s] = "image" => chip'.flash[s] = "image"]_vars

\* An open Session's core is the port that listens and its chip is out of
\* reset; a Close or Rescue that succeeds, and an Open that failed behind Attach
\* and could detach, leave the wire dormant for the next debugger; and a Rescue
\* that succeeds has let the chip go.
WireOwned ==
  /\ session # None /\ BringIdle =>
       wire = [Selected(session) EXCEPT !.seen = TRUE] /\ ~ chip.held
  /\ result.op \in {"open", "close", "rescue"} /\ result.verified =>
       wire.mode # "swd"
  /\ result.op = "rescue" /\ result.ok => ~ chip.held /\ chip.resetSt

\* An Open that got behind Attach and fails lets the wire go, cancelled or not, unless
\* an access of the detach itself fails: the next debugger can have it (session.go Open).
OpenLetsGo ==
  [][bring.op = "open" /\ bring.at \in {"init", "dormant"} /\ BringIdle' /\ session' = None
     => wire'.mode # "swd" \/ (bring.at = "dormant" /\ faults' > faults)]_vars

\* Every call returns, cancelled or not, whatever fails in it.
CallsReturn ==
  /\ []<>BringIdle
  /\ ~ At("idle") ~> At("idle")
=============================================================================
