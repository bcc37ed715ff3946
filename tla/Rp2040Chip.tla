----------------------------- MODULE Rp2040Chip -----------------------------
(***************************************************************************)
(* The chip as a debugger moves it (simtarget/rp2040.go): one core, its    *)
(* debug registers, and the flash behind the XIP window.  A sector holds   *)
(* "image" (what is to be written), "blank", or "other" (bits an image     *)
(* programmed on top of would be mixed with).                              *)
(***************************************************************************)
EXTENDS Naturals, FiniteSets

CONSTANT NSectors \* sectors the image covers

ASSUME ChipAssumption == NSectors \in Nat \ {0}

Sectors == 0..(NSectors - 1)
Contents == {"image", "blank", "other"}

Chip == [halted : BOOLEAN,  \* S_HALT
         catch : BOOLEAN,   \* DEMCR.VC_CORERESET
         resetSt : BOOLEAN, \* S_RESET_ST: sticky, cleared by the read that sees it
         mapped : BOOLEAN,  \* the XIP window shows flash
         held : BOOLEAN,    \* the power-on state machine is held in reset
         flash : [Sectors -> Contents]]

Halt(c) == [c EXCEPT !.halted = TRUE]
Resume(c) == [c EXCEPT !.halted = FALSE]
SeeReset(c) == [c EXCEPT !.resetSt = FALSE]

\* AIRCR.SYSRESETREQ.  The simulated chip has flash mapped again at once; a
\* core caught at the vector has not run the boot stage that maps it
\* (flasher.go, xipMapped).
ResetsTo(c) ==
  {[c EXCEPT !.resetSt = TRUE, !.halted = c.catch, !.mapped = m] :
     m \in IF c.catch THEN BOOLEAN ELSE {TRUE}}

\* The rescue port's reset, asserted and released: the bootrom stops before the
\* second boot stage has run.
Hold(c) == [c EXCEPT !.held = TRUE, !.halted = FALSE, !.catch = FALSE, !.mapped = FALSE]
Release(c) == IF c.held THEN [c EXCEPT !.held = FALSE, !.resetSt = TRUE] ELSE c

\* What the flash routines make of a sector.
Erased == [s \in Contents |-> "blank"]
Programmed == [s \in Contents |-> IF s = "other" THEN "other" ELSE "image"]

\* A routine over some sectors, run to completion, or stopped somewhere in it:
\* each sector done, not done, or in between.
Whole(c, range, to) ==
  [c EXCEPT !.flash = [s \in Sectors |-> IF s \in range THEN to[@[s]] ELSE @[s]]]
Partly(c, range, to) ==
  {[c EXCEPT !.flash = f] :
     f \in {g \in [Sectors -> Contents] :
              \A s \in Sectors :
                \/ g[s] = c.flash[s]
                \/ s \in range /\ g[s] \in {to[c.flash[s]], "other"}}}
=============================================================================
