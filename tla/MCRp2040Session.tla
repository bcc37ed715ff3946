-------------------------- MODULE MCRp2040Session --------------------------
(* The ways FlashImage is asked: preverify, verify and the reset where they *)
(* make a difference to each erase mode.                                    *)
EXTENDS Rp2040Session

Opt(e, p, v, r) == [erase |-> e, pre |-> p, verify |-> v, reset |-> r]
MCOptions == {Opt("auto", FALSE, TRUE, "run"), Opt("auto", TRUE, FALSE, "halt"),
              Opt("all", FALSE, TRUE, "no"), Opt("all", TRUE, FALSE, "no"),
              Opt("none", FALSE, TRUE, "no")}
=============================================================================
