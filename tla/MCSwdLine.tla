----------------------------- MODULE MCSwdLine -----------------------------
(* Every wiring of both drivers; linuxgpiod's on one chip, with SWDIO on    *)
(* another and with the direction line on another.                          *)
EXTENDS SwdLine

On(clk, dout, dir) == [clk |-> clk, dout |-> dout, dir |-> dir]
MCBoards ==
  {b \in [driver : {"bcm2835", "linuxgpiod"}, shared : BOOLEAN, dir : BOOLEAN,
          chip : {On(0, 0, 0), On(0, 1, 1), On(0, 0, 1)}, pull : BOOLEAN] :
     /\ b.shared \/ b.dir
     /\ b.driver = "bcm2835" => b.chip = On(0, 0, 0)
     /\ b.driver = "linuxgpiod" => ~ b.pull
     /\ ~ b.dir => ~ b.pull /\ b.chip # On(0, 0, 1)}
MCSeqRuns == {<<"in", "out">>, <<"in">>, <<"in", "bad", "out">>}
=============================================================================
