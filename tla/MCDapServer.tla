---------------------------- MODULE MCDapServer ----------------------------
(* Every kind of command, in batches of up to three, into a small reply.    *)
EXTENDS DapServer

Plain == {<<1, 0, 1>>, <<3>>, <<10>>, <<17, 1, 0, 0, 0>>}
Configs == {<<4, 7, 20, 0, 0, 0>>, <<19, 5>>, <<19, 2>>}
Sequences == {<<18, 9, 255, 1>>, <<29, 2, 8, 85, 137>>, <<20, 2, 8, 1, 9, 1, 2>>, <<21, 1, 4>>, <<22, 0>>}
Transfers ==
  {<<5, 0, 3, 2, 16 + 2, 1, 0, 0, 0, 130>>, <<5, 0, 2, 32, 1, 0, 0, 0, 128, 3, 0, 0, 0>>,
   <<6, 0, 3, 0, 15>>, <<6, 0, 1, 0, 13, 1, 2, 3, 4>>}
Others == {<<0, 1>>, <<0, 241>>, <<0, 254>>, <<128, 3>>, <<23, 0>>}

Cmds == Plain \cup Configs \cup Sequences \cup Transfers \cup Others
Pack(cs) == [batch |-> TRUE, cmds |-> cs, count |-> Len(cs), cut |-> 0]

MCPackets ==
  {[batch |-> FALSE, cmds |-> <<c>>, count |-> 1, cut |-> 0] : c \in Cmds}
  \cup {Pack(<<a, b>>) : a \in Cmds, b \in Cmds}
  \cup {Pack(<<a, b, c>>) : a \in Transfers, b \in Configs \cup Transfers,
                            c \in Plain \cup Configs \cup Others}
  \cup {[Pack(<<a>>) EXCEPT !.count = n] : a \in Sequences \cup Transfers, n \in {0, 2}}
  \cup {[Pack(<<<<3>>, a>>) EXCEPT !.cut = n] : a \in Cmds, n \in {1, 3}}
  \cup {[Pack(<<<<3>>>>) EXCEPT !.cut = 2]}

MCVendor ==
  {[consumed |-> 1, produced |-> p, ok |-> ok] : p \in {2, 99}, ok \in BOOLEAN}
=============================================================================
