----------------------------- MODULE DapServer -----------------------------
(***************************************************************************)
(* The CMSIS-DAP server (cmsis/server): a packet is one command, or a batch*)
(* of them back to back, and nothing but what each handler says it took    *)
(* tells where the next one begins.  A packet is its bytes, a reply its    *)
(* length.  The probe may refuse anything.                                 *)
(***************************************************************************)
EXTENDS Naturals, Sequences, SequencesExt, TLC

CONSTANTS
  Packets, \* what clients send, see IsPacket
  Room,    \* PacketSize, and the length of the reply buffer
  Name,    \* the length of a string DAP_Info returns
  Vendor   \* what HandleVendor may return: [consumed, produced, ok]

\* cmds: the commands the client put in, byte by byte; batch: behind a header that
\* counts them; cut: bytes that are missing at the end.
IsPacket(p) ==
  /\ p.batch \in BOOLEAN /\ p.cmds \in Seq(Seq(0..255)) /\ p.cmds # <<>>
  /\ p.count \in 0..255 /\ ~p.batch => p.count = 1 /\ p.cut \in Nat

ASSUME ServerAssumption ==
  /\ \A p \in Packets : IsPacket(p)
  /\ Room \in Nat /\ Room > 2 /\ Name \in 0..254
  /\ \A v \in Vendor : v.consumed \in Nat /\ v.produced \in Nat /\ v.ok \in BOOLEAN

VARIABLES
  pc,      \* "idle", "run", "done"
  packet,
  at,      \* request bytes consumed
  used,    \* reply bytes produced
  left,    \* commands of the batch still to come
  ran,     \* where the commands that were run began
  refused, \* ID_DAP_Invalid has been answered
  cfg,     \* Server.cfg, the half each of the two commands sets
  applied, \* what the probe was configured with last
  told,    \* the last Configure went well
  want     \* what the client's own commands amount to

vars == <<pc, packet, at, used, left, ran, refused, cfg, applied, told, want>>
settings == <<cfg, applied, told, want>>

Header(p) == IF p.batch THEN 2 ELSE 0
Start(p, k) == Header(p) + Len(FlattenSeq(SubSeq(p.cmds, 1, k - 1)))
Bytes(p) ==
  LET all == (IF p.batch THEN <<127, p.count>> ELSE <<>>) \o FlattenSeq(p.cmds)
  IN SubSeq(all, 1, Len(all) - p.cut)

\* New: 100 retries on WAIT, a turnaround of one cycle.
Default == [transfer |-> <<0, 100, 0, 0, 0>>, swd |-> 0]

Nothing == [batch |-> FALSE, cmds |-> << <<0>> >>, count |-> 1, cut |-> 0]

Init ==
  /\ pc = "idle" /\ packet = Nothing /\ at = 0 /\ used = 0 /\ left = 0
  /\ ran = <<>> /\ refused = FALSE
  /\ cfg = Default /\ applied = Default /\ told = TRUE /\ want = Default

\* The next packet, of this client or of the next one.
Receive ==
  /\ pc = "idle"
  /\ packet' \in Packets
  /\ pc' = "run"
  /\ at' = Header(packet') /\ used' = Header(packet') /\ left' = packet'.count
  /\ UNCHANGED <<ran, refused, settings>>

\* A batch of one byte has no count.
NoCount ==
  /\ pc = "run" /\ Len(Bytes(packet)) < Header(packet)
  /\ pc' = "done" /\ at' = 1 /\ used' = 1 /\ refused' = TRUE
  /\ UNCHANGED <<packet, left, ran, settings>>

Serving ==
  /\ pc = "run" /\ left > 0
  /\ at < Len(Bytes(packet)) /\ used < Room

Answer ==
  /\ pc = "run" /\ ~Serving /\ Len(Bytes(packet)) >= Header(packet)
  /\ pc' = "done"
  /\ UNCHANGED <<packet, at, used, left, ran, refused, settings>>

\* The reply is sent.
Send ==
  /\ pc = "done"
  /\ pc' = "idle" /\ packet' = Nothing /\ at' = 0 /\ used' = 0 /\ left' = 0
  /\ ran' = <<>> /\ refused' = FALSE /\ want' = cfg
  /\ UNCHANGED <<cfg, applied, told>>

-----------------------------------------------------------------------------
(* processCmd. *)

Request == SubSeq(Bytes(packet), at + 1, Len(Bytes(packet)))
Cmd == Request[1]
Req == Tail(Request)
RespLen == Room - used - 1

Least(a, b) == IF a < b THEN a ELSE b

\* MUTANT of WithID: the command's own byte is or-ed into the count.
OredID(n) == IF n % 2 = 0 THEN n + 1 ELSE n

\* The command's byte, on top of what the handler counted.
WithID(n) == n + 1

\* The batch walks on by the counts, clamped to what is left of either packet.
Walk(took, gave) ==
  /\ at' = at + Least(took, Len(Request)) /\ used' = used + Least(gave, RespLen + 1)
  /\ left' = left - 1
  /\ UNCHANGED <<pc, packet>>

\* A handler reports the bytes it took and gave.
Reports(took, gave) ==
  /\ Walk(WithID(took), WithID(gave))
  /\ ran' = Append(ran, at)
  /\ UNCHANGED refused

\* commandMinimums, by command: request and reply bytes.
Minimums ==
  (0 :> <<1, 5>>) @@ (1 :> <<2, 1>>) @@ (2 :> <<1, 1>>) @@ (3 :> <<0, 1>>)
  @@ (4 :> <<5, 1>>) @@ (5 :> <<2, 2>>) @@ (6 :> <<4, 3>>) @@ (8 :> <<5, 1>>)
  @@ (9 :> <<2, 1>>) @@ (10 :> <<0, 2>>) @@ (16 :> <<6, 1>>) @@ (17 :> <<4, 1>>)
  @@ (18 :> <<1, 1>>) @@ (19 :> <<1, 1>>) @@ (20 :> <<1, 1>>) @@ (21 :> <<1, 1>>)
  @@ (22 :> <<0, 1>>) @@ (29 :> <<1, 1>>)

Fits == Len(Req) >= Minimums[Cmd][1] /\ RespLen >= Minimums[Cmd][2]
Handles(c) == Serving /\ Cmd = c /\ Fits
IsVendor == Cmd \in 128..159

\* ID_DAP_Invalid: nobody's command, or no room for its handler to look at.
Invalid ==
  /\ Walk(1, 1) /\ refused' = TRUE
  /\ UNCHANGED <<ran, settings>>
Refuse ==
  /\ Serving /\ ~IsVendor
  /\ Cmd \in DOMAIN Minimums => ~Fits
  /\ Invalid

\* A vendor handler that declines, panics or returns counts out of its slices has
\* declined.
VendorCmd ==
  /\ Serving /\ IsVendor
  /\ \E v \in Vendor :
       IF v.ok /\ v.consumed <= Len(Req) /\ v.produced <= RespLen
       THEN Reports(v.consumed, v.produced) /\ UNCHANGED settings
       ELSE Invalid

\* The commands whose handlers take and give what commandMinimums asks for:
\* HostStatus, Connect, Disconnect, WriteABORT, Delay, ResetTarget, SWJ_Pins and
\* SWJ_Clock.
PlainCmd ==
  /\ \E c \in {1, 2, 3, 8, 9, 10, 16, 17} : Handles(c)
  /\ Reports(Minimums[Cmd][1], Minimums[Cmd][2])
  /\ UNCHANGED settings

\* A string is cut to the room, with a length that says so.
InfoBytes(id) ==
  CASE id \in 1..8 -> Least(Name + 1, RespLen - 1)
    [] id = 9 \/ id = 254 -> 1
    [] id \in {240, 255} -> 2
    [] id = 241 -> 4
    [] OTHER -> 0
Info ==
  /\ Handles(0)
  /\ Reports(1, 1 + InfoBytes(Req[1]))
  /\ UNCHANGED settings

-----------------------------------------------------------------------------
(* DAP_TransferConfigure and DAP_SWD_Configure. *)

\* What the client's own next command asks for.
Wanted ==
  LET k == Len(ran) + 1
      c == packet.cmds[k]
  IN CASE k \notin DOMAIN packet.cmds -> want
       [] c[1] = 4 -> [want EXCEPT !.transfer = SubSeq(c, 2, 6)]
       [] c[1] = 19 -> [want EXCEPT !.swd = c[2] % 8]
       [] OTHER -> want

\* The probe takes the whole of it, or keeps what it has.
Configures ==
  /\ want' = Wanted
  /\ \/ applied' = cfg' /\ told' = TRUE
     \/ told' = FALSE /\ UNCHANGED applied

TransferConfigure ==
  /\ Handles(4)
  /\ cfg' = [cfg EXCEPT !.transfer = SubSeq(Req, 1, 5)]
  /\ Configures
  /\ Reports(5, 1)

\* MUTANT of SwdConfigure: the other half goes back to its default.
SwdConfigureAlone ==
  /\ Handles(19)
  /\ cfg' = [Default EXCEPT !.swd = Req[1] % 8]
  /\ Configures
  /\ Reports(1, 1)

SwdConfigure ==
  /\ Handles(19)
  /\ cfg' = [cfg EXCEPT !.swd = Req[1] % 8] \* two bits of turnaround, one of data phase
  /\ Configures
  /\ Reports(1, 1)

-----------------------------------------------------------------------------
(* Sequences. *)

SwjSequence ==
  /\ Handles(18)
  /\ LET count == IF Req[1] = 0 THEN 256 ELSE Req[1]
     IN Reports(1 + (count + 7) \div 8, 1)
  /\ UNCHANGED settings

SeqBytes(info) == ((IF info % 64 = 0 THEN 64 ELSE info % 64) + 7) \div 8
Counted(n) == [i \in 1..n |-> i]

\* SWD_Sequence: data in brings bytes, data out needs them in the request.
SequenceWalk ==
  LET one(s, i) ==
        LET info == Req[s.pos + 1]
            n == SeqBytes(info)
        IN IF s.bad \/ s.pos >= Len(Req) THEN [s EXCEPT !.bad = TRUE]
           ELSE IF info >= 128 THEN [s EXCEPT !.pos = @ + 1, !.out = @ + n]
           ELSE IF s.pos + 1 + n > Len(Req) THEN [s EXCEPT !.pos = @ + 1, !.bad = TRUE]
           ELSE [s EXCEPT !.pos = @ + 1 + n]
  IN FoldLeft(one, [pos |-> 1, out |-> 0, bad |-> FALSE], Counted(Req[1]))
SwdSequence ==
  /\ Handles(29)
  /\ LET s == SequenceWalk
     IN \/ Reports(s.pos, 1) \* malformed, or the probe refuses
        \/ ~s.bad /\ Reports(s.pos, 1 + Least(s.out, RespLen - 1))
  /\ UNCHANGED settings

\* JTAG commands are refused with an error and walked past.
JtagWalk ==
  LET one(pos, i) == IF pos >= Len(Req) THEN pos ELSE pos + 1 + SeqBytes(Req[pos + 1])
  IN FoldLeft(one, 1, Counted(Req[1]))
Jtag ==
  /\ \/ Handles(20) /\ Reports(JtagWalk, 1)
     \/ Handles(21) /\ Reports(Req[1] + 1, 1)
     \/ Handles(22) /\ Reports(1, 1)
  /\ UNCHANGED settings

-----------------------------------------------------------------------------
(* Transfers. *)

Bit(b, n) == (b \div n) % 2 = 1
Reads(raw) == Bit(raw, 2) /\ ~Bit(raw, 16)
HasData(raw) == ~Reads(raw)
WordsFor(raw) ==
  (IF Reads(raw) THEN 1 ELSE 0)
  + (IF Bit(raw, 128) /\ (Reads(raw) \/ ~(Bit(raw, 2) \/ Bit(raw, 32))) THEN 1 ELSE 0)

\* As many whole words as go behind head bytes, in bytes.
WordBytes(n, head) == 4 * Least(n, (RespLen - head) \div 4)

\* The list is walked to its end, or to where the request is cut.
TransferWalk ==
  LET one(s, i) ==
        LET raw == Req[s.pos + 1]
            n == 1 + IF HasData(raw) THEN 4 ELSE 0
        IN IF s.cut \/ s.pos >= Len(Req) THEN s
           ELSE IF s.pos + n > Len(Req) THEN [s EXCEPT !.pos = @ + 1, !.cut = TRUE]
           ELSE [s EXCEPT !.pos = @ + n, !.words = @ + WordsFor(raw)]
  IN FoldLeft(one, [pos |-> 2, words |-> 0, cut |-> FALSE], Counted(Req[2]))

\* The probe runs the list, or part of it.
Transfer ==
  /\ Handles(5)
  /\ LET s == TransferWalk
     IN \E n \in 0..s.words : Reports(s.pos, 2 + WordBytes(n, 2))
  /\ UNCHANGED settings

\* The length of the request follows from its header, however far the probe gets.
TransferBlock ==
  /\ Handles(6)
  /\ LET count == Req[2] + 256 * Req[3]
     IN IF Bit(Req[4], 2)
        THEN \E n \in 0..count : Reports(4, 3 + WordBytes(n, 3))
        ELSE Reports(4 + 4 * count, 3)
  /\ UNCHANGED settings

-----------------------------------------------------------------------------
ProcessCmd ==
  \/ Refuse \/ VendorCmd \/ PlainCmd \/ Info \/ TransferConfigure \/ SwdConfigure
  \/ SwjSequence \/ SwdSequence \/ Jtag \/ Transfer \/ TransferBlock

Next == Receive \/ NoCount \/ ProcessCmd \/ Answer \/ Send

Spec == Init /\ [][Next]_vars

-----------------------------------------------------------------------------
(* Properties. *)

\* However the commands of a well-formed packet are mixed and whatever the probe
\* answers, the server runs the client's commands, in order, and each from its own
\* first byte, up to the first it refuses; and it stops early only when the reply is
\* full (server.go processCmd: "the next one is then read from the wrong offset").
BatchRunsItsCommands ==
  packet.cut = 0 /\ ~refused /\ pc # "idle" =>
    /\ Len(ran) <= Len(packet.cmds)
    /\ \A k \in DOMAIN ran : ran[k] = Start(packet, k)
    /\ pc = "done" => Len(ran) = Least(packet.count, Len(packet.cmds)) \/ used = Room

\* The two configuration commands set half of swd.Config each, and the probe is
\* always given both as the client has set them last, across errors and packets.
HalvesCombine ==
  ~refused /\ packet.cut = 0 => cfg = want /\ (told => applied = want)
=============================================================================
