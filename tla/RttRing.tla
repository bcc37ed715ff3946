------------------------------ MODULE RttRing ------------------------------
(***************************************************************************)
(* target/rtt over a target that is running: the host finds the control    *)
(* block, then reads the up ring and writes the down ring, one memory      *)
(* access per action, while the firmware (simtarget/rttecho.go) fills the  *)
(* one and drains the other.  Any access of the host may fail; a write may *)
(* fail with its effect landed.                                            *)
(*                                                                         *)
(* A descriptor is read in one step: of its two offsets only one is the    *)
(* other side's to move, so reading them apart would show nothing more.    *)
(***************************************************************************)
EXTENDS RttScan, SequencesExt

CONSTANTS
  Size,     \* bytes in each ring
  MaxUp,    \* bytes the firmware makes (a bound)
  MaxDown,  \* bytes the caller has to send (a bound)
  MaxFaults,\* accesses that fail once the block is found (a bound)
  Memories  \* what target memory may hold when it is searched

ASSUME RingAssumption ==
  /\ Size \in Nat /\ Size > 1
  /\ MaxUp \in Nat /\ MaxDown \in Nat /\ MaxFaults \in Nat
  /\ \A m \in Memories : IsMemory(m)

VARIABLES
  up, down,  \* the rings: [slot, wr, rd]
  host, fw,  \* the call being made: [at, op, wr, rd, off, data]
  sent,      \* bytes of the caller's stream Write has reported in
  excess,    \* of these, reported by a call that failed and never in
  given,     \* what Read has returned, in order
  dropped,   \* bytes a Read that failed has moved the offset past
  drained,   \* what the firmware took, in order
  faults,    \* accesses failed
  search     \* the last search: what memory held, and what came back

rings == <<up, down>>
history == <<sent, excess, given, dropped, drained>>
vars == <<up, down, host, fw, sent, excess, given, dropped, drained, faults, search>>

Slots == 0..(Size - 1)

\* MUTANT of Free: no slot kept empty, so a full ring looks empty.
FreeAll(r) == Size - ((r.wr + Size - r.rd) % Size)

\* Info.Pending and Info.Free.
Pending(r) == (r.wr + Size - r.rd) % Size
Free(r) == Size - 1 - Pending(r)

\* The slots of a ring from one offset on, and a ring with data put there.
Copy(r, off, n) == [k \in 1..n |-> r.slot[off + k - 1]]
Fill(r, off, data) ==
  [r EXCEPT !.slot = [s \in Slots |->
     IF off <= s /\ s < off + Len(data) THEN data[s - off + 1] ELSE @[s]]]

Quiet == [at |-> "idle", op |-> "none", wr |-> 0, rd |-> 0, off |-> 0, data |-> <<>>, done |-> 0]
NoSearch == [memory |-> None, addr |-> None, sticky |-> FALSE, before |-> FALSE]

Init ==
  /\ up = [slot |-> [s \in Slots |-> 0], wr |-> 0, rd |-> 0] /\ down = up
  /\ host = [Quiet EXCEPT !.at = "detached"] /\ fw = Quiet
  /\ sent = 0 /\ excess = {} /\ given = <<>> /\ dropped = {} /\ drained = <<>>
  /\ faults = 0 /\ search = NoSearch

-----------------------------------------------------------------------------
(* The host. *)

\* FindRTTControlBlock over whatever the target holds by now, with or without
\* a sticky error left from before.
Find ==
  /\ host.at = "detached" /\ search = NoSearch
  /\ \E m \in Memories, s \in BOOLEAN :
       LET r == FindRTTControlBlock(m, s) IN
       search' = [memory |-> m, addr |-> r.addr, sticky |-> r.sticky, before |-> s]
  /\ UNCHANGED <<rings, host, fw, history, faults>>

\* ErrNotFound: a caller whose target is not up yet comes back.
NotFound ==
  /\ search.memory # None /\ search.addr = None
  /\ search' = NoSearch
  /\ UNCHANGED <<rings, host, fw, history, faults>>

\* New reads the header again; what the search walked over is not kept.
New ==
  /\ search.memory # None /\ search.addr \in search.memory.good
  /\ host' = Quiet /\ search' = NoSearch
  /\ UNCHANGED <<rings, fw, history, faults>>

\* Read and Write: readDesc.
Begin(op, r, data) ==
  host' = [at |-> "copy", op |-> op, wr |-> r.wr, rd |-> r.rd,
           off |-> IF op = "read" THEN r.rd ELSE r.wr, data |-> data, done |-> 0]

Read ==
  /\ host.at = "idle" /\ up.wr # up.rd
  /\ Begin("read", up, <<>>)
  /\ UNCHANGED <<rings, fw, history, faults, search>>

\* Free of the offsets read bounds what the call will take.
Write ==
  /\ host.at = "idle" /\ Free(down) > 0
  /\ \E len \in 1..(MaxDown - sent) :
       Begin("write", down,
             [k \in 1..Lower(len, Free(down)) |-> sent + k])
  /\ UNCHANGED <<rings, fw, history, faults, search>>

\* MUTANT of ReadChunk: always on to the end of the ring.
ReadToEnd ==
  /\ host.at = "copy" /\ host.op = "read" /\ host.off # host.wr
  /\ host' = [host EXCEPT !.data = @ \o Copy(up, host.off, Size - host.off), !.off = host.wr]
  /\ UNCHANGED <<rings, fw, history, faults, search>>

\* One run of the ring: up to the write offset or the end of the ring.
ReadChunk ==
  /\ host.at = "copy" /\ host.op = "read" /\ host.off # host.wr
  /\ LET end == IF host.wr > host.off THEN host.wr ELSE Size IN
     host' = [host EXCEPT !.data = @ \o Copy(up, host.off, end - host.off),
                          !.off = end % Size]
  /\ UNCHANGED <<rings, fw, history, faults, search>>

\* One run of the ring: up to the slot kept empty or the end of the ring.
WriteRun ==
  LET end == IF host.rd > host.off THEN host.rd - 1 ELSE Size IN
  SubSeq(host.data, host.done + 1, Lower(host.done + end - host.off, Len(host.data)))

WriteChunk ==
  /\ host.at = "copy" /\ host.op = "write" /\ host.done < Len(host.data)
  /\ down' = Fill(down, host.off, WriteRun)
  /\ host' = [host EXCEPT !.done = @ + Len(WriteRun), !.off = (@ + Len(WriteRun)) % Size]
  /\ UNCHANGED <<up, fw, history, faults, search>>

\* The offset is published once the data is through.
Copied == IF host.op = "read" THEN host.off = host.wr ELSE host.done = Len(host.data)

PublishRead ==
  /\ host.at = "copy" /\ host.op = "read" /\ Copied
  /\ up' = [up EXCEPT !.rd = host.off]
  /\ given' = given \o host.data
  /\ host' = Quiet
  /\ UNCHANGED <<down, fw, sent, excess, dropped, drained, faults, search>>

PublishWrite ==
  /\ host.at = "copy" /\ host.op = "write" /\ Copied
  /\ down' = [down EXCEPT !.wr = host.off]
  /\ sent' = sent + host.done
  /\ host' = Quiet
  /\ UNCHANGED <<up, fw, excess, given, dropped, drained, faults, search>>

\* MUTANT of Reported: a Write that fails reports nothing.
ReportNothing == sent

\* The access under way fails and the call returns: Read nothing, Write the
\* count of what it has copied, which a caller with more to send goes on from.
\* Of a write that fails a part may have landed, and of the one that publishes
\* all of it.
Reported == sent + host.done
Fails ==
  /\ host.at = "copy" /\ faults < MaxFaults
  /\ faults' = faults + 1
  /\ host' = Quiet
  /\ UNCHANGED <<fw, given, drained, search>>

ReadFails ==
  /\ Fails /\ host.op = "read"
  /\ \/ UNCHANGED <<up, dropped>>
     \/ /\ Copied
        /\ up' = [up EXCEPT !.rd = host.off]
        /\ dropped' = dropped \cup ToSet(host.data)
  /\ UNCHANGED <<down, sent, excess>>

WriteFails ==
  /\ Fails /\ host.op = "write"
  /\ sent' = Reported
  /\ \/ /\ ~ Copied
        /\ \E n \in 0..Len(WriteRun) : down' = Fill(down, host.off, SubSeq(WriteRun, 1, n))
        /\ excess' = excess \cup (sent + 1)..Reported
     \/ /\ Copied
        /\ \/ down' = down /\ excess' = excess \cup (sent + 1)..Reported
           \/ down' = [down EXCEPT !.wr = host.off] /\ excess' = excess
  /\ UNCHANGED <<up, dropped>>

-----------------------------------------------------------------------------
(* The firmware.  It reads the descriptor, moves the data, and stores its  *)
(* own offset last, as the host does.                                      *)

Load(op, r, data) ==
  fw' = [at |-> "copy", op |-> op, wr |-> r.wr, rd |-> r.rd,
         off |-> IF op = "drain" THEN r.rd ELSE r.wr, data |-> data, done |-> 0]

\* MUTANT of DrainDown: a wrapped ring looks empty.
DrainUnwrapped ==
  /\ fw.at = "idle" /\ down.wr > down.rd
  /\ Load("drain", down, <<>>)
  /\ UNCHANGED <<rings, host, history, faults, search>>

DrainDown ==
  /\ fw.at = "idle" /\ down.wr # down.rd
  /\ Load("drain", down, <<>>)
  /\ UNCHANGED <<rings, host, history, faults, search>>

DrainChunk ==
  /\ fw.op = "drain" /\ fw.off # fw.wr
  /\ LET end == IF fw.wr > fw.off THEN fw.wr ELSE Size IN
     fw' = [fw EXCEPT !.data = @ \o Copy(down, fw.off, end - fw.off), !.off = end % Size]
  /\ UNCHANGED <<rings, host, history, faults, search>>

DrainDone ==
  /\ fw.op = "drain" /\ fw.off = fw.wr
  /\ down' = [down EXCEPT !.rd = fw.off]
  /\ drained' = drained \o fw.data
  /\ fw' = Quiet
  /\ UNCHANGED <<up, host, sent, excess, given, dropped, faults, search>>

\* The number of the last byte that went into the up ring.
Made == Len(given) + Cardinality(dropped) + Pending(up)

\* As much as fits; the numbers are given to what does.
FillUp ==
  /\ fw.at = "idle" /\ Free(up) > 0
  /\ \E n \in 1..Lower(Free(up), MaxUp - Made) :
       Load("fill", up, [k \in 1..n |-> Made + k])
  /\ UNCHANGED <<rings, host, history, faults, search>>

FillRun ==
  LET end == IF fw.rd > fw.off THEN fw.rd - 1 ELSE Size IN
  SubSeq(fw.data, fw.done + 1, Lower(fw.done + end - fw.off, Len(fw.data)))

FillChunk ==
  /\ fw.op = "fill" /\ fw.done < Len(fw.data)
  /\ up' = Fill(up, fw.off, FillRun)
  /\ fw' = [fw EXCEPT !.done = @ + Len(FillRun), !.off = (@ + Len(FillRun)) % Size]
  /\ UNCHANGED <<down, host, history, faults, search>>

FillDone ==
  /\ fw.op = "fill" /\ fw.done = Len(fw.data)
  /\ up' = [up EXCEPT !.wr = fw.off]
  /\ fw' = Quiet
  /\ UNCHANGED <<down, host, history, faults, search>>

-----------------------------------------------------------------------------
Copying == ReadChunk \/ WriteChunk \/ PublishRead \/ PublishWrite
Moving == DrainChunk \/ DrainDone \/ FillChunk \/ FillDone
Next ==
  \/ Find \/ NotFound \/ New \/ Read \/ Write \/ Copying \/ ReadFails \/ WriteFails
  \/ DrainDown \/ FillUp \/ Moving

Spec == Init /\ [][Next]_vars

\* The firmware's loop comes round to the down ring again and again, a caller
\* polls the up ring, and a call once begun goes on.  Nothing makes a caller
\* write, or the firmware have something to say.
FairSpec ==
  /\ Spec
  /\ WF_vars(Copying) /\ WF_vars(Moving)
  /\ SF_vars(Read) /\ SF_vars(DrainDown)

-----------------------------------------------------------------------------
(* Properties. *)

Contents(r) == [k \in 1..Pending(r) |-> r.slot[(r.rd + k - 1) % Size]]
Ascending(s) == \A j, k \in DOMAIN s : j < k => s[j] < s[k]

\* The last byte that ever went into the down ring.
Newest == Max({0} \cup ToSet(drained) \cup ToSet(Contents(down)))

UpQueue == INSTANCE ByteQueue WITH
  Capacity <- Size - 1, Numbers <- 1..MaxUp, queue <- Contents(up), newest <- Made
DownQueue == INSTANCE ByteQueue WITH
  Capacity <- Size - 1, Numbers <- 1..MaxDown, queue <- Contents(down), newest <- Newest

\* Each ring is a bounded queue: what is between its offsets was put there by
\* one whole call and is not touched until the other side's offset is past it,
\* whichever accesses fail and however the two sides' accesses interleave
\* (rtt.go Read and Write publish last; rttecho.go DrainDown and FillUp too).
RingsAreQueues == UpQueue!Spec /\ DownQueue!Spec

\* What Read returns is the firmware's stream in order, each byte once; the
\* only bytes missing are those of a Read that failed in publishing its offset.
UpOnceInOrder ==
  /\ Ascending(given)
  /\ ToSet(given) \cap dropped = {}
  /\ \E k \in 0..MaxUp :
       /\ ToSet(given) \cup dropped = 1..k
       /\ Contents(up) = UpQueue!Run(k + 1, Pending(up))

\* The firmware gets the caller's stream in order and no byte twice, though the
\* caller goes on from whatever count a failed Write returned; what it does not
\* get was counted by a Write that returned an error.
DownOnceInOrder ==
  /\ Ascending(drained \o Contents(down))
  /\ ToSet(drained \o Contents(down)) \cup excess = 1..sent
  /\ ToSet(drained \o Contents(down)) \cap excess = {}

\* The scan returns the first control block whose blocks all answer, wherever
\* the ID lies across their boundaries and whatever else spells it out; and if
\* an error left from before, or a header reaching into a hole, takes a block
\* from it, it still never returns anything but a control block.
ScanFindsFirst ==
  LET m == search.memory IN
  m # None =>
    /\ search.addr \in m.good \cup {None}
    /\ NoHalfHeader(m) /\ ~ search.before =>
         search.addr = FirstReachable(m) /\ ~ search.sticky

\* Whatever is published in a ring is taken out of it: the caller polls, the
\* firmware loops, and neither ring ever gets stuck on the other.
BytesMove ==
  /\ \A n \in 1..MaxUp :
       (host.at # "detached" /\ n \in ToSet(Contents(up))) ~> n \notin ToSet(Contents(up))
  /\ \A n \in 1..MaxDown :
       n \in ToSet(Contents(down)) ~> n \notin ToSet(Contents(down))
=============================================================================
