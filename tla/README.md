# swd-to-go, modelled

TLA+ specifications of swd-to-go: a Go library that speaks ARM Serial Wire Debug
through GPIO pins or through a CMSIS-DAP probe, the gateway that turns one into the
other, and the clients above them. The modules are checked with TLC on small
instances and the central invariants are proved with TLAPS for all instances.
Source paths below are relative to the repository's root.

## The system

```
 target/rtt   target/rp2040            callers of the memory client
        \        |     \
        target/mem      \  raw batches       shadows of CSW and TAR
             |           \
        target/dp         \                  shadow of SELECT
             |             |
           swd.Probe  (probe.go)             Transfer, BlockRead, BlockWrite, ...
             |             |
   probe/bitbang     cmsis/client            posted reads, WAIT | resends
             |             |
       swd.BitBanger   client.Transport      pins | packets (tcp, usb, inproc)
             |             |
      drivers/*        cmsis/server/tcp -> cmsis/server -> swd.Probe (bitbang)
                              cmd/swd-gateway
```

| component | state | operations | what is hard | what makes it correct |
|---|---|---|---|---|
| `probe.go` | none, an interface | `Transfer`, `BlockRead`, `BlockWrite`, sequences, pins | two implementations, one of them remote | requests run in order, once; one word per read, in order |
| `probe/bitbang` | configuration, match mask; per call: posted read, unconfirmed write, words | the interface | the word of an AP read arrives one transfer later; WAIT; any transfer may fail; a write is confirmed by a later read | as above, bounded retries, no lost write behind OK |
| `target/dp` | `selectValue`, `selectKnown` | register access, `Init`, `Invalidate`, power and reset requests | a write that failed may have landed; others move SELECT | the shadow is what the target holds |
| `target/mem` | `csw`, `tar` and whether they are known | word, block and byte access, raw registers, `Init`, `Invalidate`, `ClearErrors` | TAR increments and wraps at 1 kB; calls fail half way | every word goes where it was meant to |
| `cmsis/client` | packet size | the interface, one or more packets per call | no request identifiers, resends | a reply is taken by the call that asked, and nothing runs more often than it was sent |
| `cmsis/transport/tcp` | connection, header buffer | `Exchange` | deadlines, torn replies | on a clean link a reply is never taken for another's |
| `cmsis/server` | configuration across packets | one packet at a time, batches | counts, truncation, configuration of an earlier client | the reply says what ran |
| `cmsis/server/tcp` | slot, per connection a buffer | accept, handle, shut down | goroutines on one slot, shutdown under a live handler | one user of the probe, the slot is freed, it ends |
| `cmd/swd-gateway` | the driver | start, calibrate, serve, stop | order of shutdown | the driver outlives its users |
| `target/rtt` | address of the control block | find, `Read`, `Write` | the target moves the other end of the ring | no byte lost, repeated or torn |
| `target/rp2040` | `cswSet`, ROM functions, whether flash is mapped | halt, reset, ROM calls, flash image, attach, rescue | sticky status, a window in which the chip cannot boot, errors in it | flash is mapped again; reset was this reset |
| `drivers/*` | who drives SWDIO, clock, delay loop | one wire transfer, sequences, port on/off, calibrate | the turnaround on every path out of a transfer | one driver on the wire, the host again afterwards |
| `internal/simtarget` | registers, memory, flash | one wire transfer | | it is the environment |

`PROJECT.json` lists the components with what is and is not modelled of each, and
the hazards of the code at their lines, with the properties aimed at them.

## Modules

| module | models | extends or instantiates |
|---|---|---|
| `ProbeCalls` | the calls of `swd.Probe` that move words, and the words each brings | |
| `InOrderProbe` | **abstract**: what `probe.go` promises of them | `ProbeCalls` |
| `BitbangProbe` | `probe/bitbang`'s transfer engine, and the target behind it | `ProbeCalls`, `InOrderProbe` |
| `SwdLine` | `drivers/bcm2835` and `drivers/linuxgpiod`, and who drives SWDIO | |
| `MemShadow` | `target/dp` and `target/mem` as clients with shadows, the flasher's batches beside them | |
| `DapLink` | `cmsis/client`, `cmsis/transport/tcp` and the serving of transfers in `cmsis/server` | `ProbeCalls`, `InOrderProbe` |
| `DapServer` | `cmsis/server`: packets and batches, command by command | |
| `TcpServe` | `cmsis/server/tcp` and the gateway around it | |
| `ByteQueue` | **abstract**: what one RTT ring promises | |
| `RttScan` | `target/rtt`'s search for the control block, as a function of memory | |
| `RttRing` | `target/rtt`'s `Read` and `Write` against the firmware of `rttecho.go` | `RttScan`, `ByteQueue` |
| `Rp2040Chip` | the RP2040 of `internal/simtarget/rp2040.go`, as far as a flasher can tell | |
| `FlashRun` | `target/rp2040`'s `Flasher` | `Rp2040Chip` |
| `Rp2040Session` | `Open`, `Close`, `Rescue` and the calls on a `Session`, on a multidrop wire | `FlashRun` |
| `MC*` | the calls, packets, boards and memories of the instances checked | |
| `InductionFacts` | the induction the proofs use, stated once | `SequencesExt`, `TLAPS` |
| `*_proofs` | theorems about the module of that name | that module, `TLAPS` |

The modules compose over `InOrderProbe`. `BitbangProbe` is shown to implement it (run
`bitbang`, property `OrderedSpec`). `DapLink`'s server runs its lists on a probe of
which it assumes no more than that, and for block calls the far end of the link is
shown to be such a probe again (run `link`, property `RemoteOrdered`). For lists of
transfers it is not: see finding `resend_writes`. `Rp2040Session` is the session around
the flasher around the chip: its calls run on `FlashRun`'s actions, its rescue and its
power-up move `Rp2040Chip`. The two rings of `RttRing` each implement `ByteQueue`.

### BitbangProbe

One action is one wire transfer: one call of `d.SwdTransfer` in `bitbang.go`, with the
retry loop around it unrolled (`Transferred`: the transfer is repeated, or ends the
call, or its continuation is taken). The actions are the branches of `Transfer`,
`matchRead`, `BlockRead` and `BlockWrite`; `postRead`, `checkWrite`, `values`, `status`
are the locals of that name, `at - 1` is `completed`. The target (`CanAck`, `Takes`,
`Refuses`) is `simtarget.go`'s: it answers OK, WAIT, FAULT or not at all, and an access
it acknowledged may still fail later, which shows as a sticky error that refuses
everything but the DP registers outside its reach (port `"exempt"`). A word is the pair
of the request that read it and whether it is data or a time stamp; nothing else of its
value matters. `ran` counts how often each request took effect.

### MemShadow

One action is one register access through the probe, because every one can fail alone,
and fail with its write landed (constant `Late`) or not. `sel`, `csw`, `tar` are the
shadows and `Unknown` stands for a cleared `*Known` flag; `tSel`, `tCSW`, `tTAR` are the
target's registers. `op` is the call in progress: word access (auto-increment off), block
access (on), another bank's register, raw CSW or TAR writes, and bring-up (`dp.Init`, then
`mem.Init`, stages `"open"`, `"check"`, `"stage"`). `disturbed` names the clients whose
shadow a reset or another debugger made wrong and that have not been told: the docs of
`Invalidate` make telling them the caller's duty, and calls other than a bring-up are made
only when it is done. `reached` records, for every DRW access of the call, what it was
meant for and what it hit.

### DapLink

The client sends a packet, waits, and looks at the reply (`Receive`); the server takes
packets one at a time and runs them to their end whether or not anybody still waits
(`Take`, `Run`, `Answer`, `Fail`). Packets and replies are queues; packets are numbered by
the model only, the protocol has no identifiers. `Faults` chooses the stream's faults:
`"deadline"`, an `Exchange` that gives up between two replies or inside one, and
`"loss"`, a connection that breaks; `faults`, chosen at the start and never changed, is the
part of them an execution may meet, so that one instance has the caller that waits for
ever, the one with deadlines, and both streams. A link is `Clean` for a call if nothing of
an earlier one was in the stream, at the server or half read when the call was made;
a caller that has left something behind may close the connection (`Lose`) and dial again
(`Redial`), and numbers start over where nothing is left. `ran` counts how often each
request of the current call ran at the target, also after its caller was told it failed.

### TcpServe

The goroutines of the process: the accept loop, one handler per connection, the shutdown
goroutine and main, and for each connection a far end that connects, sends and hangs up.
A step is what a goroutine does between two points where another can be seen:
`trySetClient`, `closeClient` and `closeClientConn` are atomic because they hold `mu`; the
handler is at `"check"` (context and read deadline), `"read"`, `"parse"`, `"process"` (the
probe in use), `"send"`, `"leave"`, or `"full"` (thrown out by `msgbuf.add`). Data is
counted, not held.

### SwdLine

One action is one pin or direction change, one ioctl, or one SWCLK cycle; a call is the
list of its steps (`todo`), written per driver and wiring as the code writes it
(`DriverBidir`, `DriverBidirBuffered`, `DriverSplit`, `LinuxDriver`), and `Request` and
`AfterAck` are `SwdTransfer`, the same in all of them. The target counts the same cycles
from its own side (`AfterPhase`), by the same configuration, and answers OK, WAIT, FAULT
or does not hear; the host may fail to hear it too. `flags` are linuxgpiod's `driving`,
`writeMask` and `err`. A failed ioctl does nothing and the bit banging goes on, as in
`fail`; `trust` follows when the two sides can be expected to agree again, which takes a
`PortOn` that went well and a line reset the target heard. `RequestBits` is at least 2,
because the first bit of a request is what wakes the target. `Accepted` and `EntrySteps`
are the loop of `SWDSequence`: the entries up to the first that is refused.

### DapServer

A packet is its bytes, because the hazard is that a handler counts them wrongly. `at` and
`used` are `reqPos` and `respPos`; the handlers are actions that say how many bytes they
took and gave (`Reports`), as their packed return values do, and `processCmd` adds the
command's own byte. `Minimums` is `commandMinimums`. What the probe makes of a command is
a choice. `cmds` is what the client put into the packet, against which the bytes the
server takes for commands are compared.

### RttScan and RttRing

Memory is the set of addresses that answer, those that spell out the ID and those with a
control block behind it; `ScanFrom` is `scan`, a function of the place the loop is at:
the next block, whether the last one's tail was carried forward, and whether an error is
left (`NextBlock`). In `RttRing` one action is one memory access of the host or one step of the
firmware; a byte is its number in the stream its writer was given, so order, loss and
repetition can be read off the numbers. `host` and `fw` hold the offsets each side read
when its call began. A host access may fail; of a write that fails, all, none or, for
data, a first part may have landed.

### Rp2040Chip, FlashRun and Rp2040Session

A sector holds the image, nothing or something else. One action is one bootrom call
(`romCall`, which sets registers, runs and waits for the breakpoint), one bulk read or
one register access of `Reset`. Each may fail with or without its effect, or leave its
sectors half done; once the context is cancelled each fails without any. `run.at` is the
place in `FlashImage`, `ReadMemory` or `Reset`; `csw` and `cswSet` are the AP's access
size and the flag beside it. `Rp2040Session` adds `wire` (which debug port of the
multidrop wire listens and has answered DPIDR), `bring` (the call that brings a port up or
takes it down) and another debugger that uses the wire while nobody here does.

## What the runs check

| run | bounds | shows |
|---|---|---|
| `bitbang` | lists of up to 3 requests over AP, DP, exempt and malformed registers, blocks of up to 4 words, 1 WAIT and 1 match retry, block limit 3 | `RunsOnceInOrder`, `WordsInOrder`, `MatchComparesOwnRead`, `WritesConfirmed`, every call returns, and the engine refines `InOrderProbe` |
| `shadow` | 2 regions of 3 words, calls of up to 4 words, CSW and TAR writes may land late | `ShadowTrue`, `AccessesLand`, every call returns |
| `link` | every choice of deadlines and losses; lists with writes, time stamps, masks and match reads, blocks of no and of 2 words, malformed registers; 3 packets between quiet moments, 2 sends | `OwnReply`, `Delivered`, `RunsAtMost`, every call returns, block calls of a client that waits refine `InOrderProbe` |
| `rtt` | rings of 3 bytes, 4 bytes each way, 2 failed accesses; memories of 9 addresses with up to 2 IDs and one hole, blocks of 3, ID of 2 | `UpOnceInOrder`, `DownOnceInOrder`, `ScanFindsFirst`, both rings refine `ByteQueue`, and what is published is taken out |
| `session` | 3 sectors, erase blocks and bounce buffer of 2, one failed access and any number of cancellations, 5 ways to ask `FlashImage`, one core and the rescue port | `ReadsAreFlash`, `BootsAfter`, `ResetDone`, `BatchesWordSized`, `SparesRight`, `WireOwned`, `OpenLetsGo`, every call returns |
| `line` | 13 boards (wiring, chips, pull), turnaround 1 and 2, with and without data phase, requests of 2 and words of 3 bits, one failed ioctl | `NeverBothDrive`, `EndsInStep`, `HostHasLine` |
| `server` | batches of up to 3 commands of every kind, headers that count too few or too many, packets cut short, replies of 16 bytes | `BatchRunsItsCommands`, `HalvesCombine` |
| `tcp` | 2 connections used again and again, packets of 1 unit, buffer of 3, reads of up to 4, 4 packets in flight | `OneUser`, `SlotHeld`, `SlotFrees`, `ShutdownEnds` |

Why the bounds are enough. *bitbang*: the engine carries one posted read and one
unconfirmed write, so every dependency between requests is between neighbours or with the
end of the list; three requests have a beginning, a middle and an end, and the retry
counters are compared with zero only. *shadow*: two regions make a boundary and the end
of the address space, three words a first, a middle and a last one, and four words a run
that starts anywhere and crosses. *link*: the client waits after every packet; without
faults one packet is in flight, with them `MaxAsks` lets a late reply meet two later calls,
and closing and dialling again is not bounded; two sends are a list that is sent again and
one that gives up; the two block calls have replies that look alike. *tcp*: the slot
holds one connection, so two decide every race for it; a third only waits in the backlog.
Four units against a buffer of three make it overflow. *rtt*: three slots hold two
bytes, so that rings fill, empty and wrap within four; two failures let a retry fail
too; blocks of three against an ID of two make every way an ID can lie across a boundary.
*session*: three sectors are one erase block and a half, and one buffer and a half, so
runs are cut by both; one failure, since a second only repeats what the first made of the
call (cancelling, which fails everything from then on, is not bounded). The `erase`,
`pre`, `verify` and `reset` combinations are those that take different paths. *line*: the
counts of cycles matter only in being equal on both sides, so bits are few, and the
turnaround takes two values, so that none is right by accident. *server*: handlers keep
no state but the configuration, so a batch of three has every neighbour of every command.

`MaxAsks`, `MaxRun`, `MaxUp`, `MaxDown` and `MaxFaults` bound what callers do and what fails, `Resends`, `WaitRetry` and `MatchRetry` are
parameters of the code (5, 100 and 0 there). `PacketCount` is the server's option.

`CHECK_DEADLOCK FALSE` appears where the system stops: `TcpServe`'s process exits,
`SwdLine`'s driver is closed, and in `RttRing` the bytes to be moved run out.

### Fairness

A call on a probe is made by a goroutine that runs until the call returns, so the steps
inside a call are weakly fair and the making of calls is not (`FairSpec` of `BitbangProbe`,
`MemShadow`, `DapLink`). In `DapLink` client and server are separate processes, each
fair; that a deadline passes (`TimeOut`) is not, as a context need not have one, nor that a
stream breaks. In `TcpServe` every goroutine is fair on its own; clients owe nothing, and an accept
that fails is fair only once the listener is closed, which is when Go promises it. Match
polls of the far probe are not fair in `DapLink`: that they end is `CallReturns`.

In `Rp2040Session` a call goes on (`BringServe`, `SessionServe`), and a deadline passes
(`SessionTimeout`); calls, cancellation and the other debugger are not fair. In `RttRing`
a call of the host and a loop of the firmware go on (`Copying`, `Moving`). The caller
polls `Read`, and the firmware's loop comes round to the down ring, again and again: these
are strongly fair, because each is offered the ring only between its other calls. Nothing
makes the caller write or the firmware talk.

## Findings

Each has a run in which TLC finds the documented statement violated.

* `stale_select`: `selectAP` keeps its shadow when the SELECT write is reported failed,
  although it may have landed. The next access to the old bank goes to the new one. CSW
  and TAR are forgotten in the same situation. The positive results about the shadows
  assume `"SELECT" \notin Late`.
* `resend_writes`: the client's resend of a whole list on WAIT repeats the writes before
  the transfer that answered WAIT; the comment calls it safe.
* `close_driver`: the gateway closes the driver under a handler that is still in the probe.
  A command already begun is not stopped by the context, and a calibration does not look
  at it.
* `match_stamp`: a match read with a time stamp succeeds at the bit-bang engine and brings
  no word for it (`bitbang.go:243`), although `probe.go:93` and `probe.go:203` say that such
  a request contributes one and `client.go:480` counts it. Locally the caller finds a word
  too few; behind a gateway the list runs to its end, writes included, and is then reported
  short. `WordsOf` follows the engine. `WordsInOrder` is stated for lists without such a
  request (`StampsAgreed`), `StampsReturned` for those with one; `OrderedSpec` shares
  `WordsOf`'s convention, and is about order and single execution.

Further observations, each visible in a model as a case a property has to leave out, and
without a run of its own:

* After an `Exchange` gave up on its deadline, the next call of the same command takes the
  reply that was left, and the link stays one reply behind (`client.go:124`; the comment
  at `client.go:35` says a reply belongs to whoever asked last). `OwnReply` and `Delivered`
  are therefore shown and proved for calls made on a clean link, among them those behind
  any number of given-up calls whose connection was closed and dialled again.
* `client.WritePins` takes whatever byte follows the echo for pin levels, also the
  `DAP_ERROR` a server sends whose probe cannot reach its pins (`server.go:283`: "DAP_ERROR is
  the truth"): `Accepts` has it.
* A refused `SWDSequence` whose last entry was an input leaves SWDIO released
  (`bitbang.go:178`), while `linuxgpiod.go:1006` counts on the host having the line "after
  every transfer and every sequence run". `HostHasLine` is stated for those not refused.
* A client that uses the packet count the server announces can be thrown out:
  `msgbuf` holds three packets, one read may bring more (`tcp.go:80`).
* A command of a batch that is refused, for want of room or because nobody knows it, takes
  one byte, and its arguments are run as commands: `DAP_Info` with too little room is
  refused, and its argument 3 then runs as `DAP_Disconnect` (`batch.go` says a batch that
  runs out of room comes back short). `BatchRunsItsCommands` ends at the first refusal.
* `transferBlock` packs what it took into 16 bits, which a count of 16383 words
  overflows. A packet of that length does not reach it; not modelled.
* `Write` returns, with its error, a count of bytes that are not in the ring when the
  write of the offset failed (`rtt.go:493`, against `rtt.go:443`): `excess` in
  `DownOnceInOrder`.
* A candidate whose header does not read leaves the sticky error set, so the block behind
  it is taken for a hole: the premise `NoHalfHeader` of `ScanFindsFirst`.
* `FlashImage` under a cancelled context cannot run `Finish`, and flash stays unmapped; so
  it does when an access of `Prep` or `Finish` fails. `result.mapped` names the
  rest.
* An S_RESET_ST left from before lets `Session.Reset` report a reset that did not happen,
  when the write of AIRCR failed too. `FlashImage` polls the halt first, which clears it.
  When `Reset` fails, the vector catch may stay armed.
* `Attach` takes only a core's DPIDR for an answer, so it never succeeds on the rescue port.
* linuxgpiod's `err` is never cleared, so one failed ioctl makes every later `Calibrate`
  fail. `Close` returns its pins to inputs; bcm2835's leaves them driven.
* On a buffered wiring `PortOn` drives SWDIO before the direction line, so that a board
  that pulls the direction to "host reads" has pin and buffer against each other until it
  gets there; and a `Transfer` after `Disconnect` drives SWDIO again.
* Idle cycles (`DAP_TransferConfigure`) are kept in the configuration and reach no driver.

## What is proved

By TLAPS, for every value of the constants that satisfies the modules' assumptions.
Each paragraph says what is proved of a module and which invariant carries it.

**`BitbangProbe_proofs`**: `TypeCorrect`, `RunsOnce`, `MatchOwn`, `ReturnsItsWords`,
`LossesShow`, and `Refines`: the pipelined engine implements `InOrderProbe`.
`RunsOnceInOrder` alone says nothing of a posted read (whose request has run although its
word is not there), nor of the request at hand. `IInv` adds `Pipeline` (a posted read is
the last request issued, and RDBUFF holds its word) and `Untouched` (the request at hand
has not taken effect while the call runs). `Collected` says that, while the call runs or has succeeded, the words collected with
the one in RDBUFF are what the requests issued so far bring, and it is kept because every
step is one of the in-order probe. `Accounted` says where a lost write still shows: the
sticky flag is set or the list has cleared it itself, a read to confirm is still owed
(`checkWrite`) or the list has read such a register, and everything behind it was
harmless. There is one lemma per group of actions, and one that says what a wire transfer
can change.

**`MemShadow_proofs`**: `ShadowTypes`, `ShadowsTrue`, `WordsLand`, under the assumption
that a SELECT write reported failed has not landed (finding `stale_select` is why).
`OpInv` is the strengthening: calls run only on shadows nobody disturbed, and a raw
register write runs with the memory client's shadow dropped. The lemmas about `Beyond`,
`Wrapped` and `RunToBoundary` say that up to the boundary the wrapped and the linear
address agree.

**`DapLink_proofs`**. All five theorems are of `Spec`, whatever deadlines pass and however
often the stream breaks. `TypesHold`, from `Typed` and `Numbered`: the packets, the one
being served and the replies are numbered in ascending order, all above the last reply
taken. `RunsBounded` (`RunsAtMost`), from `Counted`: a packet numbered from `first` on is
the current call's, there are `tries` of them, and a request has run at most once for each
of them that the server has reached it in. `RepliesOwned` (`OwnReply`), from `OneUnderway`: on a clean link at most one packet,
served packet or reply exists while the client waits, numbered as the last one asked,
and none while it does not; what a call that fails leaves behind makes the link unclean for
the next. `CallsDelivered` (`Delivered`), from `Serving`, which says for each place of that
one packet how far its list has run and what its words are. That a reply the client
accepts holds all the words is an argument about length alone: what the server sends is a
prefix of the list's words, these are no more than `Expect` counts from the requests, and
the client takes no reply shorter than that. `BlocksAreLocal` is the refinement of
`InOrderProbe` by block calls over the link. It is about executions without faults
(`InBlock`): with a deadline it is false, as a block given up still runs after the
call returned, which the in-order probe does not allow.

**`TcpServe_proofs`**: `TypesHold`, `OneUserAtATime`, `SlotIsHandlers`. `OneUser` is not
inductive, because shutdown empties the slot under a live handler; what holds is that the
slot is emptied only after the context was cancelled, so that no handler passes its check
from then on, and the one already past it stays alone (`OneBusy`). `SlotHeld` speaks of the
time after shutdown too: a handler that lost its slot lost it to the shutdown goroutine,
which closed its connection, and leaves without touching the slot of the connection
accepted meanwhile. It rests on `Queued`: a connection the accept loop has not yet decided
about is open and has no handler. That no count of the
type invariant goes below zero rests on `Owed`: what is in a connection's inbox and buffer,
and the answer about to be sent, is never more than its packets in flight.

**`RttRing_proofs`**: `ReadsInOrder`, `WritesInOrder`, `RingsRefineQueues` and
`ScanFirst`. Both rings implement `ByteQueue`. The invariant says of each call under way what its copies of the
offsets still mean: a reader's copy of the other offset lies between the offsets as they
are now, and its data is what the ring holds from its own offset on; a writer's bytes are
in slots that nobody reads yet (`Reading`, `Writing`, per ring with the stream the bytes
are numbered by). `Wrap` and `Dist` do the arithmetic round the ring without a modulus.

`ScanFirst` (`ScanFindsFirst`) is about a recursive function. That there is one is the
first step: defined from some address on (`ScanBy`), it extends a block further down, and
from `SearchSize` on it does not recurse. As the place only moves on, a set of places
before the end that has the next place of each of its own is empty (`NoEndlessScan`): that
stands in for an induction over the blocks. `ScanSound`: whatever
is returned is a control block. `ScanComplete`: at a place that is `OnTrack` (no error
left, and a tail carried exactly if the block behind answered) the search ends at the first
reachable block whose ID ends ahead of it; a block in `Within`'s sense is seen once its
last byte is, and one that does not answer hides every ID that reaches into it
(`HitsAre`, `HoleHides`). That the tail is one short of an ID, and no block shorter than
an ID, is what this rests on. `SearchRight` says that `search` holds what `ScanFrom` returns.

**`Rp2040Session_proofs`**: `TypesHold`, `ReadsFlash`, `LeavesBootable`, `ResetsAsAsked`,
`FlagNeverStale`, `OwnsTheWire` and the action properties `FailedOpenLetsGo` and `AutoSparesRight`. The invariant
goes place by place through `FlashImage`, `ReadMemory` and `Reset`: what is known of
the mapping, the sticky reset flag, the plan, what has been verified and who has the
wire. `SessionAssumption`, that the rescue port and "nobody" are no cores, is all that is
asked of `Cores`.

**`SwdLine_proofs`**: `NeverBothDriveAlways`, `EndsInStepAlways` and `HostHasLineAlways`,
for every board that has a shared pin or a direction line, every turnaround from 1 to 4, every
list of entries and any number of failed ioctls. None of the three is inductive: they
speak of the lines as they are, and what the lines will be is in the steps left. `IInv`
therefore speaks of `todo` too, in two parts.

* Of the lines (`Lined`): each step left is one its call may contain (`Suited`); in a
  buffered wiring the buffer is turned to the host only by a step right behind the one
  that released the pin, the pin driven only right behind the one that turned the buffer, and
  linuxgpiod's note follows right behind the pin (`Orderly`, from which `Netted` and
  `Noted`); the steps left end with the host driving (`Ending`, then `Rested`); a port with
  SWCLK on has its other lines on (`Powered`, with `GoesOff` for `PortOff` and the clock a
  calibration borrows). Conditions on neighbours survive taking the first step, and
  appending a turn to a list whose end fits its beginning (`GoodConcat`), which is how the
  calls' lists are shown to satisfy them, wiring by wiring (`TakeIs`, `ReleaseIs`,
  `ConfigAllIs`). `PinsHold` is this part alone; `HostHasLine` follows from it.
* Of the two sides (`InStep`): while `trust = "all"`, a transfer is in one of thirteen
  `Places`, each a form of the steps left together with where the target is and how many
  cycles it has left: the request, the release, the turnaround, the ACK, and each way
  `AfterAck` goes on. Where the target drives, the line that lets the host drive is off
  (`GateOff`). A host that heard nothing clocks a turnaround and a word, which is enough for
  any phase the target may be in (`Over`). Outside a transfer the target is `Quiet`, which after
  a fault needs `Resets`: a line reset the target hears leaves it so.

There is one lemma per place, and one per part of `Lined` for the step that does what it
says, the cycle that leaves more of its kind, and the step that fails.

**`InductionFacts`**: a non-empty set of naturals has a least element, from the library's
well-foundedness of finite subsets, which is the induction the proofs above make where a
sequence is compared element by element; `Min` and `Max` name the least and greatest; and
`FlattenSeq`, recursive in the community modules, appends one sequence after the other.

### Model-checked only

* The liveness properties (`CallReturns`, `MemReturns`, `LinkReturns`, `SlotFrees`,
  `ShutdownEnds`, `BytesMove`, `CallsReturn`): liveness under fairness is out of TLAPS's
  reach, and so is ENABLED.
* `BatchRunsItsCommands` and `HalvesCombine` of `DapServer`; see the plan.

## Plan

`DapServer` is what is left to prove. `HalvesCombine` follows from
`BatchRunsItsCommands`, and this from each handler taking what the client's own command
has, which needs a definition of what a well-formed command is. `Packets` leaves that to
the instance now, and the property would be false of an arbitrary one.

## Not modelled

* Bit patterns, parity and timing on the wire, GPIO registers, ioctl encoding, delay
  loops and the arithmetic of a calibration, flag parsing, log formats, the HID library
  under the USB transport, the examples. `inproc` is a function call.
* `SetDbgPower` and `DbgReset` of `target/dp`, which poll without a bound and have no
  caller. `ReadReg` and `WriteReg` of DRW, which would move TAR behind the shadow,
  and have no caller either.
* The byte-granular calls of `target/mem`, which read and write back whole words.
* Flash images that begin inside a sector, a bootrom routine still running when the next
  call comes, and the sizes and rates `FlashImage` reports.
* An RTT scan that is ended by a `ClearErrors` that fails (`rtt.go:249`), and the error
  `TCP` makes of a handler's count that does not fit its reply (`tcp.go:320`), which no
  handler gives.
* The memory client in the hands of a `Session`'s caller between the flasher's calls.
* RTT's lists of channels, their names and the checks on descriptors.
