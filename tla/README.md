# Swiss: the in-game drivers, modelled in TLA+

Swiss is a homebrew loader for the GameCube. Its launcher (`cube/swiss`) picks a
game and patches it; what runs with the game afterwards is a small program in
low memory (`cube/patches`) that emulates the disc drive, memory cards and other
hardware on top of an SD card, a hard disk, a network file server or a
replacement drive. That second program is event-driven: it has no threads, but
its entry points (interrupt handlers, alarms, emulated register accesses,
callbacks of the game's own EXI driver) interleave in orders no test of the
repository exercises. It is what this project models.

## Inventory

### How the parts meet

    game's register access  --->  base/emulator.c (DI, EXI, DSP, PI)
                                     |  di_execute_command, exi dma, dtk_fill_buffer
                                     v
       base/blockdevice.c, emulator_card.c, audio        the clients
                                     |  frag_read_async / frag_write_async
                                     v
                               base/frag.c               which device, which place
                                     |  do_read_disc / do_read_write_async
                                     v
       sd.c | ata.c | gcloader.c | flippy.c | wkf.c | usbgecko.c | bba.c+tcpip.c
                                     |  callback(buffer, length)
                                     v
       back in the client: the next piece, or di_complete_transfer

Every entry point runs with interrupts disabled, so it is atomic towards the
others; but it is a chain of nested calls, and it is cut where it waits for a
device (an interrupt finishes it later), where a lock is taken by somebody else
(EXILock leaves a callback) and where it gives the bus back (EXIUnlock runs
somebody else's callback *inside* the handler).

| Component | State | Operations | Hard behaviour | What makes it correct |
|---|---|---|---|---|
| SD-over-EXI driver, `sdgecko/sd.c`, `sd_isr.S` | request queue, request being served, cached sector, position of the open multi-block command | `do_read_write_async`, `mmc_read_queued`, `mmc_done_queued`, `end_read`, transfer interrupt | bus shared with the game's drivers, callbacks that queue requests, cache against writes, commands left open | every request answered once with its sector's contents; the driver and the card agree; no request refused or forgotten |
| FSP client, `bba/tcpip.c`, `bba/bba.c` | read queue, the request awaited, retry alarm, coroutine | `do_read_disc`, `fsp_read_queued`, `fsp_input`, `fsp_done_queued`, `exi_coroutine`, `bba_interrupt` | lost, repeated, late answers; retries; code that runs during a DMA of the coroutine | the buffer is the file's contents; no read forgotten; every read ends |
| IDE-EXI driver, `ide-exi/ata.c`, `ata_isr.S` | as sd.c, with a count of sectors left in the drive's command | as sd.c | as sd.c; a command of many sectors that other requests interrupt; 16-bit and 8-bit counts | as sd.c; the driver's count is the drive's |
| GC Loader, FlippyDrive, `gcloader/gcloader.c`, `flippydrive/flippy.c` | queue of drive commands, cached sector | push, read, done, drive interrupt, disc change | writes in two commands, disc change among reads | one command at a time, right disc |
| WKF, `wkf/wkf.c` | queue, base sector, saved bytes | as above | reads over memory that is put back, a base told once for several requests | only the buffer changes, and to what was asked for |
| DVD passthrough, `dvd/dvd.c` | command, retries, reset state | interrupt, reset | reset and retry races | every command ends |
| USB Gecko, `usbgecko/*` | queue, requested bytes | as sd.c | as sd.c | as sd.c |
| Fragment table, `base/frag.c`, built by `getFragments` and `setupFile` of the launcher | a table in memory | `frag_get`, readers | 32-byte rounding, unsigned differences, order of overlaid parts | the overlay of patches over the disc |
| Disc interface, `base/emulator.c`, `base/blockdevice.c` | DI registers, status, current read | command, completion, cover, `schedule_read` | alarms, disc change, chains of reads | every command completes once, with its data |
| Audio streaming, `base/emulator.c` (dtk), `base/fifo.c`, `base/audio.c` | FIFO, stream positions, reading/flushing/playing/stopping | start, stop, cancel, fill, mix | cancel while reading, replace at the end, a read answered at once | the samples of the stream, in order |
| Memory cards, `base/emulator_card.c` | command, position, status, offset | byte, DMA, deselect | asynchronous completion, failed writes | reads what was written, errors reported |
| Ethernet, `base/emulator_eth.c`, `bba/enc28j60.c`, `w5500.c` and others | registers, receive ring, transmit FIFO; interrupt and output waiting for the bus | register access, receive, transmit, chip interrupt | deliveries against acknowledgements, a full ring, a bus taken by others | frames once, whole and in order, none left without an interrupt |
| Interrupts, `base/interrupt.c` | handlers, masks | dispatch, mask | masks stored twice | a masked handler does not run |
| Stub, launcher, packer, tools | - | sequential programs | user interface and files | - |

`PROJECT.json` lists all of them with their status, and under `hazards` the
places in the code that are hard to test, each with the properties that would
catch it going wrong.

### The modules

| Module | Models |
|---|---|
| `BlockService` | what a block driver promises its clients (`frag.h`): the abstract specification |
| `SdQueue` | `sdgecko/sd.c` built with `ISR_READ`, the clients' callbacks, the EXI lock, the SD card |
| `SdQueueMC` | the Makefile's builds as instances for TLC |
| `SdQueueProofs` | the inductive invariant of `SdQueue`, its theorems, and that it implements `BlockService` |
| `FspClient` | `bba/tcpip.c` and `bba/bba.c` built with `ASYNC_READ`, the retry alarm, the network, the adapter |
| `FspClientMC` | its instances for TLC |
| `GcodeQueue` | `gcloader/gcloader.c` and the disc commands of `base/emulator.c` that lead to it, the disc change, the memory cards' transfers, the real drive |
| `GcodeQueueMC` | the Makefile's builds of it as instances for TLC |
| `AtaQueue`, `AtaQueueMC` | `ide-exi/ata.c` built with `ISR_READ`, as `SdQueue`, with the drive's counted read command |
| `DtkStream` | what the emulated drive promises a game that streams audio: the abstract specification |
| `Dtk` | the streamer of `base/emulator.c` with its FIFO |
| `EthMac` | `base/emulator_eth.c` on `bba/enc28j60.c`, the game's network driver (external) |
| `DiscRead`, `DiscReadMC` | the table of fragments, `base/frag.c`, `base/blockdevice.c`: how a read of the disc reaches files |
| `WkfRead`, `WkfReadMC` | `wkf/wkf.c` and the memory it reads to; extends `DiscRead` |
| `AtaQueueProofs`, `GcodeQueueProofs`, `FspClientProofs`, `DtkProofs`, `EthMacProofs`, `DiscReadProofs`, `WkfReadProofs` | the inductive invariant of each of these modules and the theorems |

`SdQueue`, `AtaQueue` and `GcodeQueue` each implement `BlockService`, `Dtk`
implements `DtkStream`. `WkfRead` composes a driver with the reads `DiscRead`
makes. There are twelve runs; `PROJECT.json` has a mutant for each property: a
definition changed as a plausible bug would change it (`...Fault` in the
modules), under which the run finds the property violated.

## SdQueue

**State.** `queue`, `queued`, `last_sector`, `next_sector` are the fields of
`mmc`; `writing` is `mmc.write`; `buffer` is what the memory at `mmc.buffer`
holds; `transferred` is the interrupt handler's counter and `None` while the
interrupt is masked. `lock` and `waiters` are the EXI channel's lock in the
game's SDK: `EXILock` fails and registers the callback, once per callback
(`patcher.c` replaces EXILock so), `EXIUnlock` calls the first waiter back.
`card` is the multi-block command the SD card is in and the sector it stands at,
`disk` its contents.

**Control.** A handler is a chain `mmc_read_queued -> mmc_done_queued ->
callback -> EXIUnlock -> next mmc_read_queued`; `ctl` is the point reached, so
that what runs *inside* the handler (the client's next request, a waiter of the
game) is an action of its own and everything else waits for `ctl = "idle"`:

| Action | Code |
|---|---|
| `Submit` | `do_read_write_async` from outside |
| `LockBusy` | `mmc_read_queued`, EXILock fails |
| `WriteSector`, `CacheHit`, `StartTransfer` | the three ways through `mmc_read_queued` |
| `TcProgress` | `mmc_interrupt_vector` in `sd_isr.S` |
| `TcDone` | `tc_interrupt_handler` at the end of the block |
| `Callback`, `Unlock`, `Release` | `mmc_done_queued`: callback, EXIUnlock, slot released and the next request picked |
| `UserLock`, `UserSelect`, `UserDeselect`, `UserUnlock` | the game's driver of another device; the select goes through `exi_write` and its `end_read` |

The unit of data is a sector. A request's `count` is the number of sectors its
client still wants; `whole` tells whether the DMA can go to the client's buffer
or must go through `mmc.buffer`. Fragmentation is left out: a transfer's sectors
follow one another.

**Runs.**

| Run | Instance | Checks |
|---|---|---|
| `sd_card` | `.card` build: queue of 4, a disc reader with transfers of up to 3 sectors and seeks, a memory card that is written, one driver of the game | type, no lost wakeup, driver and card agree, exclusive bus, cache, refinement of `BlockService`, every transfer ends |
| `sd_dtk` | `.dtk` build: queue of 3, disc reader with up to 3 sectors and seeks, streamer whose callback asks again, overlapping sectors, two drivers of the game | no request refused, the priority of short requests |

Four sectors are enough for a sector before, at and after the open command, and
for sectors shared by two clients.

*Priority.* The code prefers a request with `count == 1`, and only when the
queue has more than two slots. `ShortFirst` therefore speaks of the last sector
of a transfer only.

*Starvation.* The search for the next request starts at the first slot. Two
clients that always have a one-sector request ready can keep a longer transfer
waiting for ever; `sd_card` has one such client, with which this cannot happen
because a client that is being called back cannot be the next one too unless its
callback asked again. That limit is a property of the code.

## FspClient

**The coroutine.** Everything that talks to the adapter runs in `exi_coroutine`
with the bus locked; `bba_ins` and `bba_outs` start a DMA and `longjmp` out, the
end of the DMA jumps back in. `pc` is the point reached; at the points in
`Yields` other code runs (the game's commands submit reads, the retry alarm
expires, the game's drivers queue up for the bus). Between them only the network
and the adapter move. The order inside `fsp_input` matters and is kept: the
answer moves the offset on, then the *next* request is sent (of the most urgent
read, maybe another one), then the payload of the *last* is fetched, then
completion is tested on whatever read is queued now.

| Action | Code |
|---|---|
| `Submit` | `do_read_disc` |
| `Alarm` | `read_alarm` expires: `fsp_read_queued` outside the coroutine |
| `NicInterrupt` | `exi_interrupt_handler` |
| `Start`, `SentCallback` | `exi_coroutine` up to and after the deferred `fsp_read_queued` |
| `Status`, `Receive`, `Ack` | `exi_coroutine`, `bba_receive`, `bba_interrupt` |
| `Header`, `SentNext`, `Payload`, `Check`, `SentPop` | `eth_input` ... `fsp_input`, `fsp_done_queued`, cut at its DMAs |
| `Deliver`, `Lose` | network, server, adapter (external) |

The unit of data is what one packet carries; a read of length 0 is a seek.

**Runs.** Both are the build with audio streaming (queue of 3), with a disc
reader of two packets and a streamer of one-packet blocks, and in both the alarm
may expire at every point where other code runs. In `fsp_race` the callbacks of
both ask for more, there are two files, two faults (a loss, a repetition, or an
alarm ahead of an answer under way) and three requests. `fsp_live` checks that
every read ends, with two faults; its ring holds four frames, so that the race
that loses a receive interrupt cannot fill it (with three and two faults it can,
and the adapter then announces nothing any more).

**The race of the alarm.** The code reads through a null pointer when the alarm,
one second after the request, expires *during a DMA of the coroutine* that
fetches the frame with the answer: `fsp_read_queued` finds `_bba.locked` false and
defers itself; the answer then completes the read; the coroutine ends, runs the
deferred callback and finds `_fsp.queued == NULL`. If another read is queued by
then, its alarm is set already when the deferred callback sets it. Both happen in
the runs. `raced` records that such an alarm has put the callback off, until it has
run. `NullNeverRead` and `AlarmSetOnce` say that nothing else leads there: not
an alarm that expires between the coroutine's runs, nor reads that are submitted
while it runs, nor answers lost, repeated or late. `EveryReadEnds` claims nothing
for a game that has crashed or set an alarm twice, which the SDK's list of alarms
does not survive. The model stops at the crash, so neither run checks for
deadlock.

## GcodeQueue

**State.** `queue`, `queued`, `last_sector` are the fields of `gcode`; `buffer`
is the memory it points to. The emulated drive is `di` (`idle`, `latency` while
`di_alarm` is set, `delayed` while the alarm of `dvd_schedule_read` is, `busy`
while `di.reg.cr` has its start bit and requests are under way), `command` (the
registers), `at` (`dvd.offset`), `cover` (`di.status`) and `cover_alarm`;
`current` and `flags` are `VAR_CURRENT_DISC` and `VAR_DRIVE_FLAGS`, with `"igr"`
for `VAR_IGR_TYPE`. The real drive (external) is the command in its registers,
the disc whose fragments it has, its write buffer and the sectors of the files.

| Action | Code |
|---|---|
| `Submit` | `card_dma`, `dtk_fill_buffer` |
| `Start`, `LeaveGame` | a store to the control register (`di_write`); the exit combination of `pad.c` |
| `Immediate`, `PerformRead`, `PassAudio`, `ChangeDisc` | the ways through `di_execute_command` |
| `ScheduleRead`, `CloseCover` | the alarms of `perform_read` and of the cover |
| `CacheHit`, `GiveCommand` | `gcode_read_queued` |
| `DriveDone` | the drive finishes; `di_interrupt_handler` |
| `Buffered`, `DiscChanged`, `PartRead`, `AudioDone`, `CardDone`, `StreamDone` | `gcode_done_queued` by command, with the callback |
| `Release` | its end: slot freed, next request started |

The unit of an image is a part, what one fragment gives of a read; `Layout` says
whether it lies on the disc the drive serves or in another file. A SEEK reads one
part. There is no bus lock: nothing else uses the drive's registers.

**What could be wrong.** A disc change takes its turn in the queue. It is right
only because the cover is opened when the change is *queued*: from then on reads
are refused, so none is looked up in the fragments of one disc and served from
another (`RightDisc`), and the cover closes by an alarm set when the drive has
answered, whatever it answered (`CoverStory`). A write is two commands;
`ImplementsService` says that the cards never notice.

`build` is the build that runs, chosen once: its clients, `QUEUE_SIZE`, and
whether reads are delayed to a real drive's speed, which only `.bin` can do.

| Run | Instance | Checks |
|---|---|---|
| `gcode` | the builds `.bin` (queue of 2, delayed reads), `.card` (queue of 4, two memory cards, one written) and `.dtk` (queue of 3, a streamer); two discs of two parts, one of them patched; leaving the game | type, no request refused, drive and queue, commands, right disc, cover, cache, refinement of `BlockService` |
| `gcode_live` | `.bin`, and `.card` with one card that never pauses | the cover closes, every command ends |

Two parts make a read whose second request is queued while the first holds its
slot, which is when the queue is fullest; two discs are what the code has.

*Assumed of the drive:* it ends every command with its transfer interrupt (an
error would stop the queue: only that interrupt is enabled), and confirms the
last fragment of a list it has not refused. *Assumed of the launcher:* where there
is a second disc, its fragments are one entry of the list (`frag_get_list` gives 1).
Without a device for patches there is no list, `change_disc` returns false, and the
command does what it does without a second disc (`Immediate`).

## AtaQueue

The same clients, bus lock and points of the handler as `SdQueue`; the drive is
what differs. A read command names a number of sectors (`drive.left`), and the
driver keeps its own `count` of them in 16 bits. A new command replaces what is
left of the old one, which is what the code relies on: it never aborts one.
`StartTransfer` is the choice between going on with the open command and sending
another, `WriteSector` a command of its own, `Pick` the three scans for the next
request: the open command's next sector, then single sectors (queues of more than
two), then any.

`ata_card` is the `.card` build with a disc reader of four sectors, two to a
command, that also seeks, a memory card that is written and may be refused, and
one driver of the game. `DriveAgrees` is the invariant on which the polling
interrupt handler depends; `SingleServed` says how long an audio block or a card
page may be put off; and the queue implements `BlockService`.

*A drive with 28-bit addresses.* A SEEK at the start of a sector is a request of 0
sectors, for which the drive counts 65536 (48-bit addresses) or 256 (28-bit). The
driver's count wraps to 65535 in either case. `ata_card` has the former
(`DriveMod = CountMod`). With `DriveMod < CountMod`, `DriveAgrees` fails at the first
such SEEK: reading on from there for more than 256 sectors without a jump waits
for a sector the drive does not send. No text of the repository says what should
happen, so it stands here and under `hazards`.

## Dtk

`dtk` is the struct of `base/emulator.c` with its decoder and FIFO; a block
decodes to `BlockUnits` units of sound, each with the decoder's state it was made
in, so that a skipped, repeated or wrongly continued block shows. `inflight` is
the one read the block driver has. Commands (`Play`, `StopAtEnd`, `Cancel`), a DMA
of the game's audio (`Mix`) and the answer (`Callback`) are one step each, since
handlers run with interrupts disabled; each ends in `dtk_fill_buffer` (`Fill`).
The FIFO of the code holds four blocks, the instance three: what matters is that
it can be full, and have room for one block and for more.

`dtk` checks that the streamer implements `DtkStream`, which knows tracks and
blocks but no flags. `ReadIsCurrent` is the reason: whatever the game did since a
block was asked for, it is the next one or marked to be dropped.

**A finding.** `dtk_fill_buffer` assigns the result of `frag_read_async` to
`dtk.reading`. The drivers of SD cards and hard disks answer at once when they
are idle and have the sector in their buffer, so the callback may run *before*
the assignment; if it finds no room for another block, the assignment sets the
flag with no read outstanding, and the track stops for ever. `dtk_nested` shows
it, and `TrackGoesOnLater` checks that a track goes on with a driver that answers
later. The buffer has the sector of a block after, say, a SEEK of the game to the
place where a track starts (`atonce`).

## EthMac

A game that drives Nintendo's adapter exchanges frames through another chip. The
emulated chip has a ring of pages with a write and a read pointer, an interrupt
register behind two masks, and a transmit FIFO; `page` says which piece of its
frame each page of the ring holds, or `Mixed` after an overwrite. The driver of
the ENC28J60 is cut where `exi_callback` takes and returns the bus (`LockBusy`,
`LockTaken`, `Fetch`, `Enable`, `Output`, `Unlock`), the game where it accesses a
register: between any two accesses a frame may be delivered.

The game's driver is external. It is taken to use the chip as the driver in
`bba/bba.c` does, except that it acknowledges an interrupt *before* it reads the
ring (after it is the race that `FspClient` has).

`eth`: a ring of four pages, frames of one or two pages (so that they wrap and
do not fit), a chip that holds two frames, a sender and another driver on the
channel. `FramesIntact` and `NoFrameStranded` hold until a frame fills the ring
to the very last page (`lapped`): `eth_mac_receive` then leaves the write pointer
at the read pointer, which means an empty ring. What the game does from then on
is not followed. `FrameSentOnce` is about what the chip is handed. That the game
finds its frame sent does not mean that the chip has sent it: `bba_output` starts
the transmission and returns, `eth_mac_transmit` tells the game at once, and the
next `bba_output` begins with a reset of the chip's transmitter, without a look at
whether it is still sending. No fairness is needed: the properties are that whoever
should look is told to.

## DiscRead

A `Setup` is a game a user can start: the clusters its images lie in, patched
parts, a second disc, an apploader image. `Parts` are the files `setupFile` calls
`getFragments` for, in its order, `Fragments` what each call adds, a fragment per
run (`RunStart`, by `Sums`), and `Table` all of them; `FragGet` is the search with
its 32-bit differences and roundings (`Word`), and `PerformRead`, `ReadCallback`,
`ChangeDisc` are `blockdevice.c`; a driver takes a piece up to the end of the sector,
of the block, or whole (`Taken`). `ReadIsOverlay` compares every unit read with
`Meant`, which lays the patched parts over the image without a table.

`disc_read`: discs of ten units of 16 bytes in one run or two, up to two patched
parts at aligned and unaligned places in either order, also overlapping,
reads of 0 to 6 units at every offset. Two parts, two runs and two units to the
granule give every relation of a read's ends to a part's ends that the code
tells apart. `Word` is 64, more than the length of a disc, as 2^32 is. What it
shows: by its rounding a read runs up to 31 bytes over an end of a patched part
that is not aligned to 32 bytes, and nowhere else. Fragments shorter than 32 bytes are
not in the instances: one that ends just before the offset of a read would limit
the read to nothing, and the read would not go on. `ReadsGetShorter` has their
absence as its hypothesis (`NoSlivers`); `ReadsAreOverlay` does not need it.

## WkfRead

The WKF drive reads whole 32 bytes to aligned memory, from a base sector it is
told in a command of its own. Since a patched part may end anywhere, pieces of a
read go to unaligned places of the game's buffer: the driver saves the bytes
before, has the drive overwrite them, restores them, and moves the base back by a
block to have the data start earlier. `memory` is the game's buffer, the
streamer's, and 32 bytes about each, byte by byte in units of 8 bytes; the
transfer and the restoring are one step, since the buffer is the game's until its
command completes. The base outlives a request (`Told`), also across the game's
reads and the streamer's.

`wkf_read`: discs of twelve units in two runs, one patched part of 4, 5 or 7 units
on the card, a second disc or an apploader image, the builds `.bin` (queue of 2)
and `.dtk` (queue of 3). `MemoryIntact` is about every unit of memory;
`PieceOnItsWay` says that a read's next piece never finds the queue full, which
`schedule_read` would not notice. `WkfReadProofs` proves both for every size, and
that the driver's reads are those of `DiscRead`.

## Fairness

`SdQueue`: weak fairness of the driver's own steps (handlers run to their end, a
card answers a command), weak fairness of deselecting and strong fairness of
unlocking by the game's drivers: an EXI transaction of the SDK is finite, but its
end can be postponed while the bus driver's handler runs. `FspClient`: the same
for the bus; weak fairness of the coroutine (a DMA ends and its interrupt is
taken), of the receive interrupt, of the alarm, and of the delivery of answers
that are not lost. Losses are not fair and are bounded. `GcodeQueue`: weak
fairness of the handlers and of the drive, strong fairness of the alarms, whose
handlers wait for others to end. `AtaQueue`: as `SdQueue`, without the select.
`Dtk`: weak fairness of the answers of the block driver (which `SdQueue` and
`AtaQueue` check they give) and of the game's audio DMA, without which nothing
makes room. `DiscRead`: weak fairness of the callback. `EthMac` and `WkfRead` have
safety properties only.

## What is proved

TLC checks every property of the runs on small instances; TLAPS proves the
safety properties and the refinements below for every value of the constants
that satisfies the assumptions the modules name. Each proof module has one
inductive invariant, `IInv`, which TLC checked as an invariant of the runs
before it was proved; a lemma about each operator the steps rest on; a lemma per
action, with a step per conjunct the action can disturb; and a short last step
per theorem.

| Module | Theorem | States |
|---|---|---|
| `SdQueueProofs` | `TypeCorrect`, `NoRequestRefused`, `WakeupNotLost`, `StreamsAgree`, `BusIsExclusive`, `CacheIsFresh`, `ShortIsFirst` | `TypeOK`, `NeverRefused`, `NoLostWakeup`, `StreamAgrees`, `BusExclusive`, `CacheFresh`, `ShortFirst` |
| | `DriverImplementsService` | `ImplementsService`: the driver is a `BlockService` |
| `AtaQueueProofs` | `DriveAndDriverAgree`, `SingleIsServed` | `DriveAgrees` (under `CountFits`), `SingleServed` |
| | `DriverImplementsService` | `ImplementsService` |
| `GcodeQueueProofs` | `TypeCorrect`, `NoRequestRefused`, `DriveIsServing`, `CommandIsServed`, `DiscIsRight`, `CoverTellsStory`, `CacheIsFresh` | `TypeOK`, `NeverRefused`, `DriveServesQueue`, `CommandServed`, `RightDisc`, `CoverStory`, `CacheFresh` |
| | `DriverImplementsService` | `ImplementsService`, for the memory cards |
| `FspClientProofs` | `TypeCorrect`, `ReceivedIsFile`, `ReadsStayAlive`, `BusOwner`, `ShortReadsFirst` | `TypeOK`, `BufferIsFile`, `NoReadForgotten`, `BusHeldByCoroutine`, `ShortFirst`, with the alarm free to expire at any time |
| | `CurrentWhenSent`, `AlarmIsFree` | `NullNeverRead`, `AlarmSetOnce` (the latter under `OneSeeker`): only the race of the alarm leads to a null pointer or to an alarm set twice |
| `DtkProofs` | `TrackInOrder`, `ReadStaysCurrent` | the decoder, the FIFO and the positions; `ReadIsCurrent` |
| | `EmulationIsStream` | `ImplementsStream`: the streamer is a `DtkStream` |
| `EthMacProofs` | `FramesAreIntact`, `NoFrameIsStranded`, `FrameIsSentOnce` | `FramesIntact`, `NoFrameStranded`, `FrameSentOnce` |
| `DiscReadProofs` | `ReadsAreOverlay` | `ReadIsOverlay` |
| | `ReadsGetShorter` | under `NoSlivers`: every answer leaves less of a read or ends it, the measure under `EveryReadEnds` |
| `WkfReadProofs` | `DriverReadsDisc` | the driver's reads are reads of `DiscRead` (`WkfSpec => Spec`) |
| | `MemoryStaysIntact`, `PieceIsOnItsWay` | `MemoryIntact`, `PieceOnItsWay` |
| | `BufferIsOverlay` | both modules together: the game's buffer holds the disc with its patched parts over it |

**Assumptions on the constants.** `...Assumption` in each module gives the types of
the constants and keeps marks like `None` out of the data. `QueueRoomAssumption`
(in `AtaQueue`: `AtaRoomAssumption`) is how the Makefile sets `QUEUE_SIZE`: a slot
more than there are clients, and for the GC Loader two more than there are besides
the game, since a disc change takes one of its own. `ViewAssumption` says that the
mark `None` is not one of the records that `BlockService` sees. `GcodeQueue` has a
second disc only where the flags say so. `DiscReadAssumption`
says what the file system gives: all runs of a file but the last are whole clusters,
files are shorter than 2^32 - 32 bytes, a patched part is no longer than its file,
and the game reads whole 32 bytes; offsets of patched parts are free.
`WkfReadAssumption` says that `Longest` is the longest read and keeps `None` out of
the requests. Three theorems need more, and say so:
`DriveAndDriverAgree` assumes `CountFits` (the drive and the driver count a
command of 0 sectors alike, or nobody seeks; without it TLC finds the
disagreement described under AtaQueue), `AlarmIsFree` that `OneSeeker` holds (see
"What proving showed"), and `ReadsGetShorter` that `NoSlivers` does (see DiscRead).

**Why the invariants need strengthening.** None of the properties is inductive.

* *The drivers* (`SdQueue`, `AtaQueue`, `GcodeQueue`). A client has at most one
  request besides the one whose callback is running; that gives room in the
  queue, by counting: occupied slots map one-to-one to clients, but for one. Where
  the handler is (`ctl`) fixes who owns the bus, whether a transfer is running,
  and whether the driver is among the waiters. A running transfer belongs to the
  request served and stands at its sector. How far a short request has been
  overtaken is bounded by whether the request served is a long one, because the
  next one chosen is then short. The GC Loader adds that what is queued for the
  game is the command under way, at the part it has reached, of the disc the
  flags name, and that the answer the callback will get is of the disc and the
  sector the request names, also between the two commands of a write.
* *The refinements* of `BlockService` map a request that waits in its slot to one
  that is called, one whose data is fixed to one that is performed. The step that
  performs is the one at which the data is fixed: the end of the card's transfer, the
  hit in the cache, or for a write the second of the GC Loader's commands. All
  other steps map to none; that needs `CacheFresh` and the position of the open
  command (a cache hit performs a read of what the card holds *now*).
* *`FspClient`.* The offset counted, the packet whose payload is still in the
  adapter (`target`) and the read it belongs to (`LastOf`) are related at each point
  of the coroutine: the read can change between the moment an answer moves its
  offset on and the moment its payload is fetched, and still the payload goes to
  where its offset was. Answers in the network are right at whatever place they
  name (`FrameInv`), which is why duplicates do no harm. A request that was put
  off without the race of the alarm has its read and no alarm set, and no answer
  can count before it is sent (`RaceInv`).
* *`Dtk`.* The FIFO holds the sound of what was played of the track so far, the
  decoder stands behind the last block of it, and the flags say which block comes
  next, in each of the orders in which a command of the game and an answer can
  come.
* *`EthMac`.* The ring from read to write pointer is a chain of whole frames and
  everything else is free; a frame that waits implies that an interrupt is raised
  or enabled, that the game is between its acknowledgement and its look at the
  ring, or that the driver waits for the bus.
* *`DiscRead`.* The table is a concatenation of the parts' fragments, so the first
  fragment that holds an offset is one of the first *part* that does, and a part
  that comes earlier in the table but starts later limits the read by where it
  starts. Runs are whole 32 bytes, so only the end of a part can be rounded up. The
  invariant adds that what is under way of a read means what its disc has there. The
  sums of runs and the table are recursive functions; what they compute is proved by
  least counterexamples over sets of numbers, since no induction theorem can be
  instantiated. If the command and the patched parts keep to 32 bytes (`Aligned`),
  so do the pieces, and the exception of `ReadIsOverlay` never applies.
* *`WkfRead`.* The queue holds exactly the game's request for what is left of its
  read and at most one of the streamer's, which is why an entry is free when the
  next piece asks for one. The request served has its base told and the bytes
  before its buffer saved, and no step between changes either. A place less its
  misalignment is whole 32 bytes, so that what is rounded up at the end stays
  within the buffer, whose length is whole 32 bytes. That pieces are right comes
  from `DiscRead`: by `DriverReadsDisc` its invariant holds here too.

**What proving showed.** Where a proof failed for a reason of the model, the model
was changed: in `GcodeQueue`, two alternatives of a CASE in `DriveDone` overlapped
for a write that ends in the cached sector. And one
fact about the code came out of `AlarmIsFree`: `fsp_input` tests for completion
whichever read is queued *after* it sent the next request (tcpip.c:338-344). If
that read is a seek, which needs no data, an answer to another client's longer
read completes it, and the alarm is then set a second time. TLC confirms it when one
client seeks while another reads more than a packet. In the builds the disc reader
is the only client that does either (`OneSeeker`), so the code is right because of
who its clients are.

**Only model-checked.** Liveness (`EveryTransferEnds`, `EveryReadEnds`,
`EveryCommandEnds`, `TrackGoesOn`, `TrackGoesOnLater`, `CoverCloses`), which needs fairness and
ENABLED and is out of the prover's reach. Every safety
property and every refinement that a run checks is also proved.

## Not modelled

Timing, formats and checksums of packets, register-level SPI, the synchronous
`do_read_write` and `trickle_read` of builds without `ASYNC_READ`, and
`reset_devices`, which runs once with everything stopped.

The rest of the repository is not a system of interacting steps. The launcher is a
sequential menu program over libogc; `patcher.c`, the longest file, matches
instruction sequences of games, and its input is every game; `nkit.c`, the fonts
and FatFs's tables are data; FatFs, the FTP and SMB clients and XZ are vendored;
the cheat engine is third-party assembly. They are most of the lines and none of
the concurrency. Of the in-game program, what is left is the USB Gecko
and DVD drivers (the former one request at a time, the latter bound to a real
drive's undocumented states), register decoding, and the floating-point timing of
a drive. Reasons by component are in `PROJECT.json`.

## Plan

What is proved covers every safety property and refinement of the runs. What is
left is to prove more of what liveness rests on, and to reach further.

1. The measures under the liveness properties, as `ReadsGetShorter` is the one under
   `EveryReadEnds` of `DiscRead`: that each callback of `SdQueue`, `AtaQueue` and
   `GcodeQueue` leaves less of a transfer, and each answer that counts less of a read of
   `FspClient`. The fairness stays with TLC.
2. The types of `AtaQueue`, `Dtk` and `EthMac` as theorems of their own (they are parts
   of the invariants).
3. The drivers not modelled (`flippy.c`, which queues as `gcloader.c`; `usbgecko.c`) as
   implementations of `BlockService`.
