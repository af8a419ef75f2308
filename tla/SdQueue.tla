------------------------------- MODULE SdQueue -------------------------------
(***************************************************************************)
(* The asynchronous request queue of the SD-over-EXI block driver,         *)
(* cube/patches/sdgecko/sd.c built with ISR_READ, as it runs under a game. *)
(*                                                                         *)
(* Every entry point runs with interrupts disabled, so a handler is        *)
(* atomic for the rest of the machine; but a handler is a chain of nested  *)
(* calls (mmc_read_queued -> mmc_done_queued -> the client's callback ->   *)
(* do_read_write_async -> ... -> EXIUnlock -> the next mmc_read_queued).   *)
(* The chain is cut at the points where code outside the driver runs; the  *)
(* variable ctl is the point reached, "idle" when no handler is running.   *)
(*                                                                         *)
(* The EXI bus lock (EXILock, EXIUnlock) belongs to the game's SDK: it is  *)
(* modelled from the way sd.c uses it and from what patcher.c makes of it  *)
(* (one waiter per callback).  The SD card answers as its protocol says.   *)
(***************************************************************************)
EXTENDS Integers, Sequences, FiniteSets

CONSTANTS
    Clients,      \* the owners of requests: disc reader, audio streamer, memory cards
    Users,        \* the game's own drivers of other devices on the same EXI channel
    QueueSize,    \* QUEUE_SIZE of the Makefile
    LastSector,   \* sectors are 0..LastSector
    Region,       \* [Clients -> SUBSET sectors]: where a client's files lie
    MaxCount,     \* [Clients -> Nat]: the longest transfer, in sectors, of a client
    Writers,      \* the clients that write: the memory cards
    Streamers,    \* the clients whose callback starts the next transfer: dtk_fill_buffer
    Seekers,      \* the clients that also ask for nothing: a SEEK reads 0 bytes
    Vals,         \* contents of a sector
    Payloads,     \* the contents a write may carry
    InitDisk,     \* [sectors -> Vals]: what the card holds when the game starts
    Sd,           \* the driver, as an owner of the bus lock
    None,         \* NULL, ~0: no request, no sector, no owner
    Error         \* what a client gets for a rejected write: length 0

(* fault: the loops over the queue stop one entry early *)
SlotsFault == 1..QueueSize - 1

Slots   == 1..QueueSize
Sectors == 0..LastSector

(* The queue entry.  count is the number of sectors the client still wants *)
(* from this transfer, this one included; whole is FALSE for a request     *)
(* that goes through mmc.buffer (length below SECTOR_SIZE, or a buffer the *)
(* DMA cannot reach); data is what a write writes, None for a read.       *)
Request == [client : Clients, sector : Sectors, count : Nat,
            whole : BOOLEAN, write : BOOLEAN, data : Vals \cup {None}]

(* A transfer of a client starts inside its files and ends inside them.    *)
ASSUME SdQueueAssumption ==
    /\ QueueSize \in Nat \ {0}
    /\ LastSector \in Nat
    /\ Region \in [Clients -> SUBSET Sectors]
    /\ MaxCount \in [Clients -> Nat \ {0}]
    /\ Writers \subseteq Clients
    /\ Streamers \subseteq Clients
    /\ Seekers \subseteq Clients
    /\ Payloads \subseteq Vals
    /\ InitDisk \in [Sectors -> Vals]
    /\ Sd \notin Users
    /\ None \notin Users \cup {Sd} \cup Vals \cup Int \cup Request
    /\ Error \notin Vals \cup {None}

(* The Makefile's QUEUE_SIZE: a slot for every client, and one more for    *)
(* the request whose callback asks for the next sector.                    *)
ASSUME QueueRoomAssumption ==
    /\ IsFiniteSet(Clients)
    /\ QueueSize > Cardinality(Clients)

VARIABLES
    queue,         \* mmc.queue: [Slots -> Request or None]
    queued,        \* mmc.queued: the slot being served, or None
    last_sector,   \* mmc.last_sector: the sector mmc.buffer holds
    next_sector,   \* mmc.next_sector: where the open multi-block command stands
    writing,       \* mmc.write: whether that command is a write
    buffer,        \* the contents of mmc.buffer
    dest,          \* the contents of the memory the served request points to
    transferred,   \* _mmc.transferred of the interrupt handler, None when masked
    status,        \* mmc.queued->length after a write, as the callback gets it
    ctl,           \* the point the running handler has reached
    lock,          \* owner of the EXI channel
    waiters,       \* callbacks registered by a failed EXILock, in order
    selected,      \* the game has selected another device on the channel
    card,          \* the SD card: the multi-block command it is in, and its position
    disk,          \* the contents of the SD card
    dropped,       \* the clients whose request was refused
    overtaken      \* history: long chunks completed while a client's short one waits

mmc     == <<queue, queued, last_sector, next_sector, writing, buffer, dest, status>>
bus     == <<lock, waiters, selected>>
results == <<dropped, overtaken>>
vars    == <<mmc, transferred, ctl, bus, card, disk, results>>

-----------------------------------------------------------------------------
(* Helpers *)

Occupied == {i \in Slots : queue[i] # None}
Free     == {i \in Slots : queue[i] = None}

(* The first slot of a set, as the for loops over the queue find it. *)
First(S) == CHOOSE i \in S : \A j \in S : i <= j

Waiting(c) == \E i \in Occupied : queue[i].client = c

(* The two multi-block commands, as the card knows them. *)
Mode(write) == IF write THEN "write" ELSE "read"

(* end_read: an open stream is stopped, by the stop token of a write or by *)
(* CMD12; the card obeys the one that fits the command it is in.           *)
Stopped == IF next_sector # None /\ card.mode = Mode(writing)
           THEN [card EXCEPT !.mode = "idle"] ELSE card

(* EXIUnlock: the lock is released and the first waiter is called back;    *)
(* each waiter starts by taking the lock it was waiting for.               *)
HandOver ==
    /\ lock' = IF waiters = <<>> THEN None
               ELSE IF Head(waiters) = Sd THEN None ELSE Head(waiters)
    /\ waiters' = IF waiters = <<>> THEN <<>> ELSE Tail(waiters)

-----------------------------------------------------------------------------
Init ==
    /\ queue = [i \in Slots |-> None]
    /\ queued = None
    /\ last_sector = None
    /\ next_sector = None
    /\ writing = FALSE
    /\ buffer = None
    /\ dest = None
    /\ transferred = None
    /\ status = None
    /\ ctl = "idle"
    /\ lock = None
    /\ waiters = <<>>
    /\ selected = FALSE
    /\ card = [mode |-> "idle", at |-> 0]
    /\ disk = InitDisk
    /\ dropped = {}
    /\ overtaken = [c \in Clients |-> 0]

-----------------------------------------------------------------------------
(* The requests a client may make.  A read of 0 bytes counts no sector but *)
(* still fetches one, through mmc.buffer.                                  *)
FirstRequest(c) ==
    {r \in [client : {c}, sector : Region[c], count : 0..MaxCount[c],
            whole : BOOLEAN, write : BOOLEAN, data : Payloads \cup {None}] :
        /\ r.sector + r.count - 1 \in Region[c] \cup {r.sector - 1}
        /\ r.write <=> r.data # None
        /\ r.write => c \in Writers /\ r.whole /\ r.count = 1
        /\ r.count = 0 => c \in Seekers /\ ~r.whole}

(* do_read_write_async called from outside the driver.                     *)
Submit(c, r) ==
    /\ ctl = "idle"
    /\ ~Waiting(c)
    /\ IF Free = {}
       THEN /\ dropped' = dropped \cup {c}
            /\ UNCHANGED <<queue, queued, ctl>>
       ELSE /\ queue' = [queue EXCEPT ![First(Free)] = r]
            /\ IF queued = None
               THEN queued' = First(Free) /\ ctl' = "start"
               ELSE UNCHANGED <<queued, ctl>>
            /\ UNCHANGED dropped
    /\ overtaken' = [overtaken EXCEPT ![c] = 0]
    /\ UNCHANGED <<last_sector, next_sector, writing, buffer, dest, status,
                   transferred, bus, card, disk>>

-----------------------------------------------------------------------------
(* fault: EXILock is given no callback *)
LockBusyFault ==
    /\ ctl = "start" /\ lock # None
    /\ ctl' = "idle"
    /\ UNCHANGED <<mmc, transferred, bus, card, disk, results>>

(* mmc_read_queued: EXILock fails and leaves the function as a waiter,     *)
(* once (patcher.c compares callbacks).                                    *)
LockBusy ==
    /\ ctl = "start"
    /\ lock # None
    /\ waiters' = IF \E k \in 1..Len(waiters) : waiters[k] = Sd
                  THEN waiters ELSE Append(waiters, Sd)
    /\ ctl' = "idle"
    /\ UNCHANGED <<mmc, transferred, lock, selected, card, disk, results>>

(* fault: the direction of the open command is not compared *)
ContinuesAnyWay(r) == r.sector = next_sector

(* The card's stream once mmc_read_queued has seen to it: the open command *)
(* goes on if the request is where it stands and of its kind; else it is   *)
(* stopped and CMD25 or CMD18 sent, which only an idle card takes.         *)
Continues(r) == r.sector = next_sector /\ r.write = writing

StreamTo(r) ==
    IF Continues(r) THEN card
    ELSE IF Stopped.mode = "idle" THEN [mode |-> Mode(r.write), at |-> r.sector]
    ELSE Stopped

(* fault: a write leaves mmc.buffer alone *)
InvalidatedFault(r) == last_sector

(* A write to the sector mmc.buffer holds makes that copy worthless. *)
Invalidated(r) == IF last_sector = r.sector THEN None ELSE last_sector

(* mmc_read_queued, write: the block is sent in the handler; the card may  *)
(* reject it.                                                              *)
WriteSector(accepted) ==
    LET r == queue[queued] IN
    /\ ctl = "start" /\ lock = None /\ r.write
    /\ lock' = Sd
    /\ last_sector' = Invalidated(r)
    /\ LET stream == StreamTo(r) IN
        /\ disk' = IF accepted /\ stream.mode = "write"
                   THEN [disk EXCEPT ![stream.at] = r.data] ELSE disk
        /\ card' = [stream EXCEPT !.at = @ + 1]
    /\ status' = IF accepted THEN r.data ELSE Error
    /\ next_sector' = r.sector + 1
    /\ writing' = TRUE
    /\ ctl' = "done"
    /\ UNCHANGED <<queue, queued, buffer, dest, transferred, waiters, selected, results>>

(* mmc_read_queued, read of the sector mmc.buffer holds. *)
CacheHit ==
    LET r == queue[queued] IN
    /\ ctl = "start" /\ lock = None /\ ~r.write
    /\ r.sector = last_sector
    /\ lock' = Sd
    /\ ctl' = "done"
    /\ UNCHANGED <<mmc, transferred, waiters, selected, card, disk, results>>

(* mmc_read_queued, read from the card: rcvr_datablock leaves the transfer *)
(* to the interrupt handler, its first byte waiting for the start token.   *)
StartTransfer ==
    LET r == queue[queued] IN
    /\ ctl = "start" /\ lock = None /\ ~r.write
    /\ r.sector # last_sector
    /\ lock' = Sd
    /\ last_sector' = IF r.whole THEN last_sector ELSE r.sector
    /\ card' = StreamTo(r)
    /\ transferred' = -1
    /\ next_sector' = r.sector + 1
    /\ writing' = FALSE
    /\ ctl' = "idle"
    /\ UNCHANGED <<queue, queued, buffer, dest, status, waiters, selected, disk, results>>

-----------------------------------------------------------------------------
(* mmc_interrupt_vector: the start token arrives, then the words of the    *)
(* block and its CRC.                                                      *)
TcProgress ==
    /\ ctl = "idle"
    /\ transferred \in {-1, 0}
    /\ card.mode = "read"
    /\ transferred' = IF transferred = -1 THEN 0 ELSE 512
    /\ UNCHANGED <<mmc, ctl, bus, card, disk, results>>

(* tc_interrupt_handler at the end of the block: the interrupt is masked   *)
(* and mmc_done_queued entered.  The block is the one the card's stream    *)
(* stands at; it went to mmc.buffer or to the client's memory.             *)
TcDone ==
    LET r     == queue[queued]
        block == disk[card.at] IN
    /\ ctl = "idle"
    /\ transferred = 512
    /\ transferred' = None
    /\ card' = [card EXCEPT !.at = @ + 1]
    /\ IF r.sector = last_sector
       THEN buffer' = block /\ UNCHANGED dest
       ELSE dest' = block /\ UNCHANGED buffer
    /\ ctl' = "done"
    /\ UNCHANGED <<queue, queued, last_sector, next_sector, writing, status,
                   bus, disk, results>>

-----------------------------------------------------------------------------
(* fault: the sector is never copied out of mmc.buffer *)
ResultFault == IF queue[queued].write THEN status ELSE dest

(* What mmc_done_queued hands to the callback. *)
Result ==
    LET r == queue[queued] IN
    IF r.write THEN status ELSE IF r.sector = last_sector THEN buffer ELSE dest

(* fault: the end of the transfer is noticed one sector late *)
NextRequestFault(r) ==
    IF r.count >= 1
    THEN [client : {r.client}, sector : {r.sector + 1}, count : {r.count - 1},
          whole : BOOLEAN, write : {FALSE}, data : {None}]
    ELSE {None}

(* What a callback asks for before it returns: the next sector unless it   *)
(* is at the end of its transfer (blockdevice.c read_callback), and then a *)
(* streamer the next block, if it has room for it (emulator.c              *)
(* dtk_fill_buffer).                                                       *)
NextRequest(r) ==
    IF r.count > 1
    THEN [client : {r.client}, sector : {r.sector + 1}, count : {r.count - 1},
          whole : BOOLEAN, write : {FALSE}, data : {None}]
    ELSE {None} \cup (IF r.client \in Streamers THEN FirstRequest(r.client) ELSE {})

Short(c) == \E i \in Occupied : queue[i].client = c /\ queue[i].count = 1

(* mmc_done_queued, first half: the client's callback is given Result and  *)
(* its memory, do_read_write_async is nested in it; the slot stays taken.  *)
Callback ==
    LET r == queue[queued] IN
    /\ ctl = "done"
    /\ dest' = None /\ status' = None
    /\ \E n \in NextRequest(r) :
          /\ queue' = IF n # None /\ Free # {}
                      THEN [queue EXCEPT ![First(Free)] = n] ELSE queue
          /\ dropped' = IF n # None /\ Free = {}
                        THEN dropped \cup {r.client} ELSE dropped
    /\ overtaken' = [c \in Clients |->
                        IF c = r.client THEN 0
                        ELSE IF Short(c) /\ r.count > 1 THEN overtaken[c] + 1
                        ELSE overtaken[c]]
    /\ ctl' = "unlock"
    /\ UNCHANGED <<queued, last_sector, next_sector, writing, buffer,
                   transferred, bus, card, disk>>

(* mmc_done_queued: EXIUnlock, which may run a waiter of the game. *)
Unlock ==
    /\ ctl = "unlock"
    /\ HandOver
    /\ ctl' = "release"
    /\ UNCHANGED <<mmc, transferred, selected, card, disk, results>>

(* The requests left once the served one is gone, and among them those at  *)
(* the end of their transfer, which come first when QUEUE_SIZE > 2.        *)
Left == Occupied \ {queued}

(* fault: no request comes first *)
UrgentFault == {}

Urgent == {i \in Left : QueueSize > 2 /\ queue[i].count = 1}

(* fault: the queue is taken for a ring that only moves forward *)
ReleaseFault ==
    LET later == {i \in Left : i > queued} IN
    /\ ctl = "release"
    /\ queue' = [queue EXCEPT ![queued] = None]
    /\ queued' = IF later # {} THEN First(later) ELSE None
    /\ ctl' = IF later # {} THEN "start" ELSE "idle"
    /\ UNCHANGED <<last_sector, next_sector, writing, buffer, dest, status,
                   transferred, bus, card, disk, results>>

(* mmc_done_queued, last part: the slot is released and the next request   *)
(* picked.                                                                 *)
Release ==
    /\ ctl = "release"
    /\ queue' = [queue EXCEPT ![queued] = None]
    /\ queued' = IF Urgent # {} THEN First(Urgent)
                 ELSE IF Left # {} THEN First(Left) ELSE None
    /\ ctl' = IF Left # {} THEN "start" ELSE "idle"
    /\ UNCHANGED <<last_sector, next_sector, writing, buffer, dest, status,
                   transferred, bus, card, disk, results>>

-----------------------------------------------------------------------------
(* The game's drivers of other devices on the channel (external).          *)

UserLock(u) ==
    /\ ctl = "idle"
    /\ lock # u
    /\ IF lock = None
       THEN lock' = u /\ UNCHANGED waiters
       ELSE /\ \A k \in 1..Len(waiters) : waiters[k] # u
            /\ waiters' = Append(waiters, u)
            /\ UNCHANGED lock
    /\ UNCHANGED <<mmc, transferred, ctl, selected, card, disk, results>>

(* fault: the emulated store selects the device without end_read *)
UserSelectFault(u) ==
    /\ ctl = "idle" /\ lock = u /\ ~selected
    /\ selected' = TRUE
    /\ UNCHANGED <<mmc, transferred, ctl, lock, waiters, card, disk, results>>

(* A device is selected by a store to EXI[chan][0], which exi_write        *)
(* emulates: end_read comes before the store takes effect.                 *)
UserSelect(u) ==
    /\ ctl = "idle"
    /\ lock = u
    /\ ~selected
    /\ selected' = TRUE
    /\ next_sector' = None
    /\ card' = Stopped
    /\ UNCHANGED <<queue, queued, last_sector, writing, buffer, dest, status,
                   transferred, ctl, lock, waiters, disk, results>>

UserDeselect(u) ==
    /\ ctl = "idle"
    /\ lock = u
    /\ selected
    /\ selected' = FALSE
    /\ UNCHANGED <<mmc, transferred, ctl, lock, waiters, card, disk, results>>

(* EXIUnlock of the game; a waiting mmc_read_queued is entered from it. *)
UserUnlock(u) ==
    /\ ctl = "idle"
    /\ lock = u
    /\ ~selected
    /\ HandOver
    /\ ctl' = IF waiters # <<>> /\ Head(waiters) = Sd THEN "start" ELSE "idle"
    /\ UNCHANGED <<mmc, transferred, selected, card, disk, results>>

-----------------------------------------------------------------------------
Driver ==
    \/ LockBusy
    \/ \E accepted \in BOOLEAN : WriteSector(accepted)
    \/ CacheHit
    \/ StartTransfer
    \/ TcProgress
    \/ TcDone
    \/ Callback
    \/ Unlock
    \/ Release

Next ==
    \/ \E c \in Clients : \E r \in FirstRequest(c) : Submit(c, r)
    \/ Driver
    \/ \E u \in Users :
          UserLock(u) \/ UserSelect(u) \/ UserDeselect(u) \/ UserUnlock(u)

Spec == Init /\ [][Next]_vars

(* Handlers run to their end, the card answers, and the game's drivers     *)
(* give the bus back: EXI transactions of the SDK are finite.              *)
Fairness ==
    /\ WF_vars(Driver)
    /\ \A u \in Users : WF_vars(UserDeselect(u)) /\ SF_vars(UserUnlock(u))

FairSpec == Spec /\ Fairness
-----------------------------------------------------------------------------
(* Properties *)

(* Every variable keeps its type, over the whole life of the queue of      *)
(* sd.c:69-91.                                                             *)
TypeOK ==
    /\ queue \in [Slots -> Request \cup {None}]
    /\ queued \in Slots \cup {None}
    /\ last_sector \in Sectors \cup {None}
    /\ next_sector \in (0..LastSector + 1) \cup {None}
    /\ writing \in BOOLEAN
    /\ buffer \in Vals \cup {None}
    /\ dest \in Vals \cup {None}
    /\ transferred \in {-1, 0, 512, None}
    /\ status \in Vals \cup {None, Error}
    /\ ctl \in {"idle", "start", "done", "unlock", "release"}
    /\ lock \in Users \cup {Sd, None}
    /\ waiters \in Seq(Users \cup {Sd})
    /\ selected \in BOOLEAN
    /\ card \in [mode : {"idle", "read", "write"}, at : 0..LastSector + 1]
    /\ disk \in [Sectors -> Vals]
    /\ dropped \subseteq Clients
    /\ overtaken \in [Clients -> Nat]

(* do_read_write_async never returns false: blockdevice.c ignores the      *)
(* result, so a refused request would leave the game waiting for ever.     *)
NeverRefused == dropped = {}

(* Between handlers a queue with work in it is being worked on: the driver *)
(* holds the lock with a transfer running, or waits for it exactly once    *)
(* behind a user that holds it.  A lost wakeup would break it.             *)
NoLostWakeup ==
    ctl = "idle" =>
        /\ queued = None => Occupied = {}
        /\ queued # None =>
              \/ lock = Sd /\ transferred # None
              \/ /\ lock \in Users /\ transferred = None
                 /\ Cardinality({k \in 1..Len(waiters) : waiters[k] = Sd}) = 1

(* The driver's idea of the open multi-block command is the card's: else   *)
(* the card would send the wrong sectors or never answer.                  *)
StreamAgrees ==
    IF next_sector = None THEN card.mode = "idle"
    ELSE /\ card.mode = Mode(writing)
         /\ card.at = IF transferred = None THEN next_sector ELSE next_sector - 1

(* While the game has another device of the channel selected, the SD card  *)
(* is in no multi-block command and sends nothing.                         *)
BusExclusive == selected => card.mode = "idle" /\ transferred = None /\ lock \in Users

(* mmc.buffer holds what the card holds at last_sector, once it has been   *)
(* filled: a write to that sector must not leave a stale copy behind.      *)
CacheFresh ==
    last_sector # None =>
        \/ buffer = disk[last_sector]
        \/ transferred # None /\ queue[queued].sector = last_sector

(* A request for the last sector of a transfer (an audio block, a memory   *)
(* card page, the end of a disc read) waits for at most one sector of a    *)
(* longer transfer, when QUEUE_SIZE > 2.                                   *)
ShortFirst == QueueSize > 2 => \A c \in Clients : overtaken[c] <= 1

(* The request a client still waits for: not the one whose callback has    *)
(* been called but whose slot is not yet released.                         *)
Pending(c) == {i \in Occupied : queue[i].client = c /\
                                 (i = queued => ctl \notin {"unlock", "release"})}

PendingView == [c \in Clients |->
    IF Pending(c) = {} THEN None
    ELSE LET i == First(Pending(c))
             r == queue[i] IN
         IF i = queued /\ ctl = "done"
         THEN [stage |-> "served", sector |-> r.sector, count |-> r.count,
               answer |-> Result]
         ELSE [stage |-> "asked", sector |-> r.sector, count |-> r.count,
               data |-> r.data]]

(* A request a client waits for is not the absence of one. *)
Views ==
    [stage : {"asked"}, sector : Sectors, count : Nat, data : Vals \cup {None}]
        \cup [stage : {"served"}, sector : Sectors, count : Nat,
              answer : Vals \cup {None, Error}]

ASSUME ViewAssumption == None \notin Views

Service == INSTANCE BlockService WITH store <- disk, pend <- PendingView

(* The driver implements BlockService: every accepted request is performed *)
(* once, in one step, and answered once with the data of its sector: the  *)
(* answer of a served request is Result, what the callback is given.       *)
ImplementsService == Service!ServiceSpec

(* Every transfer comes to its end, however the clients and the game's     *)
(* drivers of the channel interleave.                                      *)
EveryTransferEnds == \A c \in Clients : Waiting(c) ~> ~Waiting(c)
=============================================================================
