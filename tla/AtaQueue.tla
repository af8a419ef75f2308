------------------------------ MODULE AtaQueue ------------------------------
(***************************************************************************)
(* The asynchronous request queue of the IDE-EXI block driver,             *)
(* cube/patches/ide-exi/ata.c built with ISR_READ, as it runs under a game.*)
(*                                                                         *)
(* It serves the clients SdQueue serves and cuts its chain of nested calls *)
(* at the same points; what differs is the drive.  A read command names a  *)
(* number of sectors, the drive sends that many and no more, and nothing   *)
(* ends it early: the driver must know, over any mix of requests, how many *)
(* sectors the drive has left to send.  It keeps that number in a field of *)
(* 16 bits; the command takes 16 bits of it or 8, and takes 0 for the      *)
(* largest count.  The drive is modelled from ata.c: a new command         *)
(* replaces the sectors still left of the old one.                         *)
(***************************************************************************)
EXTENDS Integers, Sequences, FiniteSets

CONSTANTS
    Clients,      \* the owners of requests: disc reader, audio streamer, memory cards
    Users,        \* the game's own drivers of other devices on the same EXI channel
    QueueSize,    \* QUEUE_SIZE of the Makefile
    LastSector,   \* sectors are 0..LastSector
    Region,       \* [Clients -> SUBSET sectors]: where a client's files lie
    MaxCount,     \* [Clients -> Nat]: the sectors of the longest command of a client
    Writers,      \* the clients that write: the memory cards
    Streamers,    \* the clients whose callback starts another transfer: dtk_fill_buffer
    Seekers,      \* the clients that also ask for nothing: a SEEK reads 0 bytes
    CountMod,     \* 2^16: ata.count counts modulo CountMod
    DriveMod,     \* 2^16 for a drive with 48-bit addresses, 2^8 for one without
    Vals,         \* contents of a sector
    Payloads,     \* the contents a write may carry
    InitDisk,     \* [sectors -> Vals]: what the drive holds when the game starts
    Ata,          \* the driver, as an owner of the bus lock
    None,         \* NULL, ~0: no request, no sector, no owner
    Error         \* what a client gets for a rejected write: length 0

Slots   == 1..QueueSize
Sectors == 0..LastSector

(* The queue entry.  count is the number of sectors the client wants from  *)
(* this one on; whole is FALSE for a request that goes through ata.buffer; *)
(* data is what a write writes, None for a read.                           *)
Request == [client : Clients, sector : Sectors, count : Nat,
            whole : BOOLEAN, data : Vals \cup {None}]

ASSUME AtaQueueAssumption ==
    /\ QueueSize \in Nat \ {0} /\ LastSector \in Nat
    /\ DriveMod \in Nat \ {0} /\ CountMod \in Nat /\ DriveMod <= CountMod
    /\ Region \in [Clients -> SUBSET Sectors]
    /\ MaxCount \in [Clients -> 1..DriveMod]
    /\ Writers \subseteq Clients /\ Streamers \subseteq Clients /\ Seekers \subseteq Clients
    /\ Payloads \subseteq Vals /\ InitDisk \in [Sectors -> Vals]
    /\ Ata \notin Users
    /\ None \notin Users \cup {Ata} \cup Vals \cup Int \cup Request
    /\ Error \notin Vals \cup {None}

(* A slot for every client and one for the request of a callback. *)
ASSUME AtaRoomAssumption == IsFiniteSet(Clients) /\ QueueSize > Cardinality(Clients)

VARIABLES
    queue,         \* ata.queue: [Slots -> Request or None]
    queued,        \* ata.queued: the slot being served, or None
    last_sector,   \* ata.last_sector: the sector ata.buffer holds
    next_sector,   \* ata.next_sector: the sector after the last one read
    count,         \* ata.count: the sectors the open read command has left
    buffer,        \* the contents of ata.buffer
    dest,          \* the contents of the memory the served request points to
    status,        \* ata.queued->length after a write, as the callback gets it
    transferred,   \* _ata.transferred of the interrupt handler, None when masked
    ctl,           \* the point the running handler has reached, "idle" for none
    lock,          \* owner of the EXI channel
    waiters,       \* callbacks registered by a failed EXILock, in order
    drive,         \* the drive: the sector it sends next, how many it has to send
    disk,          \* the contents of the drive
    overtaken      \* history: commands for longer transfers sent while a client's
                   \*   request for a single sector waits

ata  == <<queue, queued, last_sector, next_sector, count, buffer, dest, status>>
bus  == <<lock, waiters>>
vars == <<ata, transferred, ctl, bus, drive, disk, overtaken>>

-----------------------------------------------------------------------------
Occupied == {i \in Slots : queue[i] # None}
Free     == {i \in Slots : queue[i] = None}

(* The first slot of a set, as the for loops over the queue find it. *)
First(S) == CHOOSE i \in S : \A j \in S : i <= j

Waiting(c) == \E i \in Occupied : queue[i].client = c
Single(c)  == \E i \in Occupied : queue[i].client = c /\ queue[i].count = 1

Served == queue[queued]

(* EXIUnlock: the lock is released and the first waiter is called back,    *)
(* which starts by taking it; the driver's own callback takes it later.    *)
HandOver ==
    /\ lock' = IF waiters = <<>> \/ Head(waiters) = Ata THEN None ELSE Head(waiters)
    /\ waiters' = IF waiters = <<>> THEN <<>> ELSE Tail(waiters)

Init ==
    /\ queue = [i \in Slots |-> None] /\ queued = None
    /\ last_sector = None /\ next_sector = None /\ count = 0
    /\ buffer = None /\ dest = None /\ status = None
    /\ transferred = None /\ ctl = "idle"
    /\ lock = None /\ waiters = <<>>
    /\ drive = [at |-> 0, left |-> 0] /\ disk = InitDisk
    /\ overtaken = [c \in Clients |-> 0]

-----------------------------------------------------------------------------
(* What do_read_write_async makes of the requests of a client.  A SEEK to  *)
(* a multiple of 512 counts no sector; it still fetches one, to the buffer.*)
Requests(c) ==
    {r \in [client : {c}, sector : Region[c], count : 0..MaxCount[c],
            whole : BOOLEAN, data : Payloads \cup {None}] :
        /\ r.sector + r.count - 1 \in Region[c] \cup {r.sector - 1}
        /\ r.data # None => c \in Writers /\ r.whole /\ r.count = 1
        /\ r.count = 0 => c \in Seekers /\ ~r.whole}

(* do_read_write_async called from outside the driver; with every slot     *)
(* taken it would refuse (AtaRoomAssumption: it never has to).             *)
Submit(c, r) ==
    /\ ctl = "idle" /\ ~Waiting(c) /\ Free # {}
    /\ queue' = [queue EXCEPT ![First(Free)] = r]
    /\ IF queued = None
       THEN queued' = First(Free) /\ ctl' = "start"
       ELSE UNCHANGED <<queued, ctl>>
    /\ overtaken' = [overtaken EXCEPT ![c] = 0]
    /\ UNCHANGED <<last_sector, next_sector, count, buffer, dest, status,
                   transferred, bus, drive, disk>>

-----------------------------------------------------------------------------
(* fault: EXILock is given no callback *)
LockBusyFault ==
    /\ ctl = "start" /\ lock # None
    /\ ctl' = "idle"
    /\ UNCHANGED <<ata, transferred, bus, drive, disk, overtaken>>

(* ata_read_queued: EXILock fails, the function waits for the bus, once. *)
LockBusy ==
    /\ ctl = "start" /\ lock # None
    /\ waiters' = IF \E k \in 1..Len(waiters) : waiters[k] = Ata
                  THEN waiters ELSE Append(waiters, Ata)
    /\ ctl' = "idle"
    /\ UNCHANGED <<ata, transferred, lock, drive, disk, overtaken>>

(* fault: a write leaves ata.buffer alone *)
InvalidatedFault(r) == last_sector

(* A write to the sector ata.buffer holds makes that copy worthless. *)
Invalidated(r) == IF last_sector = r.sector THEN None ELSE last_sector

(* ata_read_queued, write: one sector by a command of its own, in the      *)
(* handler; the drive may report an error.                                 *)
WriteSector(accepted) ==
    /\ ctl = "start" /\ lock = None /\ Served.data # None
    /\ lock' = Ata
    /\ last_sector' = Invalidated(Served)
    /\ drive' = [at |-> Served.sector + 1, left |-> 0]
    /\ disk' = IF accepted THEN [disk EXCEPT ![Served.sector] = Served.data] ELSE disk
    /\ status' = IF accepted THEN Served.data ELSE Error
    /\ count' = 0
    /\ ctl' = "done"
    /\ UNCHANGED <<queue, queued, next_sector, buffer, dest, transferred,
                   waiters, overtaken>>

(* ata_read_queued, read of the sector ata.buffer holds. *)
CacheHit ==
    /\ ctl = "start" /\ lock = None /\ Served.data = None
    /\ Served.sector = last_sector
    /\ lock' = Ata
    /\ ctl' = "done"
    /\ UNCHANGED <<ata, transferred, waiters, drive, disk, overtaken>>

(* The number of sectors the drive takes a command for: the driver writes  *)
(* the low bits of the count, and 0 stands for all of them.                *)
Commanded(n) == IF n % DriveMod = 0 THEN DriveMod ELSE n % DriveMod

(* fault: the position of the open command is not compared *)
ContinuesFault(r) == count # 0

(* The open command has the sector as its next one. *)
Continues(r) == r.sector = next_sector /\ count # 0

(* ata_read_queued, read from the drive: a command is sent unless the open *)
(* one goes on, the sector is left to the interrupt handler, and one less  *)
(* remains.                                                                *)
StartTransfer ==
    /\ ctl = "start" /\ lock = None /\ Served.data = None
    /\ Served.sector # last_sector
    /\ lock' = Ata
    /\ last_sector' = IF Served.whole THEN last_sector ELSE Served.sector
    /\ IF Continues(Served)
       THEN count' = (count - 1) % CountMod /\ UNCHANGED drive
       ELSE /\ count' = (Served.count - 1) % CountMod
            /\ drive' = [at |-> Served.sector, left |-> Commanded(Served.count)]
    /\ next_sector' = Served.sector + 1
    /\ transferred' = -1
    /\ overtaken' = [c \in Clients |->
                        IF c # Served.client /\ Single(c) /\ Served.count # 1 /\ ~Continues(Served)
                        THEN overtaken[c] + 1 ELSE overtaken[c]]
    /\ ctl' = "idle"
    /\ UNCHANGED <<queue, queued, buffer, dest, status, waiters, disk>>

(* ata_interrupt_vector: the status is polled until the drive has data,    *)
(* and the sector is taken.                                                *)
TcProgress ==
    /\ ctl = "idle" /\ transferred = -1
    /\ drive.left > 0
    /\ transferred' = 512
    /\ UNCHANGED <<ata, ctl, bus, drive, disk, overtaken>>

(* tc_interrupt_handler at the end of the sector: ata_done_queued. *)
TcDone ==
    /\ ctl = "idle" /\ transferred = 512
    /\ transferred' = None
    /\ drive' = [at |-> drive.at + 1, left |-> drive.left - 1]
    /\ IF Served.sector = last_sector
       THEN buffer' = disk[drive.at] /\ UNCHANGED dest
       ELSE dest' = disk[drive.at] /\ UNCHANGED buffer
    /\ ctl' = "done"
    /\ UNCHANGED <<queue, queued, last_sector, next_sector, count, status, bus, disk,
                   overtaken>>

-----------------------------------------------------------------------------
(* What ata_done_queued hands to the callback. *)
Result == IF Served.data # None THEN status
          ELSE IF Served.sector = last_sector THEN buffer ELSE dest

(* What a callback asks for before it returns: the next sector; at the     *)
(* end of a 32 KB chunk the next chunk, if the transfer goes on; and a     *)
(* streamer the next block, if it has room for it.                         *)
NextRequest(r) ==
    IF r.count > 1
    THEN [client : {r.client}, sector : {r.sector + 1}, count : {r.count - 1},
          whole : BOOLEAN, data : {None}]
    ELSE {None} \cup {n \in Requests(r.client) :
                        n.data = None /\ (n.sector = r.sector + 1 \/ r.client \in Streamers)}

(* ata_done_queued, first half: the callback, with do_read_write_async     *)
(* nested in it; the served slot stays taken.                              *)
Callback ==
    LET r == Served IN
    /\ ctl = "done"
    /\ dest' = None /\ status' = None
    /\ \E n \in NextRequest(r) :
          queue' = IF n = None THEN queue ELSE [queue EXCEPT ![First(Free)] = n]
    /\ overtaken' = [overtaken EXCEPT ![r.client] = 0]
    /\ ctl' = "unlock"
    /\ UNCHANGED <<queued, last_sector, next_sector, count, buffer, transferred,
                   bus, drive, disk>>

(* ata_done_queued: EXIUnlock, which may run a waiter of the game. *)
Unlock ==
    /\ ctl = "unlock"
    /\ HandOver
    /\ ctl' = "release"
    /\ UNCHANGED <<ata, transferred, drive, disk, overtaken>>

Left == Occupied \ {queued}

(* The loops that pick the next request: one that goes on with the open    *)
(* command, then one for a single sector when QUEUE_SIZE > 2, then any.    *)
Following == {i \in Left : count > 0 /\ queue[i].sector = next_sector}
(* fault: no request comes before the first *)
UrgentFault == {}

Urgent == {i \in Left : QueueSize > 2 /\ queue[i].count = 1}

Pick == IF Following # {} THEN First(Following)
        ELSE IF Urgent # {} THEN First(Urgent)
        ELSE IF Left # {} THEN First(Left) ELSE None

(* ata_done_queued, last part. *)
Release ==
    /\ ctl = "release"
    /\ queue' = [queue EXCEPT ![queued] = None]
    /\ queued' = Pick
    /\ ctl' = IF Left # {} THEN "start" ELSE "idle"
    /\ UNCHANGED <<last_sector, next_sector, count, buffer, dest, status,
                   transferred, bus, drive, disk, overtaken>>

-----------------------------------------------------------------------------
(* The game's drivers of other devices on the channel (external).          *)

UserLock(u) ==
    /\ ctl = "idle" /\ lock # u
    /\ IF lock = None
       THEN lock' = u /\ UNCHANGED waiters
       ELSE /\ \A k \in 1..Len(waiters) : waiters[k] # u
            /\ waiters' = Append(waiters, u)
            /\ UNCHANGED lock
    /\ UNCHANGED <<ata, transferred, ctl, drive, disk, overtaken>>

(* EXIUnlock of the game; a waiting ata_read_queued is entered from it. *)
UserUnlock(u) ==
    /\ ctl = "idle" /\ lock = u
    /\ HandOver
    /\ ctl' = IF waiters # <<>> /\ Head(waiters) = Ata THEN "start" ELSE "idle"
    /\ UNCHANGED <<ata, transferred, drive, disk, overtaken>>

-----------------------------------------------------------------------------
Driver ==
    \/ LockBusy
    \/ \E accepted \in BOOLEAN : WriteSector(accepted)
    \/ CacheHit
    \/ StartTransfer
    \/ TcProgress
    \/ TcDone
    \/ Callback
    \/ Unlock
    \/ Release

Next ==
    \/ \E c \in Clients : \E r \in Requests(c) : Submit(c, r)
    \/ Driver
    \/ \E u \in Users : UserLock(u) \/ UserUnlock(u)

Spec == Init /\ [][Next]_vars

(* Handlers run to their end, the drive answers a command, and the game's  *)
(* drivers give the bus back.                                              *)
Fairness ==
    /\ WF_vars(Driver)
    /\ \A u \in Users : SF_vars(UserUnlock(u))

FairSpec == Spec /\ Fairness
-----------------------------------------------------------------------------
(* Properties *)

(* The sector the interrupt handler waits for is the one the drive sends   *)
(* next, and between commands the driver's count is what the drive has     *)
(* left (ata.c:375-382).  Were the count larger, the handler would poll    *)
(* for ever; were it smaller, a command would interrupt an open one.       *)
DriveAgrees ==
    /\ transferred # None => drive.left > 0 /\ drive.at = Served.sector
    /\ count # 0 => drive.at = IF transferred = None THEN next_sector ELSE next_sector - 1
    /\ count = IF transferred = None THEN drive.left ELSE drive.left - 1

(* While a request for a single sector (an audio block, a memory card      *)
(* page) waits, no more than one command for a longer transfer is sent,    *)
(* the one the driver had decided on before: the open command goes first,  *)
(* and then the single sectors (ata.c:403-420).                            *)
SingleServed == QueueSize > 2 => \A c \in Clients : overtaken[c] <= 1

(* The request a client still waits for: not the one whose callback has    *)
(* been called but whose slot is not yet released.                         *)
Pending(c) == {i \in Occupied : queue[i].client = c /\
                                 (i = queued => ctl \notin {"unlock", "release"})}

PendingView == [c \in Clients |->
    IF Pending(c) = {} THEN None
    ELSE LET i == First(Pending(c))
             r == queue[i] IN
         IF i = queued /\ ctl = "done"
         THEN [stage |-> "served", sector |-> r.sector, count |-> r.count, answer |-> Result]
         ELSE [stage |-> "asked", sector |-> r.sector, count |-> r.count, data |-> r.data]]

(* A request a client waits for is not the absence of one. *)
Views ==
    [stage : {"asked"}, sector : Sectors, count : Nat, data : Vals \cup {None}]
        \cup [stage : {"served"}, sector : Sectors, count : Nat,
              answer : Vals \cup {None, Error}]

ASSUME ViewAssumption == None \notin Views

Service == INSTANCE BlockService WITH store <- disk, pend <- PendingView

(* The driver implements BlockService: what the other block drivers        *)
(* promise their clients, this one does (ata.c:340-481).                   *)
ImplementsService == Service!ServiceSpec

(* Every transfer comes to its end, however the clients and the game's     *)
(* drivers of the channel interleave.                                      *)
EveryTransferEnds == \A c \in Clients : Waiting(c) ~> ~Waiting(c)
=============================================================================
