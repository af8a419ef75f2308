----------------------------- MODULE GcodeQueue -----------------------------
(***************************************************************************)
(* The GC Loader driver under a game, cube/patches/gcloader/gcloader.c,    *)
(* with the disc commands of base/emulator.c that lead to it.              *)
(*                                                                         *)
(* All that the game does to the emulated disc drive, and all the memory   *)
(* cards' images, end as commands of one real drive, queued here and given *)
(* to it one at a time.  The drive serves the image of one disc as its     *)
(* own; other files (patches of the image, memory cards) are read and      *)
(* written by sector.  A change of disc is one more command in the queue,  *)
(* hidden from the game behind an open cover.                              *)
(*                                                                         *)
(* Handlers run with interrupts disabled; as in SdQueue a handler is cut   *)
(* where it calls back, ctl is the point it has reached and everything     *)
(* else waits for ctl = "idle".  The drive is modelled from how gcloader.c *)
(* uses it: it answers every command, refuses a write or a disc only       *)
(* through its immediate buffer, and takes the list of a disc it accepted. *)
(***************************************************************************)
EXTENDS Integers, FiniteSets

CONSTANTS
    Cards,        \* the memory cards with an image on the drive
    Streamers,    \* {dtk}: audio read as data
    QueueSize,    \* the largest QUEUE_SIZE
    Builds,       \* the builds of the Makefile: see Build below
    LastDisc,     \* the discs of the game are 0..LastDisc
    LastPart,     \* an image is parts 1..LastPart; part 1 starts at 0x2440
    Layout,       \* [Images -> [Parts -> a sector, or OnDisc]]: the fragments
    Sectors,      \* the sectors of files that are not the disc's image
    CardSectors,  \* [Cards -> SUBSET Sectors]: the images of the cards
    Vals,         \* contents of a sector
    Payloads,     \* [Cards -> SUBSET Vals]: the contents a card's writes may carry
    InitMedia,    \* [Sectors -> Vals]
    InitFlags,    \* *VAR_DRIVE_FLAGS and *VAR_IGR_TYPE when the game starts
    Dvd,          \* the client behind the game's disc commands
    Apploader,    \* FRAGS_APPLOADER
    OnDisc,       \* a fragment that lies in the image the drive serves
    None, Error   \* NULL or ~0, and the answer to a write that failed: length 0

Slots   == 1..QueueSize
Discs   == 0..LastDisc
Images  == Discs \cup {Apploader}
Parts   == 1..LastPart
Clients == Cards \cup Streamers \cup {Dvd}

(* A queue entry, by its command: "read" of a part of the disc (READ, or   *)
(* SEEK for no bytes), "sector" and "part" of a sector (GCODE_READ into    *)
(* the client's memory or through gcode.buffer), "buffer" and "write" (the *)
(* two commands of a write), "frags" (a disc change) and "audio".          *)
Ops     == {"read", "sector", "part", "buffer", "write", "frags", "audio"}
Request == [client : Clients, op : Ops, image : Images \cup {None},
            sector : Sectors \cup {None}, data : Vals \cup {None}]

(* What the Makefile builds: the clients of the queue besides the disc     *)
(* commands (cards with CARD_EMULATOR, the streamer with DTK), QUEUE_SIZE, *)
(* and whether reads are delayed, DVD_MATH and VAR_EMU_READ_SPEED.         *)
Build == [clients : SUBSET (Cards \cup Streamers), size : Slots, delays : BOOLEAN]

(* A command the game writes into the emulated registers; those that read  *)
(* nothing, a READ among them, have no use for the parts.                  *)
Command ==
    [op : {"read"}, first : Parts, last : Parts]
        \cup [op : {"seek"}, first : Parts, last : {0}]
        \cup [op : {"audio", "stop", "other"}, first : {1}, last : {0}]

ASSUME GcodeQueueAssumption ==
    /\ QueueSize \in Nat \ {0} /\ Builds \subseteq Build
    /\ LastDisc \in Nat /\ LastPart \in Nat \ {0}
    /\ Layout \in [Images -> [Parts -> Sectors \cup {OnDisc}]]
    /\ \A p \in Parts : Layout[Apploader][p] \in Sectors
    /\ CardSectors \in [Cards -> SUBSET Sectors]
    /\ Payloads \in [Cards -> SUBSET Vals]
    /\ InitMedia \in [Sectors -> Vals]
    /\ InitFlags \subseteq {"second", "apploader", "igr"}
    /\ "second" \in InitFlags => LastDisc = 1
    /\ Cards \cap Streamers = {} /\ Dvd \notin Cards \cup Streamers
    /\ Apploader \notin Discs
    /\ OnDisc \notin Sectors
    /\ None \notin Sectors \cup Vals \cup Images \cup Clients \cup Request \cup Command \cup Int
    /\ Error \notin Vals \cup {None}

(* The Makefile gives the queue two slots and one for each client that is  *)
(* not the game: QUEUE_SIZE is 2, 4 with CARD_EMULATOR, 3 with DTK.        *)
ASSUME QueueRoomAssumption ==
    \A b \in Builds : IsFiniteSet(b.clients) /\ Cardinality(b.clients) + 2 <= b.size

VARIABLES
    build,         \* the build that runs
    queue,         \* gcode.queue: [Slots -> Request or None]
    queued,        \* gcode.queued: the slot being served, or None
    last_sector,   \* gcode.last_sector: the sector gcode.buffer is for
    buffer,        \* the contents of gcode.buffer
    ctl,           \* the point the running handler has reached
    di,            \* the emulated command: none, di_alarm set, read delayed, under way
    command,       \* what di_execute_command finds in the registers
    at,            \* dvd.offset: the part of the read that comes next
    cover,         \* di.status: "open" or "closed"
    cover_alarm,   \* whether cover_alarm is set
    current,       \* *VAR_CURRENT_DISC
    flags,         \* *VAR_DRIVE_FLAGS, and "igr" until the player leaves the game
    drive,         \* the command in the registers of the real drive, or None
    loaded,        \* the disc whose fragments it has
    held,          \* its write buffer, until it has been written
    media,         \* the sectors of the files
    answer,        \* what the served command answers, until its callback returns
    dropped        \* the clients whose request was refused

gcode  == <<queue, queued, last_sector, buffer>>
game   == <<di, command, at, cover, cover_alarm, current, flags>>
device == <<drive, loaded, held, media>>
vars   == <<build, gcode, ctl, game, device, answer, dropped>>

-----------------------------------------------------------------------------
(* Helpers *)

Occupied == {i \in Slots : queue[i] # None}

(* fault: the loop over the queue stops one entry early *)
FreeFault == {i \in Slots : i < build.size /\ queue[i] = None}

Free     == {i \in Slots : i <= build.size /\ queue[i] = None}
First(S) == CHOOSE i \in S : \A j \in S : i <= j
Now      == queue[queued]

Waiting(c) == \E i \in Occupied : queue[i].client = c

(* fault: a request is started whether the drive is busy or not *)
PushFault(r, next) ==
    IF Free = {}
    THEN /\ dropped' = dropped \cup {r.client} /\ ctl' = next
         /\ UNCHANGED <<queue, queued>>
    ELSE /\ queue' = [queue EXCEPT ![First(Free)] = r]
         /\ queued' = First(Free) /\ ctl' = "start"
         /\ UNCHANGED dropped

(* gcode_push_queue: the first free slot is taken; an idle queue starts    *)
(* with it at once, otherwise the caller goes on to its next point.        *)
Push(r, next) ==
    IF Free = {}
    THEN /\ dropped' = dropped \cup {r.client} /\ ctl' = next
         /\ UNCHANGED <<queue, queued>>
    ELSE /\ queue' = [queue EXCEPT ![First(Free)] = r]
         /\ IF queued = None THEN queued' = First(Free) /\ ctl' = "start"
                             ELSE ctl' = next /\ UNCHANGED queued
         /\ UNCHANGED dropped

Entry(c, op, image, sector, data) ==
    [client |-> c, op |-> op, image |-> image, sector |-> sector, data |-> data]

(* frag_read_async: what becomes of a read of a part of the image, by the  *)
(* fragment that holds it and by how the client's memory is aligned.       *)
PartRequest(c, image, p) ==
    LET place == Layout[image][p] IN
    IF place = OnDisc THEN {Entry(c, "read", image, None, None)}
    ELSE {Entry(c, op, image, place, None) : op \in {"sector", "part"}}

(* card_dma: a memory card reads a sector, or part of one, or writes one.  *)
CardRequest(c) ==
    {Entry(c, op, None, s, None) : op \in {"sector", "part"}, s \in CardSectors[c]}
        \cup {Entry(c, "buffer", None, s, d) : s \in CardSectors[c], d \in Payloads[c]}

(* dtk_fill_buffer: the next block of the stream, of the current disc.     *)
StreamRequest(c) ==
    IF current = Apploader THEN {}
    ELSE UNION {PartRequest(c, current, p) : p \in Parts}

-----------------------------------------------------------------------------
Init ==
    /\ build \in Builds
    /\ queue = [i \in Slots |-> None] /\ queued = None
    /\ last_sector = None /\ buffer = None
    /\ ctl = "idle"
    /\ di = "idle" /\ command = None /\ at = None
    /\ cover = "closed" /\ cover_alarm = FALSE
    /\ current \in Discs /\ flags = InitFlags
    /\ drive = None /\ loaded = current /\ held = None
    /\ media = InitMedia
    /\ answer = None /\ dropped = {}

-----------------------------------------------------------------------------
(* The game *)

(* A memory card's transfer, or the streamer's next block. *)
Submit(c) ==
    /\ ctl = "idle" /\ ~Waiting(c)
    /\ \E r \in IF c \in Cards THEN CardRequest(c) ELSE StreamRequest(c) : Push(r, "idle")
    /\ UNCHANGED <<build, last_sector, buffer, game, device, answer>>

(* The game starts a command, one at a time: di_write sets di_alarm. *)
Start(cmd) ==
    /\ ctl = "idle" /\ di = "idle"
    /\ cmd.op = "audio" => build.clients \cap Streamers = {}
    /\ di' = "latency" /\ command' = cmd
    /\ UNCHANGED <<build, gcode, ctl, at, cover, cover_alarm, current, flags, device,
                   answer, dropped>>

(* The player leaves the game: the next read of part 1 is the apploader's. *)
LeaveGame ==
    /\ ctl = "idle" /\ "igr" \in flags
    /\ flags' = (flags \ {"igr"}) \cup {"apploader"}
    /\ UNCHANGED <<build, gcode, ctl, di, command, at, cover, cover_alarm, current,
                   device, answer, dropped>>

-----------------------------------------------------------------------------
(* di_execute_command, when di_alarm expires *)

(* fault: the cover is not looked at *)
RefusesFault(cmd) == cmd.op = "read" /\ cmd.last < cmd.first

(* Reads are refused while the cover is open, and a READ of nothing.       *)
Refuses(cmd) ==
    \/ cmd.op \in {"read", "seek"} /\ cover = "open"
    \/ cmd.op = "read" /\ cmd.last < cmd.first

(* di_error, or a command that completes with no help of the drive.        *)
Immediate ==
    /\ ctl = "idle" /\ di = "latency"
    /\ \/ Refuses(command)
       \/ command.op = "other"
       \/ command.op = "stop" /\ (cover = "open" \/ "second" \notin flags)
    /\ di' = "idle" /\ command' = None
    /\ UNCHANGED <<build, gcode, ctl, at, cover, cover_alarm, current, flags, device,
                   answer, dropped>>

(* The part a read ends with: a SEEK is over with its first.               *)
Last(cmd) == IF cmd.op = "seek" THEN cmd.first ELSE cmd.last

(* perform_read: the apploader takes the place of the disc; the read is    *)
(* scheduled at once, or by the alarm of dvd_schedule_read.                *)
PerformRead ==
    LET leaving == "apploader" \in flags /\ command.first = 1 IN
    /\ ctl = "idle" /\ di = "latency"
    /\ command.op \in {"read", "seek"} /\ ~Refuses(command)
    /\ flags' = IF leaving THEN flags \ {"apploader", "second"} ELSE flags
    /\ current' = IF leaving THEN Apploader ELSE current
    /\ at' = command.first
    /\ IF build.delays
       THEN di' = "delayed" /\ UNCHANGED <<queue, queued, ctl, dropped>>
       ELSE di' = "busy" /\ \E r \in PartRequest(Dvd, current', at') : Push(r, "idle")
    /\ UNCHANGED <<build, last_sector, buffer, command, cover, cover_alarm, device, answer>>

(* schedule_read from the alarm. *)
ScheduleRead ==
    /\ ctl = "idle" /\ di = "delayed"
    /\ di' = "busy"
    /\ \E r \in PartRequest(Dvd, current, at) : Push(r, "idle")
    /\ UNCHANGED <<build, last_sector, buffer, command, at, cover, cover_alarm, current,
                   flags, device, answer>>

(* AUDIO_STREAM and REQUEST_AUDIO_STATUS go to the drive. *)
PassAudio ==
    /\ ctl = "idle" /\ di = "latency" /\ command.op = "audio"
    /\ di' = "busy"
    /\ Push(Entry(Dvd, "audio", None, None, None), "idle")
    /\ UNCHANGED <<build, last_sector, buffer, command, at, cover, cover_alarm, current,
                   flags, device, answer>>

(* fault: the next disc is taken for the other one *)
OtherDiscFault == current + 1

(* *VAR_CURRENT_DISC ^ 1 *)
OtherDisc == 1 - current

(* STOP_MOTOR with a second disc: change_disc queues the list of the other *)
(* disc's fragments, which the launcher wrote as one entry, and the cover   *)
(* is open from now on; the command itself is complete.                    *)
ChangeDisc ==
    /\ ctl = "idle" /\ di = "latency" /\ command.op = "stop"
    /\ cover = "closed" /\ "second" \in flags
    /\ di' = "idle" /\ command' = None
    /\ Push(Entry(Dvd, "frags", OtherDisc, None, None), "idle")
    /\ cover' = IF Free # {} THEN "open" ELSE cover
    /\ UNCHANGED <<build, last_sector, buffer, at, cover_alarm, current, flags, device, answer>>

(* di_close_cover, when cover_alarm expires. *)
CloseCover ==
    /\ ctl = "idle" /\ cover_alarm
    /\ cover' = "closed" /\ cover_alarm' = FALSE
    /\ UNCHANGED <<build, gcode, ctl, di, command, at, current, flags, device, answer, dropped>>

-----------------------------------------------------------------------------
(* gcode_read_queued *)

(* A part of the sector gcode.buffer holds: gcode_done_queued at once. *)
CacheHit ==
    /\ ctl = "start" /\ Now.op = "part" /\ Now.sector = last_sector
    /\ ctl' = "done"
    /\ UNCHANGED <<build, gcode, game, device, answer, dropped>>

(* fault: a write leaves gcode.buffer alone *)
CachedFault(r) == IF r.op = "part" THEN r.sector ELSE last_sector

(* The sector gcode.buffer is for once a command has been given.           *)
Cached(r) == CASE r.op = "part" -> r.sector
               [] r.op = "write" /\ r.sector = last_sector -> None
               [] OTHER -> last_sector

(* The registers of the drive are loaded and its interrupt is unmasked. *)
GiveCommand ==
    /\ ctl = "start" /\ ~(Now.op = "part" /\ Now.sector = last_sector)
    /\ last_sector' = Cached(Now)
    /\ drive' = Now
    /\ ctl' = "idle"
    /\ UNCHANGED <<build, queue, queued, buffer, game, loaded, held, media, answer, dropped>>

-----------------------------------------------------------------------------
(* The drive (external) does what it was told and interrupts; the handler  *)
(* masks the interrupt and enters gcode_done_queued.                       *)
DriveDone(accepted) ==
    LET r == drive IN
    /\ ctl = "idle" /\ drive # None
    /\ r.op \in {"write", "frags"} \/ accepted
    /\ buffer' = IF r.op = "part" THEN media[r.sector] ELSE buffer
    /\ held' = CASE r.op = "buffer" -> r.data [] r.op = "write" -> None [] OTHER -> held
    /\ media' = IF r.op = "write" /\ accepted THEN [media EXCEPT ![r.sector] = held] ELSE media
    /\ answer' = IF ~accepted THEN Error
                 ELSE CASE r.op = "sector" -> media[r.sector]
                        [] r.op = "write" -> held
                        [] OTHER -> None
    /\ drive' = None
    /\ ctl' = "done"
    /\ UNCHANGED <<build, queue, queued, last_sector, game, loaded, dropped>>

-----------------------------------------------------------------------------
(* gcode_done_queued, up to the return of the callback *)

(* fault: the client is called back after the first command of a write *)
BufferedFault ==
    /\ ctl = "done" /\ Now.op = "buffer"
    /\ ctl' = "release"
    /\ answer' = None
    /\ UNCHANGED <<build, queue, queued, last_sector, buffer, game, device, dropped>>

(* The drive has the data of a write: the entry becomes the command that   *)
(* writes them, and is given to the drive before anything else is.         *)
Buffered ==
    /\ ctl = "done" /\ Now.op = "buffer"
    /\ queue' = [queue EXCEPT ![queued].op = "write"]
    /\ ctl' = "start"
    /\ answer' = None
    /\ UNCHANGED <<build, queued, last_sector, buffer, game, device, dropped>>

(* fault: the current disc is not that of the list *)
DiscChangedFault ==
    /\ ctl = "done" /\ Now.op = "frags"
    /\ loaded' = IF answer = Error THEN loaded ELSE Now.image
    /\ cover_alarm' = TRUE
    /\ answer' = None /\ ctl' = "release"
    /\ UNCHANGED <<build, gcode, di, command, at, cover, current, flags,
                   drive, held, media, dropped>>

(* fault: the cover is left open when the drive refuses the disc *)
RefusalFault ==
    /\ ctl = "done" /\ Now.op = "frags"
    /\ IF answer = Error THEN UNCHANGED <<loaded, current>>
       ELSE loaded' = Now.image /\ current' = Now.image
    /\ cover_alarm' = (answer # Error)
    /\ answer' = None /\ ctl' = "release"
    /\ UNCHANGED <<build, gcode, di, command, at, cover, flags, drive, held, media, dropped>>

(* The list of fragments is sent, unless it was refused; change_disc's     *)
(* callback has the cover closed in 1.5 seconds in either case.            *)
DiscChanged ==
    /\ ctl = "done" /\ Now.op = "frags"
    /\ IF answer = Error THEN UNCHANGED <<loaded, current>>
       ELSE loaded' = Now.image /\ current' = Now.image
    /\ cover_alarm' = TRUE
    /\ answer' = None /\ ctl' = "release"
    /\ UNCHANGED <<build, gcode, di, command, at, cover, flags, drive, held, media, dropped>>

(* Whether the part just read is the last. *)
Ends == at >= Last(command)

(* fault: the command completes with each of its parts *)
PartReadFault ==
    /\ ctl = "done" /\ Now.client = Dvd /\ Now.op \in {"read", "sector", "part"}
    /\ di' = "idle" /\ command' = None
    /\ IF Ends
       THEN at' = None /\ ctl' = "release" /\ UNCHANGED <<queue, queued, dropped>>
       ELSE at' = at + 1 /\ \E r \in PartRequest(Dvd, current, at') : Push(r, "release")
    /\ answer' = None
    /\ UNCHANGED <<build, last_sector, buffer, cover, cover_alarm, current, flags, device>>

(* read_callback of schedule_read: the next part, asked for of the current *)
(* disc, or di_complete_transfer.                                          *)
PartRead ==
    /\ ctl = "done" /\ Now.client = Dvd /\ Now.op \in {"read", "sector", "part"}
    /\ IF Ends
       THEN /\ di' = "idle" /\ command' = None /\ at' = None /\ ctl' = "release"
            /\ UNCHANGED <<queue, queued, dropped>>
       ELSE /\ at' = at + 1
            /\ \E r \in PartRequest(Dvd, current, at') : Push(r, "release")
            /\ UNCHANGED <<di, command>>
    /\ answer' = None
    /\ UNCHANGED <<build, last_sector, buffer, cover, cover_alarm, current, flags, device>>

(* di_complete_transfer as the callback itself. *)
AudioDone ==
    /\ ctl = "done" /\ Now.op = "audio"
    /\ di' = "idle" /\ command' = None
    /\ answer' = None /\ ctl' = "release"
    /\ UNCHANGED <<build, gcode, at, cover, cover_alarm, current, flags, device, dropped>>

(* A memory card's callback completes the transfer of its EXI channel.     *)
CardDone ==
    /\ ctl = "done" /\ Now.client \in Cards /\ Now.op # "buffer"
    /\ answer' = None /\ ctl' = "release"
    /\ UNCHANGED <<build, gcode, game, device, dropped>>

(* The streamer's callback may ask for the next block before it returns.   *)
StreamDone ==
    /\ ctl = "done" /\ Now.client \in Streamers
    /\ \/ ctl' = "release" /\ UNCHANGED <<queue, queued, dropped>>
       \/ \E r \in StreamRequest(Now.client) : Push(r, "release")
    /\ answer' = None
    /\ UNCHANGED <<build, last_sector, buffer, game, device>>

-----------------------------------------------------------------------------
Left == Occupied \ {queued}

(* fault: the queue is taken for a ring that only moves forward *)
ReleaseFault ==
    LET later == {i \in Left : i > queued} IN
    /\ ctl = "release"
    /\ queue' = [queue EXCEPT ![queued] = None]
    /\ queued' = IF later # {} THEN First(later) ELSE None
    /\ ctl' = IF later # {} THEN "start" ELSE "idle"
    /\ UNCHANGED <<build, last_sector, buffer, game, device, answer, dropped>>

(* The end of gcode_done_queued: the slot is freed and the first request   *)
(* of the others started.                                                  *)
Release ==
    /\ ctl = "release"
    /\ queue' = [queue EXCEPT ![queued] = None]
    /\ queued' = IF Left # {} THEN First(Left) ELSE None
    /\ ctl' = IF Left # {} THEN "start" ELSE "idle"
    /\ UNCHANGED <<build, last_sector, buffer, game, device, answer, dropped>>

-----------------------------------------------------------------------------
Execute == Immediate \/ PerformRead \/ ScheduleRead \/ PassAudio \/ ChangeDisc

Done == Buffered \/ DiscChanged \/ PartRead \/ AudioDone \/ CardDone \/ StreamDone

Driver ==
    \/ CacheHit
    \/ GiveCommand
    \/ \E accepted \in BOOLEAN : DriveDone(accepted)
    \/ Done
    \/ Release

Next ==
    \/ \E c \in build.clients : Submit(c)
    \/ \E cmd \in Command : Start(cmd)
    \/ LeaveGame
    \/ Execute
    \/ CloseCover
    \/ Driver

Spec == Init /\ [][Next]_vars

(* Handlers run to their end, the drive answers, and alarms expire, put    *)
(* off as they may be by the handlers of other interrupts.                 *)
Fairness == WF_vars(Driver) /\ SF_vars(Execute) /\ SF_vars(CloseCover)

FairSpec == Spec /\ Fairness
-----------------------------------------------------------------------------
(* Properties *)

(* Every variable keeps its type, over the life of the queue of            *)
(* gcloader.c:38-52 and of the emulated command.                           *)
TypeOK ==
    /\ build \in Builds
    /\ queue \in [Slots -> Request \cup {None}]
    /\ queued \in Slots \cup {None}
    /\ last_sector \in Sectors \cup {None}
    /\ buffer \in Vals \cup {None}
    /\ ctl \in {"idle", "start", "done", "release"}
    /\ di \in {"idle", "latency", "delayed", "busy"}
    /\ command \in Command \cup {None}
    /\ at \in Parts \cup {None}
    /\ cover \in {"open", "closed"}
    /\ cover_alarm \in BOOLEAN
    /\ current \in Images
    /\ flags \subseteq {"second", "apploader", "igr"}
    /\ drive \in Request \cup {None}
    /\ loaded \in Discs
    /\ held \in Vals \cup {None}
    /\ media \in [Sectors -> Vals]
    /\ answer \in Vals \cup {None, Error}
    /\ dropped \subseteq Clients

(* gcode_push_queue never returns false: schedule_read and PassAudio       *)
(* ignore its result, and the game would wait for ever.                    *)
NeverRefused == dropped = {}

(* Between handlers the drive is busy with the request being served, and   *)
(* a queue with work in it is being served; and while gcode_read_queued or *)
(* gcode_done_queued runs the drive is free: it is never given a second    *)
(* command over the first, and never forgotten.                            *)
DriveServesQueue ==
    IF ctl # "idle" THEN queued # None /\ drive = None
    ELSE IF queued = None THEN Occupied = {} /\ drive = None
    ELSE queue[queued] # None /\ drive = queue[queued]

(* The requests whose callback has not run. *)
Pending == {i \in Occupied : ~(ctl = "release" /\ i = queued)}

(* A command under way has exactly one request in the queue, and a command *)
(* that is not has none: every command completes, and completes once.      *)
CommandServed ==
    Cardinality({i \in Pending : queue[i].client = Dvd /\ queue[i].op # "frags"}) =
        IF di = "busy" THEN 1 ELSE 0

(* A read of the game was looked up in the fragments of the current disc,  *)
(* and if the drive is to serve it that disc is the one it has: the disc   *)
(* does not change under a read, whatever the queue holds before it.       *)
RightDisc ==
    \A i \in Pending :
        queue[i].client = Dvd /\ queue[i].op \in {"read", "sector", "part"} =>
            /\ queue[i].image = current
            /\ queue[i].op = "read" => loaded = current

(* The game sees an open cover exactly while the disc is being changed:    *)
(* the list is on its way, or the alarm that closes the cover is set; and  *)
(* behind a closed cover is the disc the game is told of.                  *)
CoverStory ==
    LET changing == \E i \in Pending : queue[i].op = "frags" IN
    /\ cover = "open" <=> (changing \/ cover_alarm)
    /\ ~(changing /\ cover_alarm)
    /\ cover = "closed" => current \in {loaded, Apploader}

(* gcode.buffer holds what the file holds at last_sector, unless the drive *)
(* is filling it: no write leaves a stale copy to be read from.            *)
CacheFresh ==
    last_sector # None =>
        \/ buffer = media[last_sector]
        \/ drive # None /\ drive.op = "part" /\ drive.sector = last_sector

(* What the callback of the served request is given. *)
Result == IF Now.op = "part" THEN buffer ELSE answer

CardPending(c) == {i \in Pending : queue[i].client = c}

CardView == [c \in Cards |->
    IF CardPending(c) = {} THEN None
    ELSE LET i == First(CardPending(c))
             r == queue[i] IN
         IF i = queued /\ ctl = "done" /\ r.op # "buffer"
         THEN [stage |-> "served", sector |-> r.sector, count |-> 1, answer |-> Result]
         ELSE [stage |-> "asked", sector |-> r.sector, count |-> 1, data |-> r.data]]

(* A request a card waits for is not the absence of one. *)
Views ==
    [stage : {"asked"}, sector : Sectors, count : Nat, data : Vals \cup {None}]
        \cup [stage : {"served"}, sector : Sectors, count : Nat,
              answer : Vals \cup {None, Error}]

ASSUME ViewAssumption == None \notin Views

Service == INSTANCE BlockService WITH
    Clients <- Cards, MaxCount <- [c \in Cards |-> 1],
    Payloads <- UNION {Payloads[c] : c \in Cards}, store <- media, pend <- CardView

(* For the memory cards the driver implements BlockService: the two        *)
(* commands of a write act as one, and reads see the last write whichever  *)
(* way they go.                                                            *)
ImplementsService == Service!ServiceSpec

(* Every command of the game completes or is refused. *)
EveryCommandEnds == di # "idle" ~> di = "idle"

(* A disc change ends: the cover closes again. *)
CoverCloses == cover = "open" ~> cover = "closed"
=============================================================================
