------------------------------- MODULE WkfRead -------------------------------
(***************************************************************************)
(* The WKF driver, cube/patches/wkf/wkf.c, under the reads of DiscRead: a  *)
(* drive that reads at a base sector it is told beforehand, and only into  *)
(* whole 32 bytes of memory.                                               *)
(*                                                                         *)
(* A patched part may end anywhere, so that the next piece of a read goes  *)
(* to the middle of 32 bytes.  The driver then saves the bytes before it,  *)
(* reads over them and puts them back; the drive is told to start earlier, *)
(* for which the base is moved back by a block.  The base is told once for *)
(* as long as it stays the same, by requests of the game and of the audio  *)
(* streamer in turn.  Patched parts and the apploader lie on another       *)
(* device, whose driver copies exactly what it reads.                      *)
(***************************************************************************)
EXTENDS DiscRead

CONSTANT Own     \* what the game has in memory that nobody may write to

VARIABLES
    streaming,   \* the .dtk build: audio is streamed, and QUEUE_SIZE is 3
    queue,       \* wkf.queue: a request or None
    queued,      \* wkf.queued: the entry being served, or None
    base,        \* wkf.base_sector: a place on the device, so many units back; or None
    saved,       \* wkf.buffer
    memory,      \* the buffers of the game and of the streamer, and 32 bytes about them
    heard        \* history: the request whose data the streamer got last

wkf     == <<queue, queued, base, saved>>
wkfVars == <<vars, streaming, wkf, memory, heard>>

-----------------------------------------------------------------------------
(* Memory: the game's buffer, as all of DVDRead's, starts at 32 bytes.     *)

Longest   == Max(Lengths)
BufferAt  == Granule
StreamAt  == BufferAt + Longest + Granule
Addresses == 0..StreamAt + Sector + Granule - 1
StreamBuffer == StreamAt..StreamAt + Sector - 1

Misalign(r) == r.at % Granule

-----------------------------------------------------------------------------
(* Requests.                                                               *)

(* Whether a piece is of DEVICE_PATCHES: frag_read_write_async gives it to *)
(* the driver of the card.                                                 *)
OnCard(p) == p.data.of[1] = "patch" \/ p.data.of[2] = Apploader

(* The request for a piece of the game's read, at dvd.buffer. *)
Request(p, done) ==
    [client |-> "dvd", data |-> p.data, offset |-> p.offset, size |-> p.size,
     at |-> BufferAt + done]

(* dtk_fill_buffer: the next block of a track, which is a sector of the    *)
(* image in one piece.                                                     *)
StreamRequests ==
    {[client |-> "dtk", data |-> FragGet(disc, x, Sector).data,
      offset |-> FragGet(disc, x, Sector).offset, size |-> Sector, at |-> StreamAt] :
        x \in {y \in Image(disc) :
                  /\ y % Sector = 0 /\ disc # Apploader
                  /\ y + Sector - 1 \in Image(disc)
                  /\ ~OnCard(FragGet(disc, y, Sector))
                  /\ ToBlock(FragGet(disc, y, Sector)) = Sector}}

(* The marks of the model are no numbers and no records.                   *)
Places   == [of : {"patch", "disc"} \X Nat, at : Nat]
Requests == [client : {"dvd", "dtk"}, data : Places, offset : Nat, size : Nat, at : Nat]

ASSUME WkfReadAssumption ==
    /\ Longest \in Lengths /\ \A n \in Lengths : n <= Longest
    /\ None \notin Nat /\ None \notin Requests
    /\ None \notin [offset : Nat, data : Places, size : Nat]

(* fault: the entry of the request that calls back is taken for free *)
SlotsFault == IF streaming THEN {1, 2} ELSE {1}

Slots == IF streaming THEN {1, 2, 3} ELSE {1, 2}

Free(q) == {i \in Slots : q[i] = None}

(* do_read_disc, with the queue q: the first free entry, if there is one.  *)
Push(q, r) == IF Free(q) = {} THEN q ELSE [q EXCEPT ![Min(Free(q))] = r]

-----------------------------------------------------------------------------
(* The drive.                                                              *)

(* wkf_read_queued: the base a request needs.  A misaligned one counts     *)
(* from a block before the sector.                                         *)
BaseOf(r) == [data |-> r.data, back |-> IF Misalign(r) # 0 THEN Block ELSE 0]

(* The base after a request has been given: told when it differs. *)
Told(r) == BaseOf(r)

(* The drive (external): what lies at a position from its base. *)
Device(position) ==
    IF position < base.back THEN None ELSE Contents(base.data, position - base.back)

(* fault: the bytes before the buffer are not put back *)
FilledFault(r) ==
    LET m == Misalign(r) IN
    [a \in Addresses |->
        IF a \in r.at - m..r.at - m + Round(m + r.size) - 1
        THEN Device(r.offset + BaseOf(r).back + a - r.at)
        ELSE memory[a]]

(* Memory after the transfer of r, with the bytes before it put back.      *)
Filled(r) ==
    LET m == Misalign(r) IN
    [a \in Addresses |->
        IF a \in r.at - m..r.at - 1 THEN saved[a - (r.at - m) + 1]
        ELSE IF r.size > 0 /\ a \in r.at..r.at - m + Round(m + r.size) - 1
        THEN Device(r.offset + BaseOf(r).back + a - r.at)
        ELSE memory[a]]

(* wkf_read_queued, up to the command: the bytes before the buffer are     *)
(* saved, the base is told if it is another.                               *)
ReadQueued(r, mem) ==
    LET m == Misalign(r) IN
    /\ saved' = IF m # 0 THEN [i \in 1..m |-> mem[r.at - m + i - 1]] ELSE saved
    /\ base' = Told(r)

(* do_read_disc outside of the driver: an idle queue starts.               *)
Submit(r) ==
    /\ queue' = Push(queue, r)
    /\ IF queued = None
       THEN /\ queued' = Min(Free(queue))
            /\ ReadQueued(r, memory')
       ELSE UNCHANGED <<queued, base, saved>>

-----------------------------------------------------------------------------
WkfInit ==
    /\ Init
    /\ streaming \in BOOLEAN
    /\ queue = [i \in 1..3 |-> None] /\ queued = None
    /\ base = None /\ saved = <<>>
    /\ memory = [a \in Addresses |-> Own] /\ heard = None

(* What each driver takes of a piece. *)
Due(p) == IF OnCard(p) THEN ToSector(p) ELSE ToBlock(p)

TakesDue(file, length, offset) ==
    piece'.size = Due(FragGet(file, offset, length))

(* The game reads into its buffer, which it has used meanwhile.            *)
Read(length, offset) ==
    /\ PerformRead(length, offset)
    /\ TakesDue(disc', length, offset)
    /\ memory' = [a \in Addresses |-> IF a \in StreamBuffer THEN memory[a] ELSE Own]
    /\ IF OnCard(piece') THEN UNCHANGED wkf ELSE Submit(Request(piece', 0))
    /\ UNCHANGED <<streaming, heard>>

(* The streamer asks, when there is room and it waits for no block.        *)
Fill ==
    /\ streaming /\ \A i \in Slots : queue[i] # None => queue[i].client = "dvd"
    /\ \E r \in StreamRequests : Submit(r)
    /\ UNCHANGED <<vars, streaming, memory, heard>>

(* A piece from the card has been copied to the game's buffer.             *)
CardDone ==
    /\ piece # None /\ OnCard(piece)
    /\ ReadCallback
    /\ piece' # None => TakesDue(disc, dvd'.length, dvd'.offset)
    /\ LET start == BufferAt + Len(dvd.got) IN
       memory' = [a \in Addresses |->
           IF a \in start..start + piece.size - 1
           THEN Contents(piece.data, piece.offset + a - start) ELSE memory[a]]
    /\ IF piece' = None \/ OnCard(piece') THEN UNCHANGED wkf
       ELSE Submit(Request(piece', Len(dvd'.got)))
    /\ UNCHANGED <<streaming, heard>>

(* wkf_done_queued, of the scans: with QUEUE_SIZE > 2 what is within a     *)
(* sector goes first.                                                      *)
Following(q) ==
    LET left  == {i \in Slots : q[i] # None}
        short == {i \in left : q[i].size + (q[i].offset % Sector) <= Sector} IN
    IF left = {} THEN None
    ELSE IF streaming /\ short # {} THEN Min(short)
    ELSE Min(left)

(* The end of wkf_done_queued, with the queue q as the callback left it:   *)
(* the entry was taken until now; the next request starts.                 *)
Release(q) ==
    /\ queue' = [q EXCEPT ![queued] = None]
    /\ queued' = Following(queue')
    /\ IF queued' = None THEN UNCHANGED <<base, saved>>
       ELSE ReadQueued(queue'[queued'], memory')

(* di_interrupt_handler, for the game's read: its callback asks for the    *)
(* next piece.                                                             *)
ReadDone ==
    /\ queued # None /\ queue[queued].client = "dvd"
    /\ memory' = Filled(queue[queued])
    /\ ReadCallback
    /\ piece' # None => TakesDue(disc, dvd'.length, dvd'.offset)
    /\ Release(IF piece' = None \/ OnCard(piece') THEN queue
               ELSE Push(queue, Request(piece', Len(dvd'.got))))
    /\ UNCHANGED <<streaming, heard>>

(* di_interrupt_handler, for the streamer: its callback may ask for the    *)
(* next block.                                                             *)
BlockDone ==
    /\ queued # None /\ queue[queued].client = "dtk"
    /\ memory' = Filled(queue[queued])
    /\ heard' = queue[queued]
    /\ \E q \in {queue} \cup {Push(queue, r) : r \in StreamRequests} : Release(q)
    /\ UNCHANGED <<vars, streaming>>

(* STOP_MOTOR: the streamer may have a block on its way. *)
StopMotor ==
    /\ ChangeDisc
    /\ UNCHANGED <<streaming, wkf, memory, heard>>

WkfNext ==
    \/ \E length \in Lengths : \E offset \in Image(disc) : Read(length, offset)
    \/ Fill
    \/ CardDone
    \/ ReadDone
    \/ BlockDone
    \/ StopMotor

WkfSpec == WkfInit /\ [][WkfNext]_wkfVars
-----------------------------------------------------------------------------
(* Properties *)

(* What the game has got of its read stands in its buffer, what the        *)
(* streamer got last in its own, and no byte beside them has changed:      *)
(* neither the bytes that are read before a misaligned buffer, nor those   *)
(* that rounding adds at its end, nor a base that another request told     *)
(* does harm (wkf.c:67-81, 86-93, 112-114, dtk_fill_buffer's buffer).      *)
MemoryIntact ==
    LET total == dvd.length + Len(dvd.got) IN
    /\ \A a \in Addresses \ (BufferAt..BufferAt + total - 1 \cup StreamBuffer) : memory[a] = Own
    /\ \A k \in 1..Len(dvd.got) : memory[BufferAt + k - 1] = dvd.got[k]
    /\ heard # None =>
          \A i \in 0..Sector - 1 : memory[StreamAt + i] = Contents(heard.data, heard.offset + i)

(* What remains of the game's read is always on its way: the next piece,   *)
(* which a callback asks for while its own entry is still taken, and the   *)
(* streamer may have another, is never refused by a full queue, which      *)
(* schedule_read would not notice (wkf.c:33, 116-119, 150-166, 190).       *)
PieceOnItsWay ==
    dvd.read =>
        \/ OnCard(piece)
        \/ \E i \in Slots : queue[i] = Request(piece, Len(dvd.got))
=============================================================================
