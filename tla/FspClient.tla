------------------------------ MODULE FspClient ------------------------------
(***************************************************************************)
(* The FSP file client that reads the disc image over the network, with    *)
(* the coroutine of the broadband adapter it runs in:                      *)
(* cube/patches/bba/bba.c and bba/tcpip.c, built with ASYNC_READ.          *)
(*                                                                         *)
(* The driver is a coroutine: whatever runs with the EXI bus locked runs   *)
(* in exi_coroutine, which gives the processor back (longjmp) while a DMA  *)
(* of the adapter is on its way and at its end.  pc is the point it has    *)
(* reached.  At the points of Yields other code runs: the game's commands, *)
(* the retry alarm, other drivers of the channel.  At the other points     *)
(* only the adapter and the network move.                                  *)
(*                                                                         *)
(* The unit of data is what one packet carries.  The network may lose,     *)
(* repeat and reorder; MaxFaults bounds how often it does, and how often   *)
(* the alarm expires although the answer is still on its way.              *)
(***************************************************************************)
EXTENDS Integers, Sequences, FiniteSets

CONSTANTS
    Clients,      \* the owners of reads: disc reader, audio streamer
    Streamers,    \* the clients whose callback asks for the next block or fragment
    Users,        \* the game's own drivers on the adapter's EXI channel
    QueueSize,    \* QUEUE_SIZE of the Makefile
    Files,        \* the files a disc image is made of
    Length,       \* [Clients -> SUBSET Nat]: how many packets a read may take
    Positions,    \* where in a file a read may start
    RingSize,     \* bound: frames the adapter holds
    MaxSequence,  \* bound: no new read once this many requests were sent
    MaxFaults,    \* bound: losses, repetitions and alarms ahead of the answer
    Bba,          \* the driver, as an owner of the bus lock
    None          \* NULL

(* A read in the queue, a request or its answer, what has one packet, and  *)
(* where the packet is about to go.                                        *)
Request == [client : Clients, file : Files, position : Nat, length : Nat,
            offset : Nat, short : BOOLEAN]
Frame   == [sequence : Nat, file : Files, position : Nat]
Packet  == [file : Files, position : Nat]
Target  == [client : Clients, offset : Nat, data : Packet]

ASSUME FspClientAssumption ==
    /\ QueueSize \in Nat /\ QueueSize > 2
    /\ IsFiniteSet(Clients) /\ QueueSize > Cardinality(Clients)
    /\ Streamers \subseteq Clients
    /\ Length \in [Clients -> SUBSET Nat]
    /\ Positions \subseteq Nat
    /\ RingSize \in Nat /\ MaxSequence \in Nat /\ MaxFaults \in Nat
    /\ Bba \notin Users
    /\ None \notin Users \cup {Bba} \cup Nat \cup Request \cup Frame \cup Target

Slots == 1..QueueSize

VARIABLES
    queue,      \* _fsp.queue: [Slots -> request or None]
    queued,     \* _fsp.queued: the slot being read, or None
    asked,      \* _fsp.command, sequence, position: the request whose answer counts
    sequence,   \* _fsp.sequence
    armed,      \* read_alarm is set
    deferred,   \* _bba.callback: fsp_read_queued waits for the bus
    pc,         \* the point the coroutine has reached
    target,     \* fsp_input's data and size: where the payload is about to go
    lock,       \* owner of EXI channel 0
    waiters,    \* callbacks registered by a failed EXILock, in order
    ring,       \* frames received by the adapter
    ri,         \* the adapter's receive interrupt bit, BBA_IR_RI
    net,        \* requests sent whose answer may still arrive
    faults,     \* history: faults so far, see MaxFaults
    memory,     \* [Clients -> what has been written to the client's buffer]
    raced,      \* history: the alarm put that off during a DMA of the coroutine
    misused,    \* history: OSSetAlarm was called for an alarm already set
    passed      \* history: [Clients -> packets of long reads since c's was queued]

fsp  == <<queue, queued, asked, sequence>>
bus  == <<lock, waiters>>
nic  == <<ring, ri, net, faults>>
history == <<raced, misused, passed>>
vars == <<fsp, armed, deferred, pc, target, bus, nic, memory, history>>

Yields == {"off", "sendcb", "header", "sendnext", "payload", "sendpop"}

Occupied == {i \in Slots : queue[i] # None}
Free     == {i \in Slots : queue[i] = None}
First(S) == CHOOSE i \in S : \A j \in S : i <= j
Waiting(c) == \E i \in Occupied : queue[i].client = c

(* A read: short when it ends within 512 bytes of its sector's start. *)
Reads(c) ==
    {r \in [client : {c}, file : Files, position : Positions, length : Length[c],
            offset : {0}, short : BOOLEAN] :
        IF r.length = 1 THEN TRUE ELSE r.short <=> r.length = 0}

(* What the server has at a place. *)
Content(file, position) == [file |-> file, position |-> position]

Init ==
    /\ queue = [i \in Slots |-> None] /\ queued = None
    /\ asked = None /\ sequence = 0
    /\ armed = FALSE /\ deferred = FALSE
    /\ pc = "off" /\ target = None
    /\ lock = None /\ waiters = <<>>
    /\ ring = <<>> /\ ri = FALSE /\ net = {} /\ faults = 0
    /\ memory = [c \in Clients |-> <<>>]
    /\ raced = FALSE /\ misused = FALSE /\ passed = [c \in Clients |-> 0]

-----------------------------------------------------------------------------
(* Pieces of handlers *)

(* do_read_disc: the read takes the first free slot. *)
Put(q, r) == IF Free = {} THEN q ELSE [q EXCEPT ![First(Free)] = r]

(* exi_lock: the coroutine starts, or EXILock registers it, once. *)
ExiLock ==
    IF lock = None
    THEN lock' = Bba /\ pc' = "start" /\ UNCHANGED waiters
    ELSE /\ waiters' = IF \E k \in 1..Len(waiters) : waiters[k] = Bba
                       THEN waiters ELSE Append(waiters, Bba)
         /\ UNCHANGED <<lock, pc>>

(* fsp_read_queued outside the coroutine: put off until the bus is locked. *)
Defer ==
    IF deferred THEN UNCHANGED <<deferred, bus, pc>>
    ELSE deferred' = TRUE /\ ExiLock

(* fault: the callback of a waiter is not called *)
ExiUnlockFault ==
    /\ lock' = IF waiters = <<>> THEN None ELSE Head(waiters)
    /\ waiters' = IF waiters = <<>> THEN <<>> ELSE Tail(waiters)
    /\ pc' = "off"

(* EXIUnlock: the next waiter takes the bus; exi_lock starts the coroutine. *)
ExiUnlock ==
    /\ lock' = IF waiters = <<>> THEN None ELSE Head(waiters)
    /\ waiters' = IF waiters = <<>> THEN <<>> ELSE Tail(waiters)
    /\ pc' = IF waiters # <<>> /\ Head(waiters) = Bba THEN "start" ELSE "off"

(* fault: the answer to an earlier request is taken for the answer *)
IsAnswerFault(m) ==
    /\ asked # None
    /\ m.position = asked.position

(* fsp_input: the answer to the last request sent, the first time. *)
IsAnswer(m) ==
    /\ asked # None
    /\ m.sequence = asked.sequence
    /\ m.position = asked.position

(* fault: the alarm is left set *)
CancelAlarmFault == UNCHANGED armed

CancelAlarm == armed' = FALSE

(* fsp_get_file up to the DMA of the frame. *)
Asking(r) == [sequence |-> sequence + 1, file |-> r.file, position |-> r.position + r.offset]

Send(r) ==
    /\ sequence' = sequence + 1
    /\ asked' = Asking(r)

(* fsp_get_file after that DMA, and fsp_read_queued to its end: the frame  *)
(* is on its way and the alarm is set for one second.                      *)
Sent ==
    /\ net' = net \cup {asked}
    /\ misused' = (misused \/ armed)
    /\ armed' = TRUE

(* fault: the oldest slot goes first *)
PopFault(q) == First({i \in Slots : q[i] # None})

(* fsp_pop_queue: short reads first. *)
Pop(q) ==
    LET taken == {i \in Slots : q[i] # None}
        short == {i \in taken : q[i].short} IN
    IF short # {} THEN First(short) ELSE First(taken)

-----------------------------------------------------------------------------
(* Outside the coroutine *)

(* do_read_disc; a read that finds no slot is refused, and lost. *)
Submit(c, r) ==
    /\ pc \in Yields /\ sequence < MaxSequence
    /\ ~Waiting(c)
    /\ queue' = Put(queue, r)
    /\ IF queued = None /\ Free # {}
       THEN queued' = First(Free) /\ Defer
       ELSE UNCHANGED <<queued, deferred, bus, pc>>
    /\ memory' = [memory EXCEPT ![c] = <<>>]
    /\ passed' = [passed EXCEPT ![c] = 0]
    /\ UNCHANGED <<asked, sequence, armed, target, nic, raced, misused>>

(* fault: the alarm expires and nothing is sent again *)
AlarmFault ==
    /\ pc \in Yields /\ armed
    /\ armed' = FALSE
    /\ UNCHANGED <<fsp, deferred, pc, target, bus, nic, memory, history>>

(* read_alarm expires: the answer is late, or will never come.  It may do  *)
(* so during a DMA of the coroutine, with the answer being received.       *)
Alarm ==
    /\ pc \in Yields /\ armed
    /\ IF asked \in net \/ (ring # <<>> /\ ri)
       THEN faults < MaxFaults /\ faults' = faults + 1
       ELSE UNCHANGED faults
    /\ armed' = FALSE
    /\ Defer
    /\ raced' = (raced \/ pc # "off")
    /\ UNCHANGED <<fsp, target, ring, ri, net, memory, misused, passed>>

(* exi_interrupt_handler. *)
NicInterrupt ==
    /\ pc = "off" /\ ri
    /\ ExiLock
    /\ UNCHANGED <<fsp, armed, deferred, target, nic, memory, history>>

UserLock(u) ==
    /\ pc \in Yields /\ lock # u
    /\ IF lock = None
       THEN lock' = u /\ UNCHANGED waiters
       ELSE /\ \A k \in 1..Len(waiters) : waiters[k] # u
            /\ waiters' = Append(waiters, u) /\ UNCHANGED lock
    /\ UNCHANGED <<fsp, armed, deferred, pc, target, nic, memory, history>>

UserUnlock(u) ==
    /\ pc = "off" /\ lock = u
    /\ ExiUnlock
    /\ UNCHANGED <<fsp, armed, deferred, target, nic, memory, history>>

-----------------------------------------------------------------------------
(* The coroutine *)

(* exi_coroutine from its start to fsp_read_queued's DMA.  A read that is  *)
(* over by now leaves _fsp.queued NULL, and the game crashes reading it.   *)
Start ==
    /\ pc = "start"
    /\ IF ~deferred
       THEN pc' = "status" /\ UNCHANGED <<asked, sequence>>
       ELSE IF queued = None
       THEN pc' = "crashed" /\ UNCHANGED <<asked, sequence>>
       ELSE pc' = "sendcb" /\ Send(queue[queued])
    /\ UNCHANGED <<queue, queued, armed, deferred, target, bus, nic, memory, history>>

SentCallback ==
    /\ pc = "sendcb"
    /\ Sent
    /\ deferred' = FALSE /\ raced' = FALSE
    /\ pc' = "status"
    /\ UNCHANGED <<fsp, target, bus, ring, ri, faults, memory, passed>>

(* The adapter is asked whether it wants attention. *)
Status ==
    /\ pc = "status"
    /\ IF ri THEN pc' = "receive" /\ UNCHANGED bus ELSE ExiUnlock
    /\ UNCHANGED <<fsp, armed, deferred, target, nic, memory, history>>

(* bba_receive: the next frame's header is fetched, or there is none. *)
Receive ==
    /\ pc = "receive"
    /\ pc' = IF ring # <<>> THEN "header" ELSE "ack"
    /\ UNCHANGED <<fsp, armed, deferred, target, bus, nic, memory, history>>

(* bba_interrupt acknowledges what it read before bba_receive, and the     *)
(* coroutine ends; a frame that came in between is no longer announced.    *)
Ack ==
    /\ pc = "ack"
    /\ ri' = FALSE
    /\ ExiUnlock
    /\ UNCHANGED <<fsp, armed, deferred, target, ring, net, faults, memory, history>>

(* eth_input ... fsp_input up to the DMA of the payload, or of the next    *)
(* request: the answer moves the read on, and unless that ends it the      *)
(* request for the next packet (of the most urgent read) goes out first.   *)
Header ==
    LET m == Head(ring) IN
    /\ pc = "header"
    /\ ring' = Tail(ring)
    /\ IF ~IsAnswer(m)
       THEN pc' = "receive" /\ UNCHANGED <<fsp, armed, target, passed>>
       ELSE LET r    == queue[queued]
                size == IF r.length = 0 THEN 0 ELSE 1
                q    == [queue EXCEPT ![queued].offset = @ + size] IN
            /\ CancelAlarm
            /\ queue' = q
            /\ passed' = IF r.short THEN passed
                         ELSE [c \in Clients |-> passed[c] + 1]
            /\ target' = [client |-> r.client, offset |-> r.offset,
                          data |-> Content(m.file, m.position)]
            /\ IF r.offset + size # r.length
               THEN queued' = Pop(q) /\ Send(q[Pop(q)]) /\ pc' = "sendnext"
               ELSE /\ asked' = None
                    /\ pc' = IF size = 0 THEN "check" ELSE "payload"
                    /\ UNCHANGED <<queued, sequence>>
    /\ UNCHANGED <<deferred, bus, ri, net, faults, memory, raced, misused>>

SentNext ==
    /\ pc = "sendnext"
    /\ Sent
    /\ pc' = "payload"
    /\ UNCHANGED <<fsp, deferred, target, bus, ring, ri, faults, memory, raced, passed>>

(* The payload's DMA ends. *)
Payload ==
    /\ pc = "payload"
    /\ memory' = [memory EXCEPT ![target.client] =
                     [k \in 1..target.offset + 1 |->
                         IF k = target.offset + 1 THEN target.data
                         ELSE IF k \in 1..Len(@) THEN @[k] ELSE None]]
    /\ pc' = "check"
    /\ UNCHANGED <<fsp, armed, deferred, target, bus, nic, history>>

(* fsp_input after the payload: fsp_done_queued if the read queued now is  *)
(* complete.  The callback may ask for the next block of audio, or the     *)
(* next fragment; then the slot is free and the next read starts.          *)
NextRead(c) == {None} \cup (IF c \in Streamers /\ sequence < MaxSequence THEN Reads(c) ELSE {})

Check ==
    LET r == queue[queued] IN
    /\ pc = "check"
    /\ target' = None
    /\ IF r.offset # r.length
       THEN pc' = "receive" /\ UNCHANGED <<fsp, memory, passed>>
       ELSE \E n \in NextRead(r.client) :
            LET q    == IF n = None THEN queue ELSE Put(queue, n)
                left == [q EXCEPT ![queued] = None] IN
            /\ queue' = left
            /\ memory' = [memory EXCEPT ![r.client] = <<>>]
            /\ passed' = [passed EXCEPT ![r.client] = 0]
            /\ IF \E i \in Slots : left[i] # None
               THEN queued' = Pop(left) /\ Send(left[Pop(left)]) /\ pc' = "sendpop"
               ELSE queued' = None /\ pc' = "receive" /\ UNCHANGED <<asked, sequence>>
    /\ UNCHANGED <<armed, deferred, bus, nic, raced, misused>>

SentPop ==
    /\ pc = "sendpop"
    /\ Sent
    /\ pc' = "receive"
    /\ UNCHANGED <<fsp, deferred, target, bus, ring, ri, faults, memory, raced, passed>>

-----------------------------------------------------------------------------
(* The network, the server and the adapter (external) *)

(* The server's answer to a request reaches the adapter; again: and may    *)
(* reach it once more.                                                     *)
Deliver(m, again) ==
    /\ Len(ring) < RingSize /\ pc # "crashed"
    /\ ring' = Append(ring, m)
    /\ ri' = TRUE
    /\ IF again THEN faults < MaxFaults /\ faults' = faults + 1 /\ UNCHANGED net
       ELSE net' = net \ {m} /\ UNCHANGED faults
    /\ UNCHANGED <<fsp, armed, deferred, pc, target, bus, memory, history>>

Lose(m) ==
    /\ faults < MaxFaults /\ pc # "crashed"
    /\ faults' = faults + 1
    /\ net' = net \ {m}
    /\ UNCHANGED <<fsp, armed, deferred, pc, target, bus, ring, ri, memory, history>>

-----------------------------------------------------------------------------
Coroutine ==
    Start \/ SentCallback \/ Status \/ Receive \/ Ack \/ Header \/ SentNext
    \/ Payload \/ Check \/ SentPop

Next ==
    \/ \E c \in Clients : \E r \in Reads(c) : Submit(c, r)
    \/ Alarm
    \/ NicInterrupt
    \/ Coroutine
    \/ \E u \in Users : UserLock(u) \/ UserUnlock(u)
    \/ \E m \in net : Lose(m) \/ \E again \in BOOLEAN : Deliver(m, again)

Spec == Init /\ [][Next]_vars

(* DMAs end, interrupts are taken, the alarm expires, the network delivers *)
(* what it does not lose, and the game's drivers give the bus back.        *)
Fairness ==
    /\ WF_vars(Coroutine)
    /\ WF_vars(NicInterrupt)
    /\ WF_vars(Alarm)
    /\ WF_vars(\E m \in net : Deliver(m, FALSE))
    /\ \A u \in Users : SF_vars(UserUnlock(u))

FairSpec == Spec /\ Fairness
-----------------------------------------------------------------------------
(* Properties *)

(* The types of _bba and _fsp (bba.c:33-41, tcpip.c:139-154). *)
TypeOK ==
    /\ queue \in [Slots -> Request \cup {None}]
    /\ queued \in Slots \cup {None}
    /\ asked \in Frame \cup {None} /\ sequence \in Nat
    /\ armed \in BOOLEAN /\ deferred \in BOOLEAN /\ ri \in BOOLEAN
    /\ pc \in Yields \cup {"start", "status", "receive", "ack", "check", "crashed"}
    /\ target \in Target \cup {None}
    /\ lock \in Users \cup {Bba, None} /\ waiters \in Seq(Users \cup {Bba})
    /\ ring \in Seq(Frame) /\ net \subseteq Frame
    /\ faults \in 0..MaxFaults
    /\ memory \in [Clients -> Seq(Packet \cup {None})]
    /\ raced \in BOOLEAN /\ misused \in BOOLEAN /\ passed \in [Clients -> Nat]

(* Every packet of a read that counts as received is in its place in the   *)
(* client's buffer and is the file's, whatever answers were lost, repeated *)
(* or late; the last one may be on its way from the adapter.               *)
BufferIsFile ==
    \A i \in Occupied :
        LET r == queue[i] IN
        \A k \in 1..r.offset :
            \/ /\ k \in 1..Len(memory[r.client])
               /\ memory[r.client][k] = Content(r.file, r.position + k - 1)
            \/ /\ target # None /\ pc \in {"sendnext", "payload"}
               /\ target = [client |-> r.client, offset |-> k - 1,
                            data |-> Content(r.file, r.position + k - 1)]

(* When the coroutine is not running, a read that is queued has a request  *)
(* outstanding with its alarm set, or waits for the bus.                   *)
NoReadForgotten ==
    pc = "off" =>
        /\ queued = None => Occupied = {}
        /\ queued # None =>
              \/ armed /\ asked # None
              \/ /\ deferred
                 /\ lock # None /\ \E k \in 1..Len(waiters) : waiters[k] = Bba

(* The coroutine owns the bus while it runs, and only then. *)
BusHeldByCoroutine == pc # "crashed" => (lock = Bba <=> pc # "off")

(* fsp_read_queued finds no read to ask for only when it was put off by an *)
(* alarm that expired during a DMA of the coroutine (tcpip.c:231-237): the *)
(* answer that was being received then may have ended the last read.       *)
NullNeverRead == pc = "crashed" => raced

(* OSSetAlarm is about to be called for an alarm that is still set only    *)
(* after the same race, when the next read has set the alarm meanwhile.    *)
AlarmSetOnce == armed /\ pc \in {"sendcb", "sendnext", "sendpop"} => raced

(* A short read is not kept waiting by a long one: at most the packet the  *)
(* long read was already fetching is received before it.                   *)
ShortFirst == \A i \in Occupied : queue[i].short => passed[queue[i].client] <= 1

(* Every read ends, whatever the network loses; unless the race of the     *)
(* alarm makes the game crash or sets an alarm twice, after which what the *)
(* SDK's timers do is not known.                                           *)
EveryReadEnds ==
    \A c \in Clients : Waiting(c) ~> ~Waiting(c) \/ pc = "crashed" \/ misused
=============================================================================
