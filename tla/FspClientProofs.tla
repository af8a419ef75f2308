--------------------------- MODULE FspClientProofs ---------------------------
(***************************************************************************)
(* Proofs about FspClient for every number of clients, files, positions,   *)
(* lengths of reads and losses: that what was received is the file's, that *)
(* no read is forgotten, that the bus is the coroutine's while it runs,    *)
(* and that only an alarm that expires during a DMA of the coroutine makes *)
(* the client read through a null pointer or set an alarm that is set.     *)
(***************************************************************************)
EXTENDS FspClient, TLAPS, SequenceTheorems, WellFoundedInduction

-----------------------------------------------------------------------------
(* The inductive invariant *)

(* A client has one read in the queue, and one is current if there is any. *)
QueueInv ==
    /\ queued = None => Occupied = {}
    /\ queued # None => queue[queued] # None
    /\ \A i, j \in Occupied : queue[i].client = queue[j].client => i = j
    /\ \A i \in Occupied :
          /\ queue[i].length \in Length[queue[i].client]
          /\ queue[i].offset <= queue[i].length
    /\ pc \in {"sendcb", "sendnext", "payload", "check", "sendpop"} => queued # None

(* A read has all it wants only if it wants nothing, or at the end of the  *)
(* answer that completes it; while another packet's answer is taken in     *)
(* there is a read that wants more, maybe not the current one.             *)
DoneInv ==
    /\ \A i \in Occupied :
          queue[i].offset = queue[i].length =>
              \/ queue[i].length = 0
              \/ i = queued /\ asked = None /\ pc \in {"payload", "check"}
    /\ pc \in {"sendnext", "payload", "check"} /\ asked # None =>
          \E i \in Occupied : queue[i].offset # queue[i].length
    /\ pc \in {"payload", "check"} /\ asked = None =>
          queue[queued].offset = queue[queued].length

InFlight == net \cup {ring[k] : k \in 1..Len(ring)}

(* The request that counts is of the current read, at the packet it is at, *)
(* and what is on its way with its number is its answer.                   *)
FrameInv ==
    /\ asked # None =>
          /\ queued # None
          /\ asked = [sequence |-> sequence, file |-> queue[queued].file,
                      position |-> queue[queued].position + queue[queued].offset]
    /\ \A m \in InFlight :
          /\ m.sequence <= sequence
          /\ asked # None /\ m.sequence = sequence => m = asked
    /\ pc \in {"sendcb", "sendnext", "sendpop"} => asked # None

BbaWaits == \E k \in 1..Len(waiters) : waiters[k] = Bba

(* A request that was put off is sent by the coroutine, which runs or will *)
(* be called back when the bus is free.                                    *)
BusInv ==
    /\ BusHeldByCoroutine
    /\ lock = None => waiters = <<>>
    /\ deferred => pc \in {"start", "sendcb", "crashed"} \/ BbaWaits

(* A read that is queued is asked for, and a header is of a frame. *)
ProgressInv ==
    /\ queued # None =>
          \/ armed /\ asked # None
          \/ deferred
          \/ pc \in {"sendcb", "sendnext", "sendpop"}
          \/ pc \in {"payload", "check"} /\ asked = None
    /\ pc = "header" => ring # <<>>

(* Where the packet goes that read r has counted last. *)
LastOf(r) ==
    [client |-> r.client, offset |-> r.offset - 1,
     data |-> Content(r.file, r.position + r.offset - 1)]

BufferInv ==
    /\ BufferIsFile
    /\ pc \in {"sendnext", "payload"} =>
          \E i \in Occupied : queue[i].offset >= 1 /\ target = LastOf(queue[i])

(* A short read that a long one has passed is next. *)
ShortInv ==
    \A i \in Occupied :
        queue[i].short =>
            \/ passed[queue[i].client] = 0
            \/ /\ passed[queue[i].client] = 1
               /\ queue[queued].short \/ (asked = None /\ pc \in {"payload", "check"})

IInv ==
    /\ TypeOK
    /\ QueueInv /\ DoneInv /\ FrameInv /\ BusInv /\ ProgressInv /\ BufferInv /\ ShortInv

(* A request put off without the race of the alarm has its read, and no    *)
(* alarm is set nor an answer expected before the coroutine sends it.      *)
RaceInv ==
    /\ pc = "crashed" => raced
    /\ armed => asked # None
    /\ raced => deferred
    /\ deferred /\ ~raced =>
          /\ queued # None /\ ~armed
          /\ \/ pc \in {"off", "start", "sendcb"}
             \/ pc \in {"status", "receive", "header", "ack"} /\ asked = None

(* Of the clients that read more than a packet and those that seek, no two *)
(* are there at the same time: in the builds the disc reader is the only   *)
(* one of either kind.                                                     *)
OneSeeker ==
    \A c, d \in Clients : c # d /\ 0 \in Length[c] => Length[d] \subseteq {0, 1}

OnceInv ==
    /\ pc = "sendcb" => deferred
    /\ pc \in {"sendnext", "sendpop"} => ~armed
    /\ pc \in {"sendnext", "payload", "check"} /\ asked # None =>
          queue[queued].offset # queue[queued].length

-----------------------------------------------------------------------------
(* Lemmas about the queue *)

LEMMA FirstIsIn ==
    ASSUME NEW S \in SUBSET Slots, S # {}
    PROVE  First(S) \in S
<1>1. S \subseteq Nat
  BY FspClientAssumption DEF Slots
<1> DEFINE R == {ss \in Nat \X Nat : ss[1] < ss[2]}
<1>2. IsWellFoundedOn(R, Nat)
  BY NatLessThanWellFounded DEF OpToRel
<1>3. \A x, y \in Nat : x < y => <<x, y>> \in R
  OBVIOUS
<1> HIDE DEF R
<1>4. PICK x \in S : \A y \in S : ~(<<y, x>> \in R)
  BY <1>1, <1>2, WFMin
<1>5. \A j \in S : x <= j
  <2> TAKE j \in S
  <2>1. j \in Nat /\ x \in Nat /\ ~(j < x)
    BY <1>1, <1>3, <1>4
  <2> QED BY <2>1
<1> QED BY <1>5 DEF First

(* fsp_pop_queue finds a read, and a short one if there is any. *)
LEMMA PopIs ==
    ASSUME NEW q, NEW i \in Slots, q[i] # None
    PROVE  /\ Pop(q) \in Slots /\ q[Pop(q)] # None
           /\ \A j \in Slots : q[j] # None /\ q[j].short => q[Pop(q)].short
<1> DEFINE taken == {j \in Slots : q[j] # None}
           short == {j \in taken : q[j].short}
<1>1. Pop(q) = IF short # {} THEN First(short) ELSE First(taken)
  BY DEF Pop
<1>2. taken # {} /\ taken \in SUBSET Slots /\ short \in SUBSET Slots
  OBVIOUS
<1>3. First(taken) \in taken
  BY <1>2, FirstIsIn
<1>4. short # {} => First(short) \in short
  BY <1>2, FirstIsIn
<1> QED BY <1>1, <1>3, <1>4

(* do_read_disc puts a read into a free slot, or refuses it. *)
LEMMA PutIs ==
    ASSUME NEW r
    PROVE  \/ Put(queue, r) = queue
           \/ \E s \in Slots : queue[s] = None /\ Put(queue, r) = [queue EXCEPT ![s] = r]
<1>1. Free # {} => First(Free) \in Free
  BY FirstIsIn DEF Free
<1> QED BY <1>1 DEF Put, Free

LEMMA ReadsAre ==
    ASSUME NEW c \in Clients, NEW r \in Reads(c)
    PROVE  /\ r \in Request /\ r # None /\ r.client = c /\ r.offset = 0
           /\ r.length \in Length[c] /\ r.offset <= r.length
           /\ r.length = 0 => r.short
<1>1. Length[c] \subseteq Nat /\ Positions \subseteq Nat
  BY FspClientAssumption
<1>2. r \in [client : {c}, file : Files, position : Positions, length : Length[c],
             offset : {0}, short : BOOLEAN]
  BY DEF Reads
<1>3. r \in Request
  <2>1. PICK f \in Files, p \in Positions, l \in Length[c], b \in BOOLEAN :
            r = [client |-> c, file |-> f, position |-> p, length |-> l, offset |-> 0,
                 short |-> b]
    BY <1>2
  <2>2. p \in Nat /\ l \in Nat /\ 0 \in Nat
    BY <1>1
  <2> QED BY <2>1, <2>2 DEF Request
<1>4. r.length = 0 => r.short
  BY <1>1 DEF Reads
<1> QED BY <1>1, <1>2, <1>3, <1>4, FspClientAssumption

(* A current read is one. *)
LEMMA CurrentIs ==
    ASSUME TypeOK, QueueInv, queued # None
    PROVE  queued \in Occupied /\ queued \in Slots /\ queue[queued] \in Request
  BY DEF TypeOK, QueueInv, Occupied

-----------------------------------------------------------------------------
(* Lemmas about the bus *)

LEMMA LockIs ==
    ASSUME TypeOK, BusInv, pc \in Yields, ExiLock
    PROVE  /\ lock' \in Users \cup {Bba, None} /\ waiters' \in Seq(Users \cup {Bba})
           /\ (pc = "off" /\ pc' = "start") \/ (pc' = pc /\ BbaWaits')
           /\ BusHeldByCoroutine' /\ (lock' = None => waiters' = <<>>)
           /\ BbaWaits => BbaWaits'
<1>1. CASE lock = None
  <2>1. lock' = Bba /\ pc' = "start" /\ waiters' = waiters /\ waiters = <<>>
    BY <1>1 DEF ExiLock, BusInv
  <2>2. pc = "off"
    BY <1>1, FspClientAssumption DEF BusInv, BusHeldByCoroutine, Yields
  <2>3. Bba # None
    BY FspClientAssumption
  <2>4. BusHeldByCoroutine'
    BY <2>1 DEF BusHeldByCoroutine
  <2>5. BbaWaits' <=> BbaWaits
    BY <2>1 DEF BbaWaits
  <2>6. waiters' \in Seq(Users \cup {Bba})
    BY <2>1 DEF TypeOK
  <2> QED BY <2>1, <2>2, <2>3, <2>4, <2>5, <2>6
<1>2. CASE lock # None
  <2>1. /\ waiters' = IF BbaWaits THEN waiters ELSE Append(waiters, Bba)
        /\ lock' = lock /\ pc' = pc
    BY <1>2 DEF ExiLock, BbaWaits
  <2>2. waiters' \in Seq(Users \cup {Bba}) /\ BbaWaits'
    <3>1. CASE BbaWaits
      BY <2>1, <3>1 DEF BbaWaits, TypeOK
    <3>2. CASE ~BbaWaits
      <4>1. /\ waiters' \in Seq(Users \cup {Bba}) /\ Len(waiters') = Len(waiters) + 1
            /\ waiters'[Len(waiters) + 1] = Bba /\ Len(waiters) \in Nat
        BY <2>1, <3>2, AppendProperties, LenProperties DEF TypeOK
      <4> QED BY <4>1 DEF BbaWaits
    <3> QED BY <3>1, <3>2
  <2>3. BusHeldByCoroutine'
    BY <2>1 DEF BusInv, BusHeldByCoroutine
  <2> QED BY <1>2, <2>1, <2>2, <2>3 DEF TypeOK
<1> QED BY <1>1, <1>2

LEMMA UnlockIs ==
    ASSUME TypeOK, ExiUnlock
    PROVE  /\ lock' \in Users \cup {Bba, None} /\ waiters' \in Seq(Users \cup {Bba})
           /\ pc' \in {"off", "start"}
           /\ BusHeldByCoroutine' /\ (lock' = None => waiters' = <<>>)
           /\ BbaWaits => pc' = "start" \/ BbaWaits'
<1>1. CASE waiters = <<>>
  <2>1. lock' = None /\ waiters' = <<>> /\ pc' = "off"
    BY <1>1 DEF ExiUnlock
  <2> QED BY <1>1, <2>1, FspClientAssumption DEF BusHeldByCoroutine, BbaWaits, TypeOK
<1>2. CASE waiters # <<>>
  <2>1. /\ lock' = Head(waiters) /\ waiters' = Tail(waiters)
        /\ pc' = IF Head(waiters) = Bba THEN "start" ELSE "off"
    BY <1>2 DEF ExiUnlock
  <2>2. /\ Head(waiters) \in Users \cup {Bba} /\ Tail(waiters) \in Seq(Users \cup {Bba})
        /\ Len(Tail(waiters)) = Len(waiters) - 1 /\ Head(waiters) = waiters[1]
        /\ \A k \in 1..Len(Tail(waiters)) : Tail(waiters)[k] = waiters[k + 1]
        /\ Len(waiters) \in Nat
    BY <1>2, HeadTailProperties, LenProperties DEF TypeOK
  <2>3. BbaWaits => pc' = "start" \/ BbaWaits'
    <3> SUFFICES ASSUME NEW k \in 1..Len(waiters), waiters[k] = Bba, pc' # "start"
                 PROVE  BbaWaits'
      BY DEF BbaWaits
    <3>1. k # 1
      BY <2>1, <2>2
    <3>2. k - 1 \in 1..Len(waiters') /\ waiters'[k - 1] = Bba
      BY <2>1, <2>2, <3>1
    <3> QED BY <3>2 DEF BbaWaits
  <2>4. BusHeldByCoroutine' /\ (lock' = None => waiters' = <<>>)
    BY <2>1, <2>2, FspClientAssumption DEF BusHeldByCoroutine
  <2> QED BY <2>1, <2>2, <2>3, <2>4
<1> QED BY <1>1, <1>2

(* fsp_read_queued outside of the coroutine. *)
LEMMA DeferIs ==
    ASSUME TypeOK, BusInv, pc \in Yields, Defer
    PROVE  /\ lock' \in Users \cup {Bba, None} /\ waiters' \in Seq(Users \cup {Bba})
           /\ (pc = "off" /\ pc' = "start") \/ pc' = pc
           /\ deferred' = TRUE /\ BusInv'
<1>1. CASE deferred
  <2>1. UNCHANGED <<deferred, lock, waiters, pc>>
    BY <1>1 DEF Defer, bus
  <2>2. BusInv'
    BY <2>1 DEF BusInv, BusHeldByCoroutine, BbaWaits
  <2> QED BY <1>1, <2>1, <2>2 DEF TypeOK
<1>2. CASE ~deferred
  <2>1. deferred' = TRUE /\ ExiLock
    BY <1>2 DEF Defer
  <2> QED BY <2>1, LockIs DEF BusInv
<1> QED BY <1>1, <1>2

-----------------------------------------------------------------------------
(* Lemmas about steps *)

(* Points of the coroutine at which it has nothing of a read at hand. *)
Calm == {"off", "start", "status", "receive", "header", "ack", "crashed"}

(* Steps that neither ask, answer nor put a read into the queue. *)
LEMMA ReadsKept ==
    ASSUME QueueInv, DoneInv, FrameInv, BufferInv, ShortInv,
           UNCHANGED <<queue, queued, asked, sequence, target, memory, passed>>,
           InFlight' \subseteq InFlight,
           pc' = pc \/ {pc, pc'} \subseteq Calm
    PROVE  QueueInv' /\ DoneInv' /\ FrameInv' /\ BufferInv' /\ ShortInv'
<1>1. Occupied' = Occupied
  BY DEF Occupied
<1>2. pc' = pc \/ {pc, pc'} \cap {"sendcb", "sendnext", "payload", "check", "sendpop"} = {}
  BY DEF Calm
<1>3. QueueInv' /\ DoneInv'
  BY <1>1, <1>2 DEF QueueInv, DoneInv
<1>4. FrameInv'
  BY <1>1, <1>2 DEF FrameInv
<1>5. BufferInv'
  BY <1>1, <1>2 DEF BufferInv, BufferIsFile, LastOf
<1>6. ShortInv'
  BY <1>1, <1>2 DEF ShortInv
<1> QED BY <1>3, <1>4, <1>5, <1>6

LEMMA ReadsSame ==
    ASSUME QueueInv, DoneInv, FrameInv, BufferInv, ShortInv,
           UNCHANGED <<queue, queued, asked, sequence, target, memory, passed, ring, net>>,
           pc' = pc \/ {pc, pc'} \subseteq Calm
    PROVE  QueueInv' /\ DoneInv' /\ FrameInv' /\ BufferInv' /\ ShortInv'
<1>1. InFlight' \subseteq InFlight
  BY DEF InFlight
<1> QED BY <1>1, ReadsKept

LEMMA InitIInv == Init => IInv
<1> SUFFICES ASSUME Init PROVE IInv
  OBVIOUS
<1>1. /\ queue = [i \in Slots |-> None] /\ queued = None /\ asked = None /\ sequence = 0
      /\ armed = FALSE /\ deferred = FALSE /\ pc = "off" /\ target = None
      /\ lock = None /\ waiters = <<>> /\ ring = <<>> /\ ri = FALSE /\ net = {} /\ faults = 0
      /\ memory = [c \in Clients |-> <<>>] /\ raced = FALSE /\ misused = FALSE
      /\ passed = [c \in Clients |-> 0]
  BY DEF Init
<1>2. Occupied = {} /\ InFlight = {}
  BY <1>1 DEF Occupied, InFlight
<1>3. TypeOK
  <2>1. /\ queue \in [Slots -> Request \cup {None}] /\ queued \in Slots \cup {None}
        /\ asked \in Frame \cup {None} /\ sequence \in Nat /\ target \in Target \cup {None}
        /\ pc \in Yields /\ lock \in Users \cup {Bba, None} /\ net \subseteq Frame
        /\ faults \in 0..MaxFaults /\ passed \in [Clients -> Nat]
    BY <1>1, FspClientAssumption DEF Yields
  <2>2. waiters \in Seq(Users \cup {Bba}) /\ ring \in Seq(Frame)
    BY <1>1, EmptySeq
  <2>3. <<>> \in Seq(Packet \cup {None})
    BY EmptySeq
  <2>4. memory \in [Clients -> Seq(Packet \cup {None})]
    BY <1>1, <2>3
  <2>5. /\ armed \in BOOLEAN /\ deferred \in BOOLEAN /\ ri \in BOOLEAN
        /\ raced \in BOOLEAN /\ misused \in BOOLEAN
    BY <1>1
  <2> QED BY <2>1, <2>2, <2>4, <2>5 DEF TypeOK
<1>4. QueueInv /\ DoneInv /\ FrameInv /\ BufferInv /\ ShortInv /\ ProgressInv
  BY <1>1, <1>2 DEF QueueInv, DoneInv, FrameInv, BufferInv, BufferIsFile, ShortInv, ProgressInv
<1>5. BusInv
  BY <1>1, FspClientAssumption DEF BusInv, BusHeldByCoroutine
<1> QED BY <1>3, <1>4, <1>5 DEF IInv

LEMMA AlarmStep == ASSUME IInv, Alarm PROVE IInv'
<1>1. /\ pc \in Yields /\ armed' = FALSE /\ Defer
      /\ UNCHANGED <<queue, queued, asked, sequence, target, ring, ri, net, memory, misused,
                     passed>>
  BY DEF Alarm, fsp, history
<1>2. faults' \in 0..MaxFaults /\ raced' \in BOOLEAN
  BY FspClientAssumption DEF Alarm, IInv, TypeOK
<1>3. /\ lock' \in Users \cup {Bba, None} /\ waiters' \in Seq(Users \cup {Bba})
      /\ (pc = "off" /\ pc' = "start") \/ pc' = pc
      /\ deferred' = TRUE /\ BusInv'
  BY <1>1, DeferIs DEF IInv
<1>4. TypeOK'
  BY <1>1, <1>2, <1>3 DEF IInv, TypeOK
<1>5. QueueInv' /\ DoneInv' /\ FrameInv' /\ BufferInv' /\ ShortInv'
  BY <1>1, <1>3, ReadsSame DEF IInv, Calm
<1>6. ProgressInv'
  BY <1>1, <1>3 DEF IInv, ProgressInv
<1> QED BY <1>3, <1>4, <1>5, <1>6 DEF IInv

LEMMA NicInterruptStep == ASSUME IInv, NicInterrupt PROVE IInv'
<1>1. /\ pc = "off" /\ ExiLock
      /\ UNCHANGED <<queue, queued, asked, sequence, target, ring, ri, net, faults, memory,
                     raced, misused, passed, armed, deferred>>
  BY DEF NicInterrupt, fsp, nic, history
<1>2. /\ lock' \in Users \cup {Bba, None} /\ waiters' \in Seq(Users \cup {Bba})
      /\ (pc = "off" /\ pc' = "start") \/ (pc' = pc /\ BbaWaits')
      /\ BusHeldByCoroutine' /\ (lock' = None => waiters' = <<>>)
      /\ BbaWaits => BbaWaits'
  BY <1>1, LockIs DEF IInv, Yields
<1>3. TypeOK'
  BY <1>1, <1>2 DEF IInv, TypeOK
<1>4. QueueInv' /\ DoneInv' /\ FrameInv' /\ BufferInv' /\ ShortInv'
  BY <1>1, <1>2, ReadsSame DEF IInv, Calm
<1>5. BusInv' /\ ProgressInv'
  BY <1>1, <1>2 DEF IInv, BusInv, ProgressInv
<1> QED BY <1>3, <1>4, <1>5 DEF IInv

LEMMA UserLockStep == ASSUME IInv, NEW u \in Users, UserLock(u) PROVE IInv'
<1>1. /\ pc \in Yields /\ lock # u
      /\ UNCHANGED <<queue, queued, asked, sequence, target, ring, ri, net, faults, memory,
                     raced, misused, passed, armed, deferred, pc>>
  BY DEF UserLock, fsp, nic, history
<1>2. /\ lock' \in Users \cup {Bba, None} /\ waiters' \in Seq(Users \cup {Bba})
      /\ BusHeldByCoroutine' /\ (lock' = None => waiters' = <<>>)
      /\ BbaWaits => BbaWaits'
  <2>1. u # Bba /\ u # None
    BY FspClientAssumption
  <2>2. CASE lock = None
    <3>1. lock' = u /\ waiters' = waiters /\ pc' = pc
      BY <1>1, <2>2 DEF UserLock
    <3> QED BY <2>1, <2>2, <3>1, FspClientAssumption
            DEF IInv, TypeOK, BusInv, BusHeldByCoroutine, BbaWaits
  <2>3. CASE lock # None
    <3>1. waiters' = Append(waiters, u) /\ lock' = lock /\ pc' = pc
      BY <1>1, <2>3 DEF UserLock
    <3>2. /\ waiters' \in Seq(Users \cup {Bba}) /\ Len(waiters') = Len(waiters) + 1
          /\ \A k \in 1..Len(waiters) : waiters'[k] = waiters[k]
          /\ Len(waiters) \in Nat
      BY <3>1, AppendProperties, LenProperties DEF IInv, TypeOK
    <3> QED BY <2>3, <3>1, <3>2 DEF IInv, TypeOK, BusInv, BusHeldByCoroutine, BbaWaits
  <2> QED BY <2>2, <2>3
<1>3. TypeOK'
  BY <1>1, <1>2 DEF IInv, TypeOK
<1>4. QueueInv' /\ DoneInv' /\ FrameInv' /\ BufferInv' /\ ShortInv'
  BY <1>1, ReadsSame DEF IInv
<1>5. BusInv' /\ ProgressInv'
  BY <1>1, <1>2 DEF IInv, BusInv, ProgressInv
<1> QED BY <1>3, <1>4, <1>5 DEF IInv

(* The coroutine or a driver of the game gives the bus back. *)
LEMMA UnlockStep ==
    ASSUME IInv, ExiUnlock, pc \in {"off", "status", "ack"}, ri' \in BOOLEAN,
           UNCHANGED <<queue, queued, asked, sequence, target, ring, net, faults, memory,
                       raced, misused, passed, armed, deferred>>
    PROVE  IInv'
<1>1. /\ lock' \in Users \cup {Bba, None} /\ waiters' \in Seq(Users \cup {Bba})
      /\ pc' \in {"off", "start"}
      /\ BusHeldByCoroutine' /\ (lock' = None => waiters' = <<>>)
      /\ BbaWaits => pc' = "start" \/ BbaWaits'
  BY UnlockIs DEF IInv
<1>2. TypeOK'
  BY <1>1 DEF IInv, TypeOK, Yields
<1>3. QueueInv' /\ DoneInv' /\ FrameInv' /\ BufferInv' /\ ShortInv'
  BY <1>1, ReadsSame DEF IInv, Calm
<1>4. BusInv'
  <2>1. deferred' => BbaWaits
    BY DEF IInv, BusInv
  <2>2. deferred' => pc' \in {"start", "sendcb", "crashed"} \/ BbaWaits'
    BY <1>1, <2>1
  <2> QED BY <1>1, <2>2 DEF BusInv
<1>5. ProgressInv'
  BY <1>1 DEF IInv, ProgressInv
<1> QED BY <1>2, <1>3, <1>4, <1>5 DEF IInv

LEMMA UserUnlockStep == ASSUME IInv, NEW u \in Users, UserUnlock(u) PROVE IInv'
<1>1. /\ ExiUnlock /\ pc = "off"
      /\ UNCHANGED <<queue, queued, asked, sequence, target, ring, ri, net, faults, memory,
                     raced, misused, passed, armed, deferred>>
  BY DEF UserUnlock, fsp, nic, history
<1>2. ri' \in BOOLEAN
  BY <1>1 DEF IInv, TypeOK
<1> QED BY <1>1, <1>2, UnlockStep

LEMMA AckStep == ASSUME IInv, Ack PROVE IInv'
<1>1. /\ ExiUnlock /\ pc = "ack" /\ ri' = FALSE
      /\ UNCHANGED <<queue, queued, asked, sequence, target, ring, net, faults, memory,
                     raced, misused, passed, armed, deferred>>
  BY DEF Ack, fsp, history
<1> QED BY <1>1, UnlockStep

(* The coroutine goes on within a handler and does nothing else. *)
LEMMA CalmStep ==
    ASSUME IInv, {pc, pc'} \subseteq Calm \ {"off"}, pc # "crashed",
           pc' = "header" => ring # <<>>,
           pc' = "crashed" \/ ~deferred \/ pc # "start",
           UNCHANGED <<queue, queued, asked, sequence, target, ring, ri, net, faults, memory,
                       raced, misused, passed, armed, deferred, lock, waiters>>
    PROVE  IInv'
<1>1. TypeOK'
  BY DEF IInv, TypeOK, Calm, Yields
<1>2. QueueInv' /\ DoneInv' /\ FrameInv' /\ BufferInv' /\ ShortInv'
  BY ReadsSame DEF IInv, Calm
<1>3. BusInv'
  BY DEF IInv, BusInv, BusHeldByCoroutine, BbaWaits, Calm
<1>4. ProgressInv'
  BY DEF IInv, ProgressInv, Calm
<1> QED BY <1>1, <1>2, <1>3, <1>4 DEF IInv

LEMMA StatusStep == ASSUME IInv, Status PROVE IInv'
<1>1. /\ pc = "status"
      /\ UNCHANGED <<queue, queued, asked, sequence, target, ring, ri, net, faults, memory,
                     raced, misused, passed, armed, deferred>>
  BY DEF Status, fsp, nic, history
<1>2. CASE ri
  <2>1. pc' = "receive" /\ UNCHANGED <<lock, waiters>>
    BY <1>2 DEF Status, bus
  <2> QED BY <1>1, <2>1, CalmStep DEF Calm
<1>3. CASE ~ri
  <2>1. ExiUnlock /\ ri' \in BOOLEAN
    BY <1>1, <1>3 DEF Status, IInv, TypeOK
  <2> QED BY <1>1, <2>1, UnlockStep
<1> QED BY <1>2, <1>3

LEMMA ReceiveStep == ASSUME IInv, Receive PROVE IInv'
<1>1. /\ pc = "receive" /\ pc' \in {"header", "ack"} /\ (pc' = "header" => ring # <<>>)
      /\ UNCHANGED <<queue, queued, asked, sequence, target, ring, ri, net, faults, memory,
                     raced, misused, passed, armed, deferred, lock, waiters>>
  BY DEF Receive, fsp, nic, history, bus
<1> QED BY <1>1, CalmStep DEF Calm

-----------------------------------------------------------------------------
(* The network *)

(* Frames are lost, arrive, or arrive and stay on their way. *)
LEMMA NetStep ==
    ASSUME IInv, net' \subseteq net, ring' \in Seq(Frame), InFlight' \subseteq InFlight,
           ring # <<>> => ring' # <<>>, ri' \in BOOLEAN, faults' \in 0..MaxFaults,
           UNCHANGED <<queue, queued, asked, sequence, target, memory, raced, misused, passed, armed,
                       deferred, pc, lock, waiters>>
    PROVE  IInv'
<1>1. TypeOK'
  BY DEF IInv, TypeOK
<1>2. QueueInv' /\ DoneInv' /\ FrameInv' /\ BufferInv' /\ ShortInv'
  BY ReadsKept DEF IInv
<1>3. BusInv'
  BY DEF IInv, BusInv, BusHeldByCoroutine, BbaWaits
<1>4. ProgressInv'
  BY DEF IInv, ProgressInv
<1> QED BY <1>1, <1>2, <1>3, <1>4 DEF IInv

LEMMA DeliverStep ==
    ASSUME IInv, NEW m \in net, NEW again \in BOOLEAN, Deliver(m, again)
    PROVE  IInv'
<1>1. /\ ring' = Append(ring, m) /\ ri' = TRUE
      /\ UNCHANGED <<queue, queued, asked, sequence, target, memory, raced, misused, passed, armed,
                     deferred, pc, lock, waiters>>
  BY DEF Deliver, fsp, history, bus
<1>2. net' \subseteq net /\ faults' \in 0..MaxFaults
  BY FspClientAssumption DEF Deliver, IInv, TypeOK
<1>3. /\ ring' \in Seq(Frame) /\ Len(ring') = Len(ring) + 1 /\ ring'[Len(ring) + 1] = m
      /\ \A k \in 1..Len(ring) : ring'[k] = ring[k]
      /\ Len(ring) \in Nat
  BY <1>1, AppendProperties, LenProperties DEF IInv, TypeOK
<1>4. InFlight' \subseteq InFlight
  <2>1. ASSUME NEW k \in 1..Len(ring') PROVE ring'[k] \in InFlight
    <3>1. CASE k \in 1..Len(ring)
      BY <1>3, <3>1 DEF InFlight
    <3>2. CASE k = Len(ring) + 1
      BY <1>3, <3>2 DEF InFlight
    <3> QED BY <1>3, <3>1, <3>2
  <2> QED BY <1>2, <2>1 DEF InFlight
<1>5. ring' # <<>>
  BY <1>3, EmptySeq
<1> QED BY <1>1, <1>2, <1>3, <1>4, <1>5, NetStep

LEMMA LoseStep == ASSUME IInv, NEW m \in net, Lose(m) PROVE IInv'
<1>1. /\ net' \subseteq net /\ ring' = ring /\ ri' = ri
      /\ UNCHANGED <<queue, queued, asked, sequence, target, memory, raced, misused, passed, armed,
                     deferred, pc, lock, waiters>>
  BY DEF Lose, fsp, history, bus
<1>2. faults' \in 0..MaxFaults /\ ring' \in Seq(Frame) /\ ri' \in BOOLEAN
  BY <1>1, FspClientAssumption DEF Lose, IInv, TypeOK
<1>3. InFlight' \subseteq InFlight
  BY <1>1 DEF InFlight
<1> QED BY <1>1, <1>2, <1>3, NetStep

-----------------------------------------------------------------------------
(* Lemmas about requests *)

(* A new request has a number that nothing on its way has. *)
LEMMA SendIs ==
    ASSUME TypeOK, FrameInv, NEW r \in Request, Send(r), InFlight' \subseteq InFlight
    PROVE  /\ asked' \in Frame /\ asked' # None /\ sequence' \in Nat
           /\ asked' = [sequence |-> sequence', file |-> r.file,
                        position |-> r.position + r.offset]
           /\ \A m \in InFlight' : m.sequence <= sequence' /\ m.sequence # sequence'
<1>1. /\ sequence \in Nat /\ sequence' = sequence + 1
      /\ asked' = [sequence |-> sequence', file |-> r.file,
                   position |-> r.position + r.offset]
  BY DEF TypeOK, Send, Asking
<1>2. r.file \in Files /\ r.position + r.offset \in Nat
  BY DEF Request
<1>3. asked' \in Frame
  BY <1>1, <1>2 DEF Frame
<1>4. ASSUME NEW m \in InFlight' PROVE m.sequence <= sequence' /\ m.sequence # sequence'
  <2>1. m.sequence <= sequence /\ m \in Frame
    <3>1. m \in InFlight /\ \A k \in 1..Len(ring) : ring[k] \in Frame
      BY ElementOfSeq DEF TypeOK
    <3> QED BY <3>1 DEF FrameInv, InFlight, TypeOK
  <2>2. m.sequence \in Nat
    BY <2>1 DEF Frame
  <2> QED BY <1>1, <2>1, <2>2
<1> QED BY <1>1, <1>3, <1>4, FspClientAssumption

(* The request is on its way, and its alarm is set. *)
LEMMA SentIs ==
    ASSUME TypeOK, FrameInv, Sent, pc \in {"sendcb", "sendnext", "sendpop"},
           pc' \notin {"sendcb", "sendnext", "sendpop", "header"},
           UNCHANGED <<queue, queued, asked, sequence, ring>>
    PROVE  /\ armed' = TRUE /\ misused' \in BOOLEAN /\ net' \subseteq Frame
           /\ asked' # None /\ FrameInv' /\ ProgressInv'
<1>1. /\ asked # None /\ asked \in Frame /\ asked.sequence = sequence /\ sequence \in Nat
  BY DEF FrameInv, TypeOK
<1>2. net' = net \cup {asked} /\ armed' = TRUE /\ misused' = (misused \/ armed)
  BY DEF Sent
<1>3. misused' \in BOOLEAN /\ net' \subseteq Frame
  BY <1>1, <1>2 DEF TypeOK
<1>4. InFlight' = InFlight \cup {asked}
  BY <1>2 DEF InFlight
<1>5. ASSUME NEW m \in InFlight'
      PROVE  m.sequence <= sequence /\ (m.sequence = sequence => m = asked)
  BY <1>1, <1>4, <1>5 DEF FrameInv
<1>6. FrameInv'
  BY <1>1, <1>5 DEF FrameInv
<1> QED BY <1>1, <1>2, <1>3, <1>6 DEF ProgressInv

LEMMA SentCallbackStep == ASSUME IInv, SentCallback PROVE IInv'
<1>1. /\ pc = "sendcb" /\ pc' = "status" /\ Sent /\ deferred' = FALSE /\ raced' = FALSE
      /\ UNCHANGED <<queue, queued, asked, sequence, target, ring, ri, faults, memory, passed,
                     lock, waiters>>
  BY DEF SentCallback, fsp, bus
<1>2. /\ armed' = TRUE /\ misused' \in BOOLEAN /\ net' \subseteq Frame
      /\ FrameInv' /\ ProgressInv'
  BY <1>1, SentIs DEF IInv
<1>3. TypeOK'
  BY <1>1, <1>2 DEF IInv, TypeOK
<1>4. Occupied' = Occupied
  BY <1>1 DEF Occupied
<1>5. QueueInv' /\ DoneInv' /\ ShortInv'
  BY <1>1, <1>4 DEF IInv, QueueInv, DoneInv, ShortInv
<1>6. BufferInv'
  BY <1>1, <1>4 DEF IInv, BufferInv, BufferIsFile
<1>7. BusInv'
  BY <1>1 DEF IInv, BusInv, BusHeldByCoroutine
<1> QED BY <1>2, <1>3, <1>5, <1>6, <1>7 DEF IInv

LEMMA SentNextStep == ASSUME IInv, SentNext PROVE IInv'
<1>1. /\ pc = "sendnext" /\ pc' = "payload" /\ Sent
      /\ UNCHANGED <<queue, queued, asked, sequence, target, ring, ri, faults, memory, passed,
                     lock, waiters, deferred, raced>>
  BY DEF SentNext, fsp, bus
<1>2. /\ armed' = TRUE /\ misused' \in BOOLEAN /\ net' \subseteq Frame /\ asked' # None
      /\ FrameInv' /\ ProgressInv'
  BY <1>1, SentIs DEF IInv
<1>3. TypeOK'
  BY <1>1, <1>2 DEF IInv, TypeOK, Yields
<1>4. Occupied' = Occupied
  BY <1>1 DEF Occupied
<1>5. QueueInv' /\ DoneInv' /\ ShortInv'
  BY <1>1, <1>2, <1>4 DEF IInv, QueueInv, DoneInv, ShortInv
<1>6. BufferInv'
  BY <1>1, <1>4 DEF IInv, BufferInv, BufferIsFile, LastOf
<1>7. BusInv'
  BY <1>1 DEF IInv, BusInv, BusHeldByCoroutine, BbaWaits
<1> QED BY <1>2, <1>3, <1>5, <1>6, <1>7 DEF IInv

LEMMA SentPopStep == ASSUME IInv, SentPop PROVE IInv'
<1>1. /\ pc = "sendpop" /\ pc' = "receive" /\ Sent
      /\ UNCHANGED <<queue, queued, asked, sequence, target, ring, ri, faults, memory, passed,
                     lock, waiters, deferred, raced>>
  BY DEF SentPop, fsp, bus
<1>2. /\ armed' = TRUE /\ misused' \in BOOLEAN /\ net' \subseteq Frame
      /\ FrameInv' /\ ProgressInv'
  BY <1>1, SentIs DEF IInv
<1>3. TypeOK'
  BY <1>1, <1>2 DEF IInv, TypeOK
<1>4. Occupied' = Occupied
  BY <1>1 DEF Occupied
<1>5. QueueInv' /\ DoneInv' /\ ShortInv'
  BY <1>1, <1>4 DEF IInv, QueueInv, DoneInv, ShortInv
<1>6. BufferInv'
  BY <1>1, <1>4 DEF IInv, BufferInv, BufferIsFile
<1>7. BusInv'
  BY <1>1 DEF IInv, BusInv, BusHeldByCoroutine, BbaWaits
<1> QED BY <1>2, <1>3, <1>5, <1>6, <1>7 DEF IInv

LEMMA StartStep == ASSUME IInv, Start PROVE IInv'
<1>1. /\ pc = "start"
      /\ UNCHANGED <<queue, queued, target, ring, ri, net, faults, memory, raced, misused, passed,
                     armed, deferred, lock, waiters>>
  BY DEF Start, nic, history, bus
<1>2. CASE ~deferred \/ queued = None
  <2>1. /\ pc' \in {"status", "crashed"} /\ (pc' = "crashed" \/ ~deferred)
        /\ UNCHANGED <<asked, sequence>>
    BY <1>2 DEF Start
  <2> QED BY <1>1, <2>1, CalmStep DEF Calm
<1>3. CASE deferred /\ queued # None
  <2>1. pc' = "sendcb" /\ Send(queue[queued])
    BY <1>3 DEF Start
  <2>2. queue[queued] \in Request
    BY <1>3, CurrentIs DEF IInv
  <2>3. InFlight' = InFlight /\ Occupied' = Occupied
    BY <1>1 DEF InFlight, Occupied
  <2>4. /\ asked' \in Frame /\ asked' # None /\ sequence' \in Nat
        /\ asked' = [sequence |-> sequence', file |-> queue[queued].file,
                     position |-> queue[queued].position + queue[queued].offset]
        /\ \A m \in InFlight' : m.sequence <= sequence' /\ m.sequence # sequence'
    BY <2>1, <2>2, <2>3, SendIs DEF IInv
  <2>5. TypeOK'
    BY <1>1, <2>1, <2>4 DEF IInv, TypeOK, Yields
  <2>6. FrameInv'
    BY <1>1, <1>3, <2>4 DEF FrameInv
  <2>7. QueueInv' /\ DoneInv' /\ ShortInv'
    BY <1>1, <1>3, <2>1, <2>3 DEF IInv, QueueInv, DoneInv, ShortInv
  <2>8. BufferInv'
    BY <1>1, <2>1, <2>3 DEF IInv, BufferInv, BufferIsFile
  <2>9. BusInv' /\ ProgressInv'
    BY <1>1, <2>1 DEF IInv, BusInv, BusHeldByCoroutine, ProgressInv
  <2> QED BY <2>5, <2>6, <2>7, <2>8, <2>9 DEF IInv
<1> QED BY <1>2, <1>3

-----------------------------------------------------------------------------
(* The payload arrives *)

LEMMA PayloadStep == ASSUME IInv, Payload PROVE IInv'
<1> DEFINE c == target.client
           n == target.offset + 1
           old == memory[c]
           new == [k \in 1..n |-> IF k = n THEN target.data
                                  ELSE IF k \in 1..Len(old) THEN old[k] ELSE None]
<1>1. /\ pc = "payload" /\ pc' = "check"
      /\ memory' = [memory EXCEPT ![c] = new]
      /\ UNCHANGED <<queue, queued, asked, sequence, target, ring, ri, net, faults, raced, misused,
                     passed, armed, deferred, lock, waiters>>
  BY DEF Payload, fsp, nic, history, bus
<1>2. PICK i \in Occupied : queue[i].offset >= 1 /\ target = LastOf(queue[i])
  BY <1>1 DEF IInv, BufferInv
<1>3. i \in Slots /\ queue[i] \in Request /\ queue[i] # None
  BY <1>2 DEF Occupied, IInv, TypeOK
<1>4. /\ c = queue[i].client /\ c \in Clients
      /\ n = queue[i].offset /\ n \in Nat
      /\ target.offset = queue[i].offset - 1
      /\ target.data = Content(queue[i].file, queue[i].position + queue[i].offset - 1)
      /\ target.data \in Packet
  <2>1. /\ target = [client |-> queue[i].client, offset |-> queue[i].offset - 1,
                     data |-> Content(queue[i].file, queue[i].position + queue[i].offset - 1)]
    BY <1>2 DEF LastOf
  <2>2. queue[i].client \in Clients /\ queue[i].offset \in Nat /\ queue[i].position \in Nat
        /\ queue[i].file \in Files
    BY <1>3 DEF Request
  <2>3. queue[i].position + queue[i].offset - 1 \in Nat
    BY <1>2, <2>2
  <2>4. target.data \in Packet
    BY <2>1, <2>2, <2>3 DEF Content, Packet
  <2> QED BY <2>1, <2>2, <2>4
<1>5. old \in Seq(Packet \cup {None}) /\ Len(old) \in Nat
      /\ \A k \in 1..Len(old) : old[k] \in Packet \cup {None}
  <2>1. old \in Seq(Packet \cup {None})
    BY <1>4 DEF IInv, TypeOK
  <2> QED BY <2>1, LenProperties, ElementOfSeq
<1>6. new \in Seq(Packet \cup {None}) /\ Len(new) = n
  <2>1. ASSUME NEW k \in 1..n
        PROVE  (IF k = n THEN target.data ELSE IF k \in 1..Len(old) THEN old[k] ELSE None)
                  \in Packet \cup {None}
    BY <1>4, <1>5
  <2>2. new \in [1..n -> Packet \cup {None}]
    BY <2>1
  <2> QED BY <1>4, <2>2
<1>7. memory' \in [Clients -> Seq(Packet \cup {None})]
      /\ memory'[c] = new /\ \A d \in Clients : d # c => memory'[d] = memory[d]
  <2> HIDE DEF new, c
  <2> QED BY <1>1, <1>4, <1>6 DEF IInv, TypeOK
<1>8. TypeOK'
  BY <1>1, <1>7 DEF IInv, TypeOK
<1>9. Occupied' = Occupied /\ InFlight' = InFlight
  BY <1>1 DEF Occupied, InFlight
<1>10. QueueInv' /\ DoneInv' /\ ShortInv'
  BY <1>1, <1>9 DEF IInv, QueueInv, DoneInv, ShortInv
<1>11. FrameInv'
  BY <1>1, <1>9 DEF IInv, FrameInv
<1>12. BusInv'
  BY <1>1 DEF IInv, BusInv, BusHeldByCoroutine, BbaWaits
<1>13. ProgressInv'
  BY <1>1 DEF IInv, ProgressInv
<1>14. ASSUME NEW j \in Occupied, NEW k \in 1..queue[j].offset
       PROVE  /\ k \in 1..Len(memory'[queue[j].client])
              /\ memory'[queue[j].client][k]
                    = Content(queue[j].file, queue[j].position + k - 1)
  <2>1. queue[j] \in Request /\ queue[j].offset \in Nat /\ queue[j].client \in Clients
        /\ k \in Nat
    <3>1. queue[j] \in Request
      BY DEF Occupied, IInv, TypeOK
    <3> QED BY <3>1 DEF Request
  <2>2. \/ /\ k \in 1..Len(memory[queue[j].client])
           /\ memory[queue[j].client][k] = Content(queue[j].file, queue[j].position + k - 1)
        \/ target.client = queue[j].client /\ target.offset = k - 1
    <3>1. BufferIsFile
      BY DEF IInv, BufferInv
    <3> QED BY <3>1 DEF BufferIsFile
  <2>3. CASE j = i
    <3>1. k \in 1..n
      BY <1>4, <2>3
    <3>2. CASE k = n
      BY <1>4, <1>6, <1>7, <2>3, <3>1, <3>2
    <3>3. CASE k # n
      <4>1. k \in 1..Len(old) /\ old[k] = Content(queue[j].file, queue[j].position + k - 1)
        BY <1>4, <2>1, <2>2, <2>3, <3>3
      <4>2. new[k] = old[k]
        BY <3>1, <3>3, <4>1
      <4> QED BY <1>4, <1>6, <1>7, <2>3, <3>1, <4>1, <4>2
    <3> QED BY <3>2, <3>3
  <2>4. CASE j # i
    <3>1. queue[j].client # c
      BY <1>2, <1>4, <2>4 DEF IInv, QueueInv
    <3> QED BY <1>7, <2>1, <2>2, <3>1
  <2> QED BY <2>3, <2>4
<1>15. BufferInv'
  BY <1>1, <1>9, <1>14 DEF BufferInv, BufferIsFile
<1> QED BY <1>8, <1>10, <1>11, <1>12, <1>13, <1>15 DEF IInv

-----------------------------------------------------------------------------
(* A read is put into the queue *)

LEMMA SubmitStep ==
    ASSUME IInv, NEW c \in Clients, NEW r \in Reads(c), Submit(c, r)
    PROVE  IInv'
<1>1. /\ pc \in Yields /\ queue' = Put(queue, r)
      /\ memory' = [memory EXCEPT ![c] = <<>>] /\ passed' = [passed EXCEPT ![c] = 0]
      /\ UNCHANGED <<asked, sequence, armed, target, ring, ri, net, faults, raced, misused>>
  BY DEF Submit, nic
<1>2. \A i \in Occupied : queue[i].client # c
  BY DEF Submit, Waiting
<1>3. /\ r \in Request /\ r # None /\ r.client = c /\ r.offset = 0
      /\ r.length \in Length[c] /\ r.offset <= r.length
      /\ r.length = 0 => r.short
  BY ReadsAre
<1>4. /\ memory' \in [Clients -> Seq(Packet \cup {None})]
      /\ \A d \in Clients : d # c => memory'[d] = memory[d]
      /\ passed' \in [Clients -> Nat] /\ passed'[c] = 0
      /\ \A d \in Clients : d # c => passed'[d] = passed[d]
  <2>1. <<>> \in Seq(Packet \cup {None})
    BY EmptySeq
  <2> QED BY <1>1, <2>1 DEF IInv, TypeOK
<1>5. InFlight' = InFlight
  BY <1>1 DEF InFlight
<1>6. \A i \in Occupied : i \in Slots /\ queue[i] # None /\ queue[i] \in Request
                          /\ queue[i].client \in Clients
  <2>1. \A i \in Occupied : i \in Slots /\ queue[i] # None /\ queue[i] \in Request
    BY DEF Occupied, IInv, TypeOK
  <2> QED BY <2>1 DEF Request
(* What is true of the old reads and of the new one. *)
<1>7. ASSUME NEW s \in Slots, queue[s] = None, queue' = [queue EXCEPT ![s] = r]
      PROVE  /\ queue' \in [Slots -> Request \cup {None}]
             /\ Occupied' = Occupied \cup {s} /\ s \notin Occupied
             /\ queue'[s] = r
             /\ \A i \in Occupied : queue'[i] = queue[i]
  BY <1>3, <1>7 DEF IInv, TypeOK, Occupied
<1>8. CASE queued = None
  <2>1. Occupied = {} /\ asked = None /\ pc \in {"off", "header"}
    BY <1>1, <1>8 DEF IInv, QueueInv, FrameInv, Yields
  <2>2. Free = Slots /\ Free # {} /\ First(Free) \in Slots /\ queue[First(Free)] = None
    <3>1. Free = Slots
      BY <2>1 DEF Free, Occupied
    <3>2. 1 \in Slots
      BY FspClientAssumption DEF Slots
    <3>3. First(Free) \in Free
      BY <3>1, <3>2, FirstIsIn
    <3> QED BY <3>1, <3>2, <3>3 DEF Free
  <2> DEFINE s == First(Free)
  <2>3. queued' = s /\ Defer /\ queue' = [queue EXCEPT ![s] = r]
    BY <1>1, <1>8, <2>2 DEF Submit, Put
  <2> HIDE DEF s
  <2>4. /\ queue' \in [Slots -> Request \cup {None}] /\ Occupied' = {s} /\ queue'[s] = r
        /\ s \in Slots /\ queued' = s /\ s # None
    <3>1. s \in Slots /\ queue[s] = None
      BY <2>2 DEF s
    <3>2. s # None
      BY <3>1, FspClientAssumption DEF Slots
    <3> QED BY <1>7, <2>1, <2>3, <3>1, <3>2
  <2>5. /\ lock' \in Users \cup {Bba, None} /\ waiters' \in Seq(Users \cup {Bba})
        /\ (pc = "off" /\ pc' = "start") \/ pc' = pc
        /\ deferred' = TRUE /\ BusInv'
    BY <1>1, <2>3, DeferIs DEF IInv
  <2>6. pc' \in {"off", "start", "header"}
    BY <2>1, <2>5
  <2>7. TypeOK'
    BY <1>1, <1>4, <2>4, <2>5, <2>6 DEF IInv, TypeOK, Yields
  <2>8. QueueInv'
    BY <1>3, <2>4, <2>6 DEF QueueInv
  <2>9. DoneInv'
    BY <1>3, <2>4, <2>6 DEF DoneInv
  <2>10. FrameInv'
    BY <1>1, <1>5, <2>1, <2>6 DEF IInv, FrameInv
  <2>11. BufferInv'
    BY <1>3, <2>4, <2>6 DEF BufferInv, BufferIsFile
  <2>12. ShortInv'
    BY <1>3, <1>4, <2>4 DEF ShortInv
  <2>13. ProgressInv'
    BY <1>1, <2>1, <2>5 DEF IInv, ProgressInv
  <2> QED BY <2>5, <2>7, <2>8, <2>9, <2>10, <2>11, <2>12, <2>13 DEF IInv
<1>9. CASE queued # None
  <2>1. UNCHANGED <<queued, deferred, lock, waiters, pc>>
    BY <1>9 DEF Submit, bus
  <2>2. queued \in Occupied /\ queued \in Slots
    BY <1>9, CurrentIs DEF IInv
  <2>3. /\ queue' \in [Slots -> Request \cup {None}]
        /\ Occupied \subseteq Occupied'
        /\ \A i \in Occupied : queue'[i] = queue[i]
        /\ \A i \in Occupied' \ Occupied : queue'[i] = r
        /\ \A i, j \in Occupied' \ Occupied : i = j
        /\ \A i \in Occupied' : i \in Slots /\ queue'[i] # None
    <3>1. CASE queue' = queue
      BY <1>6, <3>1 DEF IInv, TypeOK, Occupied
    <3>2. CASE \E s \in Slots : queue[s] = None /\ queue' = [queue EXCEPT ![s] = r]
      <4>1. PICK s \in Slots : queue[s] = None /\ queue' = [queue EXCEPT ![s] = r]
        BY <3>2
      <4> QED BY <1>3, <1>6, <1>7, <4>1
    <3> QED BY <1>1, <3>1, <3>2, PutIs
  <2>4. TypeOK'
    BY <1>1, <1>4, <2>1, <2>3 DEF IInv, TypeOK
  <2>5. QueueInv'
    <3>1. \A i, j \in Occupied' : queue'[i].client = queue'[j].client => i = j
      BY <1>2, <1>3, <2>3 DEF IInv, QueueInv
    <3>2. \A i \in Occupied' : /\ queue'[i].length \in Length[queue'[i].client]
                               /\ queue'[i].offset <= queue'[i].length
      BY <1>3, <2>3 DEF IInv, QueueInv
    <3>3. queued' # None /\ queue'[queued'] # None
      BY <1>9, <2>1, <2>2, <2>3
    <3> QED BY <3>1, <3>2, <3>3 DEF QueueInv
  <2>6. DoneInv'
    <3>1. \A i \in Occupied' :
              queue'[i].offset = queue'[i].length =>
                  \/ queue'[i].length = 0
                  \/ i = queued' /\ asked' = None /\ pc' \in {"payload", "check"}
      BY <1>1, <1>3, <2>1, <2>3 DEF IInv, DoneInv
    <3>2. pc' \in {"sendnext", "payload", "check"} /\ asked' # None =>
              \E i \in Occupied' : queue'[i].offset # queue'[i].length
      BY <1>1, <2>1, <2>3 DEF IInv, DoneInv
    <3>3. pc' \in {"payload", "check"} /\ asked' = None =>
              queue'[queued'].offset = queue'[queued'].length
      BY <1>1, <2>1, <2>2, <2>3 DEF IInv, DoneInv
    <3> QED BY <3>1, <3>2, <3>3 DEF DoneInv
  <2>7. FrameInv'
    BY <1>1, <1>5, <2>1, <2>2, <2>3 DEF IInv, FrameInv
  <2>8. BufferInv'
    <3>1. ASSUME NEW i \in Occupied', NEW k \in 1..queue'[i].offset
          PROVE  \/ /\ k \in 1..Len(memory'[queue'[i].client])
                    /\ memory'[queue'[i].client][k]
                          = Content(queue'[i].file, queue'[i].position + k - 1)
                 \/ /\ target' # None /\ pc' \in {"sendnext", "payload"}
                    /\ target' = [client |-> queue'[i].client, offset |-> k - 1,
                           data |-> Content(queue'[i].file, queue'[i].position + k - 1)]
      <4>1. CASE i \in Occupied
        <5>1. queue'[i] = queue[i] /\ memory'[queue[i].client] = memory[queue[i].client]
          BY <1>2, <1>4, <1>6, <2>3, <4>1
        <5>2. BufferIsFile
          BY DEF IInv, BufferInv
        <5> QED BY <1>1, <2>1, <4>1, <5>1, <5>2 DEF BufferIsFile
      <4>2. CASE i \notin Occupied
        BY <1>3, <2>3, <4>2
      <4> QED BY <4>1, <4>2
    <3>2. pc' \in {"sendnext", "payload"} =>
              \E i \in Occupied' : queue'[i].offset >= 1 /\ target' = LastOf(queue'[i])
      BY <1>1, <2>1, <2>3 DEF IInv, BufferInv
    <3> QED BY <3>1, <3>2 DEF BufferInv, BufferIsFile, LastOf
  <2>9. ShortInv'
    <3>1. ASSUME NEW i \in Occupied', queue'[i].short
          PROVE  \/ passed'[queue'[i].client] = 0
                 \/ /\ passed'[queue'[i].client] = 1
                    /\ queue'[queued'].short \/ (asked' = None /\ pc' \in {"payload", "check"})
      <4>1. CASE i \in Occupied
        <5>1. queue'[i] = queue[i] /\ passed'[queue[i].client] = passed[queue[i].client]
              /\ queue'[queued'] = queue[queued]
          BY <1>2, <1>4, <1>6, <2>1, <2>2, <2>3, <4>1
        <5> QED BY <1>1, <2>1, <3>1, <4>1, <5>1 DEF IInv, ShortInv
      <4>2. CASE i \notin Occupied
        BY <1>3, <1>4, <2>3, <4>2
      <4> QED BY <4>1, <4>2
    <3> QED BY <3>1 DEF ShortInv
  <2>10. BusInv'
    BY <1>1, <2>1 DEF IInv, BusInv, BusHeldByCoroutine, BbaWaits
  <2>11. ProgressInv'
    BY <1>1, <2>1 DEF IInv, ProgressInv
  <2> QED BY <2>4, <2>5, <2>6, <2>7, <2>8, <2>9, <2>10, <2>11 DEF IInv
<1> QED BY <1>8, <1>9

-----------------------------------------------------------------------------
(* An answer *)

LEMMA HeaderStep == ASSUME IInv, Header PROVE IInv'
<1> DEFINE m    == Head(ring)
           r    == queue[queued]
           size == IF r.length = 0 THEN 0 ELSE 1
           q    == [queue EXCEPT ![queued].offset = @ + size]
<1>1. /\ pc = "header" /\ ring' = Tail(ring) /\ ring # <<>>
      /\ UNCHANGED <<deferred, lock, waiters, ri, net, faults, memory, raced, misused>>
  BY DEF Header, bus, IInv, ProgressInv
<1>2. m \in InFlight /\ ring' \in Seq(Frame) /\ InFlight' \subseteq InFlight
  <2>1. /\ Len(ring) \in Nat /\ Len(ring) # 0 /\ m = ring[1]
        /\ ring' \in Seq(Frame) /\ Len(ring') = Len(ring) - 1
        /\ \A k \in 1..Len(ring') : ring'[k] = ring[k + 1]
    BY <1>1, HeadTailProperties, LenProperties, EmptySeq DEF IInv, TypeOK
  <2>2. m \in InFlight
    BY <2>1 DEF InFlight
  <2>3. ASSUME NEW k \in 1..Len(ring') PROVE ring'[k] \in InFlight
    <3>1. k + 1 \in 1..Len(ring)
      BY <2>1
    <3> QED BY <2>1, <3>1 DEF InFlight
  <2> QED BY <1>1, <2>1, <2>2, <2>3 DEF InFlight
<1>3. BbaWaits' = BbaWaits /\ (deferred => BbaWaits)
  BY <1>1 DEF BbaWaits, IInv, BusInv
<1>4. CASE ~IsAnswer(m)
  <2>1. /\ pc' = "receive"
        /\ UNCHANGED <<queue, queued, asked, sequence, armed, target, passed>>
    BY <1>4 DEF Header, fsp
  <2>2. TypeOK'
    BY <1>1, <1>2, <2>1 DEF IInv, TypeOK
  <2>3. QueueInv' /\ DoneInv' /\ FrameInv' /\ BufferInv' /\ ShortInv'
    BY <1>1, <1>2, <2>1, ReadsKept DEF IInv, Calm
  <2>4. BusInv'
    BY <1>1, <1>3, <2>1 DEF IInv, BusInv, BusHeldByCoroutine
  <2>5. ProgressInv'
    BY <1>1, <2>1 DEF IInv, ProgressInv
  <2> QED BY <2>2, <2>3, <2>4, <2>5 DEF IInv
<1>5. CASE IsAnswer(m)
  <2>1. /\ asked # None /\ m = asked /\ queued # None
        /\ m.file = r.file /\ m.position = r.position + r.offset
    <3>1. asked # None /\ m.sequence = asked.sequence /\ asked.sequence = sequence
      BY <1>5 DEF IsAnswer, IInv, FrameInv
    <3> QED BY <1>2, <3>1 DEF IInv, FrameInv
  <2>2. /\ queued \in Occupied /\ queued \in Slots /\ r \in Request /\ r # None
    BY <2>1, CurrentIs DEF IInv, Occupied
  <2>3. /\ r.client \in Clients /\ r.offset \in Nat /\ r.length \in Nat /\ r.position \in Nat
        /\ r.file \in Files /\ size \in {0, 1}
        /\ r.offset <= r.length /\ (r.offset = r.length => r.length = 0)
        /\ r.offset + size <= r.length
        /\ (size = 0 => r.length = 0 /\ r.offset = 0)
    <3>1. /\ r.client \in Clients /\ r.offset \in Nat /\ r.length \in Nat /\ r.position \in Nat
          /\ r.file \in Files
      BY <2>2 DEF Request
    <3>2. r.offset <= r.length /\ (r.offset = r.length => r.length = 0)
      BY <1>1, <2>2 DEF IInv, QueueInv, DoneInv
    <3> QED BY <3>1, <3>2
  <2>4. /\ queue' = q /\ armed' = FALSE
        /\ passed' = IF r.short THEN passed ELSE [c \in Clients |-> passed[c] + 1]
        /\ target' = [client |-> r.client, offset |-> r.offset,
                      data |-> Content(m.file, m.position)]
        /\ IF r.offset + size # r.length
           THEN queued' = Pop(q) /\ Send(q[Pop(q)]) /\ pc' = "sendnext"
           ELSE /\ asked' = None
                /\ pc' = IF size = 0 THEN "check" ELSE "payload"
                /\ UNCHANGED <<queued, sequence>>
    BY <1>5 DEF Header, CancelAlarm
  (* The queue after it: the current read is one packet further. *)
  <2>5. /\ q[queued] = [r EXCEPT !.offset = r.offset + size]
        /\ q[queued] \in Request
        /\ q \in [Slots -> Request \cup {None}]
        /\ \A i \in Slots : i # queued => q[i] = queue[i]
    <3>1. [r EXCEPT !.offset = r.offset + size] \in Request
      BY <2>2, <2>3 DEF Request
    <3>2. q = [queue EXCEPT ![queued] = [r EXCEPT !.offset = r.offset + size]]
      BY <2>2 DEF IInv, TypeOK
    <3> QED BY <2>2, <3>1, <3>2 DEF IInv, TypeOK
  <2>6. /\ q[queued].client = r.client /\ q[queued].file = r.file
        /\ q[queued].position = r.position /\ q[queued].length = r.length
        /\ q[queued].short = r.short /\ q[queued].offset = r.offset + size
        /\ q[queued] # None
    BY <2>2, <2>5, FspClientAssumption DEF Request
  <2>7. \A i \in Slots : queue[i] # None =>
            /\ q[i].client = queue[i].client /\ q[i].file = queue[i].file
            /\ q[i].position = queue[i].position /\ q[i].length = queue[i].length
            /\ q[i].short = queue[i].short
    BY <2>5, <2>6
  <2> HIDE DEF q
  <2>8. Occupied' = Occupied
    BY <2>2, <2>4, <2>5, <2>6 DEF Occupied
  <2>9. \A i \in Occupied : i \in Slots /\ queue[i] # None /\ queue[i] \in Request
    BY DEF Occupied, IInv, TypeOK
  <2>10. target' \in Target
    <3>1. r.position + r.offset \in Nat
      BY <2>3
    <3> QED BY <2>1, <2>3, <2>4, <3>1 DEF Target, Packet, Content
  <2>11. passed' \in [Clients -> Nat]
    BY <2>4 DEF IInv, TypeOK
  <2>12. \A i \in Occupied : /\ q[i].length \in Length[q[i].client]
                             /\ q[i].offset <= q[i].length
    <3>1. \A i \in Occupied : /\ queue[i].length \in Length[queue[i].client]
                              /\ queue[i].offset <= queue[i].length
      BY DEF IInv, QueueInv
    <3>2. TAKE i \in Occupied
    <3>3. CASE i = queued
      BY <2>2, <2>3, <2>6, <3>1, <3>3
    <3>4. CASE i # queued
      BY <2>5, <2>9, <3>1, <3>4
    <3> QED BY <3>3, <3>4
  <2>13. \A i, j \in Occupied : q[i].client = q[j].client => i = j
    BY <2>7, <2>9 DEF IInv, QueueInv
  <2>14. ASSUME NEW i \in Occupied, NEW k \in 1..q[i].offset
         PROVE  \/ /\ k \in 1..Len(memory[q[i].client])
                   /\ memory[q[i].client][k] = Content(q[i].file, q[i].position + k - 1)
                \/ /\ size = 1 /\ i = queued /\ k = q[i].offset
                   /\ target' = [client |-> q[i].client, offset |-> k - 1,
                                 data |-> Content(q[i].file, q[i].position + k - 1)]
    <3>1. \A j \in Occupied : \A l \in 1..queue[j].offset :
              /\ l \in 1..Len(memory[queue[j].client])
              /\ memory[queue[j].client][l] = Content(queue[j].file, queue[j].position + l - 1)
      BY <1>1 DEF IInv, BufferInv, BufferIsFile
    <3>2. CASE i # queued
      BY <2>5, <2>9, <3>1, <3>2
    <3>3. CASE i = queued
      <4>1. k \in Nat /\ k >= 1 /\ k <= r.offset + size
        BY <2>3, <2>6, <3>3
      <4>2. CASE k <= r.offset
        <5>1. k \in 1..r.offset
          BY <2>3, <4>1, <4>2
        <5> QED BY <2>2, <2>6, <3>1, <3>3, <5>1
      <4>3. CASE ~(k <= r.offset)
        <5>1. size = 1 /\ k = r.offset + 1
          BY <2>3, <4>1, <4>3
        <5>2. k - 1 = r.offset /\ r.position + k - 1 = r.position + r.offset
          BY <2>3, <5>1
        <5> QED BY <2>1, <2>4, <2>6, <3>3, <5>1, <5>2
      <4> QED BY <4>2, <4>3
    <3> QED BY <3>2, <3>3
  <2>15. size = 1 => target' = LastOf(q[queued]) /\ q[queued].offset >= 1
    <3> SUFFICES ASSUME size = 1 PROVE target' = LastOf(q[queued]) /\ q[queued].offset >= 1
      OBVIOUS
    <3>1. PICK n \in Nat, p \in Nat : n = r.offset /\ p = r.position
      BY <2>3
    <3>2. q[queued].offset = n + 1 /\ q[queued].position = p
      BY <2>6, <3>1
    <3>3. target' = [client |-> r.client, offset |-> n, data |-> Content(r.file, p + n)]
      BY <2>1, <2>4, <3>1
    <3>4. n + 1 - 1 = n /\ n + 1 >= 1 /\ p + (n + 1) - 1 = p + n
      OBVIOUS
    <3>5. LastOf(q[queued]) = [client |-> r.client, offset |-> n + 1 - 1,
                               data |-> Content(r.file, p + (n + 1) - 1)]
      BY <2>6, <3>2 DEF LastOf
    <3> QED BY <3>2, <3>3, <3>4, <3>5
  (* A long read has passed the short ones for the first time. *)
  <2>16. ASSUME NEW i \in Occupied, queue[i].short
         PROVE  passed'[queue[i].client] \in {0, 1}
    <3>1. queue[i].client \in Clients /\ passed[queue[i].client] \in Nat
      <4>1. queue[i].client \in Clients
        BY <2>9 DEF Request
      <4> QED BY <4>1 DEF IInv, TypeOK
    <3>2. \/ passed[queue[i].client] = 0
          \/ passed[queue[i].client] = 1 /\ r.short
      BY <1>1, <2>16 DEF IInv, ShortInv
    <3> QED BY <2>4, <3>1, <3>2
  <2>17. CASE r.offset + size # r.length
    <3>1. queued' = Pop(q) /\ Send(q[Pop(q)]) /\ pc' = "sendnext" /\ size = 1
      BY <2>3, <2>4, <2>17
    <3>2. /\ Pop(q) \in Slots /\ q[Pop(q)] # None /\ q[Pop(q)] \in Request /\ Pop(q) # None
          /\ \A j \in Slots : q[j] # None /\ q[j].short => q[Pop(q)].short
      <4>1. Pop(q) \in Slots /\ q[Pop(q)] # None
            /\ \A j \in Slots : q[j] # None /\ q[j].short => q[Pop(q)].short
        BY <2>2, <2>6, PopIs
      <4> QED BY <2>5, <4>1, FspClientAssumption DEF Slots
    <3>3. /\ asked' \in Frame /\ asked' # None /\ sequence' \in Nat
          /\ asked' = [sequence |-> sequence', file |-> q[Pop(q)].file,
                       position |-> q[Pop(q)].position + q[Pop(q)].offset]
          /\ \A f \in InFlight' : f.sequence <= sequence' /\ f.sequence # sequence'
      BY <1>2, <3>1, <3>2, SendIs DEF IInv
    <3>4. TypeOK'
      BY <1>1, <1>2, <2>4, <2>5, <2>10, <2>11, <3>1, <3>2, <3>3 DEF IInv, TypeOK, Yields
    <3>5. QueueInv'
      BY <2>4, <2>8, <2>12, <2>13, <3>1, <3>2 DEF QueueInv
    <3>6. DoneInv'
      <4>1. \A i \in Occupied : q[i].offset = q[i].length => q[i].length = 0
        BY <1>1, <2>5, <2>6, <2>9, <2>17 DEF IInv, DoneInv
      <4>2. q[queued].offset # q[queued].length
        BY <2>6, <2>17
      <4> QED BY <2>2, <2>4, <2>8, <3>1, <4>1, <4>2 DEF DoneInv
    <3>7. FrameInv'
      BY <2>4, <3>1, <3>2, <3>3 DEF FrameInv
    <3>8. BufferInv'
      <4>1. BufferIsFile'
        BY <1>1, <2>4, <2>8, <2>10, <2>14, <3>1, FspClientAssumption DEF BufferIsFile
      <4> QED BY <2>2, <2>4, <2>8, <2>15, <3>1, <4>1 DEF BufferInv, LastOf
    <3>9. ShortInv'
      <4>1. \A i \in Occupied : q[i].short => q[Pop(q)].short
        BY <2>5, <2>6, <2>9, <3>2
      <4> QED BY <2>4, <2>7, <2>8, <2>9, <2>16, <3>1, <4>1 DEF ShortInv
    <3>10. BusInv'
      BY <1>1, <1>3, <3>1 DEF IInv, BusInv, BusHeldByCoroutine
    <3>11. ProgressInv'
      BY <3>1 DEF ProgressInv
    <3> QED BY <3>4, <3>5, <3>6, <3>7, <3>8, <3>9, <3>10, <3>11 DEF IInv
  <2>18. CASE r.offset + size = r.length
    <3>1. /\ asked' = None /\ queued' = queued /\ sequence' = sequence
          /\ pc' = IF size = 0 THEN "check" ELSE "payload"
      BY <2>4, <2>18
    <3>2. pc' \in {"payload", "check"}
      BY <3>1
    <3>3. TypeOK'
      BY <1>1, <1>2, <2>4, <2>5, <2>10, <2>11, <3>1, <3>2 DEF IInv, TypeOK, Yields
    <3>4. QueueInv'
      BY <2>1, <2>4, <2>6, <2>8, <2>12, <2>13, <3>1 DEF QueueInv
    <3>5. DoneInv'
      <4>1. \A i \in Occupied : i # queued /\ q[i].offset = q[i].length => q[i].length = 0
        BY <1>1, <2>5, <2>9 DEF IInv, DoneInv
      <4>2. q[queued].offset = q[queued].length
        BY <2>6, <2>18
      <4> QED BY <2>4, <2>8, <3>1, <3>2, <4>1, <4>2 DEF DoneInv
    <3>6. FrameInv'
      BY <1>2, <3>1, <3>2 DEF IInv, FrameInv
    <3>7. BufferInv'
      <4>1. size = 1 => pc' = "payload"
        BY <3>1
      <4>2. BufferIsFile'
        BY <1>1, <2>4, <2>8, <2>10, <2>14, <4>1, FspClientAssumption DEF BufferIsFile
      <4>3. pc' \in {"sendnext", "payload"} => size = 1
        BY <2>3, <3>1
      <4> QED BY <2>2, <2>4, <2>8, <2>15, <3>1, <4>2, <4>3 DEF BufferInv, LastOf
    <3>8. ShortInv'
      BY <2>4, <2>7, <2>8, <2>9, <2>16, <3>1, <3>2 DEF ShortInv
    <3>9. BusInv'
      BY <1>1, <1>3, <3>2 DEF IInv, BusInv, BusHeldByCoroutine
    <3>10. ProgressInv'
      BY <3>1, <3>2 DEF ProgressInv
    <3> QED BY <3>3, <3>4, <3>5, <3>6, <3>7, <3>8, <3>9, <3>10 DEF IInv
  <2> QED BY <2>17, <2>18
<1> QED BY <1>4, <1>5

-----------------------------------------------------------------------------
(* The end of a read *)

(* The client's next read, if it asks for one, takes a free slot; then the *)
(* current one's is free.                                                  *)
Left(n) == [IF n = None THEN queue ELSE Put(queue, n) EXCEPT ![queued] = None]

LEMMA LeftIs ==
    ASSUME TypeOK, QueueInv, queued # None,
           NEW n \in NextRead(queue[queued].client),
           NEW left, left = Left(n)
    PROVE  /\ left \in [Slots -> Request \cup {None}] /\ left[queued] = None
           /\ \A i \in Occupied : i # queued => left[i] = queue[i]
           /\ \A i \in Slots : left[i] # None /\ (i \notin Occupied \/ i = queued) =>
                 n \in Reads(queue[queued].client) /\ left[i] = n
           /\ \A i, j \in Slots :
                 left[i] # None /\ left[j] # None /\ i \notin Occupied /\ j \notin Occupied
                    => i = j
<1> DEFINE q == IF n = None THEN queue ELSE Put(queue, n)
<1>1. queued \in Slots /\ queue \in [Slots -> Request \cup {None}] /\ queue[queued] \in Request
      /\ queue[queued] # None
  BY CurrentIs DEF TypeOK, Occupied
<1>2. n = None \/ n \in Reads(queue[queued].client)
  BY DEF NextRead
<1>3. queue[queued].client \in Clients
  BY <1>1 DEF Request
<1>4. CASE q = queue
  <2>1. left = [queue EXCEPT ![queued] = None]
    BY <1>4 DEF Left
  <2>2. /\ left \in [Slots -> Request \cup {None}] /\ left[queued] = None
        /\ \A i \in Slots : i # queued => left[i] = queue[i]
    BY <1>1, <2>1
  <2>3. \A i \in Slots : left[i] # None => i \in Occupied /\ i # queued
    BY <2>2 DEF Occupied
  <2>4. \A i \in Occupied : i \in Slots
    BY DEF Occupied
  <2> QED BY <2>2, <2>3, <2>4
<1>5. CASE q # queue
  <2>1. n # None /\ n \in Reads(queue[queued].client) /\ q = Put(queue, n)
    BY <1>2, <1>5
  <2>2. n \in Request
    BY <1>3, <2>1, ReadsAre
  <2>3. PICK s \in Slots : queue[s] = None /\ q = [queue EXCEPT ![s] = n]
    BY <1>5, <2>1, PutIs
  <2>4. /\ left \in [Slots -> Request \cup {None}] /\ left[queued] = None
        /\ left[s] = n /\ s # queued /\ s \notin Occupied
        /\ \A i \in Slots : i # queued /\ i # s => left[i] = queue[i]
    <3>1. left = [[queue EXCEPT ![s] = n] EXCEPT ![queued] = None]
      BY <2>3 DEF Left
    <3> QED BY <1>1, <2>2, <2>3, <3>1 DEF Occupied
  <2>5. \A i \in Slots : left[i] # None => i # queued /\ (i = s \/ i \in Occupied)
    BY <2>4 DEF Occupied
  <2>6. \A i \in Occupied : i \in Slots /\ i # s
    BY <2>4 DEF Occupied
  <2> QED BY <2>1, <2>4, <2>5, <2>6
<1> QED BY <1>4, <1>5

LEMMA CheckStep == ASSUME IInv, Check PROVE IInv'
<1> DEFINE r == queue[queued]
<1>1. /\ pc = "check" /\ target' = None
      /\ UNCHANGED <<armed, deferred, lock, waiters, ring, ri, net, faults, raced, misused>>
  BY DEF Check, bus, nic
<1>2. queued # None /\ queued \in Occupied /\ queued \in Slots /\ r \in Request
  BY <1>1, CurrentIs DEF IInv, QueueInv
<1>3. BbaWaits' = BbaWaits /\ (deferred => BbaWaits)
  BY <1>1 DEF BbaWaits, IInv, BusInv
<1>4. InFlight' = InFlight
  BY <1>1 DEF InFlight
<1>5. CASE r.offset # r.length
  <2>1. /\ pc' = "receive"
        /\ UNCHANGED <<queue, queued, asked, sequence, memory, passed>>
    BY <1>5 DEF Check, fsp
  <2>2. asked # None
    BY <1>1, <1>5 DEF IInv, DoneInv
  <2>3. Occupied' = Occupied
    BY <2>1 DEF Occupied
  <2>4. TypeOK'
    BY <1>1, <2>1 DEF IInv, TypeOK
  <2>5. QueueInv' /\ DoneInv' /\ ShortInv'
    BY <1>1, <2>1, <2>2, <2>3 DEF IInv, QueueInv, DoneInv, ShortInv
  <2>6. FrameInv'
    BY <1>1, <1>4, <2>1 DEF IInv, FrameInv
  <2>7. BufferInv'
    BY <1>1, <2>1, <2>3 DEF IInv, BufferInv, BufferIsFile
  <2>8. BusInv'
    BY <1>1, <1>3, <2>1 DEF IInv, BusInv, BusHeldByCoroutine
  <2>9. ProgressInv'
    BY <1>1, <2>1, <2>2 DEF IInv, ProgressInv
  <2> QED BY <2>4, <2>5, <2>6, <2>7, <2>8, <2>9 DEF IInv
<1>6. CASE r.offset = r.length
  <2>1. PICK n \in NextRead(r.client) :
            LET q    == IF n = None THEN queue ELSE Put(queue, n)
                left == [q EXCEPT ![queued] = None] IN
            /\ queue' = left
            /\ memory' = [memory EXCEPT ![r.client] = <<>>]
            /\ passed' = [passed EXCEPT ![r.client] = 0]
            /\ IF \E i \in Slots : left[i] # None
               THEN queued' = Pop(left) /\ Send(left[Pop(left)]) /\ pc' = "sendpop"
               ELSE queued' = None /\ pc' = "receive" /\ UNCHANGED <<asked, sequence>>
    BY <1>6 DEF Check
  <2>2. /\ memory' = [memory EXCEPT ![r.client] = <<>>]
        /\ passed' = [passed EXCEPT ![r.client] = 0]
        /\ queue' = [IF n = None THEN queue ELSE Put(queue, n) EXCEPT ![queued] = None]
        /\ IF \E i \in Slots : queue'[i] # None
           THEN queued' = Pop(queue') /\ Send(queue'[Pop(queue')]) /\ pc' = "sendpop"
           ELSE queued' = None /\ pc' = "receive" /\ UNCHANGED <<asked, sequence>>
    BY <2>1
  <2>3. PICK left : left = queue'
    OBVIOUS
  <2>4. left = Left(n)
    BY <2>2, <2>3 DEF Left
  <2>5. /\ left \in [Slots -> Request \cup {None}] /\ left[queued] = None
        /\ \A i \in Occupied : i # queued => left[i] = queue[i]
        /\ \A i \in Slots : left[i] # None /\ (i \notin Occupied \/ i = queued) =>
              n \in Reads(r.client) /\ left[i] = n
        /\ \A i, j \in Slots :
              left[i] # None /\ left[j] # None /\ i \notin Occupied /\ j \notin Occupied
                 => i = j
    <3>1. TypeOK /\ QueueInv /\ n \in NextRead(queue[queued].client)
      BY DEF IInv
    <3> QED BY <1>2, <2>4, <3>1, LeftIs
  <2>6. /\ r.client \in Clients
        /\ \A i \in Occupied : i \in Slots /\ queue[i] # None /\ queue[i] \in Request
                               /\ queue[i].client \in Clients
    <3>1. \A i \in Occupied : i \in Slots /\ queue[i] # None /\ queue[i] \in Request
      BY DEF Occupied, IInv, TypeOK
    <3> QED BY <1>2, <3>1 DEF Request
  <2>7. /\ memory' \in [Clients -> Seq(Packet \cup {None})]
        /\ \A d \in Clients : d # r.client => memory'[d] = memory[d]
        /\ passed' \in [Clients -> Nat] /\ passed'[r.client] = 0
        /\ \A d \in Clients : d # r.client => passed'[d] = passed[d]
    <3>1. <<>> \in Seq(Packet \cup {None})
      BY EmptySeq
    <3>2. memory \in [Clients -> Seq(Packet \cup {None})] /\ passed \in [Clients -> Nat]
      BY DEF IInv, TypeOK
    <3> HIDE DEF r
    <3> QED BY <2>2, <2>6, <3>1, <3>2
  (* A read that is left was there, of another client, or is the next one. *)
  <2>8. ASSUME NEW i \in Occupied'
        PROVE  /\ i \in Slots /\ left[i] # None /\ i # queued
               /\ \/ /\ i \in Occupied /\ left[i] = queue[i]
                     /\ left[i].client \in Clients /\ left[i].client # r.client
                  \/ /\ i \notin Occupied /\ left[i].client = r.client /\ left[i].offset = 0
                     /\ left[i].length \in Length[r.client] /\ 0 <= left[i].length
    <3>1. i \in Slots /\ left[i] # None /\ i # queued
      BY <2>3, <2>5 DEF Occupied
    <3>2. CASE i \in Occupied
      BY <1>2, <2>5, <2>6, <3>1, <3>2 DEF IInv, QueueInv
    <3>3. CASE i \notin Occupied
      <4>1. n \in Reads(r.client) /\ left[i] = n
        BY <2>5, <3>1, <3>3
      <4> QED BY <2>6, <3>1, <3>3, <4>1, ReadsAre
    <3> QED BY <3>1, <3>2, <3>3
  <2>9. \A i, j \in Occupied' : left[i].client = left[j].client => i = j
    <3> TAKE i, j \in Occupied'
    <3>1. CASE i \in Occupied /\ j \in Occupied
      BY <2>8, <3>1 DEF IInv, QueueInv
    <3>2. CASE i \notin Occupied /\ j \notin Occupied
      BY <2>5, <2>8, <3>2
    <3>3. CASE (i \in Occupied) # (j \in Occupied)
      BY <2>8, <3>3
    <3> QED BY <3>1, <3>2, <3>3
  <2>10. \A i \in Occupied' : /\ left[i].length \in Length[left[i].client]
                              /\ left[i].offset <= left[i].length
    BY <2>8 DEF IInv, QueueInv
  <2>11. \A i \in Occupied' : left[i].offset = left[i].length => left[i].length = 0
    BY <2>8 DEF IInv, DoneInv
  <2>12. ASSUME NEW i \in Occupied', NEW k \in 1..left[i].offset
         PROVE  /\ k \in 1..Len(memory'[left[i].client])
                /\ memory'[left[i].client][k] = Content(left[i].file, left[i].position + k - 1)
    <3>1. \A j \in Occupied : \A l \in 1..queue[j].offset :
              /\ l \in 1..Len(memory[queue[j].client])
              /\ memory[queue[j].client][l] = Content(queue[j].file, queue[j].position + l - 1)
      BY <1>1 DEF IInv, BufferInv, BufferIsFile
    <3>2. i \in Occupied /\ left[i] = queue[i] /\ left[i].client \in Clients
          /\ left[i].client # r.client
      BY <2>8, <2>12
    <3>3. memory'[left[i].client] = memory[queue[i].client]
      BY <2>7, <3>2
    <3> QED BY <3>1, <3>2, <3>3
  <2>13. ASSUME NEW i \in Occupied', left[i].short
         PROVE  passed'[left[i].client] \in {0, 1}
    <3>1. CASE i \in Occupied
      <4>1. left[i] = queue[i] /\ passed'[left[i].client] = passed[queue[i].client]
        BY <2>7, <2>8, <3>1
      <4> QED BY <2>13, <3>1, <4>1 DEF IInv, ShortInv
    <3>2. CASE i \notin Occupied
      BY <2>7, <2>8, <3>2
    <3> QED BY <3>1, <3>2
  <2>14. BufferInv'
    <3>1. pc' \in {"sendpop", "receive"}
      BY <2>2
    <3> QED BY <2>3, <2>12, <3>1 DEF BufferInv, BufferIsFile
  <2>15. BusInv'
    BY <1>1, <1>3, <2>2 DEF IInv, BusInv, BusHeldByCoroutine
  <2>16. CASE \E i \in Slots : left[i] # None
    <3>1. queued' = Pop(left) /\ Send(left[Pop(left)]) /\ pc' = "sendpop"
      BY <2>2, <2>3, <2>16
    <3>2. /\ Pop(left) \in Slots /\ left[Pop(left)] # None /\ left[Pop(left)] \in Request
          /\ Pop(left) # None
          /\ \A j \in Slots : left[j] # None /\ left[j].short => left[Pop(left)].short
      <4>1. Pop(left) \in Slots /\ left[Pop(left)] # None
            /\ \A j \in Slots : left[j] # None /\ left[j].short => left[Pop(left)].short
        BY <2>16, PopIs
      <4> QED BY <2>5, <4>1, FspClientAssumption DEF Slots
    <3>3. /\ asked' \in Frame /\ asked' # None /\ sequence' \in Nat
          /\ asked' = [sequence |-> sequence', file |-> left[Pop(left)].file,
                       position |-> left[Pop(left)].position + left[Pop(left)].offset]
          /\ \A f \in InFlight' : f.sequence <= sequence' /\ f.sequence # sequence'
      BY <1>4, <3>1, <3>2, SendIs DEF IInv
    <3>4. TypeOK'
      BY <1>1, <2>3, <2>5, <2>7, <3>1, <3>2, <3>3 DEF IInv, TypeOK, Yields
    <3>5. QueueInv'
      BY <2>3, <2>9, <2>10, <3>1, <3>2 DEF QueueInv
    <3>6. DoneInv'
      BY <2>3, <2>11, <3>1 DEF DoneInv
    <3>7. FrameInv'
      BY <2>3, <3>1, <3>2, <3>3 DEF FrameInv
    <3>8. ShortInv'
      BY <2>3, <2>8, <2>13, <3>1, <3>2 DEF ShortInv
    <3>9. ProgressInv'
      BY <3>1 DEF ProgressInv
    <3> QED BY <2>14, <2>15, <3>4, <3>5, <3>6, <3>7, <3>8, <3>9 DEF IInv
  <2>17. CASE \A i \in Slots : left[i] = None
    <3>1. queued' = None /\ pc' = "receive" /\ UNCHANGED <<asked, sequence>>
      BY <2>2, <2>3, <2>17
    <3>2. Occupied' = {}
      BY <2>3, <2>17 DEF Occupied
    <3>3. asked = None
      <4>1. \A i \in Occupied : i = queued
        BY <2>5, <2>6, <2>17
      <4> QED BY <1>1, <1>6, <4>1 DEF IInv, DoneInv
    <3>4. TypeOK'
      BY <1>1, <2>3, <2>5, <2>7, <3>1 DEF IInv, TypeOK
    <3>5. QueueInv' /\ DoneInv' /\ ShortInv' /\ ProgressInv'
      BY <3>1, <3>2 DEF QueueInv, DoneInv, ShortInv, ProgressInv
    <3>6. FrameInv'
      BY <1>4, <3>1, <3>3 DEF IInv, FrameInv
    <3> QED BY <2>14, <2>15, <3>4, <3>5, <3>6 DEF IInv
  <2> QED BY <2>16, <2>17
<1> QED BY <1>5, <1>6

-----------------------------------------------------------------------------
(* Every step *)

LEMMA NextIInv == IInv /\ [Next]_vars => IInv'
<1> SUFFICES ASSUME IInv, [Next]_vars PROVE IInv'
  OBVIOUS
<1>1. ASSUME NEW c \in Clients, NEW r \in Reads(c), Submit(c, r) PROVE IInv'
  BY <1>1, SubmitStep
<1>2. CASE Alarm
  BY <1>2, AlarmStep
<1>3. CASE NicInterrupt
  BY <1>3, NicInterruptStep
<1>4. CASE Coroutine
  BY <1>4, StartStep, SentCallbackStep, StatusStep, ReceiveStep, AckStep, HeaderStep,
     SentNextStep, PayloadStep, CheckStep, SentPopStep DEF Coroutine
<1>5. ASSUME NEW u \in Users, UserLock(u) \/ UserUnlock(u) PROVE IInv'
  BY <1>5, UserLockStep, UserUnlockStep
<1>6. ASSUME NEW m \in net, Lose(m) \/ \E again \in BOOLEAN : Deliver(m, again) PROVE IInv'
  BY <1>6, LoseStep, DeliverStep
<1>7. CASE UNCHANGED vars
  <2>1. UNCHANGED <<queue, queued, asked, sequence, target, ring, ri, net, faults, memory,
                    raced, misused, passed, armed, deferred, pc, lock, waiters>>
    BY <1>7 DEF vars, fsp, bus, nic, history
  <2>2. TypeOK'
    BY <2>1 DEF IInv, TypeOK
  <2>3. QueueInv' /\ DoneInv' /\ FrameInv' /\ BufferInv' /\ ShortInv'
    BY <2>1, ReadsSame DEF IInv
  <2>4. BusInv' /\ ProgressInv'
    BY <2>1 DEF IInv, BusInv, BusHeldByCoroutine, BbaWaits, ProgressInv
  <2> QED BY <2>2, <2>3, <2>4 DEF IInv
<1> QED BY <1>1, <1>2, <1>3, <1>4, <1>5, <1>6, <1>7 DEF Next

LEMMA SpecIInv == Spec => []IInv
  BY InitIInv, NextIInv, PTL DEF Spec

(* The driver's and the client's variables have the types of the structures *)
(* _bba and _fsp (bba.c:33-41, tcpip.c:139-154) in every reachable state.   *)
THEOREM TypeCorrect == Spec => []TypeOK
<1>1. IInv => TypeOK
  BY DEF IInv
<1> QED BY <1>1, SpecIInv, PTL

(* What fsp_input has counted as received is the file's, in its place of   *)
(* the client's buffer, or on its way there, whatever was lost, repeated   *)
(* or late (tcpip.c:311-352).                                              *)
THEOREM ReceivedIsFile == Spec => []BufferIsFile
<1>1. IInv => BufferIsFile
  BY DEF IInv, BufferInv
<1> QED BY <1>1, SpecIInv, PTL

(* The coroutine ends only with every queued read asked for, its alarm set, *)
(* or with the driver waiting for the bus (tcpip.c:186-209, bba.c:221-273). *)
THEOREM ReadsStayAlive == Spec => []NoReadForgotten
<1>1. IInv => NoReadForgotten
  <2> SUFFICES ASSUME IInv, pc = "off" PROVE NoReadForgotten
    BY DEF NoReadForgotten
  <2>1. queued = None => Occupied = {}
    BY DEF IInv, QueueInv
  <2>2. queued # None => (armed /\ asked # None) \/ deferred
    BY DEF IInv, ProgressInv
  <2>3. deferred => BbaWaits
    BY DEF IInv, BusInv
  <2>4. BbaWaits => lock # None
    <3> SUFFICES ASSUME BbaWaits, lock = None PROVE FALSE
      OBVIOUS
    <3>1. waiters = <<>> /\ Len(waiters) = 0
      BY EmptySeq DEF IInv, BusInv
    <3> QED BY <3>1 DEF BbaWaits
  <2> QED BY <2>1, <2>2, <2>3, <2>4 DEF NoReadForgotten, BbaWaits
<1> QED BY <1>1, SpecIInv, PTL

(* The coroutine owns the EXI bus from its start to its end, and never      *)
(* outside (bba.c:62-96).                                                   *)
THEOREM BusOwner == Spec => []BusHeldByCoroutine
<1>1. IInv => BusHeldByCoroutine
  BY DEF IInv, BusInv
<1> QED BY <1>1, SpecIInv, PTL

(* fsp_pop_queue lets a long read go at most one packet ahead of a short    *)
(* one, however many clients there are (tcpip.c:239-275).                   *)
THEOREM ShortReadsFirst == Spec => []ShortFirst
<1>1. IInv => ShortFirst
  <2> SUFFICES ASSUME IInv PROVE ShortFirst
    OBVIOUS
  <2> SUFFICES ASSUME NEW i \in Occupied, queue[i].short PROVE passed[queue[i].client] <= 1
    BY DEF ShortFirst
  <2>1. passed[queue[i].client] \in {0, 1}
    BY DEF IInv, ShortInv
  <2> QED BY <2>1
<1> QED BY <1>1, SpecIInv, PTL

-----------------------------------------------------------------------------
(* The races of the alarm *)

(* Only the alarm, during a DMA, puts a request off that may be left       *)
(* without a read; and only the coroutine that sends it forgets that.      *)
LEMMA NextRaceInv ==
    ASSUME IInv, IInv', RaceInv, [Next]_vars
    PROVE  RaceInv'
<1>1. ASSUME NEW c \in Clients, NEW r \in Reads(c), Submit(c, r) PROVE RaceInv'
  <2>1. pc \in Yields /\ UNCHANGED <<asked, armed, raced>>
    BY <1>1 DEF Submit
  <2>2. CASE queued = None
    <3>1. asked = None /\ pc \in {"off", "header"} /\ ~armed
      BY <2>1, <2>2 DEF IInv, QueueInv, FrameInv, Yields, RaceInv
    <3>2. CASE Free = {}
      BY <1>1, <2>1, <2>2, <3>2 DEF Submit, bus, RaceInv
    <3>3. CASE Free # {}
      <4>1. queued' = First(Free) /\ Defer
        BY <1>1, <2>2, <3>3 DEF Submit
      <4>2. queued' # None
        BY <3>3, <4>1, FirstIsIn, FspClientAssumption DEF Free, Slots
      <4>3. ((pc = "off" /\ pc' = "start") \/ pc' = pc) /\ deferred' = TRUE
        BY <2>1, <4>1, DeferIs DEF IInv
      <4> QED BY <2>1, <3>1, <4>2, <4>3 DEF RaceInv
    <3> QED BY <3>2, <3>3
  <2>3. CASE queued # None
    BY <1>1, <2>1, <2>3 DEF Submit, RaceInv
  <2> QED BY <2>2, <2>3
<1>2. CASE Alarm
  <2>1. /\ pc \in Yields /\ armed /\ armed' = FALSE /\ Defer
        /\ UNCHANGED <<queued, asked>> /\ raced' = (raced \/ pc # "off")
    BY <1>2 DEF Alarm, fsp
  <2>2. ((pc = "off" /\ pc' = "start") \/ pc' = pc) /\ deferred' = TRUE
    BY <2>1, DeferIs DEF IInv
  <2>3. queued # None /\ pc' # "crashed"
    BY <2>1, <2>2 DEF RaceInv, IInv, FrameInv, Yields
  <2>4. CASE pc = "off"
    BY <2>1, <2>2, <2>3, <2>4 DEF RaceInv
  <2>5. CASE pc # "off"
    BY <2>1, <2>2, <2>3, <2>5 DEF RaceInv
  <2> QED BY <2>4, <2>5
<1>3. CASE NicInterrupt
  <2>1. pc = "off" /\ ExiLock /\ UNCHANGED <<queued, asked, armed, deferred, raced>>
    BY <1>3 DEF NicInterrupt, fsp, history
  <2>2. pc' \in {"off", "start"}
    BY <2>1 DEF ExiLock
  <2> QED BY <2>1, <2>2 DEF RaceInv
<1>4. ASSUME NEW u \in Users, UserLock(u) \/ UserUnlock(u) PROVE RaceInv'
  <2>1. UNCHANGED <<queued, asked, armed, deferred, raced>>
    BY <1>4 DEF UserLock, UserUnlock, fsp, history
  <2>2. pc' = pc \/ (pc = "off" /\ pc' \in {"off", "start"})
    BY <1>4 DEF UserLock, UserUnlock, ExiUnlock
  <2> QED BY <2>1, <2>2 DEF RaceInv
<1>5. ASSUME NEW m \in net, Lose(m) \/ \E again \in BOOLEAN : Deliver(m, again)
      PROVE  RaceInv'
  <2>1. UNCHANGED <<queued, asked, armed, deferred, pc, raced>>
    BY <1>5 DEF Lose, Deliver, fsp, history
  <2> QED BY <2>1 DEF RaceInv
<1>6. CASE Start
  <2>1. pc = "start" /\ UNCHANGED <<queued, armed, deferred, raced>>
    BY <1>6 DEF Start, history
  <2>2. CASE ~deferred
    BY <1>6, <2>1, <2>2 DEF Start, RaceInv
  <2>3. CASE deferred /\ queued = None
    <3>1. raced /\ pc' = "crashed" /\ UNCHANGED asked
      BY <1>6, <2>1, <2>3 DEF Start, RaceInv
    <3> QED BY <2>1, <3>1 DEF RaceInv
  <2>4. CASE deferred /\ queued # None
    <3>1. pc' = "sendcb"
      BY <1>6, <2>4 DEF Start
    <3>2. asked' # None
      BY <3>1 DEF IInv, FrameInv
    <3> QED BY <2>1, <3>1, <3>2 DEF RaceInv
  <2> QED BY <2>2, <2>3, <2>4
<1>7. CASE SentCallback \/ SentNext \/ SentPop
  <2>1. asked' # None /\ pc' \in {"status", "payload", "receive"}
    BY <1>7 DEF SentCallback, SentNext, SentPop, fsp, IInv, FrameInv
  <2>2. CASE SentCallback
    BY <2>1, <2>2 DEF SentCallback, RaceInv
  <2>3. CASE SentNext \/ SentPop
    <3>1. /\ pc \in {"sendnext", "sendpop"}
          /\ UNCHANGED <<deferred, raced>>
      BY <2>3 DEF SentNext, SentPop
    <3> QED BY <2>1, <3>1 DEF RaceInv
  <2> QED BY <1>7, <2>2, <2>3
<1>8. CASE Status \/ Receive \/ Ack \/ Payload
  <2>1. /\ pc \in {"status", "receive", "ack", "payload"}
        /\ pc' \in {"off", "start", "receive", "header", "ack", "check"}
        /\ pc' = "check" => pc = "payload"
        /\ UNCHANGED <<queued, asked, armed, deferred, raced>>
    BY <1>8 DEF Status, Receive, Ack, Payload, ExiUnlock, fsp, history
  <2> QED BY <2>1 DEF RaceInv
<1>9. CASE Header
  <2>1. pc = "header" /\ UNCHANGED <<deferred, raced>>
    BY <1>9 DEF Header
  <2>2. CASE ~IsAnswer(Head(ring))
    BY <1>9, <2>1, <2>2 DEF Header, fsp, RaceInv
  <2>3. CASE IsAnswer(Head(ring))
    <3>1. asked # None
      BY <2>3 DEF IsAnswer
    <3>2. deferred => raced
      BY <2>1, <3>1 DEF RaceInv
    <3>3. armed' = FALSE /\ pc' \in {"sendnext", "check", "payload"}
      BY <1>9, <2>3 DEF Header, CancelAlarm
    <3> QED BY <2>1, <3>2, <3>3 DEF RaceInv
  <2> QED BY <2>2, <2>3
<1>10. CASE Check
  <2>1. pc = "check" /\ UNCHANGED <<armed, deferred, raced>>
    BY <1>10 DEF Check
  <2>2. deferred => raced
    BY <2>1 DEF RaceInv
  <2>3. \/ pc' = "receive" /\ UNCHANGED asked
        \/ pc' = "sendpop"
    BY <1>10 DEF Check, fsp
  <2>4. pc' = "sendpop" => asked' # None
    BY DEF IInv, FrameInv
  <2> QED BY <2>1, <2>2, <2>3, <2>4 DEF RaceInv
<1>11. CASE UNCHANGED vars
  BY <1>11 DEF vars, fsp, history, RaceInv
<1> QED BY <1>1, <1>2, <1>3, <1>4, <1>5, <1>6, <1>7, <1>8, <1>9, <1>10, <1>11
        DEF Next, Coroutine

LEMMA SpecRaceInv == Spec => []RaceInv
<1>1. Init => RaceInv
  BY DEF Init, RaceInv
<1>2. IInv /\ IInv' /\ RaceInv /\ [Next]_vars => RaceInv'
  BY NextRaceInv
<1> QED BY <1>1, <1>2, SpecIInv, PTL DEF Spec

(* fsp_read_queued finds _fsp.queued NULL only when it was put off by an   *)
(* alarm that expired during a DMA of the coroutine: a request put off by  *)
(* do_read_disc, or by an alarm while the coroutine does not run, always   *)
(* has its read, whatever is on its way (tcpip.c:231-250, bba.c:270-282).  *)
THEOREM CurrentWhenSent == Spec => []NullNeverRead
<1>1. RaceInv => NullNeverRead
  BY DEF RaceInv, NullNeverRead
<1> QED BY <1>1, SpecRaceInv, PTL

(* What keeps the alarm from being set twice: the read that a packet's end *)
(* is tested against is never a seek that the packet was not for.          *)
LEMMA NextOnceInv ==
    ASSUME OneSeeker, IInv, IInv', RaceInv, RaceInv', OnceInv, [Next]_vars
    PROVE  OnceInv'
<1>1. ASSUME NEW c \in Clients, NEW r \in Reads(c), Submit(c, r) PROVE OnceInv'
  <2>1. pc \in Yields /\ UNCHANGED <<asked, armed>> /\ queue' = Put(queue, r)
    BY <1>1 DEF Submit
  <2>2. CASE queued = None
    <3>1. asked = None /\ pc \in {"off", "header"} /\ ~armed
      BY <2>1, <2>2 DEF IInv, QueueInv, FrameInv, Yields, RaceInv
    <3>2. pc' \in {"off", "header", "start"}
      <4>1. CASE Free = {}
        BY <1>1, <2>2, <3>1, <4>1 DEF Submit
      <4>2. CASE Free # {}
        BY <1>1, <2>1, <2>2, <3>1, <4>2, DeferIs DEF Submit, IInv
      <4> QED BY <4>1, <4>2
    <3> QED BY <2>1, <3>1, <3>2 DEF OnceInv
  <2>3. CASE queued # None
    <3>1. UNCHANGED <<queued, deferred, pc>>
      BY <1>1, <2>3 DEF Submit
    <3>2. queue'[queued] = queue[queued]
      <4>1. queued \in Slots /\ queue[queued] # None
        BY <2>3, CurrentIs DEF IInv, Occupied
      <4>2. \/ queue' = queue
            \/ \E s \in Slots : queue[s] = None /\ queue' = [queue EXCEPT ![s] = r]
        BY <2>1, PutIs
      <4> QED BY <4>1, <4>2 DEF IInv, TypeOK
    <3> QED BY <2>1, <3>1, <3>2 DEF OnceInv
  <2> QED BY <2>2, <2>3
<1>2. CASE Alarm
  <2>1. /\ pc \in Yields /\ armed /\ armed' = FALSE /\ Defer
        /\ UNCHANGED <<queue, queued, asked>>
    BY <1>2 DEF Alarm, fsp
  <2>2. ((pc = "off" /\ pc' = "start") \/ pc' = pc) /\ deferred' = TRUE
    BY <2>1, DeferIs DEF IInv
  <2> QED BY <2>1, <2>2 DEF OnceInv
<1>3. CASE NicInterrupt
  <2>1. pc = "off" /\ ExiLock /\ UNCHANGED <<armed, deferred>>
    BY <1>3 DEF NicInterrupt
  <2>2. pc' \in {"off", "start"}
    BY <2>1 DEF ExiLock
  <2> QED BY <2>1, <2>2 DEF OnceInv
<1>4. ASSUME NEW u \in Users, UserLock(u) \/ UserUnlock(u) PROVE OnceInv'
  <2>1. UNCHANGED <<queue, queued, asked, armed, deferred>>
    BY <1>4 DEF UserLock, UserUnlock, fsp
  <2>2. pc' = pc \/ (pc = "off" /\ pc' \in {"off", "start"})
    BY <1>4 DEF UserLock, UserUnlock, ExiUnlock
  <2> QED BY <2>1, <2>2 DEF OnceInv
<1>5. ASSUME NEW m \in net, Lose(m) \/ \E again \in BOOLEAN : Deliver(m, again)
      PROVE  OnceInv'
  <2>1. UNCHANGED <<queue, queued, asked, armed, deferred, pc>>
    BY <1>5 DEF Lose, Deliver, fsp
  <2> QED BY <2>1 DEF OnceInv
<1>6. CASE Start
  <2>1. /\ UNCHANGED <<armed, deferred>>
        /\ pc' \in {"status", "crashed"} \/ (pc' = "sendcb" /\ deferred)
    BY <1>6 DEF Start
  <2> QED BY <2>1 DEF OnceInv
<1>7. CASE SentCallback \/ SentNext \/ SentPop
  <2>1. /\ UNCHANGED <<queue, queued, asked>>
        /\ pc' \in {"status", "payload", "receive"}
        /\ pc' = "payload" => pc = "sendnext"
    BY <1>7 DEF SentCallback, SentNext, SentPop, fsp
  <2> QED BY <2>1 DEF OnceInv
<1>8. CASE Status \/ Receive \/ Ack \/ Payload
  <2>1. /\ pc' \in {"off", "start", "receive", "header", "ack", "check"}
        /\ pc' = "check" => pc = "payload"
        /\ UNCHANGED <<queue, queued, asked, armed, deferred>>
    BY <1>8 DEF Status, Receive, Ack, Payload, ExiUnlock, fsp
  <2> QED BY <2>1 DEF OnceInv
<1>9. CASE Header
  <2>1. pc = "header" /\ UNCHANGED deferred
    BY <1>9 DEF Header
  <2>2. CASE ~IsAnswer(Head(ring))
    BY <1>9, <2>1, <2>2 DEF Header, fsp, OnceInv
  <2>3. CASE IsAnswer(Head(ring))
    <3>1. armed' = FALSE /\ pc' \in {"sendnext", "check", "payload"}
      BY <1>9, <2>3 DEF Header, CancelAlarm
    <3>2. CASE asked' = None
      BY <2>1, <3>1, <3>2 DEF OnceInv, IInv, FrameInv
    <3>3. CASE asked' # None
      (* A packet of a read of at least two, so the next read is no seek. *)
      <4>1. PICK old \in Slots : /\ old = queued /\ queue[old] \in Request
                                 /\ queue[old].length # 0
                                 /\ queue[old].offset + 1 # queue[old].length
                                 /\ queue' = [queue EXCEPT ![old].offset = @ + 1]
        <5>1. queued \in Slots /\ queue[queued] \in Request /\ queue[queued] # None
          <6>1. queued # None
            BY <2>3 DEF IsAnswer, IInv, FrameInv
          <6> QED BY <6>1, CurrentIs DEF IInv, Occupied
        <5>2. /\ queue[queued].offset \in Nat
              /\ queue[queued].offset = queue[queued].length => queue[queued].length = 0
          <6>1. queued \in Occupied
            BY <5>1 DEF Occupied
          <6> QED BY <2>1, <5>1, <6>1 DEF IInv, DoneInv, Request
        <5>3. /\ queue[queued].offset + (IF queue[queued].length = 0 THEN 0 ELSE 1)
                    # queue[queued].length
              /\ queue' = [queue EXCEPT ![queued].offset =
                              @ + (IF queue[queued].length = 0 THEN 0 ELSE 1)]
          BY <1>9, <2>3, <3>3 DEF Header
        <5>4. queue[queued].length # 0
          <6> SUFFICES ASSUME queue[queued].length = 0 PROVE FALSE
            OBVIOUS
          <6>1. queue[queued].offset <= 0
            BY <5>1 DEF IInv, QueueInv, Occupied
          <6> QED BY <5>2, <5>3, <6>1
        <5> QED BY <5>1, <5>3, <5>4
      <4>2. /\ queued' \in Slots /\ queue'[queued'] # None
            /\ queued' \in Occupied' /\ old \in Occupied'
            /\ queue'[old].length = queue[old].length
            /\ queue'[old].offset = queue[old].offset + 1
        <5>1. queued' # None
          BY <3>3 DEF IInv, FrameInv
        <5>2. queued' \in Slots /\ queue'[queued'] # None /\ queue' \in [Slots -> Request \cup {None}]
          BY <5>1 DEF IInv, TypeOK, QueueInv
        <5>3. queue[old] \in Request /\ queue \in [Slots -> Request \cup {None}]
          BY <4>1 DEF IInv, TypeOK
        <5>4. queue'[old] = [queue[old] EXCEPT !.offset = queue[old].offset + 1]
          BY <4>1, <5>3
        <5>5. queue'[old] \in Request
          BY <5>3, <5>4 DEF Request
        <5>6. queue'[old] # None
          BY <5>5, FspClientAssumption
        <5> QED BY <5>2, <5>3, <5>4, <5>6 DEF Occupied, Request
      <4>3. ASSUME queue'[queued'].offset = queue'[queued'].length PROVE FALSE
        <5>1. queue'[queued'].length = 0 /\ queued' # old
          BY <3>3, <4>1, <4>2, <4>3 DEF IInv, DoneInv
        <5>2. /\ queue'[queued'].client # queue'[old].client
              /\ queue'[queued'].client \in Clients /\ queue'[old].client \in Clients
              /\ 0 \in Length[queue'[queued'].client]
              /\ queue'[old].length \in Length[queue'[old].client]
              /\ queue'[old].offset <= queue'[old].length
          <6>1. queue'[queued'] \in Request /\ queue'[old] \in Request
            BY <4>2 DEF IInv, TypeOK, Occupied
          <6>2. queue'[queued'].client \in Clients /\ queue'[old].client \in Clients
            BY <6>1 DEF Request
          <6> QED BY <4>2, <5>1, <6>2 DEF IInv, QueueInv
        <5>3. queue'[old].length \in {0, 1}
          BY <5>2 DEF OneSeeker
        <5>4. queue[old].offset \in Nat
          BY <4>1 DEF Request
        <5> QED BY <4>1, <4>2, <5>2, <5>3, <5>4
      <4> QED BY <2>1, <3>1, <4>3 DEF OnceInv
    <3> QED BY <3>2, <3>3
  <2> QED BY <2>2, <2>3
<1>10. CASE Check
  <2>1. pc = "check" /\ UNCHANGED <<armed, deferred>>
    BY <1>10 DEF Check
  <2>2. CASE asked = None
    <3>1. ~armed
      BY <2>2 DEF RaceInv
    <3>2. pc' \in {"receive", "sendpop"}
      BY <1>10 DEF Check
    <3> QED BY <2>1, <3>1, <3>2 DEF OnceInv
  <2>3. CASE asked # None
    <3>1. pc' = "receive"
      BY <1>10, <2>1, <2>3 DEF Check, OnceInv
    <3> QED BY <2>1, <3>1 DEF OnceInv
  <2> QED BY <2>2, <2>3
<1>11. CASE UNCHANGED vars
  BY <1>11 DEF vars, fsp, OnceInv
<1> QED BY <1>1, <1>2, <1>3, <1>4, <1>5, <1>6, <1>7, <1>8, <1>9, <1>10, <1>11
        DEF Next, Coroutine

(* Where only one client seeks or reads more than a packet, as in the      *)
(* builds, OSSetAlarm is never about to be called for an alarm that is     *)
(* set, but for a request that the alarm put off during a DMA of the       *)
(* coroutine (tcpip.c:231-250, 331).                                       *)
THEOREM AlarmIsFree == ASSUME OneSeeker PROVE Spec => []AlarmSetOnce
<1>1. Init => OnceInv
  BY DEF Init, OnceInv
<1>2. IInv /\ IInv' /\ RaceInv /\ RaceInv' /\ OnceInv /\ [Next]_vars => OnceInv'
  BY NextOnceInv
<1>3. RaceInv /\ OnceInv => AlarmSetOnce
  BY DEF RaceInv, OnceInv, AlarmSetOnce
<1> QED BY <1>1, <1>2, <1>3, SpecIInv, SpecRaceInv, PTL DEF Spec
==============================================================================
