-------------------------- MODULE GcodeQueueProofs --------------------------
(***************************************************************************)
(* Proofs about GcodeQueue for every number of cards, size of the queue    *)
(* and layout of the discs: that the queue has room, that the drive serves *)
(* it, that the disc does not change under a read, and that a memory card  *)
(* is served as BlockService says.                                         *)
(***************************************************************************)
EXTENDS GcodeQueue, TLAPS, FiniteSetTheorems, WellFoundedInduction, NaturalsInduction

-----------------------------------------------------------------------------
(* The inductive invariant *)

(* A request that some client of the build can have made. *)
Sound(r) ==
    /\ r \in Request
    /\ r.client \in build.clients \cup {Dvd}
    /\ r.client \in Cards =>
          /\ r.op \in {"sector", "part", "buffer", "write"}
          /\ r.op \in {"sector", "part"} => r.data = None
    /\ r.client \in Streamers => r.op \in {"read", "sector", "part"}
    /\ r.client = Dvd => r.op \in {"read", "sector", "part", "frags", "audio"}
    /\ r.op \in {"sector", "part", "buffer", "write"} => r.sector \in Sectors
    /\ r.op \in {"buffer", "write"} => r.data \in Payloads[r.client]
    /\ r.op = "frags" => r.image \in Discs

(* Of each client, and of the changes of disc, there is one request.       *)
Kind(r) == IF r.op = "frags" THEN None ELSE r.client

QueueInv ==
    /\ \A i \in Occupied : i <= build.size /\ Sound(queue[i])
    /\ \A i, j \in Pending : Kind(queue[i]) = Kind(queue[j]) => i = j
    /\ \A i \in Occupied : queue[i].op = "write" => i = queued

ServeInv ==
    /\ DriveServesQueue
    /\ queued # None => queue[queued] # None

(* The request of the command that is under way. *)
CommandSlots == {i \in Pending : Kind(queue[i]) = Dvd}

CommandInv ==
    /\ di # "idle" => command \in Command
    /\ di = "busy" <=> CommandSlots # {}
    /\ di \in {"delayed", "busy"} =>
          \/ command.op = "audio" /\ di = "busy" /\ build.clients \cap Streamers = {}
          \/ command.op \in {"read", "seek"} /\ at \in Parts /\ cover = "closed"
    /\ di = "latency" /\ command.op = "audio" => build.clients \cap Streamers = {}
    /\ \A i \in CommandSlots :
          IF queue[i].op = "audio" THEN command.op = "audio"
          ELSE /\ command.op # "audio" /\ queue[i].image = current
               /\ queue[i].op = "read" => loaded = current

Changes == {i \in Pending : queue[i].op = "frags"}

(* The next disc is one of two, and there is none for the apploader.       *)
CoverInv ==
    /\ cover = "open" <=> Changes # {} \/ cover_alarm
    /\ ~(Changes # {} /\ cover_alarm)
    /\ current \in {loaded, Apploader}
    /\ "second" \in flags => LastDisc = 1 /\ current # Apploader

(* The drive's write buffer holds what the write that is served is to      *)
(* write; and the driver's buffer is a copy that no write makes stale.     *)
BufferInv ==
    /\ ctl = "done" /\ Now.op = "buffer" => held = Now.data
    /\ ctl = "start" /\ Now.op = "write" => held = Now.data
    /\ ctl = "idle" /\ queued # None /\ Now.op = "write" => held = Now.data
    /\ drive # None /\ drive.op = "part" => drive.sector = last_sector
    /\ drive # None /\ drive.op = "write" => drive.sector # last_sector
    /\ CacheFresh

(* What the callback of a served request is given is in the file.          *)
AnswerInv ==
    ctl = "done" =>
        /\ Now.op = "sector" => answer = media[Now.sector]
        /\ Now.op = "part" => Now.sector = last_sector /\ buffer = media[Now.sector]
        /\ Now.op = "write" =>
              \/ answer = Error
              \/ answer = Now.data /\ media[Now.sector] = Now.data

IInv ==
    /\ TypeOK /\ NeverRefused
    /\ QueueInv /\ ServeInv /\ CommandInv /\ CoverInv /\ BufferInv /\ AnswerInv

-----------------------------------------------------------------------------
(* Lemmas about the queue *)

(* The loops over the queue find the first entry of a kind, if there is one. *)
LEMMA FirstIsIn ==
    ASSUME NEW S \in SUBSET Slots, S # {}
    PROVE  First(S) \in S
<1>1. S \subseteq Nat
  BY GcodeQueueAssumption DEF Slots
<1> DEFINE R == {ss \in Nat \X Nat : ss[1] < ss[2]}
<1>2. IsWellFoundedOn(R, Nat)
  BY NatLessThanWellFounded DEF OpToRel
<1>3. \A x, y \in Nat : x < y => <<x, y>> \in R
  OBVIOUS
<1> HIDE DEF R
<1>4. PICK x \in S : \A y \in S : ~(<<y, x>> \in R)
  BY <1>1, <1>2, WFMin
<1>5. \A j \in S : x <= j
  <2> TAKE j \in S
  <2>1. j \in Nat /\ x \in Nat /\ ~(j < x)
    BY <1>1, <1>3, <1>4
  <2> QED BY <2>1
<1> QED BY <1>5 DEF First

(* The client of every request, as the kinds there can be of them. *)
Kinds == build.clients \cup {Dvd, None}

(* As long as there is no request of some kind the queue has a free slot:  *)
(* by the pigeonhole principle, since QUEUE_SIZE is the number of kinds.   *)
LEMMA RoomFor ==
    ASSUME TypeOK, QueueInv, ctl # "release", NEW k \in Kinds,
           \A i \in Occupied : Kind(queue[i]) # k
    PROVE  Free # {}
<1> SUFFICES ASSUME Free = {} PROVE FALSE
  OBVIOUS
<1>1. /\ build \in Build /\ build.size \in Nat /\ build.size <= QueueSize
      /\ IsFiniteSet(build.clients) /\ Cardinality(build.clients) + 2 <= build.size
      /\ Cardinality(build.clients) \in Nat
  <2>1. build \in Builds /\ build \in Build
    BY GcodeQueueAssumption DEF TypeOK
  <2>2. build.size \in 1..QueueSize /\ QueueSize \in Nat
    BY <2>1, GcodeQueueAssumption DEF Build, Slots
  <2>3. IsFiniteSet(build.clients) /\ Cardinality(build.clients) + 2 <= build.size
    BY <2>1, QueueRoomAssumption
  <2> QED BY <2>1, <2>2, <2>3, FS_CardinalityType
<1> DEFINE S == 1..build.size
           T == Kinds \ {k}
           kind == [i \in S |-> Kind(queue[i])]
<1>2. \A i \in S : i \in Occupied /\ i \in Pending
  <2> TAKE i \in S
  <2>1. i \in Slots /\ i <= build.size
    BY <1>1, GcodeQueueAssumption DEF Slots
  <2> QED BY <2>1 DEF Free, Occupied, Pending
<1>3. kind \in [S -> T]
  <2>1. \A i \in S : Kind(queue[i]) \in Kinds /\ Kind(queue[i]) # k
    BY <1>2 DEF QueueInv, Sound, Kind, Kinds
  <2> QED BY <2>1
<1>4. IsFiniteSet(S) /\ Cardinality(S) = build.size
  <2>1. PICK m \in Nat \ {0} : m = build.size
    BY <1>1
  <2>2. IsFiniteSet(1..m) /\ Cardinality(1..m) = m
    BY FS_Interval
  <2> QED BY <2>1, <2>2
<1>5. IsFiniteSet(T) /\ Cardinality(T) < build.size
  <2> DEFINE A == build.clients \cup {Dvd}
             B == A \cup {None}
  <2>1. /\ IsFiniteSet(A) /\ Cardinality(A) \in Nat
        /\ Cardinality(A) <= Cardinality(build.clients) + 1
    <3>1. /\ IsFiniteSet(A)
          /\ Cardinality(A) = IF Dvd \in build.clients THEN Cardinality(build.clients)
                              ELSE Cardinality(build.clients) + 1
      BY <1>1, FS_AddElement
    <3> HIDE DEF A
    <3> QED BY <1>1, <3>1
  <2>2. /\ IsFiniteSet(B) /\ Cardinality(B) \in Nat
        /\ Cardinality(B) <= Cardinality(A) + 1
    <3>1. /\ IsFiniteSet(B)
          /\ Cardinality(B) = IF None \in A THEN Cardinality(A) ELSE Cardinality(A) + 1
      <4> HIDE DEF A
      <4> QED BY <2>1, FS_AddElement
    <3> HIDE DEF A, B
    <3> QED BY <2>1, <3>1
  <2>3. B = Kinds
    BY DEF Kinds
  <2> HIDE DEF A, B
  <2>4. IsFiniteSet(T) /\ Cardinality(T) = Cardinality(B) - 1
    BY <2>2, <2>3, FS_RemoveElement
  <2> HIDE DEF T
  <2> QED BY <1>1, <2>1, <2>2, <2>4
<1> HIDE DEF S, T
<1>6. PICK i, j \in S : i # j /\ kind[i] = kind[j]
  <2> HIDE DEF kind
  <2>1. Cardinality(T) < Cardinality(S)
    BY <1>4, <1>5
  <2> QED BY <1>3, <1>4, <1>5, <2>1, FS_PigeonHole
<1>7. Kind(queue[i]) = Kind(queue[j])
  BY <1>6
<1> QED BY <1>2, <1>6, <1>7 DEF QueueInv

(* gcode_push_queue: the request gets a slot of its own, and nothing else  *)
(* of the queue changes; an idle queue starts with it.                     *)
LEMMA Pushed ==
    ASSUME TypeOK, NEW r \in Request, NEW next, Push(r, next), Free # {}
    PROVE  \E i \in Slots :
              /\ i <= build.size /\ queue[i] = None
              /\ queue' = [queue EXCEPT ![i] = r] /\ dropped' = dropped
              /\ queued = None => queued' = i /\ ctl' = "start"
              /\ queued # None => queued' = queued /\ ctl' = next
<1>1. First(Free) \in Free
  BY FirstIsIn DEF Free
<1> QED BY <1>1 DEF Push, Free

(* What a request that is added does to the queue and to the drive, which  *)
(* is all but what it means for the command and the disc.                  *)
LEMMA PushStep ==
    ASSUME IInv, NEW r, Sound(r), r.op # "write",
           NEW next, Push(r, next),
           \/ ctl = "idle" /\ next = "idle"
           \/ ctl = "done" /\ next = "release",
           NEW k \in Kinds, \A i \in Occupied : Kind(queue[i]) # k,
           \A i \in Occupied : Kind(queue[i]) = Kind(r) => next = "release" /\ i = queued,
           UNCHANGED <<build, last_sector, buffer, drive, held, media>>
    PROVE  /\ queue' \in [Slots -> Request \cup {None}] /\ queued' \in Slots
           /\ ctl' \in {"idle", "start", "release"} /\ dropped' = {}
           /\ QueueInv' /\ ServeInv' /\ BufferInv' /\ AnswerInv'
           /\ \E n \in Slots :
                 /\ n \notin Occupied /\ n \in Pending' /\ queue'[n] = r
                 /\ \A i \in Slots \ {n} :
                       /\ i \in Pending' <=> i \in Pending /\ ~(next = "release" /\ i = queued)
                       /\ i \in Pending => i \in Occupied /\ queue'[i] = queue[i]
<1>1. /\ TypeOK /\ QueueInv /\ ServeInv /\ BufferInv /\ dropped = {} /\ r \in Request /\ r # None
      /\ queue \in [Slots -> Request \cup {None}] /\ queued \in Slots \cup {None}
  BY GcodeQueueAssumption DEF IInv, TypeOK, NeverRefused, Sound
<1>2. Free # {}
  BY <1>1, RoomFor
<1>3. PICK n \in Slots :
         /\ n <= build.size /\ queue[n] = None
         /\ queue' = [queue EXCEPT ![n] = r] /\ dropped' = dropped
         /\ queued = None => queued' = n /\ ctl' = "start"
         /\ queued # None => queued' = queued /\ ctl' = next
  BY <1>1, <1>2, Pushed
<1>n. n # None
  BY GcodeQueueAssumption DEF Slots
<1>4. /\ queue'[n] = r /\ n \notin Occupied /\ queued # n
      /\ \A i \in Slots \ {n} : queue'[i] = queue[i]
  BY <1>1, <1>3, <1>n DEF Occupied, ServeInv
<1>5. \A i \in Slots : i \in Occupied' <=> i = n \/ i \in Occupied
  BY <1>1, <1>3, <1>4 DEF Occupied
<1>6. Slots \cap Pending = Occupied /\ Pending \subseteq Slots
  BY DEF Pending, Occupied
<1>7. ctl = "done" => queued # None
  BY <1>1 DEF ServeInv, DriveServesQueue
<1>8. ctl' = "release" <=> next = "release"
  BY <1>3, <1>7
<1>9. \A i \in Slots : i \in Pending' <=> i = n \/ (i \in Occupied /\ ~(next = "release" /\ i = queued))
  <2> TAKE i \in Slots
  <2>1. i \in Pending' <=> i \in Occupied' /\ ~(ctl' = "release" /\ i = queued')
    BY DEF Pending
  <2>2. next = "release" => queued' = queued
    BY <1>3, <1>7
  <2> QED BY <1>4, <1>5, <1>8, <2>1, <2>2
<1>10. queued' \in Slots /\ queue'[queued'] # None
  BY <1>1, <1>3, <1>4 DEF ServeInv
<1>11. ctl' \in {"idle", "start", "release"}
  BY <1>3
<1>12. QueueInv'
  <2>2. \A i \in Occupied' : i <= build'.size /\ Sound(queue[i])'
    <3> TAKE i \in Occupied'
    <3>1. i \in Slots
      BY DEF Occupied
    <3>2. i <= build.size /\ Sound(queue'[i])
      BY <1>1, <1>3, <1>4, <1>5, <3>1 DEF QueueInv
    <3> QED BY <3>2 DEF Sound
  <2>3. \A i, j \in Pending' : Kind(queue'[i]) = Kind(queue'[j]) => i = j
    <3> TAKE i, j \in Pending'
    <3>1. i \in Slots /\ j \in Slots
      BY DEF Pending, Occupied
    <3> QED BY <1>1, <1>4, <1>6, <1>9, <3>1 DEF QueueInv
  <2>4. \A i \in Occupied' : queue'[i].op = "write" => i = queued'
    <3> TAKE i \in Occupied'
    <3>1. i \in Slots
      BY DEF Occupied
    <3>2. i # n => i \in Occupied /\ queue'[i] = queue[i]
      BY <1>4, <1>5, <3>1
    <3>3. i # n /\ queue[i].op = "write" => i = queued
      BY <1>1, <3>2 DEF QueueInv
    <3>4. i # n /\ i = queued => i = queued'
      BY <1>3, <3>1, GcodeQueueAssumption DEF Slots
    <3> QED BY <1>4, <3>2, <3>3, <3>4
  <2> QED BY <2>2, <2>3, <2>4 DEF QueueInv, Kind
<1>13. ServeInv'
  BY <1>1, <1>3, <1>4, <1>10, <1>n DEF ServeInv, DriveServesQueue
<1>14. BufferInv'
  <2>1. CacheFresh'
    BY <1>1 DEF BufferInv, CacheFresh
  <2>2. queued # None => queue'[queued'] = queue[queued]
    BY <1>1, <1>3, <1>4
  <2>3. queued = None => queue'[queued'] = r
    BY <1>3, <1>4
  <2> QED BY <1>1, <1>3, <2>1, <2>2, <2>3 DEF BufferInv, Now
<1>15. AnswerInv'
  BY <1>11 DEF AnswerInv
<1>16. queue' \in [Slots -> Request \cup {None}]
  BY <1>1, <1>3
<1> QED BY <1>1, <1>3, <1>4, <1>6, <1>9, <1>10, <1>11, <1>12, <1>13, <1>14, <1>15, <1>16

(* The same, told of the command under way and of the changes of disc.     *)
LEMMA PushedSlots ==
    ASSUME IInv, NEW r, Sound(r), r.op # "write",
           NEW next, Push(r, next),
           \/ ctl = "idle" /\ next = "idle"
           \/ ctl = "done" /\ next = "release",
           NEW k \in Kinds, \A i \in Occupied : Kind(queue[i]) # k,
           \A i \in Occupied : Kind(queue[i]) = Kind(r) => next = "release" /\ i = queued,
           UNCHANGED <<build, last_sector, buffer, drive, held, media>>
    PROVE  \E n \in Slots :
              /\ n \notin Pending /\ queue'[n] = r
              /\ CommandSlots' = {i \in CommandSlots : ~(next = "release" /\ i = queued)}
                                    \cup {i \in {n} : Kind(r) = Dvd}
              /\ Changes' = {i \in Changes : ~(next = "release" /\ i = queued)}
                               \cup {i \in {n} : r.op = "frags"}
              /\ \A i \in Pending : queue'[i] = queue[i]
<1>1. PICK n \in Slots :
         /\ n \notin Occupied /\ n \in Pending' /\ queue'[n] = r
         /\ \A i \in Slots \ {n} :
               /\ i \in Pending' <=> i \in Pending /\ ~(next = "release" /\ i = queued)
               /\ i \in Pending => i \in Occupied /\ queue'[i] = queue[i]
  BY PushStep
<1>2. Pending \subseteq Occupied /\ Pending \subseteq Slots /\ Pending' \subseteq Slots
  BY DEF Pending, Occupied
<1>3. ASSUME NEW i
      PROVE  i \in CommandSlots' <=> \/ i \in CommandSlots /\ ~(next = "release" /\ i = queued)
                                     \/ i = n /\ Kind(r) = Dvd
  <2>1. i \in CommandSlots' <=> i \in Pending' /\ Kind(queue'[i]) = Dvd
    BY DEF CommandSlots, Kind
  <2> QED BY <1>1, <1>2, <2>1 DEF CommandSlots
<1>4. ASSUME NEW i
      PROVE  i \in Changes' <=> \/ i \in Changes /\ ~(next = "release" /\ i = queued)
                                \/ i = n /\ r.op = "frags"
  BY <1>1, <1>2 DEF Changes
<1> QED BY <1>1, <1>2, <1>3, <1>4

(* Steps that leave the queue as it is. *)
LEMMA SlotsSame ==
    ASSUME UNCHANGED <<queue, queued>>, ctl' = ctl \/ "release" \notin {ctl, ctl'}
    PROVE  Occupied' = Occupied /\ Pending' = Pending /\ CommandSlots' = CommandSlots
           /\ Changes' = Changes
  BY DEF Occupied, Pending, CommandSlots, Changes, Kind

LEMMA QueueSame ==
    ASSUME QueueInv, UNCHANGED <<build, queue, queued>>,
           ctl' = ctl \/ "release" \notin {ctl, ctl'}
    PROVE  QueueInv'
<1>1. Occupied' = Occupied /\ Pending' = Pending
  BY SlotsSame
<1> QED BY <1>1 DEF QueueInv, Sound, Kind

(* Steps of the game that ask nothing of the drive. *)
LEMMA DriverSame ==
    ASSUME QueueInv, ServeInv, BufferInv, AnswerInv, NeverRefused,
           UNCHANGED <<build, gcode, ctl, device, answer, dropped>>
    PROVE  /\ QueueInv' /\ ServeInv' /\ BufferInv' /\ AnswerInv' /\ NeverRefused'
           /\ Pending' = Pending /\ CommandSlots' = CommandSlots /\ Changes' = Changes
<1>1. UNCHANGED <<queue, queued, last_sector, buffer, drive, loaded, held, media>>
  BY DEF gcode, device
<1>2. Occupied' = Occupied /\ Pending' = Pending /\ CommandSlots' = CommandSlots
      /\ Changes' = Changes /\ QueueInv'
  BY <1>1, SlotsSame, QueueSame
<1>3. ServeInv' /\ NeverRefused'
  BY <1>1, <1>2 DEF ServeInv, DriveServesQueue, NeverRefused
<1>4. BufferInv' /\ AnswerInv'
  BY <1>1 DEF BufferInv, AnswerInv, CacheFresh, Now
<1> QED BY <1>2, <1>3, <1>4

-----------------------------------------------------------------------------
(* Lemmas about the requests *)

LEMMA PartRequestIs ==
    ASSUME TypeOK, NEW c \in build.clients \cup {Dvd}, c \in Streamers \cup {Dvd},
           NEW image \in Images, NEW p \in Parts, NEW r \in PartRequest(c, image, p)
    PROVE  /\ Sound(r) /\ r.client = c /\ r.image = image
           /\ r.op \in {"read", "sector", "part"} /\ (r.op = "read" => image # Apploader)
<1>1. c \in Clients /\ c \notin Cards
  BY GcodeQueueAssumption DEF Clients
<1>2. Layout[image][p] \in Sectors \cup {OnDisc} /\ OnDisc \notin Sectors
      /\ Layout[Apploader][p] \in Sectors
  BY GcodeQueueAssumption
<1>3. CASE Layout[image][p] = OnDisc
  <2>1. r = [client |-> c, op |-> "read", image |-> image, sector |-> None, data |-> None]
    BY <1>3 DEF PartRequest, Entry
  <2>2. r \in Request /\ image # Apploader
    BY <1>1, <1>2, <1>3, <2>1 DEF Request, Ops
  <2> QED BY <1>1, <2>1, <2>2, GcodeQueueAssumption DEF Sound
<1>4. CASE Layout[image][p] # OnDisc
  <2>1. PICK op \in {"sector", "part"} :
           r = [client |-> c, op |-> op, image |-> image, sector |-> Layout[image][p],
                data |-> None]
    BY <1>4 DEF PartRequest, Entry
  <2>2. r \in Request
    BY <1>1, <1>2, <1>4, <2>1 DEF Request, Ops
  <2> QED BY <1>1, <1>2, <1>4, <2>1, <2>2, GcodeQueueAssumption DEF Sound
<1> QED BY <1>3, <1>4

LEMMA CardRequestIs ==
    ASSUME TypeOK, NEW c \in build.clients, c \in Cards, NEW r \in CardRequest(c)
    PROVE  Sound(r) /\ r.client = c /\ r.op \in {"sector", "part", "buffer"}
<1>1. /\ c \in Clients /\ c \notin Streamers /\ c # Dvd
      /\ CardSectors[c] \subseteq Sectors /\ Payloads[c] \subseteq Vals
  BY GcodeQueueAssumption DEF Clients
<1>2. CASE \E op \in {"sector", "part"}, s \in CardSectors[c] :
              r = [client |-> c, op |-> op, image |-> None, sector |-> s, data |-> None]
  <2>1. PICK op \in {"sector", "part"}, s \in CardSectors[c] :
           r = [client |-> c, op |-> op, image |-> None, sector |-> s, data |-> None]
    BY <1>2
  <2>2. r \in Request
    BY <1>1, <2>1 DEF Request, Ops
  <2> QED BY <1>1, <2>1, <2>2 DEF Sound
<1>3. CASE \E s \in CardSectors[c], d \in Payloads[c] :
              r = [client |-> c, op |-> "buffer", image |-> None, sector |-> s, data |-> d]
  <2>1. PICK s \in CardSectors[c], d \in Payloads[c] :
           r = [client |-> c, op |-> "buffer", image |-> None, sector |-> s, data |-> d]
    BY <1>3
  <2>2. r \in Request
    BY <1>1, <2>1 DEF Request, Ops
  <2> QED BY <1>1, <2>1, <2>2 DEF Sound
<1> QED BY <1>2, <1>3 DEF CardRequest, Entry

LEMMA StreamRequestIs ==
    ASSUME TypeOK, NEW c \in build.clients, c \in Streamers, NEW r \in StreamRequest(c)
    PROVE  Sound(r) /\ r.client = c /\ r.op \in {"read", "sector", "part"}
<1>1. PICK p \in Parts : r \in PartRequest(c, current, p)
  BY DEF StreamRequest
<1>2. current \in Images /\ c \in build.clients \cup {Dvd} /\ c \in Streamers \cup {Dvd}
  BY DEF TypeOK
<1> QED BY <1>1, <1>2, PartRequestIs

-----------------------------------------------------------------------------
(* The initial states *)

LEMMA InitIInv == Init => IInv
<1> SUFFICES ASSUME Init PROVE IInv
  OBVIOUS
<1>1. /\ build \in Builds /\ queue = [i \in Slots |-> None] /\ queued = None
      /\ last_sector = None /\ buffer = None /\ ctl = "idle" /\ di = "idle"
      /\ command = None /\ at = None /\ cover = "closed" /\ cover_alarm = FALSE
      /\ current \in Discs /\ flags = InitFlags /\ drive = None /\ loaded = current
      /\ held = None /\ media = InitMedia /\ answer = None /\ dropped = {}
  BY DEF Init
<1>2. Occupied = {} /\ Pending = {} /\ CommandSlots = {} /\ Changes = {}
  BY <1>1 DEF Occupied, Pending, CommandSlots, Changes
<1>3. TypeOK /\ NeverRefused
  BY <1>1, GcodeQueueAssumption DEF TypeOK, NeverRefused, Images
<1>4. QueueInv /\ ServeInv
  BY <1>1, <1>2 DEF QueueInv, ServeInv, DriveServesQueue
<1>5. CommandInv /\ CoverInv
  BY <1>1, <1>2, GcodeQueueAssumption DEF CommandInv, CoverInv
<1>6. BufferInv /\ AnswerInv
  BY <1>1 DEF BufferInv, AnswerInv, CacheFresh
<1> QED BY <1>3, <1>4, <1>5, <1>6 DEF IInv

-----------------------------------------------------------------------------
(* Steps of the game *)

LEMMA CommandSame ==
    ASSUME CommandInv, UNCHANGED <<build, di, command, at, cover, current, loaded>>,
           CommandSlots' = CommandSlots, \A i \in CommandSlots : queue'[i] = queue[i]
    PROVE  CommandInv'
  BY DEF CommandInv

LEMMA CoverSame ==
    ASSUME CoverInv, UNCHANGED <<cover, cover_alarm, current, flags, loaded>>, Changes' = Changes
    PROVE  CoverInv'
  BY DEF CoverInv

(* Between handlers every request in the queue is still to be answered. *)
LEMMA AllPending ==
    ASSUME TypeOK, QueueInv, ctl # "release"
    PROVE  /\ Pending = Occupied /\ Occupied \subseteq Slots
           /\ \A i \in Occupied : queue[i] \in Request /\ Sound(queue[i])
           /\ \A i, j \in Occupied : Kind(queue[i]) = Kind(queue[j]) => i = j
           /\ \A i \in Occupied : i \in CommandSlots <=> Kind(queue[i]) = Dvd
           /\ \A i \in Occupied : i \in Changes <=> Kind(queue[i]) = None
<1>1. Pending = Occupied /\ Occupied \subseteq Slots
  BY DEF Pending, Occupied
<1>2. \A i \in Occupied : queue[i] \in Request /\ Sound(queue[i])
  BY DEF QueueInv, Sound
<1>3. None \notin Clients /\ \A r \in Request : r.client \in Clients
  BY GcodeQueueAssumption DEF Request
<1> QED BY <1>1, <1>2, <1>3 DEF QueueInv, CommandSlots, Changes, Kind

LEMMA SubmitStep == ASSUME IInv, NEW c \in build.clients, Submit(c) PROVE IInv'
<1>1. /\ TypeOK /\ QueueInv /\ CommandInv /\ CoverInv
      /\ ctl = "idle" /\ ~Waiting(c)
      /\ UNCHANGED <<build, last_sector, buffer, di, command, at, cover, cover_alarm, current,
                     flags, drive, loaded, held, media, answer>>
  BY DEF IInv, Submit, game, device
<1>2. build.clients \subseteq Cards \cup Streamers /\ c \in Clients /\ c # Dvd /\ c # None
  BY <1>1, GcodeQueueAssumption DEF TypeOK, Build, Clients
<1>3. PICK r : /\ r \in IF c \in Cards THEN CardRequest(c) ELSE StreamRequest(c)
               /\ Push(r, "idle")
  BY DEF Submit
<1>4. Sound(r) /\ r.client = c /\ r.op \in {"read", "sector", "part", "buffer"}
  BY <1>1, <1>2, <1>3, CardRequestIs, StreamRequestIs
<1>5. Kind(r) = c /\ c \in Kinds
  BY <1>4 DEF Kind, Kinds
<1>6. \A i \in Occupied : Kind(queue[i]) # c
  BY <1>1, <1>2 DEF Waiting, Kind
<1>7. /\ queue' \in [Slots -> Request \cup {None}] /\ queued' \in Slots
      /\ ctl' \in {"idle", "start", "release"} /\ dropped' = {}
      /\ QueueInv' /\ ServeInv' /\ BufferInv' /\ AnswerInv'
  BY <1>1, <1>3, <1>4, <1>5, <1>6, PushStep
<1>8. PICK n \in Slots :
         /\ n \notin Pending
         /\ CommandSlots' = {i \in CommandSlots : ~("idle" = "release" /\ i = queued)}
                               \cup {i \in {n} : Kind(r) = Dvd}
         /\ Changes' = {i \in Changes : ~("idle" = "release" /\ i = queued)}
                          \cup {i \in {n} : r.op = "frags"}
         /\ \A i \in Pending : queue'[i] = queue[i]
  BY <1>1, <1>3, <1>4, <1>5, <1>6, PushedSlots
<1>9. /\ CommandSlots' = CommandSlots /\ Changes' = Changes
      /\ \A i \in CommandSlots : queue'[i] = queue[i]
  BY <1>2, <1>4, <1>5, <1>8 DEF CommandSlots
<1>10. TypeOK' /\ NeverRefused'
  BY <1>1, <1>7 DEF TypeOK, NeverRefused
<1>11. CommandInv' /\ CoverInv'
  BY <1>1, <1>9, CommandSame, CoverSame
<1> QED BY <1>7, <1>10, <1>11 DEF IInv

LEMMA StartStep == ASSUME IInv, NEW cmd \in Command, Start(cmd) PROVE IInv'
<1>1. /\ TypeOK /\ CommandInv /\ CoverInv
      /\ ctl = "idle" /\ di = "idle"
      /\ cmd.op = "audio" => build.clients \cap Streamers = {}
      /\ di' = "latency" /\ command' = cmd
      /\ UNCHANGED <<build, gcode, ctl, at, cover, cover_alarm, current, flags, device,
                     answer, dropped>>
  BY DEF IInv, Start
<1>2. UNCHANGED <<queue, queued, last_sector, buffer, drive, loaded, held, media>>
  BY <1>1 DEF gcode, device
<1>3. TypeOK'
  BY <1>1, <1>2 DEF TypeOK
<1>4. /\ QueueInv' /\ ServeInv' /\ BufferInv' /\ AnswerInv' /\ NeverRefused'
      /\ CommandSlots' = CommandSlots /\ Changes' = Changes
  BY <1>1, DriverSame DEF IInv
<1>5. CommandInv'
  BY <1>1, <1>2, <1>4 DEF CommandInv
<1>6. CoverInv'
  BY <1>1, <1>2, <1>4, CoverSame
<1> QED BY <1>3, <1>4, <1>5, <1>6 DEF IInv

LEMMA LeaveGameStep == ASSUME IInv, LeaveGame PROVE IInv'
<1>1. /\ TypeOK /\ CommandInv /\ CoverInv
      /\ flags' = (flags \ {"igr"}) \cup {"apploader"}
      /\ UNCHANGED <<build, gcode, ctl, di, command, at, cover, cover_alarm, current, device,
                     answer, dropped>>
  BY DEF IInv, LeaveGame
<1>2. UNCHANGED <<queue, queued, last_sector, buffer, drive, loaded, held, media>>
  BY <1>1 DEF gcode, device
<1>3. TypeOK'
  BY <1>1, <1>2 DEF TypeOK
<1>4. /\ QueueInv' /\ ServeInv' /\ BufferInv' /\ AnswerInv' /\ NeverRefused'
      /\ CommandSlots' = CommandSlots /\ Changes' = Changes
  BY <1>1, DriverSame DEF IInv
<1>5. CommandInv' /\ CoverInv'
  BY <1>1, <1>2, <1>4 DEF CommandInv, CoverInv
<1> QED BY <1>3, <1>4, <1>5 DEF IInv

LEMMA ImmediateStep == ASSUME IInv, Immediate PROVE IInv'
<1>1. /\ TypeOK /\ CommandInv /\ CoverInv
      /\ di = "latency" /\ di' = "idle" /\ command' = None
      /\ UNCHANGED <<build, gcode, ctl, at, cover, cover_alarm, current, flags, device,
                     answer, dropped>>
  BY DEF IInv, Immediate
<1>2. UNCHANGED <<queue, queued, last_sector, buffer, drive, loaded, held, media>>
  BY <1>1 DEF gcode, device
<1>3. TypeOK'
  BY <1>1, <1>2 DEF TypeOK
<1>4. /\ QueueInv' /\ ServeInv' /\ BufferInv' /\ AnswerInv' /\ NeverRefused'
      /\ CommandSlots' = CommandSlots /\ Changes' = Changes
  BY <1>1, DriverSame DEF IInv
<1>5. CommandInv'
  BY <1>1, <1>2, <1>4 DEF CommandInv
<1>6. CoverInv'
  BY <1>1, <1>2, <1>4, CoverSame
<1> QED BY <1>3, <1>4, <1>5, <1>6 DEF IInv

LEMMA CloseCoverStep == ASSUME IInv, CloseCover PROVE IInv'
<1>1. /\ TypeOK /\ CommandInv /\ CoverInv
      /\ cover_alarm /\ cover' = "closed" /\ cover_alarm' = FALSE
      /\ UNCHANGED <<build, gcode, ctl, di, command, at, current, flags, device,
                     answer, dropped>>
  BY DEF IInv, CloseCover
<1>2. UNCHANGED <<queue, queued, last_sector, buffer, drive, loaded, held, media>>
  BY <1>1 DEF gcode, device
<1>3. TypeOK'
  <2>1. cover' \in {"open", "closed"} /\ cover_alarm' \in BOOLEAN
    BY <1>1
  <2> QED BY <1>1, <1>2, <2>1 DEF TypeOK
<1>4. /\ QueueInv' /\ ServeInv' /\ BufferInv' /\ AnswerInv' /\ NeverRefused'
      /\ CommandSlots' = CommandSlots /\ Changes' = Changes
  BY <1>1, DriverSame DEF IInv
<1>5. CommandInv' /\ CoverInv'
  BY <1>1, <1>2, <1>4 DEF CommandInv, CoverInv
<1> QED BY <1>3, <1>4, <1>5 DEF IInv

(* A request for the command is the only one. *)
LEMMA CommandPushed ==
    ASSUME IInv, ctl = "idle", di # "busy", NEW r, Sound(r), r.client = Dvd,
           r.op \in {"read", "sector", "part", "audio"}, Push(r, "idle"),
           UNCHANGED <<build, last_sector, buffer, drive, held, media>>
    PROVE  /\ queue' \in [Slots -> Request \cup {None}] /\ queued' \in Slots
           /\ ctl' \in {"idle", "start", "release"} /\ dropped' = {}
           /\ QueueInv' /\ ServeInv' /\ BufferInv' /\ AnswerInv'
           /\ Changes' = Changes
           /\ \E n \in Slots : CommandSlots' = {n} /\ queue'[n] = r
<1>1. TypeOK /\ QueueInv /\ CommandInv /\ Kind(r) = Dvd /\ Dvd \in Kinds
  BY DEF IInv, Kind, Kinds
<1>2. CommandSlots = {}
  BY <1>1 DEF CommandInv
<1>3. \A i \in Occupied : Kind(queue[i]) # Dvd
  BY <1>1, <1>2, AllPending
<1>4. /\ queue' \in [Slots -> Request \cup {None}] /\ queued' \in Slots
      /\ ctl' \in {"idle", "start", "release"} /\ dropped' = {}
      /\ QueueInv' /\ ServeInv' /\ BufferInv' /\ AnswerInv'
  BY <1>1, <1>3, PushStep
<1>5. PICK n \in Slots :
         /\ queue'[n] = r
         /\ CommandSlots' = {i \in CommandSlots : ~("idle" = "release" /\ i = queued)}
                               \cup {i \in {n} : Kind(r) = Dvd}
         /\ Changes' = {i \in Changes : ~("idle" = "release" /\ i = queued)}
                          \cup {i \in {n} : r.op = "frags"}
  BY <1>1, <1>3, PushedSlots
<1>6. CommandSlots' = {n} /\ Changes' = Changes
  BY <1>1, <1>2, <1>5
<1> QED BY <1>4, <1>5, <1>6

LEMMA PerformReadStep == ASSUME IInv, PerformRead PROVE IInv'
<1> DEFINE leaving == "apploader" \in flags /\ command.first = 1
<1>1. /\ TypeOK /\ QueueInv /\ CommandInv /\ CoverInv
      /\ ctl = "idle" /\ di = "latency"
      /\ command.op \in {"read", "seek"} /\ ~Refuses(command)
      /\ flags' = IF leaving THEN flags \ {"apploader", "second"} ELSE flags
      /\ current' = IF leaving THEN Apploader ELSE current
      /\ at' = command.first
      /\ UNCHANGED <<build, last_sector, buffer, command, cover, cover_alarm, drive, loaded,
                     held, media, answer>>
  BY DEF IInv, PerformRead, device
<1>2. command \in Command /\ at' \in Parts /\ cover = "closed"
  BY <1>1 DEF CommandInv, Command, Refuses, TypeOK
<1>3. /\ current' \in Images /\ flags' \subseteq flags
      /\ current' \in {loaded, Apploader}
      /\ "second" \in flags' => current' = current
  BY <1>1 DEF TypeOK, CoverInv, Images
<1> HIDE DEF leaving
<1>4. CASE build.delays
  <2>1. di' = "delayed" /\ UNCHANGED <<queue, queued, ctl, dropped>>
    BY <1>4 DEF PerformRead
  <2>2. /\ CommandSlots' = CommandSlots /\ Changes' = Changes /\ Occupied' = Occupied
        /\ QueueInv'
    BY <1>1, <2>1, SlotsSame, QueueSame
  <2>3. ServeInv' /\ BufferInv' /\ AnswerInv' /\ NeverRefused'
    BY <1>1, <2>1, <2>2 DEF IInv, ServeInv, DriveServesQueue, BufferInv, AnswerInv, CacheFresh, Now,
       NeverRefused
  <2>4. TypeOK'
    BY <1>1, <1>2, <1>3, <2>1 DEF TypeOK
  <2>5. CommandInv'
    BY <1>1, <1>2, <2>1, <2>2 DEF CommandInv
  <2>6. CoverInv'
    BY <1>1, <1>3, <2>2 DEF CoverInv
  <2> QED BY <2>2, <2>3, <2>4, <2>5, <2>6 DEF IInv
<1>5. CASE ~build.delays
  <2>1. di' = "busy" /\ \E r \in PartRequest(Dvd, current', at') : Push(r, "idle")
    BY <1>5 DEF PerformRead
  <2>2. PICK r \in PartRequest(Dvd, current', at') : Push(r, "idle")
    BY <2>1
  <2>3. PICK image \in Images, p \in Parts : image = current' /\ p = at'
    BY <1>2, <1>3
  <2>4. /\ Sound(r) /\ r.client = Dvd /\ r.image = current'
        /\ r.op \in {"read", "sector", "part"} /\ (r.op = "read" => current' # Apploader)
    BY <1>1, <2>2, <2>3, PartRequestIs
  <2>5. /\ queue' \in [Slots -> Request \cup {None}] /\ queued' \in Slots
        /\ ctl' \in {"idle", "start", "release"} /\ dropped' = {}
        /\ QueueInv' /\ ServeInv' /\ BufferInv' /\ AnswerInv'
        /\ Changes' = Changes
        /\ \E n \in Slots : CommandSlots' = {n} /\ queue'[n] = r
    BY <1>1, <2>2, <2>4, CommandPushed
  <2>6. TypeOK' /\ NeverRefused'
    BY <1>1, <1>2, <1>3, <2>1, <2>5 DEF TypeOK, NeverRefused
  <2>7. CommandInv'
    BY <1>1, <1>2, <1>3, <2>1, <2>4, <2>5 DEF CommandInv
  <2>8. CoverInv'
    BY <1>1, <1>3, <2>5 DEF CoverInv
  <2> QED BY <2>5, <2>6, <2>7, <2>8 DEF IInv
<1> QED BY <1>4, <1>5

LEMMA ScheduleReadStep == ASSUME IInv, ScheduleRead PROVE IInv'
<1>1. /\ TypeOK /\ QueueInv /\ CommandInv /\ CoverInv
      /\ ctl = "idle" /\ di = "delayed" /\ di' = "busy"
      /\ UNCHANGED <<build, last_sector, buffer, command, at, cover, cover_alarm, current, flags,
                     drive, loaded, held, media, answer>>
  BY DEF IInv, ScheduleRead, device
<1>2. /\ command \in Command /\ command.op \in {"read", "seek"} /\ at \in Parts
      /\ cover = "closed" /\ current \in Images
  BY <1>1 DEF CommandInv, TypeOK
<1>3. PICK r \in PartRequest(Dvd, current, at) : Push(r, "idle")
  BY DEF ScheduleRead
<1>4. /\ Sound(r) /\ r.client = Dvd /\ r.image = current
      /\ r.op \in {"read", "sector", "part"} /\ (r.op = "read" => current # Apploader)
  BY <1>1, <1>2, <1>3, PartRequestIs
<1>5. /\ queue' \in [Slots -> Request \cup {None}] /\ queued' \in Slots
      /\ ctl' \in {"idle", "start", "release"} /\ dropped' = {}
      /\ QueueInv' /\ ServeInv' /\ BufferInv' /\ AnswerInv'
      /\ Changes' = Changes
      /\ \E n \in Slots : CommandSlots' = {n} /\ queue'[n] = r
  BY <1>1, <1>3, <1>4, CommandPushed
<1>6. TypeOK' /\ NeverRefused'
  BY <1>1, <1>5 DEF TypeOK, NeverRefused
<1>7. CommandInv'
  BY <1>1, <1>2, <1>4, <1>5 DEF CommandInv, CoverInv
<1>8. CoverInv'
  BY <1>1, <1>5, CoverSame
<1> QED BY <1>5, <1>6, <1>7, <1>8 DEF IInv

LEMMA EntryIs ==
    ASSUME NEW op \in {"audio", "frags"}, NEW image \in Discs \cup {None},
           op = "frags" => image \in Discs
    PROVE  LET r == Entry(Dvd, op, image, None, None) IN
           Sound(r) /\ r.client = Dvd /\ r.op = op /\ r.image = image
<1>1. Dvd \in Clients /\ Dvd \notin Cards \cup Streamers
  BY GcodeQueueAssumption DEF Clients
<1>2. PICK r : r = [client |-> Dvd, op |-> op, image |-> image, sector |-> None, data |-> None]
  OBVIOUS
<1>3. r \in Request
  BY <1>1, <1>2 DEF Request, Ops, Images
<1> QED BY <1>1, <1>2, <1>3 DEF Entry, Sound

LEMMA PassAudioStep == ASSUME IInv, PassAudio PROVE IInv'
<1>1. /\ TypeOK /\ QueueInv /\ CommandInv /\ CoverInv
      /\ ctl = "idle" /\ di = "latency" /\ command.op = "audio" /\ di' = "busy"
      /\ UNCHANGED <<build, last_sector, buffer, command, at, cover, cover_alarm, current, flags,
                     drive, loaded, held, media, answer>>
  BY DEF IInv, PassAudio, device
<1>2. PICK r : r = Entry(Dvd, "audio", None, None, None)
  OBVIOUS
<1>3. Push(r, "idle")
  BY <1>2 DEF PassAudio
<1>4. Sound(r) /\ r.client = Dvd /\ r.op = "audio"
  BY <1>2, EntryIs
<1>5. /\ queue' \in [Slots -> Request \cup {None}] /\ queued' \in Slots
      /\ ctl' \in {"idle", "start", "release"} /\ dropped' = {}
      /\ QueueInv' /\ ServeInv' /\ BufferInv' /\ AnswerInv'
      /\ Changes' = Changes
      /\ \E n \in Slots : CommandSlots' = {n} /\ queue'[n] = r
  BY <1>1, <1>3, <1>4, CommandPushed
<1>6. TypeOK' /\ NeverRefused'
  BY <1>1, <1>5 DEF TypeOK, NeverRefused
<1>7. CommandInv'
  BY <1>1, <1>4, <1>5 DEF CommandInv
<1>8. CoverInv'
  BY <1>1, <1>5, CoverSame
<1> QED BY <1>5, <1>6, <1>7, <1>8 DEF IInv

LEMMA ChangeDiscStep == ASSUME IInv, ChangeDisc PROVE IInv'
<1>1. /\ TypeOK /\ QueueInv /\ CommandInv /\ CoverInv
      /\ ctl = "idle" /\ di = "latency" /\ command.op = "stop"
      /\ cover = "closed" /\ "second" \in flags
      /\ di' = "idle" /\ command' = None
      /\ cover' = IF Free # {} THEN "open" ELSE cover
      /\ UNCHANGED <<build, last_sector, buffer, at, cover_alarm, current, flags,
                     drive, loaded, held, media, answer>>
  BY DEF IInv, ChangeDisc, device
<1>2. PICK image \in Discs : image = OtherDisc
  <2>1. LastDisc = 1 /\ current \in Discs
    BY <1>1 DEF CoverInv, TypeOK
  <2>2. 1 - current \in 0..1
    BY <2>1 DEF Discs
  <2> QED BY <2>1, <2>2 DEF OtherDisc, Discs
<1>3. PICK r : r = Entry(Dvd, "frags", image, None, None)
  OBVIOUS
<1>4. Push(r, "idle")
  BY <1>2, <1>3 DEF ChangeDisc
<1>5. Sound(r) /\ r.op = "frags" /\ Kind(r) = None /\ None \in Kinds
  BY <1>3, EntryIs DEF Kind, Kinds
<1>6. Changes = {} /\ cover_alarm = FALSE /\ CommandSlots = {}
  BY <1>1 DEF CoverInv, CommandInv, TypeOK
<1>7. \A i \in Occupied : Kind(queue[i]) # None
  BY <1>1, <1>6, AllPending
<1>8. cover' = "open"
  BY <1>1, <1>5, <1>7, RoomFor
<1>9. /\ queue' \in [Slots -> Request \cup {None}] /\ queued' \in Slots
      /\ ctl' \in {"idle", "start", "release"} /\ dropped' = {}
      /\ QueueInv' /\ ServeInv' /\ BufferInv' /\ AnswerInv'
  BY <1>1, <1>4, <1>5, <1>7, PushStep
<1>10. PICK n \in Slots :
          /\ CommandSlots' = {i \in CommandSlots : ~("idle" = "release" /\ i = queued)}
                                \cup {i \in {n} : Kind(r) = Dvd}
          /\ Changes' = {i \in Changes : ~("idle" = "release" /\ i = queued)}
                           \cup {i \in {n} : r.op = "frags"}
  BY <1>1, <1>4, <1>5, <1>7, PushedSlots
<1>11. CommandSlots' = {} /\ Changes' = {n}
  BY <1>5, <1>6, <1>10, GcodeQueueAssumption DEF Clients
<1>12. TypeOK' /\ NeverRefused'
  BY <1>1, <1>8, <1>9 DEF TypeOK, NeverRefused
<1>13. CommandInv'
  BY <1>1, <1>11 DEF CommandInv
<1>14. CoverInv'
  BY <1>1, <1>6, <1>8, <1>11 DEF CoverInv
<1> QED BY <1>9, <1>12, <1>13, <1>14 DEF IInv

-----------------------------------------------------------------------------
(* Steps of the driver and of the drive *)

(* The request that is served. *)
LEMMA NowServed ==
    ASSUME TypeOK, QueueInv, ServeInv, queued # None
    PROVE  /\ queued \in Slots /\ queued \in Occupied /\ Now = queue[queued]
           /\ Now \in Request /\ Now # None /\ Sound(Now)
           /\ Now.op \in {"sector", "part", "buffer", "write"} => Now.sector \in Sectors
           /\ Now.op \in {"buffer", "write"} => Now.client \in Cards /\ Now.data \in Vals
           /\ ctl # "release" => queued \in Pending
<1>1. queued \in Slots /\ queued \in Occupied
  BY DEF TypeOK, ServeInv, Occupied
<1>2. Sound(Now) /\ Now = queue[queued] /\ Now # None
  BY <1>1 DEF QueueInv, Now, Occupied
<1>3. build.clients \subseteq Cards \cup Streamers
  BY GcodeQueueAssumption DEF TypeOK, Build
<1>4. Now.op \in {"buffer", "write"} => Now.client \in Cards /\ Now.data \in Vals
  <2>1. Now.op \in {"buffer", "write"} => Now.client \in Cards
    BY <1>2, <1>3 DEF Sound
  <2>2. \A c \in Cards : Payloads[c] \subseteq Vals
    BY GcodeQueueAssumption
  <2> QED BY <1>2, <2>1, <2>2 DEF Sound
<1> QED BY <1>1, <1>2, <1>4 DEF Sound, Pending

LEMMA CacheHitStep == ASSUME IInv, CacheHit PROVE IInv'
<1>1. /\ TypeOK /\ QueueInv /\ ServeInv /\ CommandInv /\ CoverInv /\ BufferInv
      /\ ctl = "start" /\ ctl' = "done" /\ Now.op = "part" /\ Now.sector = last_sector
      /\ UNCHANGED <<build, queue, queued, last_sector, buffer, di, command, at, cover,
                     cover_alarm, current, flags, drive, loaded, held, media, answer, dropped>>
  BY DEF IInv, CacheHit, gcode, game, device
<1>2. queued # None /\ drive = None
  BY <1>1 DEF ServeInv, DriveServesQueue
<1>3. last_sector # None /\ Now' = Now
  BY <1>1, <1>2, NowServed, GcodeQueueAssumption DEF Now
<1>4. buffer = media[last_sector]
  BY <1>1, <1>2, <1>3 DEF BufferInv, CacheFresh
<1>5. TypeOK' /\ NeverRefused'
  BY <1>1 DEF TypeOK, NeverRefused, IInv
<1>6. CommandSlots' = CommandSlots /\ Changes' = Changes /\ QueueInv'
  BY <1>1, SlotsSame, QueueSame
<1>7. CommandInv' /\ CoverInv'
  BY <1>1, <1>6, CommandSame, CoverSame
<1>8. ServeInv'
  BY <1>1, <1>2 DEF ServeInv, DriveServesQueue
<1>9. BufferInv' /\ AnswerInv'
  BY <1>1, <1>2, <1>3, <1>4 DEF BufferInv, AnswerInv, CacheFresh
<1> QED BY <1>5, <1>6, <1>7, <1>8, <1>9 DEF IInv

LEMMA GiveCommandStep == ASSUME IInv, GiveCommand PROVE IInv'
<1>1. /\ TypeOK /\ QueueInv /\ ServeInv /\ CommandInv /\ CoverInv /\ BufferInv
      /\ ctl = "start" /\ ctl' = "idle" /\ last_sector' = Cached(Now) /\ drive' = Now
      /\ UNCHANGED <<build, queue, queued, buffer, di, command, at, cover,
                     cover_alarm, current, flags, loaded, held, media, answer, dropped>>
  BY DEF IInv, GiveCommand, game
<1>2. queued # None /\ drive = None
  BY <1>1 DEF ServeInv, DriveServesQueue
<1>3. /\ Now \in Request /\ Now # None /\ Now = queue[queued] /\ Now' = Now
      /\ Now.op \in {"sector", "part", "buffer", "write"} => Now.sector \in Sectors
  BY <1>1, <1>2, NowServed DEF Now
<1>4. /\ last_sector' \in Sectors \cup {None}
      /\ Now.op = "part" => last_sector' = Now.sector
      /\ Now.op = "write" => last_sector' # Now.sector
      /\ Now.op # "part" => last_sector' \in {None, last_sector}
  BY <1>1, <1>3, GcodeQueueAssumption DEF Cached, TypeOK
<1>5. TypeOK' /\ NeverRefused'
  BY <1>1, <1>3, <1>4 DEF TypeOK, NeverRefused, IInv
<1>6. CommandSlots' = CommandSlots /\ Changes' = Changes /\ QueueInv'
  BY <1>1, SlotsSame, QueueSame
<1>7. CommandInv' /\ CoverInv'
  BY <1>1, <1>6, CommandSame, CoverSame
<1>8. ServeInv'
  BY <1>1, <1>2, <1>3 DEF ServeInv, DriveServesQueue
<1>9. CacheFresh'
  <2>1. CASE Now.op = "part"
    BY <1>1, <1>3, <1>4, <2>1 DEF CacheFresh
  <2>2. CASE Now.op # "part"
    BY <1>1, <1>2, <1>4, <2>2 DEF BufferInv, CacheFresh
  <2> QED BY <2>1, <2>2
<1>10. BufferInv'
  <2>1. Now.op = "write" => held' = Now.data
    BY <1>1 DEF BufferInv
  <2> QED BY <1>1, <1>3, <1>4, <1>9, <2>1 DEF BufferInv
<1>11. AnswerInv'
  BY <1>1 DEF AnswerInv
<1> QED BY <1>5, <1>6, <1>7, <1>8, <1>10, <1>11 DEF IInv

LEMMA DriveDoneStep == ASSUME IInv, NEW accepted \in BOOLEAN, DriveDone(accepted) PROVE IInv'
<1>1. /\ TypeOK /\ QueueInv /\ ServeInv /\ CommandInv /\ CoverInv /\ BufferInv
      /\ ctl = "idle" /\ drive # None /\ drive' = None /\ ctl' = "done"
      /\ drive.op \in {"write", "frags"} \/ accepted
      /\ buffer' = IF drive.op = "part" THEN media[drive.sector] ELSE buffer
      /\ held' = CASE drive.op = "buffer" -> drive.data
                   [] drive.op = "write" -> None [] OTHER -> held
      /\ media' = IF drive.op = "write" /\ accepted
                  THEN [media EXCEPT ![drive.sector] = held] ELSE media
      /\ answer' = IF ~accepted THEN Error
                   ELSE CASE drive.op = "sector" -> media[drive.sector]
                          [] drive.op = "write" -> held
                          [] OTHER -> None
      /\ UNCHANGED <<build, queue, queued, last_sector, di, command, at, cover,
                     cover_alarm, current, flags, loaded, dropped>>
  BY DEF IInv, DriveDone, game
<1>2. queued # None /\ drive = Now /\ Now' = Now
  BY <1>1 DEF ServeInv, DriveServesQueue, Now
<1>3. PICK r \in Request :
         /\ r = Now /\ r # None
         /\ r.op \in {"sector", "part", "buffer", "write"} => r.sector \in Sectors
         /\ r.op \in {"buffer", "write"} => r.data \in Vals
         /\ r.op = "write" => held = r.data /\ r.sector # last_sector
         /\ r.op = "part" => r.sector = last_sector
  <2>1. Now.op = "write" => held = Now.data /\ Now.sector # last_sector
    BY <1>1, <1>2 DEF BufferInv
  <2>2. Now.op = "part" => Now.sector = last_sector
    BY <1>1, <1>2 DEF BufferInv
  <2> QED BY <1>1, <1>2, <2>1, <2>2, NowServed
<1>4. media \in [Sectors -> Vals] /\ held \in Vals \cup {None} /\ buffer \in Vals \cup {None}
      /\ last_sector \in Sectors \cup {None}
  BY <1>1 DEF TypeOK
<1>5. /\ buffer' = IF r.op = "part" THEN media[r.sector] ELSE buffer
      /\ held' = CASE r.op = "buffer" -> r.data [] r.op = "write" -> None [] OTHER -> held
      /\ r.op = "write" /\ accepted => media' = [media EXCEPT ![r.sector] = r.data]
      /\ ~(r.op = "write" /\ accepted) => media' = media
      /\ answer' = IF ~accepted THEN Error
                   ELSE CASE r.op = "sector" -> media[r.sector]
                          [] r.op = "write" -> r.data
                          [] OTHER -> None
      /\ r.op \in {"write", "frags"} \/ accepted
  BY <1>1, <1>2, <1>3
<1>6. buffer' \in Vals \cup {None} /\ held' \in Vals \cup {None} /\ media' \in [Sectors -> Vals]
      /\ answer' \in Vals \cup {None, Error}
  <2>1. buffer' \in Vals \cup {None} /\ held' \in Vals \cup {None}
    BY <1>3, <1>4, <1>5
  <2>2. media' \in [Sectors -> Vals]
    BY <1>3, <1>4, <1>5
  <2>3. answer' \in Vals \cup {None, Error}
    BY <1>3, <1>4, <1>5
  <2> QED BY <2>1, <2>2, <2>3
<1>7. TypeOK' /\ NeverRefused'
  BY <1>1, <1>6 DEF TypeOK, NeverRefused, IInv
<1>8. CommandSlots' = CommandSlots /\ Changes' = Changes /\ QueueInv'
  BY <1>1, SlotsSame, QueueSame
<1>9. CommandInv' /\ CoverInv'
  BY <1>1, <1>8, CommandSame, CoverSame
<1>10. ServeInv'
  BY <1>1, <1>2 DEF ServeInv, DriveServesQueue
<1>11. last_sector # None => buffer' = media'[last_sector]
  <2>1. CASE r.op = "part"
    BY <1>3, <1>5, <2>1
  <2>2. CASE r.op # "part"
    <3>1. last_sector # None => buffer = media[last_sector]
      BY <1>1, <1>2, <1>3, <2>2 DEF BufferInv, CacheFresh
    <3> QED BY <1>3, <1>4, <1>5, <2>2, <3>1
  <2> QED BY <2>1, <2>2
<1>12. BufferInv'
  <2>1. Now'.op = "buffer" => held' = Now'.data
    BY <1>2, <1>3, <1>5
  <2> QED BY <1>1, <1>11, <2>1 DEF BufferInv, CacheFresh
<1>13. AnswerInv'
  <2>1. r.op = "sector" => answer' = media'[r.sector]
    BY <1>5
  <2>2. r.op = "part" => buffer' = media'[r.sector]
    BY <1>5
  <2>3. r.op = "write" => answer' = Error \/ (answer' = r.data /\ media'[r.sector] = r.data)
    <3>1. ~accepted => answer' = Error
      BY <1>5
    <3>2. r.op = "write" /\ accepted => answer' = r.data
      BY <1>5
    <3>3. r.op = "write" /\ accepted => media'[r.sector] = r.data
      BY <1>3, <1>4, <1>5
    <3> QED BY <3>1, <3>2, <3>3
  <2> QED BY <1>1, <1>2, <1>3, <2>1, <2>2, <2>3 DEF AnswerInv
<1> QED BY <1>7, <1>8, <1>9, <1>10, <1>12, <1>13 DEF IInv

(* The second command of a write takes the slot of the first. *)
LEMMA BufferedStep == ASSUME IInv, Buffered PROVE IInv'
<1>1. /\ TypeOK /\ QueueInv /\ ServeInv /\ CommandInv /\ CoverInv /\ BufferInv
      /\ ctl = "done" /\ Now.op = "buffer" /\ ctl' = "start" /\ answer' = None
      /\ queue' = [queue EXCEPT ![queued].op = "write"]
      /\ UNCHANGED <<build, queued, last_sector, buffer, di, command, at, cover, cover_alarm,
                     current, flags, drive, loaded, held, media, dropped>>
  BY DEF IInv, Buffered, game, device
<1>2. queued # None /\ drive = None
  BY <1>1 DEF ServeInv, DriveServesQueue
<1>3. /\ queued \in Slots /\ queued \in Occupied /\ Now = queue[queued] /\ Now \in Request
      /\ Sound(Now) /\ Now.client \in Cards /\ held = Now.data
  <2>1. held = Now.data
    BY <1>1 DEF BufferInv
  <2> QED BY <1>1, <1>2, <2>1, NowServed
<1>4. PICK r \in Request :
         /\ r # None /\ r = [Now EXCEPT !.op = "write"] /\ r.op = "write"
         /\ r.client = Now.client /\ r.sector = Now.sector /\ r.data = Now.data
         /\ Sound(r)
  <2> DEFINE q == [Now EXCEPT !.op = "write"]
  <2>1. /\ q \in Request /\ q.op = "write" /\ q.client = Now.client /\ q.sector = Now.sector
        /\ q.data = Now.data
    BY <1>3 DEF Request, Ops
  <2>2. Now.client # Dvd /\ Now.client \notin Streamers
    BY <1>3, GcodeQueueAssumption
  <2>3. Sound(q)
    <3> HIDE DEF q
    <3> QED BY <1>1, <1>3, <2>1, <2>2 DEF Sound
  <2> HIDE DEF q
  <2> QED BY <2>1, <2>3, GcodeQueueAssumption DEF q
<1>5. queue' = [queue EXCEPT ![queued] = r] /\ queue \in [Slots -> Request \cup {None}]
  BY <1>1, <1>3, <1>4 DEF TypeOK
<1>6. /\ queue'[queued] = r /\ \A i \in Slots \ {queued} : queue'[i] = queue[i]
      /\ Kind(r) = Kind(Now)
  BY <1>1, <1>3, <1>4, <1>5 DEF Kind
<1>7. Occupied' = Occupied /\ Pending' = Pending /\ Pending = Occupied /\ Occupied \subseteq Slots
  BY <1>1, <1>3, <1>4, <1>6 DEF Occupied, Pending
<1>8. \A i \in Occupied : Kind(queue'[i]) = Kind(queue[i])
                          /\ (queue'[i].op = "frags" <=> queue[i].op = "frags")
  BY <1>1, <1>3, <1>4, <1>6, <1>7
<1>9. CommandSlots' = CommandSlots /\ Changes' = Changes
  BY <1>7, <1>8 DEF CommandSlots, Changes, Kind
<1>10. QueueInv'
  <2>1. \A i \in Occupied : i <= build.size /\ Sound(queue'[i])
    BY <1>1, <1>3, <1>4, <1>6, <1>7 DEF QueueInv
  <2>2. \A i \in Occupied : Sound(queue[i])'
    BY <1>1, <2>1 DEF Sound
  <2>3. \A i, j \in Occupied : Kind(queue'[i]) = Kind(queue'[j]) => i = j
    BY <1>1, <1>7, <1>8 DEF QueueInv
  <2>4. \A i \in Occupied : queue'[i].op = "write" => i = queued
    BY <1>1, <1>6, <1>7 DEF QueueInv
  <2> QED BY <1>1, <1>7, <2>1, <2>2, <2>3, <2>4 DEF QueueInv, Kind
<1>11. TypeOK' /\ NeverRefused'
  <2>1. queue' \in [Slots -> Request \cup {None}]
    BY <1>3, <1>5
  <2> QED BY <1>1, <2>1 DEF TypeOK, NeverRefused, IInv
<1>12. CommandInv' /\ CoverInv'
  <2>1. \A i \in CommandSlots : i # queued
    <3>1. Dvd \notin Cards /\ Kind(Now) = Now.client
      BY <1>1, GcodeQueueAssumption DEF Kind
    <3> QED BY <1>3, <3>1 DEF CommandSlots
  <2>2. \A i \in CommandSlots : queue'[i] = queue[i]
    BY <1>6, <1>7, <2>1 DEF CommandSlots
  <2> QED BY <1>1, <1>9, <2>2, CommandSame, CoverSame
<1>13. ServeInv'
  BY <1>1, <1>2, <1>4, <1>6 DEF ServeInv, DriveServesQueue
<1>14. BufferInv' /\ AnswerInv'
  BY <1>1, <1>2, <1>3, <1>4, <1>6 DEF BufferInv, AnswerInv, CacheFresh, Now
<1> QED BY <1>10, <1>11, <1>12, <1>13, <1>14 DEF IInv

(* A callback that asks for nothing more. *)
LEMMA Returned ==
    ASSUME IInv, ctl = "done", ctl' = "release",
           UNCHANGED <<build, queue, queued, last_sector, buffer, drive, held, media>>
    PROVE  /\ QueueInv' /\ ServeInv' /\ BufferInv' /\ AnswerInv'
           /\ CommandSlots' = CommandSlots \ {queued} /\ Changes' = Changes \ {queued}
<1>1. TypeOK /\ QueueInv /\ ServeInv /\ BufferInv /\ queued # None /\ drive = None
  BY DEF IInv, ServeInv, DriveServesQueue
<1>2. Occupied' = Occupied /\ Pending' = Pending \ {queued} /\ Pending = Occupied
  BY DEF Occupied, Pending
<1>3. QueueInv'
  BY <1>1, <1>2 DEF QueueInv, Sound, Kind
<1>4. ServeInv'
  BY <1>1 DEF ServeInv, DriveServesQueue
<1>5. BufferInv' /\ AnswerInv'
  BY <1>1 DEF BufferInv, AnswerInv, CacheFresh
<1>6. CommandSlots' = CommandSlots \ {queued} /\ Changes' = Changes \ {queued}
  BY <1>2 DEF CommandSlots, Changes, Kind
<1> QED BY <1>3, <1>4, <1>5, <1>6

(* The disc changes, or does not, when nothing reads it. *)
LEMMA DiscChangedStep == ASSUME IInv, DiscChanged PROVE IInv'
<1>1. /\ TypeOK /\ QueueInv /\ ServeInv /\ CommandInv /\ CoverInv
      /\ ctl = "done" /\ ctl' = "release" /\ Now.op = "frags"
      /\ IF answer = Error THEN UNCHANGED <<loaded, current>>
         ELSE loaded' = Now.image /\ current' = Now.image
      /\ cover_alarm' = TRUE /\ answer' = None
      /\ UNCHANGED <<build, queue, queued, last_sector, buffer, di, command, at, cover, flags,
                     drive, held, media, dropped>>
  BY DEF IInv, DiscChanged, gcode
<1>2. queued # None
  BY <1>1 DEF ServeInv, DriveServesQueue
<1>3. /\ queued \in Slots /\ queued \in Occupied /\ Now = queue[queued]
      /\ Now.image \in Discs /\ Kind(Now) = None
  BY <1>1, <1>2, NowServed DEF Sound, Kind
<1>4. /\ QueueInv' /\ ServeInv' /\ BufferInv' /\ AnswerInv'
      /\ CommandSlots' = CommandSlots \ {queued} /\ Changes' = Changes \ {queued}
  BY <1>1, Returned
<1>5. queued \in Changes /\ queued \notin CommandSlots
  <2>1. None # Dvd
    BY GcodeQueueAssumption DEF Clients
  <2> QED BY <1>1, <1>3, <2>1, AllPending
<1>6. Changes = {queued}
  BY <1>1, <1>3, <1>5 DEF QueueInv, Changes, Kind
<1>7. Changes' = {} /\ CommandSlots' = CommandSlots
  BY <1>4, <1>5, <1>6
<1>8. cover = "open" /\ (CommandSlots # {} => command.op = "audio")
  BY <1>1, <1>5 DEF CommandInv, CoverInv
<1>9. /\ current' \in Images /\ loaded' \in Discs /\ current' \in {loaded', Apploader}
      /\ "second" \in flags => current' # Apploader
  BY <1>1, <1>3, GcodeQueueAssumption DEF CoverInv, TypeOK, Images
<1>10. TypeOK' /\ NeverRefused'
  <2>1. cover_alarm' \in BOOLEAN
    BY <1>1
  <2> QED BY <1>1, <1>9, <2>1 DEF TypeOK, NeverRefused, IInv
<1>11. CommandInv'
  BY <1>1, <1>7, <1>8 DEF CommandInv
<1>12. CoverInv'
  BY <1>1, <1>7, <1>8, <1>9 DEF CoverInv
<1> QED BY <1>4, <1>10, <1>11, <1>12 DEF IInv

(* The request that is served is the one of the command. *)
LEMMA CommandNow ==
    ASSUME IInv, ctl = "done", Now.client = Dvd, Now.op # "frags"
    PROVE  /\ queued \in Slots /\ Now = queue[queued] /\ CommandSlots = {queued} /\ di = "busy"
           /\ Kind(Now) = Dvd
           /\ \A i \in Occupied : Kind(queue[i]) = Dvd => i = queued
<1>1. TypeOK /\ QueueInv /\ ServeInv /\ CommandInv /\ queued # None
  BY DEF IInv, ServeInv, DriveServesQueue
<1>2. queued \in Slots /\ queued \in Occupied /\ Now = queue[queued] /\ Kind(Now) = Dvd
  BY <1>1, NowServed DEF Kind
<1>3. queued \in CommandSlots /\ \A i \in Occupied : Kind(queue[i]) = Dvd => i = queued
  BY <1>1, <1>2, AllPending
<1>4. CommandSlots \subseteq Occupied /\ \A i \in CommandSlots : Kind(queue[i]) = Dvd
  BY DEF CommandSlots, Pending
<1>5. CommandSlots = {queued}
  BY <1>3, <1>4
<1> QED BY <1>1, <1>2, <1>3, <1>5 DEF CommandInv

LEMMA PartReadStep == ASSUME IInv, PartRead PROVE IInv'
<1>1. /\ TypeOK /\ QueueInv /\ ServeInv /\ CommandInv /\ CoverInv
      /\ ctl = "done" /\ Now.client = Dvd /\ Now.op \in {"read", "sector", "part"}
      /\ answer' = None
      /\ UNCHANGED <<build, last_sector, buffer, cover, cover_alarm, current, flags,
                     drive, loaded, held, media>>
  BY DEF IInv, PartRead, device
<1>2. /\ queued \in Slots /\ Now = queue[queued] /\ CommandSlots = {queued} /\ di = "busy"
      /\ Kind(Now) = Dvd
      /\ \A i \in Occupied : Kind(queue[i]) = Dvd => i = queued
  BY <1>1, CommandNow
<1>3. /\ command \in Command /\ command.op \in {"read", "seek"} /\ at \in Parts
      /\ cover = "closed" /\ Changes = {}
  BY <1>1, <1>2 DEF CommandInv, CoverInv
<1>4. CASE Ends
  <2>1. /\ di' = "idle" /\ command' = None /\ at' = None /\ ctl' = "release"
        /\ UNCHANGED <<queue, queued, dropped>>
    BY <1>4 DEF PartRead
  <2>2. /\ QueueInv' /\ ServeInv' /\ BufferInv' /\ AnswerInv'
        /\ CommandSlots' = {} /\ Changes' = {}
    BY <1>1, <1>2, <1>3, <2>1, Returned
  <2>3. TypeOK' /\ NeverRefused'
    BY <1>1, <2>1 DEF TypeOK, NeverRefused, IInv
  <2>4. CommandInv'
    BY <2>1, <2>2 DEF CommandInv
  <2>5. CoverInv'
    BY <1>1, <1>3, <2>2, CoverSame
  <2> QED BY <2>2, <2>3, <2>4, <2>5 DEF IInv
<1>5. CASE ~Ends
  <2>1. /\ at' = at + 1 /\ UNCHANGED <<di, command>>
        /\ \E r \in PartRequest(Dvd, current, at') : Push(r, "release")
    BY <1>5 DEF PartRead
  <2>2. at' \in Parts
    <3>1. Last(command) \in Parts
      BY <1>3 DEF Last, Command
    <3>2. LastPart \in Nat /\ at \in 1..LastPart /\ Last(command) \in 1..LastPart
          /\ ~(at >= Last(command))
      BY <1>3, <1>5, <3>1, GcodeQueueAssumption DEF Ends, Parts
    <3> QED BY <2>1, <3>2 DEF Parts
  <2>3. PICK r \in PartRequest(Dvd, current, at') : Push(r, "release")
    BY <2>1
  <2>4. PICK p \in Parts : p = at'
    BY <2>2
  <2>5. /\ Sound(r) /\ r.client = Dvd /\ r.image = current
        /\ r.op \in {"read", "sector", "part"} /\ (r.op = "read" => current # Apploader)
    BY <1>1, <2>3, <2>4, PartRequestIs DEF TypeOK
  <2>6. Kind(r) = Dvd /\ None \in Kinds /\ \A i \in Occupied : Kind(queue[i]) # None
    <3>1. \A i \in Occupied : Kind(queue[i]) # None
      BY <1>1, <1>3, AllPending
    <3> QED BY <2>5, <3>1 DEF Kind, Kinds
  <2>7. /\ queue' \in [Slots -> Request \cup {None}] /\ queued' \in Slots
        /\ ctl' \in {"idle", "start", "release"} /\ dropped' = {}
        /\ QueueInv' /\ ServeInv' /\ BufferInv' /\ AnswerInv'
    BY <1>1, <1>2, <2>3, <2>5, <2>6, PushStep
  <2>8. PICK n \in Slots :
           /\ queue'[n] = r
           /\ CommandSlots' = {i \in CommandSlots : ~("release" = "release" /\ i = queued)}
                                 \cup {i \in {n} : Kind(r) = Dvd}
           /\ Changes' = {i \in Changes : ~("release" = "release" /\ i = queued)}
                            \cup {i \in {n} : r.op = "frags"}
    BY <1>1, <1>2, <2>3, <2>5, <2>6, PushedSlots
  <2>9. CommandSlots' = {n} /\ Changes' = {}
    BY <1>2, <1>3, <2>5, <2>6, <2>8
  <2>10. TypeOK' /\ NeverRefused'
    BY <1>1, <2>1, <2>2, <2>7 DEF TypeOK, NeverRefused
  <2>11. CommandInv'
    BY <1>1, <1>2, <1>3, <2>1, <2>2, <2>5, <2>8, <2>9 DEF CommandInv, CoverInv
  <2>12. CoverInv'
    BY <1>1, <1>3, <2>9, CoverSame
  <2> QED BY <2>7, <2>10, <2>11, <2>12 DEF IInv
<1> QED BY <1>4, <1>5

LEMMA AudioDoneStep == ASSUME IInv, AudioDone PROVE IInv'
<1>1. /\ TypeOK /\ QueueInv /\ ServeInv /\ CommandInv /\ CoverInv
      /\ ctl = "done" /\ Now.op = "audio" /\ ctl' = "release"
      /\ di' = "idle" /\ command' = None /\ answer' = None
      /\ UNCHANGED <<build, queue, queued, last_sector, buffer, at, cover, cover_alarm, current,
                     flags, drive, loaded, held, media, dropped>>
  BY DEF IInv, AudioDone, gcode, device
<1>2. queued # None
  BY <1>1 DEF ServeInv, DriveServesQueue
<1>3. Now.client = Dvd
  <2>1. Sound(Now) /\ build.clients \subseteq Cards \cup Streamers
    BY <1>1, <1>2, NowServed, GcodeQueueAssumption DEF TypeOK, Build
  <2> QED BY <1>1, <2>1 DEF Sound
<1>4. CommandSlots = {queued} /\ queued \notin Changes
  BY <1>1, <1>3, CommandNow DEF Changes
<1>5. /\ QueueInv' /\ ServeInv' /\ BufferInv' /\ AnswerInv'
      /\ CommandSlots' = {} /\ Changes' = Changes
  BY <1>1, <1>4, Returned
<1>6. TypeOK' /\ NeverRefused'
  BY <1>1 DEF TypeOK, NeverRefused, IInv
<1>7. CommandInv'
  BY <1>1, <1>5 DEF CommandInv
<1>8. CoverInv'
  BY <1>1, <1>5, CoverSame
<1> QED BY <1>5, <1>6, <1>7, <1>8 DEF IInv

(* The callback of a client that is not the game, when it asks for nothing. *)
LEMMA ClientReturned ==
    ASSUME IInv, ctl = "done", ctl' = "release", Now.client \in Cards \cup Streamers,
           answer' = None,
           UNCHANGED <<build, gcode, game, device, dropped>>
    PROVE  IInv'
<1>1. /\ TypeOK /\ QueueInv /\ ServeInv /\ CommandInv /\ CoverInv
      /\ UNCHANGED <<queue, queued, last_sector, buffer, di, command, at, cover, cover_alarm,
                     current, flags, drive, loaded, held, media>>
  BY DEF IInv, gcode, game, device
<1>2. queued # None
  BY <1>1 DEF ServeInv, DriveServesQueue
<1>3. queued \in Occupied /\ Now = queue[queued] /\ Kind(Now) \notin {Dvd, None}
  <2>1. Now.op # "frags"
    BY <1>1, <1>2, NowServed, GcodeQueueAssumption DEF Sound
  <2>2. Now.client # Dvd /\ Now.client # None
    BY GcodeQueueAssumption DEF Clients
  <2> QED BY <1>1, <1>2, <2>1, <2>2, NowServed DEF Kind
<1>4. queued \notin CommandSlots /\ queued \notin Changes
  BY <1>1, <1>3, AllPending
<1>5. /\ QueueInv' /\ ServeInv' /\ BufferInv' /\ AnswerInv'
      /\ CommandSlots' = CommandSlots /\ Changes' = Changes
  BY <1>1, <1>4, Returned
<1>6. TypeOK' /\ NeverRefused'
  BY <1>1 DEF TypeOK, NeverRefused, IInv
<1>7. CommandInv' /\ CoverInv'
  BY <1>1, <1>5, CommandSame, CoverSame
<1> QED BY <1>5, <1>6, <1>7 DEF IInv

LEMMA CardDoneStep == ASSUME IInv, CardDone PROVE IInv'
<1>1. /\ ctl = "done" /\ ctl' = "release" /\ Now.client \in Cards /\ answer' = None
      /\ UNCHANGED <<build, gcode, game, device, dropped>>
  BY DEF CardDone
<1> QED BY <1>1, ClientReturned

LEMMA StreamDoneStep == ASSUME IInv, StreamDone PROVE IInv'
<1>1. /\ TypeOK /\ QueueInv /\ ServeInv /\ CommandInv /\ CoverInv
      /\ ctl = "done" /\ Now.client \in Streamers /\ answer' = None
      /\ UNCHANGED <<build, last_sector, buffer, di, command, at, cover, cover_alarm, current,
                     flags, drive, loaded, held, media>>
  BY DEF IInv, StreamDone, game, device
<1>2. CASE ctl' = "release" /\ UNCHANGED <<queue, queued, dropped>>
  <2>1. UNCHANGED <<build, gcode, game, device, dropped>>
    BY <1>1, <1>2 DEF gcode, game, device
  <2> QED BY <1>1, <1>2, <2>1, ClientReturned
<1>3. CASE \E r \in StreamRequest(Now.client) : Push(r, "release")
  <2>1. queued # None
    BY <1>1 DEF ServeInv, DriveServesQueue
  <2>2. /\ queued \in Slots /\ queued \in Occupied /\ Now = queue[queued] /\ Sound(Now)
        /\ Now.client \in build.clients /\ Now.op # "frags"
    <3>1. Sound(Now) /\ Now.client # Dvd
      BY <1>1, <2>1, NowServed, GcodeQueueAssumption
    <3> QED BY <1>1, <2>1, <3>1, NowServed DEF Sound
  <2>3. PICK c \in build.clients : c = Now.client /\ c \in Streamers /\ c # Dvd /\ c # None
    BY <1>1, <2>2, GcodeQueueAssumption DEF Clients
  <2>4. PICK r \in StreamRequest(c) : Push(r, "release")
    BY <1>3, <2>3
  <2>5. Sound(r) /\ r.client = c /\ r.op \in {"read", "sector", "part"}
    BY <1>1, <2>3, <2>4, StreamRequestIs
  <2>6. Kind(r) = c /\ Kind(Now) = c
    BY <2>2, <2>3, <2>5 DEF Kind
  <2>7. \A i \in Occupied : Kind(queue[i]) = c => i = queued
    BY <1>1, <2>2, <2>6, AllPending
  <2>8. PICK k \in Kinds : \A i \in Occupied : Kind(queue[i]) # k
    <3>1. CASE CommandSlots = {}
      <4>1. \A i \in Occupied : Kind(queue[i]) # Dvd
        BY <1>1, <3>1, AllPending
      <4> QED BY <4>1 DEF Kinds
    <3>2. CASE CommandSlots # {}
      <4>1. di = "busy" /\ ~(build.clients \cap Streamers = {})
        BY <1>1, <2>3, <3>2 DEF CommandInv
      <4>2. Changes = {}
        BY <1>1, <4>1 DEF CommandInv, CoverInv
      <4>3. \A i \in Occupied : Kind(queue[i]) # None
        BY <1>1, <4>2, AllPending
      <4> QED BY <4>3 DEF Kinds
    <3> QED BY <3>1, <3>2
  <2>9. /\ queue' \in [Slots -> Request \cup {None}] /\ queued' \in Slots
        /\ ctl' \in {"idle", "start", "release"} /\ dropped' = {}
        /\ QueueInv' /\ ServeInv' /\ BufferInv' /\ AnswerInv'
    BY <1>1, <2>4, <2>5, <2>6, <2>7, <2>8, PushStep
  <2>10. PICK n \in Slots :
            /\ n \notin Pending
            /\ CommandSlots' = {i \in CommandSlots : ~("release" = "release" /\ i = queued)}
                                  \cup {i \in {n} : Kind(r) = Dvd}
            /\ Changes' = {i \in Changes : ~("release" = "release" /\ i = queued)}
                             \cup {i \in {n} : r.op = "frags"}
            /\ \A i \in Pending : queue'[i] = queue[i]
    BY <1>1, <2>4, <2>5, <2>6, <2>7, <2>8, PushedSlots
  <2>11. queued \notin CommandSlots /\ queued \notin Changes
    BY <1>1, <2>2, <2>3, <2>6, AllPending
  <2>12. /\ CommandSlots' = CommandSlots /\ Changes' = Changes
         /\ \A i \in CommandSlots : queue'[i] = queue[i]
    BY <2>3, <2>5, <2>6, <2>10, <2>11 DEF CommandSlots
  <2>13. TypeOK' /\ NeverRefused'
    BY <1>1, <2>9 DEF TypeOK, NeverRefused
  <2>14. CommandInv' /\ CoverInv'
    BY <1>1, <2>12, CommandSame, CoverSame
  <2> QED BY <2>9, <2>13, <2>14 DEF IInv
<1> QED BY <1>2, <1>3 DEF StreamDone

LEMMA ReleaseStep == ASSUME IInv, Release PROVE IInv'
<1>1. /\ TypeOK /\ QueueInv /\ ServeInv /\ CommandInv /\ CoverInv /\ BufferInv
      /\ ctl = "release"
      /\ queue' = [queue EXCEPT ![queued] = None]
      /\ queued' = IF Left # {} THEN First(Left) ELSE None
      /\ ctl' = IF Left # {} THEN "start" ELSE "idle"
      /\ UNCHANGED <<build, last_sector, buffer, di, command, at, cover, cover_alarm, current,
                     flags, drive, loaded, held, media, answer, dropped>>
  BY DEF IInv, Release, game, device
<1>2. queued # None /\ drive = None
  BY <1>1 DEF ServeInv, DriveServesQueue
<1>3. queued \in Slots /\ queue \in [Slots -> Request \cup {None}]
  BY <1>1, <1>2 DEF TypeOK
<1>4. queue'[queued] = None /\ \A i \in Slots \ {queued} : queue'[i] = queue[i]
  BY <1>1, <1>3
<1>5. Left \subseteq Slots /\ Left \subseteq Occupied /\ queued \notin Left
      /\ Occupied \subseteq Slots /\ Pending = Left
  BY <1>1 DEF Left, Occupied, Pending
<1>6. Occupied' = Left
  BY <1>4 DEF Occupied, Left
<1>7. Left # {} => First(Left) \in Left
  BY <1>5, FirstIsIn
<1>8. ctl' # "release" /\ Pending' = Left
  BY <1>1, <1>6 DEF Pending
<1>9. \A i \in Left : queue'[i] = queue[i]
  BY <1>4, <1>5
<1>10. CommandSlots' = CommandSlots /\ Changes' = Changes
  BY <1>5, <1>8, <1>9 DEF CommandSlots, Changes, Kind
<1>11. QueueInv'
  <2>1. \A i \in Left : i <= build.size /\ Sound(queue[i])
    BY <1>1, <1>5 DEF QueueInv
  <2>2. \A i \in Left : i <= build'.size /\ Sound(queue[i])'
    BY <1>1, <1>9, <2>1 DEF Sound
  <2>3. \A i \in Left : queue[i].op # "write"
    BY <1>1, <1>5 DEF QueueInv
  <2> QED BY <1>1, <1>5, <1>6, <1>8, <1>9, <2>2, <2>3 DEF QueueInv, Kind
<1>12. ServeInv'
  <2>1. Left # {} => queued' # None /\ queue'[queued'] # None
    <3>1. \A i \in Left : i # None /\ queue[i] # None
      BY <1>5, GcodeQueueAssumption DEF Slots, Occupied
    <3> QED BY <1>1, <1>7, <1>9, <3>1
  <2>2. Left = {} => queued' = None /\ ctl' = "idle"
    BY <1>1
  <2> QED BY <1>1, <1>2, <1>6, <2>1, <2>2 DEF ServeInv, DriveServesQueue
<1>13. BufferInv' /\ AnswerInv'
  <2>1. Left # {} => queue'[queued'].op # "write"
    BY <1>1, <1>5, <1>7, <1>9 DEF QueueInv
  <2>2. CacheFresh'
    BY <1>1 DEF BufferInv, CacheFresh
  <2> QED BY <1>1, <1>2, <2>1, <2>2 DEF BufferInv, AnswerInv, Now
<1>14. TypeOK' /\ NeverRefused'
  <2>1. queue' \in [Slots -> Request \cup {None}] /\ queued' \in Slots \cup {None}
        /\ ctl' \in {"idle", "start"}
    BY <1>1, <1>3, <1>5, <1>7
  <2> QED BY <1>1, <2>1 DEF TypeOK, NeverRefused, IInv
<1>15. CommandInv' /\ CoverInv'
  <2>1. CommandSlots \subseteq Left
    BY <1>5 DEF CommandSlots
  <2> QED BY <1>1, <1>9, <1>10, <2>1, CommandSame, CoverSame
<1> QED BY <1>11, <1>12, <1>13, <1>14, <1>15 DEF IInv

LEMMA NextIInv == IInv /\ [Next]_vars => IInv'
<1> SUFFICES ASSUME IInv, [Next]_vars PROVE IInv'
  OBVIOUS
<1>1. CASE \E c \in build.clients : Submit(c)
  BY <1>1, SubmitStep
<1>2. CASE \E cmd \in Command : Start(cmd)
  BY <1>2, StartStep
<1>3. CASE LeaveGame \/ CloseCover
  BY <1>3, LeaveGameStep, CloseCoverStep
<1>4. CASE Execute
  BY <1>4, ImmediateStep, PerformReadStep, ScheduleReadStep, PassAudioStep, ChangeDiscStep
     DEF Execute
<1>5. CASE Driver
  BY <1>5, CacheHitStep, GiveCommandStep, DriveDoneStep, BufferedStep, DiscChangedStep,
     PartReadStep, AudioDoneStep, CardDoneStep, StreamDoneStep, ReleaseStep DEF Driver, Done
<1>6. CASE UNCHANGED vars
  <2>1. UNCHANGED <<build, queue, queued, last_sector, buffer, ctl, di, command, at, cover,
                    cover_alarm, current, flags, drive, loaded, held, media, answer, dropped>>
    BY <1>6 DEF vars, gcode, game, device
  <2>2. TypeOK'
    BY <2>1 DEF IInv, TypeOK
  <2>3. /\ QueueInv' /\ ServeInv' /\ BufferInv' /\ AnswerInv' /\ NeverRefused'
        /\ CommandSlots' = CommandSlots /\ Changes' = Changes
    BY <2>1, DriverSame DEF IInv, gcode, device
  <2>4. CommandInv' /\ CoverInv'
    BY <2>1, <2>3, CommandSame, CoverSame DEF IInv
  <2> QED BY <2>2, <2>3, <2>4 DEF IInv
<1> QED BY <1>1, <1>2, <1>3, <1>4, <1>5, <1>6 DEF Next

LEMMA SpecIInv == Spec => []IInv
  BY InitIInv, NextIInv, PTL DEF Spec

-----------------------------------------------------------------------------
(* What the invariant implies *)

LEMMA InvCommandServed == IInv => CommandServed
<1> SUFFICES ASSUME IInv
             PROVE  Cardinality({i \in Pending : queue[i].client = Dvd /\ queue[i].op # "frags"}) =
                       IF di = "busy" THEN 1 ELSE 0
  BY DEF CommandServed
<1>1. TypeOK /\ QueueInv /\ CommandInv
  BY DEF IInv
<1>2. {i \in Pending : queue[i].client = Dvd /\ queue[i].op # "frags"} = CommandSlots
  <2>1. None # Dvd
    BY GcodeQueueAssumption DEF Clients
  <2> QED BY <2>1 DEF CommandSlots, Kind
<1>3. CASE di = "busy"
  <2>1. PICK i : i \in CommandSlots
    BY <1>1, <1>3 DEF CommandInv
  <2>2. CommandSlots = {i}
    BY <1>1, <2>1 DEF QueueInv, CommandSlots
  <2> QED BY <1>2, <1>3, <2>2, FS_Singleton
<1>4. CASE di # "busy"
  <2>1. CommandSlots = {}
    BY <1>1, <1>4 DEF CommandInv
  <2> QED BY <1>2, <1>4, <2>1, FS_EmptySet
<1> QED BY <1>3, <1>4

LEMMA InvRightDisc == IInv => RightDisc
<1> SUFFICES ASSUME IInv, NEW i \in Pending, queue[i].client = Dvd,
                    queue[i].op \in {"read", "sector", "part"}
             PROVE  /\ queue[i].image = current
                    /\ queue[i].op = "read" => loaded = current
  BY DEF RightDisc
<1>1. i \in CommandSlots
  BY DEF CommandSlots, Kind
<1> QED BY <1>1 DEF IInv, CommandInv

LEMMA InvCoverStory == IInv => CoverStory
  BY DEF IInv, CoverInv, CoverStory, Changes

(* Every variable keeps its type (gcloader.c:38-52, emulator.c). *)
THEOREM TypeCorrect == Spec => []TypeOK
  BY SpecIInv, PTL DEF IInv

(* The queue is never full when something is put into it, whatever the     *)
(* clients and the game do, as long as QUEUE_SIZE is two more than there   *)
(* are clients besides the game: gcode_push_queue (gcloader.c:83-97) never *)
(* returns false to callers that would not notice.                         *)
THEOREM NoRequestRefused == Spec => []NeverRefused
  BY SpecIInv, PTL DEF IInv

(* The drive is given one command at a time, and is never left idle while  *)
(* the queue has work (gcloader.c:99-127, 83-97, 236-299).                 *)
THEOREM DriveIsServing == Spec => []DriveServesQueue
  BY SpecIInv, PTL DEF IInv, ServeInv

(* A command of the game has exactly one request in the queue from the     *)
(* moment it is executed to its completion, over every part of its read.   *)
THEOREM CommandIsServed == Spec => []CommandServed
  BY SpecIInv, InvCommandServed, PTL

(* The disc never changes under a read: what the queue and the drive hold  *)
(* for the game is of the current disc, which the drive has loaded if it   *)
(* is to serve the read itself.                                            *)
THEOREM DiscIsRight == Spec => []RightDisc
  BY SpecIInv, InvRightDisc, PTL

(* The cover the game sees is open exactly from the request for a change   *)
(* of disc to the alarm that closes it.                                    *)
THEOREM CoverTellsStory == Spec => []CoverStory
  BY SpecIInv, InvCoverStory, PTL

(* gcode.buffer is never a stale copy of the sector it is taken for.       *)
THEOREM CacheIsFresh == Spec => []CacheFresh
  BY SpecIInv, PTL DEF IInv, BufferInv

-----------------------------------------------------------------------------
(* The driver as a BlockService of the memory cards *)

(* What the service knows of a card's request in slot i. *)
ViewOf(i) ==
    LET r == queue[i] IN
    IF i = queued /\ ctl = "done" /\ r.op # "buffer" THEN Service!Served(r.sector, 1, Result)
    ELSE Service!Asked(r.sector, 1, r.data)

(* A card waits for one request at most, and its view is of that one. *)
ViewInv ==
    /\ CardView = [c \in Cards |-> CardView[c]]
    /\ \A c \in Cards :
          /\ CardPending(c) = {} => CardView[c] = None
          /\ \A i \in CardPending(c) : CardPending(c) = {i} /\ CardView[c] = ViewOf(i)

LEMMA CardRequestPending ==
    ASSUME IInv, NEW c \in Cards, NEW i \in CardPending(c)
    PROVE  /\ i \in Occupied /\ i \in Slots /\ Sound(queue[i]) /\ queue[i].client = c
           /\ queue[i].op \in {"sector", "part", "buffer", "write"}
           /\ Kind(queue[i]) = c
<1>1. i \in Occupied /\ i \in Slots /\ queue[i].client = c
  BY DEF CardPending, Pending, Occupied
<1>2. Sound(queue[i])
  BY <1>1 DEF IInv, QueueInv
<1> QED BY <1>1, <1>2 DEF Sound, Kind

LEMMA ViewIsOfPending == IInv => ViewInv
<1> SUFFICES ASSUME IInv PROVE ViewInv
  OBVIOUS
<1>1. CardView = [c \in Cards |-> CardView[c]]
  BY DEF CardView
<1>2. ASSUME NEW c \in Cards, CardPending(c) = {} PROVE CardView[c] = None
  BY <1>2 DEF CardView
<1>3. ASSUME NEW c \in Cards, NEW i \in CardPending(c)
      PROVE  CardPending(c) = {i} /\ CardView[c] = ViewOf(i)
  <2>1. CardPending(c) = {i}
    <3>1. \A j \in CardPending(c) : Kind(queue[j]) = c /\ j \in Pending
      BY CardRequestPending DEF CardPending
    <3> QED BY <1>3, <3>1 DEF IInv, QueueInv
  <2>2. First(CardPending(c)) = i
    <3>1. {i} \in SUBSET Slots
      BY <1>3, CardRequestPending
    <3> QED BY <2>1, <3>1, FirstIsIn
  <2>3. CardView[c] = LET j == First(CardPending(c))
                          r == queue[j]
                      IN IF j = queued /\ ctl = "done" /\ r.op # "buffer"
                         THEN [stage |-> "served", sector |-> r.sector, count |-> 1,
                               answer |-> Result]
                         ELSE [stage |-> "asked", sector |-> r.sector, count |-> 1,
                               data |-> r.data]
    BY <2>1 DEF CardView
  <2> QED BY <2>1, <2>2, <2>3 DEF ViewOf, Service!Served, Service!Asked
<1> QED BY <1>1, <1>2, <1>3 DEF ViewInv

(* The same of the state after a step. *)
LEMMA ViewIsOfPendingNext == IInv' => ViewInv'
  BY ViewIsOfPending, PTL

(* A view is one of BlockService's records, and so not None. *)
LEMMA ViewType ==
    ASSUME IInv, NEW c \in Cards, NEW i \in CardPending(c)
    PROVE  ViewOf(i) # None
<1>1. queue[i] \in Request /\ queue[i].sector \in Sectors
  BY CardRequestPending DEF Sound
<1>2. Result \in Vals \cup {None, Error}
  BY DEF IInv, TypeOK, Result
<1>3. ViewOf(i) \in Views
  BY <1>1, <1>2 DEF ViewOf, Views, Request, Service!Served, Service!Asked
<1> QED BY <1>3, ViewAssumption

(* A card whose request neither comes nor goes nor changes has its view.   *)
LEMMA SameView ==
    ASSUME IInv, IInv', NEW c \in Cards, CardPending(c)' = CardPending(c),
           \A i \in CardPending(c) : ViewOf(i)' = ViewOf(i)
    PROVE  CardView'[c] = CardView[c]
  BY ViewIsOfPending, ViewIsOfPendingNext DEF ViewInv

LEMMA AllSame ==
    ASSUME IInv, IInv', \A c \in Cards : CardView'[c] = CardView[c]
    PROVE  CardView' = CardView
  BY ViewIsOfPending, ViewIsOfPendingNext DEF ViewInv

LEMMA OneChanges ==
    ASSUME IInv, IInv', NEW c \in Cards,
           \A d \in Cards \ {c} : CardView'[d] = CardView[d]
    PROVE  CardView' = [CardView EXCEPT ![c] = CardView'[c]]
  BY ViewIsOfPending, ViewIsOfPendingNext DEF ViewInv

(* Steps that leave the queue as it is and reach no callback. *)
LEMMA Unseen ==
    ASSUME IInv, IInv', UNCHANGED <<queue, queued>>,
           \/ {ctl, ctl'} \subseteq {"idle", "start"}
           \/ ctl = "idle" /\ ctl' = "done" /\ Now.op = "buffer"
    PROVE  CardView' = CardView
<1>1. Pending' = Pending
  BY DEF Occupied, Pending
<1>2. \A c \in Cards : CardPending(c)' = CardPending(c)
  BY <1>1 DEF CardPending
<1>3. \A i : ViewOf(i)' = ViewOf(i)
  BY DEF ViewOf, Now
<1> QED BY <1>2, <1>3, SameView, AllSame

(* Steps about a request that is not a card's: the callback of another     *)
(* client is reached or returns.                                           *)
LEMMA OthersUnseen ==
    ASSUME IInv, IInv', UNCHANGED <<queue, queued>>, Now.client \notin Cards
    PROVE  CardView' = CardView
<1>1. ASSUME NEW c \in Cards PROVE CardView'[c] = CardView[c]
  <2>1. \A i \in CardPending(c) \cup CardPending(c)' : i # queued
    BY DEF CardPending, Now
  <2>2. CardPending(c)' = CardPending(c)
    BY <2>1 DEF CardPending, Pending, Occupied
  <2>3. \A i \in CardPending(c) : ViewOf(i)' = ViewOf(i)
    BY <2>1 DEF ViewOf
  <2> QED BY <2>2, <2>3, SameView
<1> QED BY <1>1, AllSame

(* NeverRefused' tells that there was room for the request. *)
LEMMA PushHappens ==
    ASSUME IInv, IInv', NEW r \in Request, NEW next, Push(r, next)
    PROVE  \E i \in Slots :
              /\ i \notin Occupied /\ Occupied' = Occupied \cup {i}
              /\ queue'[i] = r
              /\ \A j \in Occupied : queue'[j] = queue[j]
              /\ queued = None => queued' = i /\ ctl' = "start"
              /\ queued # None => queued' = queued /\ ctl' = next
<1>1. TypeOK /\ Free # {}
  BY DEF IInv, NeverRefused, Push
<1>2. PICK i \in Slots :
          /\ i <= build.size /\ queue[i] = None
          /\ queue' = [queue EXCEPT ![i] = r] /\ dropped' = dropped
          /\ queued = None => queued' = i /\ ctl' = "start"
          /\ queued # None => queued' = queued /\ ctl' = next
  BY <1>1, Pushed
<1>3. r # None /\ queue \in [Slots -> Request \cup {None}]
  BY <1>1, GcodeQueueAssumption DEF TypeOK
<1>4. i \notin Occupied /\ Occupied' = Occupied \cup {i} /\ queue'[i] = r
  BY <1>2, <1>3 DEF Occupied
<1>5. \A j \in Occupied : queue'[j] = queue[j]
  BY <1>2, <1>3, <1>4 DEF Occupied
<1> QED BY <1>2, <1>4, <1>5

(* A request of another client. *)
LEMMA OthersPush ==
    ASSUME IInv, IInv', NEW r \in Request, r.client \notin Cards, NEW next, Push(r, next),
           \/ ctl = "idle" /\ next = "idle"
           \/ ctl = "done" /\ next = "release" /\ Now.client \notin Cards
    PROVE  CardView' = CardView
<1>1. PICK n \in Slots :
              /\ n \notin Occupied /\ Occupied' = Occupied \cup {n}
              /\ queue'[n] = r
              /\ \A j \in Occupied : queue'[j] = queue[j]
              /\ queued = None => queued' = n /\ ctl' = "start"
              /\ queued # None => queued' = queued /\ ctl' = next
  BY PushHappens
<1>2. ctl = "done" => queued # None
  BY DEF IInv, ServeInv, DriveServesQueue
<1>3. ctl' # "done"
  BY <1>1, <1>2
<1>4. ASSUME NEW c \in Cards PROVE CardView'[c] = CardView[c]
  <2>1. \A i : i \in CardPending(c) <=>
                  i \in Occupied /\ queue[i].client = c
    BY DEF CardPending, Pending
  <2>2. \A i : i \in CardPending(c)' <=>
                  i \in Occupied' /\ queue'[i].client = c /\ ~(ctl' = "release" /\ i = queued')
    BY DEF CardPending, Pending
  <2>3. \A i \in Occupied : queue[i].client = c => ~(ctl' = "release" /\ i = queued')
    BY <1>1, <1>2 DEF Now
  <2>4. CardPending(c)' = CardPending(c)
    BY <1>1, <2>1, <2>2, <2>3
  <2>5. ASSUME NEW i \in CardPending(c) PROVE ViewOf(i)' = ViewOf(i)
    <3>1. ~(i = queued /\ ctl = "done") /\ queue'[i] = queue[i]
      BY <1>1, <2>1, <2>5 DEF Now
    <3> QED BY <1>3, <3>1 DEF ViewOf
  <2> QED BY <2>4, <2>5, SameView
<1> QED BY <1>4, AllSame

-----------------------------------------------------------------------------
ServiceStep == Service!ServiceNext \/ UNCHANGED <<media, CardView>>

(* The step that brings a card's request to its callback. *)
LEMMA ServedNow ==
    ASSUME IInv, IInv', UNCHANGED <<queue, queued>>, queued # None,
           ctl \in {"idle", "start"}, ctl' = "done",
           Now.client \in Cards, Now.op # "buffer"
    PROVE  /\ CardView[Now.client] = Service!Asked(Now.sector, 1, Now.data)
           /\ CardView[Now.client] # None
           /\ CardView' = [CardView EXCEPT
                 ![Now.client] = Service!Served(Now.sector, 1, Result')]
<1> DEFINE r == queue[queued]
<1>1. queued \in Occupied
  BY DEF IInv, ServeInv, TypeOK, Occupied
<1>2. PICK c \in Cards : c = r.client
  BY DEF Now
<1>3. Pending' = Pending
  BY DEF Pending, Occupied
<1>4. \A d : CardPending(d)' = CardPending(d)
  BY <1>3 DEF CardPending
<1>5. queued \in CardPending(c)
  BY <1>1, <1>2 DEF CardPending, Pending
<1>6. /\ CardView[c] = ViewOf(queued)
      /\ CardView'[c] = ViewOf(queued)'
  BY <1>4, <1>5, ViewIsOfPending, ViewIsOfPendingNext DEF ViewInv
<1>7. /\ ViewOf(queued) = Service!Asked(r.sector, 1, r.data)
      /\ ViewOf(queued)' = Service!Served(r.sector, 1, Result')
  BY DEF ViewOf, Now
<1>8. ASSUME NEW d \in Cards \ {c} PROVE CardView'[d] = CardView[d]
  <2>1. \A i \in CardPending(d) : i # queued
    BY <1>2 DEF CardPending
  <2>2. \A i \in CardPending(d) : ViewOf(i)' = ViewOf(i)
    BY <2>1 DEF ViewOf
  <2> QED BY <1>4, <2>2, SameView
<1> HIDE DEF r
<1>9. CardView' = [CardView EXCEPT ![c] = CardView'[c]]
  BY <1>8, OneChanges
<1>10. CardView[c] # None
  BY <1>5, <1>6, ViewType
<1> QED BY <1>2, <1>6, <1>7, <1>9, <1>10 DEF r, Now

(* What a request of a card asks for. *)
LEMMA CardNow ==
    ASSUME IInv, queued # None, Now.client \in Cards
    PROVE  /\ Sound(Now) /\ Now.op \in {"sector", "part", "buffer", "write"}
           /\ Now.op \in {"sector", "part"} => Now.data = None
           /\ Now.op \in {"buffer", "write"} => Now.data # None
           /\ queued \in Occupied
<1>1. queued \in Occupied
  BY DEF IInv, ServeInv, TypeOK, Occupied
<1>2. Sound(Now)
  BY <1>1 DEF IInv, QueueInv, Now
<1>3. Now.op \in {"buffer", "write"} => Now.data # None
  BY <1>2, GcodeQueueAssumption DEF Sound
<1> QED BY <1>1, <1>2, <1>3 DEF Sound

(* A read is answered with what the file holds. *)
LEMMA ReadServes ==
    ASSUME IInv, IInv', UNCHANGED <<queue, queued, media>>, queued # None,
           ctl \in {"idle", "start"}, ctl' = "done",
           Now.client \in Cards, Now.op \in {"sector", "part"}
    PROVE  ServiceStep
<1> DEFINE p == CardView[Now.client]
<1>1. p # None /\ p = Service!Asked(Now.sector, 1, Now.data)
      /\ CardView' = [CardView EXCEPT
            ![Now.client] = Service!Served(Now.sector, 1, Result')]
  BY ServedNow
<1>2. Now.data = None
  BY CardNow
<1>3. p.stage = "asked" /\ p.sector = Now.sector /\ p.count = 1 /\ p.data = None
  BY <1>1, <1>2 DEF Service!Asked
<1>4. Result' = media[Now.sector]
  <2>1. Now' = Now
    BY DEF Now
  <2> QED BY <2>1 DEF IInv, AnswerInv, Result
<1> HIDE DEF p
<1>5. Service!Serve(Now.client)
  BY <1>1, <1>3, <1>4 DEF Service!Serve, p
<1> QED BY <1>5 DEF ServiceStep, Service!ServiceNext

LEMMA CacheHitServes == ASSUME IInv, IInv', CacheHit PROVE ServiceStep
<1>1. /\ ctl = "start" /\ ctl' = "done" /\ Now.op = "part"
      /\ UNCHANGED <<queue, queued, media>>
  BY DEF CacheHit, gcode, device
<1>2. queued # None
  BY <1>1 DEF IInv, ServeInv, DriveServesQueue
<1>3. CASE Now.client \in Cards
  BY <1>1, <1>2, <1>3, ReadServes
<1>4. CASE Now.client \notin Cards
  BY <1>1, <1>4, OthersUnseen DEF ServiceStep
<1> QED BY <1>3, <1>4

LEMMA DriveDoneServes ==
    ASSUME IInv, IInv', NEW accepted \in BOOLEAN, DriveDone(accepted) PROVE ServiceStep
<1>1. /\ ctl = "idle" /\ ctl' = "done" /\ drive # None
      /\ UNCHANGED <<queue, queued>>
      /\ media' = IF drive.op = "write" /\ accepted
                  THEN [media EXCEPT ![drive.sector] = held] ELSE media
      /\ answer' = IF ~accepted THEN Error
                   ELSE CASE drive.op = "sector" -> media[drive.sector]
                          [] drive.op = "write" -> held
                          [] OTHER -> None
  BY DEF DriveDone
<1>2. queued # None /\ drive = Now
  BY <1>1 DEF IInv, ServeInv, DriveServesQueue, Now
<1>3. CASE Now.client \notin Cards
  <2>1. Sound(Now)
    BY <1>2 DEF IInv, ServeInv, TypeOK, QueueInv, Occupied, Now
  <2>2. Now.op # "write"
    BY <1>3, <2>1, GcodeQueueAssumption DEF Sound, Request, Clients
  <2> QED BY <1>1, <1>2, <1>3, <2>2, OthersUnseen DEF ServiceStep
<1>4. CASE Now.client \in Cards /\ Now.op \in {"sector", "part"}
  BY <1>1, <1>2, <1>4, ReadServes
<1>5. CASE Now.client \in Cards /\ Now.op = "buffer"
  BY <1>1, <1>2, <1>5, Unseen DEF ServiceStep
<1>6. CASE Now.client \in Cards /\ Now.op = "write"
  <2> DEFINE p == CardView[Now.client]
  <2>1. p # None /\ p = Service!Asked(Now.sector, 1, Now.data)
        /\ CardView' = [CardView EXCEPT
              ![Now.client] = Service!Served(Now.sector, 1, Result')]
    BY <1>1, <1>2, <1>6, ServedNow
  <2>2. Now.data # None
    BY <1>2, <1>6, CardNow
  <2>3. p.stage = "asked" /\ p.sector = Now.sector /\ p.count = 1 /\ p.data = Now.data
    BY <2>1 DEF Service!Asked
  <2>4. held = Now.data
    BY <1>1, <1>2, <1>6 DEF IInv, BufferInv
  <2>5. Result' = answer'
    BY <1>1, <1>6 DEF Result, Now
  <2>6. /\ media' = IF accepted THEN [media EXCEPT ![Now.sector] = Now.data] ELSE media
        /\ answer' = IF accepted THEN Now.data ELSE Error
    BY <1>1, <1>2, <1>6, <2>4
  <2> HIDE DEF p
  <2>7. Service!Serve(Now.client)
    BY <2>1, <2>2, <2>3, <2>5, <2>6 DEF Service!Serve, p
  <2> QED BY <1>6, <2>7 DEF ServiceStep, Service!ServiceNext
<1>7. Now.client \in Cards => Now.op \in {"sector", "part", "buffer", "write"}
  BY <1>2, CardNow
<1> QED BY <1>3, <1>4, <1>5, <1>6, <1>7

(* Between the two commands of a write the service sees nothing. *)
LEMMA BufferedIsUnseen == ASSUME IInv, IInv', Buffered PROVE ServiceStep
<1>1. /\ ctl = "done" /\ ctl' = "start" /\ Now.op = "buffer"
      /\ queue' = [queue EXCEPT ![queued].op = "write"]
      /\ UNCHANGED <<queued, media>>
  BY DEF Buffered, device
<1>2. queued \in Slots /\ queue[queued] \in Request /\ queue \in [Slots -> Request \cup {None}]
  BY <1>1 DEF IInv, ServeInv, DriveServesQueue, TypeOK
<1>3. /\ queue'[queued].client = queue[queued].client
      /\ queue'[queued].sector = queue[queued].sector
      /\ queue'[queued].data = queue[queued].data
      /\ queue'[queued] # None /\ queue[queued] # None
      /\ \A i \in Slots \ {queued} : queue'[i] = queue[i]
  <2>1. PICK r \in Request : r = queue[queued]
    BY <1>2
  <2>2. queue'[queued] = [r EXCEPT !.op = "write"]
    BY <1>1, <1>2, <2>1
  <2>3. [r EXCEPT !.op = "write"] \in Request
    BY <2>1 DEF Request, Ops
  <2>4. /\ [r EXCEPT !.op = "write"].client = r.client
        /\ [r EXCEPT !.op = "write"].sector = r.sector
        /\ [r EXCEPT !.op = "write"].data = r.data
    BY <2>1 DEF Request
  <2> QED BY <1>1, <1>2, <2>1, <2>2, <2>3, <2>4, GcodeQueueAssumption
<1>4. Occupied' = Occupied /\ Pending' = Pending
  BY <1>1, <1>2, <1>3 DEF Occupied, Pending
<1>5. ASSUME NEW c \in Cards PROVE CardView'[c] = CardView[c]
  <2>1. Pending \subseteq Slots
    BY DEF Pending, Occupied
  <2>2. CardPending(c)' = CardPending(c)
    BY <1>3, <1>4, <2>1 DEF CardPending
  <2>3. \A i \in CardPending(c) : ViewOf(i)' = ViewOf(i)
    BY <1>1, <1>3, <2>1 DEF ViewOf, CardPending, Now
  <2> QED BY <2>2, <2>3, SameView
<1> QED BY <1>1, <1>5, AllSame DEF ServiceStep

LEMMA CardDoneAnswers == ASSUME IInv, IInv', CardDone PROVE ServiceStep
<1>1. /\ ctl = "done" /\ ctl' = "release" /\ Now.op # "buffer"
      /\ UNCHANGED <<queue, queued, media>>
  BY DEF CardDone, gcode, device
<1>2. PICK c \in Cards : c = Now.client
  BY DEF CardDone
<1>3. queued # None /\ queued \in Occupied
  <2>1. queued # None
    BY <1>1 DEF IInv, ServeInv, DriveServesQueue
  <2> QED BY <1>2, <2>1, CardNow
<1> DEFINE p == CardView[c]
<1>4. queued \in CardPending(c)
  BY <1>1, <1>2, <1>3 DEF CardPending, Pending, Now
<1>5. p = Service!Served(Now.sector, 1, Result) /\ p # None
  <2>1. CardView[c] = ViewOf(queued)
    BY <1>4, ViewIsOfPending DEF ViewInv
  <2> QED BY <1>1, <1>4, <2>1, ViewType DEF ViewOf, Now
<1>6. p.stage = "served" /\ p.count = 1
  BY <1>5 DEF Service!Served
<1>7. CardPending(c) = {queued}
  BY <1>4, ViewIsOfPending DEF ViewInv
<1>8. Occupied' = Occupied /\ Pending' = Pending \ {queued}
  BY <1>1 DEF Occupied, Pending
<1>9. CardView'[c] = None
  <2>1. CardPending(c)' = {}
    BY <1>1, <1>7, <1>8 DEF CardPending
  <2> QED BY <2>1, ViewIsOfPendingNext DEF ViewInv
<1>10. ASSUME NEW d \in Cards \ {c} PROVE CardView'[d] = CardView[d]
  <2>1. \A i \in CardPending(d) : i # queued
    BY <1>2 DEF CardPending, Now
  <2>2. CardPending(d)' = CardPending(d)
    BY <1>1, <1>8, <2>1 DEF CardPending
  <2>3. \A i \in CardPending(d) : ViewOf(i)' = ViewOf(i)
    BY <1>1, <2>1 DEF ViewOf
  <2> QED BY <2>2, <2>3, SameView
<1>11. CardView' = [CardView EXCEPT ![c] = CardView'[c]]
  BY <1>10, OneChanges
<1>12. Service!Answer(c)
  <2> HIDE DEF p
  <2> QED BY <1>1, <1>5, <1>6, <1>9, <1>11 DEF Service!Answer, p
<1> QED BY <1>12 DEF ServiceStep, Service!ServiceNext

LEMMA ReleaseIsUnseen == ASSUME IInv, IInv', Release PROVE ServiceStep
<1>1. ctl = "release" /\ ctl' \in {"start", "idle"} /\ UNCHANGED media
      /\ queue' = [queue EXCEPT ![queued] = None]
  BY DEF Release, device
<1>2. queued \in Slots /\ queue \in [Slots -> Request \cup {None}]
  BY <1>1 DEF IInv, ServeInv, DriveServesQueue, TypeOK
<1>3. /\ Occupied' = Occupied \ {queued}
      /\ \A i \in Occupied \ {queued} : queue'[i] = queue[i]
  BY <1>1, <1>2 DEF Occupied
<1>4. Pending' = Pending /\ Pending = Occupied \ {queued}
  BY <1>1, <1>3 DEF Pending
<1>5. ASSUME NEW c \in Cards PROVE CardView'[c] = CardView[c]
  <2>1. CardPending(c)' = CardPending(c)
    BY <1>3, <1>4 DEF CardPending
  <2>2. \A i \in CardPending(c) : ViewOf(i)' = ViewOf(i)
    BY <1>1, <1>3, <1>4 DEF ViewOf, CardPending
  <2> QED BY <2>1, <2>2, SameView
<1> QED BY <1>1, <1>5, AllSame DEF ServiceStep

(* A card asks for one sector, or writes one. *)
LEMMA SubmitAsks ==
    ASSUME IInv, IInv', NEW c \in build.clients, Submit(c) PROVE ServiceStep
<1>1. /\ ctl = "idle" /\ ~Waiting(c) /\ UNCHANGED media /\ TypeOK
  BY DEF Submit, device, IInv
<1>2. build.clients \subseteq Cards \cup Streamers /\ Cards \cap Streamers = {}
  BY <1>1, GcodeQueueAssumption DEF TypeOK, Build
<1>3. PICK r : /\ r \in IF c \in Cards THEN CardRequest(c) ELSE StreamRequest(c)
               /\ Push(r, "idle")
  BY DEF Submit
<1>4. CASE c \notin Cards
  <2>1. Sound(r) /\ r.client = c
    BY <1>1, <1>2, <1>3, <1>4, StreamRequestIs
  <2>2. r \in Request
    BY <2>1 DEF Sound
  <2> QED BY <1>1, <1>3, <1>4, <2>1, <2>2, OthersPush DEF ServiceStep
<1>5. CASE c \in Cards
  <2>1. Sound(r) /\ r.client = c /\ r \in Request /\ r \in CardRequest(c)
    BY <1>1, <1>3, <1>5, CardRequestIs DEF Sound
  <2>2. PICK s \in Slots :
              /\ s \notin Occupied /\ Occupied' = Occupied \cup {s}
              /\ queue'[s] = r
              /\ \A j \in Occupied : queue'[j] = queue[j]
              /\ queued = None => queued' = s /\ ctl' = "start"
              /\ queued # None => queued' = queued /\ ctl' = "idle"
    BY <1>3, <2>1, PushHappens
  <2>3. ctl' \in {"idle", "start"}
    BY <2>2
  <2>4. \A d : CardPending(d) = {i \in Occupied : queue[i].client = d}
    BY <1>1 DEF CardPending, Pending
  <2>5. \A d : CardPending(d)' = {i \in Occupied' : queue'[i].client = d}
    BY <2>3 DEF CardPending, Pending
  <2>6. CardView[c] = None
    <3>1. CardPending(c) = {}
      BY <1>1, <2>4 DEF Waiting
    <3> QED BY <1>5, <3>1, ViewIsOfPending DEF ViewInv
  <2>7. CardView'[c] = Service!Asked(r.sector, 1, r.data)
    <3>1. s \in CardPending(c)'
      BY <2>1, <2>2, <2>5
    <3>2. CardView'[c] = ViewOf(s)'
      BY <1>5, <3>1, ViewIsOfPendingNext DEF ViewInv
    <3> QED BY <2>2, <2>3, <3>2 DEF ViewOf
  <2>8. ASSUME NEW d \in Cards \ {c} PROVE CardView'[d] = CardView[d]
    <3>1. CardPending(d)' = CardPending(d)
      BY <2>1, <2>2, <2>4, <2>5
    <3>2. \A i \in CardPending(d) : ViewOf(i)' = ViewOf(i)
      BY <1>1, <2>2, <2>3, <2>4 DEF ViewOf
    <3> QED BY <3>1, <3>2, SameView
  <2>9. CardView' = [CardView EXCEPT ![c] = CardView'[c]]
    BY <1>5, <2>8, OneChanges
  <2>10. Service!Asked(r.sector, 1, r.data) \in Service!NewRequest(c)
    <3>1. r.sector \in Sectors /\ r.data \in (UNION {Payloads[d] : d \in Cards}) \cup {None}
      <4>1. CardSectors[c] \subseteq Sectors
        BY <1>5, GcodeQueueAssumption
      <4>2. r.sector \in CardSectors[c] /\ r.data \in Payloads[c] \cup {None}
        BY <2>1 DEF CardRequest, Entry
      <4> QED BY <1>5, <4>1, <4>2
    <3>2. 1 \in 0..[d \in Cards |-> 1][c]
      BY <1>5
    <3> DEFINE D == (UNION {Payloads[d] : d \in Cards}) \cup {None}
               N == 0..[d \in Cards |-> 1][c]
    <3>3. Service!NewRequest(c) =
             {Service!Asked(s1, n1, d1) : s1 \in Sectors, n1 \in N, d1 \in D}
      BY DEF Service!NewRequest, Service!Asked
    <3> HIDE DEF D, N
    <3>4. r.sector \in Sectors /\ r.data \in D /\ 1 \in N
      BY <3>1, <3>2 DEF D, N
    <3> QED BY <3>3, <3>4
  <2>11. Service!Ask(c)
    BY <1>1, <2>6, <2>7, <2>9, <2>10 DEF Service!Ask
  <2> QED BY <1>5, <2>11 DEF ServiceStep, Service!ServiceNext
<1> QED BY <1>4, <1>5

(* What the game does to the drive is no business of the cards. *)
LEMMA ExecuteIsUnseen == ASSUME IInv, IInv', Execute PROVE ServiceStep
<1>1. TypeOK /\ Dvd \notin Cards /\ Dvd \in build.clients \cup {Dvd}
      /\ Dvd \in Streamers \cup {Dvd} /\ ctl = "idle"
  BY GcodeQueueAssumption
     DEF IInv, Execute, Immediate, PerformRead, ScheduleRead, PassAudio, ChangeDisc
<1>2. CASE Immediate
  <2>1. UNCHANGED <<queue, queued, media>> /\ {ctl, ctl'} \subseteq {"idle", "start"}
    BY <1>1, <1>2 DEF Immediate, gcode, device
  <2> QED BY <2>1, Unseen DEF ServiceStep
<1>3. ASSUME NEW r, r \in Request, r.client = Dvd, Push(r, "idle"), UNCHANGED media
      PROVE  ServiceStep
  BY <1>1, <1>3, OthersPush DEF ServiceStep
<1>4. CASE PerformRead
  <2>1. UNCHANGED media /\ command.op \in {"read", "seek"} /\ at' = command.first
    BY <1>4 DEF PerformRead, device
  <2>2. CASE build.delays
    <3>1. UNCHANGED <<queue, queued, ctl>>
      BY <1>4, <2>2 DEF PerformRead
    <3> QED BY <1>1, <2>1, <3>1, Unseen DEF ServiceStep
  <2>3. CASE ~build.delays
    <3>1. PICK r \in PartRequest(Dvd, current', at') : Push(r, "idle")
      BY <1>4, <2>3 DEF PerformRead
    <3>2. di = "latency" /\ command \in Command
      BY <1>4 DEF PerformRead, IInv, CommandInv
    <3>3. current' \in Images /\ at' \in Parts
      BY <2>1, <3>2 DEF IInv, TypeOK, Command
    <3>4. Sound(r) /\ r.client = Dvd
      BY <1>1, <3>1, <3>3, PartRequestIs
    <3> QED BY <1>3, <2>1, <3>1, <3>4 DEF Sound
  <2> QED BY <2>2, <2>3
<1>5. CASE ScheduleRead
  <2>1. PICK r \in PartRequest(Dvd, current, at) : Push(r, "idle")
    BY <1>5 DEF ScheduleRead
  <2>2. UNCHANGED media /\ di = "delayed" /\ di' = "busy" /\ UNCHANGED <<command, at>>
    BY <1>5 DEF ScheduleRead, device
  <2>3. di # "busy" /\ CommandSlots = {}
    BY <2>2 DEF IInv, CommandInv
  <2>4. current \in Images /\ (command.op = "audio" => di = "busy")
    BY <2>2 DEF IInv, CommandInv, TypeOK
  <2>5. at \in Parts
    BY <2>2 DEF IInv, CommandInv
  <2>6. Sound(r) /\ r.client = Dvd
    BY <1>1, <2>1, <2>4, <2>5, PartRequestIs
  <2> QED BY <1>3, <2>1, <2>2, <2>6 DEF Sound
<1>6. CASE PassAudio
  <2>1. UNCHANGED media /\ Push(Entry(Dvd, "audio", None, None, None), "idle")
    BY <1>6 DEF PassAudio, device
  <2>2. /\ Entry(Dvd, "audio", None, None, None) \in Request
        /\ Entry(Dvd, "audio", None, None, None).client = Dvd
    BY DEF Entry, Request, Ops, Clients
  <2> QED BY <1>3, <2>1, <2>2
<1>7. CASE ChangeDisc
  <2>1. UNCHANGED media /\ Push(Entry(Dvd, "frags", OtherDisc, None, None), "idle")
    BY <1>7 DEF ChangeDisc, device
  <2>2. OtherDisc \in Images
    <3>1. LastDisc = 1 /\ current # Apploader /\ current \in Images
      BY <1>7 DEF ChangeDisc, IInv, CoverInv, TypeOK
    <3> QED BY <3>1 DEF OtherDisc, Images, Discs
  <2>3. /\ Entry(Dvd, "frags", OtherDisc, None, None) \in Request
        /\ Entry(Dvd, "frags", OtherDisc, None, None).client = Dvd
    BY <2>2 DEF Entry, Request, Ops, Clients
  <2> QED BY <1>3, <2>1, <2>3
<1> QED BY <1>2, <1>4, <1>5, <1>6, <1>7 DEF Execute

(* Nor are the callbacks of the others. *)
LEMMA OthersDoneAreUnseen ==
    ASSUME IInv, IInv', DiscChanged \/ PartRead \/ AudioDone \/ StreamDone
    PROVE  ServiceStep
<1>1. TypeOK /\ ctl = "done" /\ UNCHANGED media
  BY DEF IInv, DiscChanged, PartRead, AudioDone, StreamDone, device
<1>2. Sound(Now) /\ queued # None /\ Now \in Request
  <2>1. queued # None /\ queued \in Occupied
    BY <1>1 DEF IInv, ServeInv, DriveServesQueue, TypeOK, Occupied
  <2> QED BY <2>1 DEF IInv, QueueInv, Sound, Now
<1>3. Now.client \notin Cards
  BY <1>2, GcodeQueueAssumption DEF DiscChanged, PartRead, AudioDone, StreamDone, Sound
<1>4. CASE UNCHANGED <<queue, queued>>
  BY <1>1, <1>3, <1>4, OthersUnseen DEF ServiceStep
<1>5. CASE \E r \in Request : r.client \notin Cards /\ Push(r, "release")
  BY <1>1, <1>3, <1>5, OthersPush DEF ServiceStep
<1>6. CASE DiscChanged \/ AudioDone
  BY <1>4, <1>6 DEF DiscChanged, AudioDone, gcode
<1>7. CASE PartRead
  <2>1. CASE Ends
    BY <1>4, <1>7, <2>1 DEF PartRead
  <2>2. CASE ~Ends
    <3>1. PICK r \in PartRequest(Dvd, current, at') : Push(r, "release")
      BY <1>7, <2>2 DEF PartRead
    <3>2. at' \in Parts /\ current \in Images
      <4>1. queued \in CommandSlots /\ queue[queued].op # "audio"
        <5>1. queued \in Occupied
          BY <1>1, <1>2 DEF IInv, ServeInv, TypeOK, Occupied
        <5>2. Kind(Now) = Dvd /\ Now.op # "audio"
          BY <1>7 DEF PartRead, Kind
        <5> QED BY <1>1, <5>1, <5>2 DEF CommandSlots, Pending, Now
      <4>2. di = "busy" /\ command.op # "audio"
        BY <4>1 DEF IInv, CommandInv
      <4>3. at \in Parts
        BY <4>2 DEF IInv, CommandInv
      <4>4. at' = at + 1
        BY <1>7, <2>2 DEF PartRead
      <4>5. at' # None
        BY <4>3, <4>4, GcodeQueueAssumption DEF Parts
      <4> QED BY <4>5 DEF IInv, TypeOK
    <3>3. Sound(r) /\ r.client = Dvd
      BY <1>1, <3>1, <3>2, PartRequestIs
    <3> QED BY <1>5, <3>1, <3>3, GcodeQueueAssumption DEF Sound
  <2> QED BY <2>1, <2>2
<1>8. CASE StreamDone
  <2>1. CASE UNCHANGED <<queue, queued>>
    BY <1>4, <2>1
  <2>2. CASE ~UNCHANGED <<queue, queued>>
    <3>1. PICK r \in StreamRequest(Now.client) : Push(r, "release")
      BY <1>8, <2>2 DEF StreamDone
    <3>2. Now.client \in build.clients /\ Now.client \in Streamers
      BY <1>2, <1>8, GcodeQueueAssumption DEF StreamDone, Sound
    <3>3. Sound(r) /\ r.client = Now.client
      BY <1>1, <3>1, <3>2, StreamRequestIs
    <3> QED BY <1>3, <1>5, <3>1, <3>3 DEF Sound
  <2> QED BY <2>1, <2>2
<1> QED BY <1>6, <1>7, <1>8

LEMMA NextIsService == IInv /\ IInv' /\ [Next]_vars => ServiceStep
<1> SUFFICES ASSUME IInv, IInv', [Next]_vars PROVE ServiceStep
  OBVIOUS
<1>1. CASE \E c \in build.clients : Submit(c)
  BY <1>1, SubmitAsks
<1>2. CASE (\E cmd \in Command : Start(cmd)) \/ LeaveGame \/ CloseCover \/ GiveCommand
  <2>1. UNCHANGED <<queue, queued, media>> /\ {ctl, ctl'} \subseteq {"idle", "start"}
    BY <1>2 DEF Start, LeaveGame, CloseCover, GiveCommand, gcode, device
  <2> QED BY <2>1, Unseen DEF ServiceStep
<1>3. CASE Execute
  BY <1>3, ExecuteIsUnseen
<1>4. CASE CacheHit \/ (\E accepted \in BOOLEAN : DriveDone(accepted)) \/ Release
  BY <1>4, CacheHitServes, DriveDoneServes, ReleaseIsUnseen
<1>5. CASE Done
  BY <1>5, BufferedIsUnseen, CardDoneAnswers, OthersDoneAreUnseen DEF Done
<1>6. CASE UNCHANGED vars
  <2>1. UNCHANGED <<queue, queued, media, ctl, buffer, answer>>
    BY <1>6 DEF vars, gcode, device
  <2>2. Pending' = Pending /\ Result' = Result
    BY <2>1 DEF Occupied, Pending, Result, Now
  <2>3. ASSUME NEW c \in Cards PROVE CardView'[c] = CardView[c]
    <3>1. CardPending(c)' = CardPending(c)
      BY <2>1, <2>2 DEF CardPending
    <3>2. \A i \in CardPending(c) : ViewOf(i)' = ViewOf(i)
      BY <2>1, <2>2 DEF ViewOf
    <3> QED BY <3>1, <3>2, SameView
  <2> QED BY <2>1, <2>3, AllSame DEF ServiceStep
<1> QED BY <1>1, <1>2, <1>3, <1>4, <1>5, <1>6 DEF Next, Driver

(* For the memory cards the two commands of a write act as one, and a read *)
(* is answered with what the file holds, through gcode.buffer or around it *)
(* (do_read_write_async to gcode_done_queued, gcloader.c:92-299).          *)
THEOREM DriverImplementsService == Spec => ImplementsService
<1>1. Init => Service!ServiceInit
  <2> SUFFICES ASSUME Init PROVE Service!ServiceInit
    OBVIOUS
  <2>1. media \in [Sectors -> Vals]
    BY GcodeQueueAssumption DEF Init
  <2>2. \A c \in Cards : CardPending(c) = {}
    BY DEF Init, CardPending, Pending, Occupied
  <2>3. CardView = [c \in Cards |-> None]
    BY <2>2 DEF CardView
  <2> QED BY <2>1, <2>3 DEF Service!ServiceInit
<1>2. IInv /\ IInv' /\ [Next]_vars => [Service!ServiceNext]_(Service!serviceVars)
  BY NextIsService DEF ServiceStep, Service!serviceVars
<1> QED BY <1>1, <1>2, SpecIInv, PTL DEF Spec, ImplementsService, Service!ServiceSpec
===============================================================================
