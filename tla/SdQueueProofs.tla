---------------------------- MODULE SdQueueProofs ----------------------------
(***************************************************************************)
(* Proofs about SdQueue for every number of clients, sectors, slots and    *)
(* users of the bus: its invariants, from one inductive invariant IInv,    *)
(* and that it implements BlockService.                                    *)
(***************************************************************************)
EXTENDS SdQueue, TLAPS, FiniteSetTheorems, SequenceTheorems, WellFoundedInduction

-----------------------------------------------------------------------------
(* The inductive invariant *)

(* A request stays inside the card, and a write carries data. *)
Sound(r) ==
    /\ r.sector + r.count <= LastSector + 1
    /\ r.write <=> r.data # None
    /\ r.write => r.count = 1

(* A served slot is taken, and a client has one request, but for the one   *)
(* it makes from the callback of the one before.                           *)
QueueInv ==
    /\ queued = None => Occupied = {} /\ ctl = "idle" /\ transferred = None
    /\ queued # None => queued \in Occupied
    /\ \A i \in Occupied : Sound(queue[i])
    /\ \A i, j \in Occupied :
          i # j /\ queue[i].client = queue[j].client
             => queued \in {i, j} /\ ctl \in {"unlock", "release"}

(* Who holds the bus and who waits for it. *)
LockInv ==
    /\ ctl # "idle" => transferred = None
    /\ lock = Sd <=> transferred # None \/ ctl \in {"done", "unlock"}
    /\ (\E k \in 1..Len(waiters) : waiters[k] = Sd)
          <=> ctl = "idle" /\ queued # None /\ transferred = None
    /\ \A j, k \in 1..Len(waiters) : waiters[j] = Sd /\ waiters[k] = Sd => j = k
    /\ waiters # <<>> /\ ctl # "start" => lock # None

(* The card's stream, the buffer and the selection. *)
StreamInv ==
    /\ transferred # None =>
          /\ next_sector = queue[queued].sector + 1
          /\ writing = FALSE
          /\ queue[queued].write = FALSE
    /\ StreamAgrees
    /\ CacheFresh
    /\ selected => lock \in Users /\ next_sector = None

(* Once a long transfer has overtaken a short one, the short ones come. *)
OvertakeInv ==
    QueueSize > 2 =>
        /\ \A c \in Clients :
              /\ overtaken[c] <= 1
              /\ overtaken[c] = 1 =>
                    Short(c) /\ (ctl \in {"unlock", "release"} \/ queue[queued].count = 1)
        /\ ctl \in {"unlock", "release"} => overtaken[queue[queued].client] = 0

IInv == TypeOK /\ NeverRefused /\ QueueInv /\ LockInv /\ StreamInv /\ OvertakeInv

-----------------------------------------------------------------------------
(* Lemmas about the helpers *)

(* The loops over the queue find the first entry of a kind, if there is one. *)
LEMMA FirstIsIn ==
    ASSUME NEW S \in SUBSET Slots, S # {}
    PROVE  First(S) \in S
<1>1. S \subseteq Nat
  BY SdQueueAssumption DEF Slots
<1> DEFINE R == {ss \in Nat \X Nat : ss[1] < ss[2]}
<1>2. IsWellFoundedOn(R, Nat)
  BY NatLessThanWellFounded DEF OpToRel
<1>3. \A x, y \in Nat : x < y => <<x, y>> \in R
  OBVIOUS
<1> HIDE DEF R
<1>4. \E x \in S : \A y \in S : ~(<<y, x>> \in R)
  BY <1>1, <1>2, WFMin
<1>5. PICK x \in S : \A y \in S : ~(<<y, x>> \in R)
  BY <1>4
<1>6. ASSUME NEW j \in S PROVE x <= j
  <2>1. j \in Nat /\ x \in Nat
    BY <1>1
  <2>2. ~(j < x)
    BY <1>3, <1>5, <2>1
  <2> QED BY <2>1, <2>2
<1> QED BY <1>6 DEF First

(* The queue has a free slot whenever a client may make a request: by the  *)
(* pigeonhole principle, since each client has one request and the Makefile *)
(* gives the queue more slots than clients.                                *)
LEMMA RoomInQueue ==
    ASSUME TypeOK, QueueInv, ctl \notin {"unlock", "release"}
    PROVE  Free # {}
<1> SUFFICES ASSUME Free = {} PROVE FALSE
  OBVIOUS
<1>1. \A i \in Slots : i \in Occupied
  BY DEF Free, Occupied
<1> DEFINE owner == [i \in Slots |-> queue[i].client]
<1>2. owner \in [Slots -> Clients]
  BY <1>1 DEF TypeOK, Request, Occupied
<1>3. IsFiniteSet(Slots) /\ Cardinality(Slots) = QueueSize
  <2>1. QueueSize \in Nat \ {0}
    BY SdQueueAssumption
  <2> QED BY <2>1, FS_Interval DEF Slots
<1>4. IsFiniteSet(Clients) /\ Cardinality(Clients) < Cardinality(Slots)
  <2>1. Cardinality(Clients) \in Nat /\ QueueSize \in Nat
    BY QueueRoomAssumption, SdQueueAssumption, FS_CardinalityType
  <2> QED BY <1>3, <2>1, QueueRoomAssumption
<1>5. \E i, j \in Slots : i # j /\ owner[i] = owner[j]
  <2> HIDE DEF owner
  <2> QED BY <1>2, <1>3, <1>4, FS_PigeonHole
<1>6. PICK i, j \in Slots : i # j /\ queue[i].client = queue[j].client
  BY <1>5
<1> QED BY <1>1, <1>6 DEF QueueInv

(* A request a client may make is one the queue can hold. *)
LEMMA FirstRequestIsSound ==
    ASSUME NEW c \in Clients, NEW r \in FirstRequest(c)
    PROVE  r \in Request /\ r.client = c /\ Sound(r)
<1>1. /\ Region[c] \subseteq Sectors
      /\ MaxCount[c] \in Nat
      /\ Payloads \subseteq Vals
      /\ LastSector \in Nat
  BY SdQueueAssumption
<1>2. r \in [client : {c}, sector : Region[c], count : 0..MaxCount[c],
             whole : BOOLEAN, write : BOOLEAN, data : Payloads \cup {None}]
  BY DEF FirstRequest
<1>3. r \in Request /\ r.client = c
  BY <1>1, <1>2 DEF Request
<1>4. /\ r.write <=> r.data # None
      /\ r.write => r.count = 1
      /\ r.sector + r.count - 1 \in Region[c] \cup {r.sector - 1}
  BY DEF FirstRequest
<1>5. r.sector \in 0..LastSector /\ r.count \in Nat
  BY <1>1, <1>2 DEF Sectors
<1>6. r.sector + r.count <= LastSector + 1
  BY <1>1, <1>4, <1>5 DEF Sectors
<1> QED BY <1>3, <1>4, <1>6 DEF Sound

-----------------------------------------------------------------------------
(* The initial states *)

LEMMA InitIInv == Init => IInv
<1> SUFFICES ASSUME Init PROVE IInv
  OBVIOUS
<1>0. Occupied = {}
  BY DEF Init, Occupied
<1>1. TypeOK
  <2>1. LastSector \in Nat /\ InitDisk \in [Sectors -> Vals]
    BY SdQueueAssumption
  <2>2. waiters \in Seq(Users \cup {Sd})
    BY DEF Init
  <2>3. card \in [mode : {"idle", "read", "write"}, at : 0..LastSector + 1]
    BY <2>1 DEF Init
  <2> QED BY <2>1, <2>2, <2>3 DEF Init, TypeOK
<1>2. NeverRefused
  BY DEF Init, NeverRefused
<1>3. QueueInv
  BY <1>0 DEF Init, QueueInv
<1>4. LockInv
  BY SdQueueAssumption DEF Init, LockInv
<1>5. StreamInv
  BY DEF Init, StreamInv, StreamAgrees, CacheFresh
<1>6. OvertakeInv
  BY DEF Init, OvertakeInv
<1> QED BY <1>1, <1>2, <1>3, <1>4, <1>5, <1>6 DEF IInv

-----------------------------------------------------------------------------
(* Steps of the clients *)

(* Neither None nor Sd is anything else. *)
LEMMA Apart ==
    /\ None \notin Request /\ None \notin Int /\ None \notin Users
    /\ None # Sd /\ Sd \notin Users /\ None \notin Vals
  BY SdQueueAssumption

(* A request added to a free slot changes neither the served request nor   *)
(* any other.                                                              *)
LEMMA AddedRequest ==
    ASSUME TypeOK, QueueInv, ctl \notin {"unlock", "release"}, NEW r \in Request,
           queue' = [queue EXCEPT ![First(Free)] = r]
    PROVE  /\ First(Free) \in Slots \ Occupied
           /\ Occupied' = Occupied \cup {First(Free)}
           /\ queue' \in [Slots -> Request \cup {None}]
           /\ queue'[First(Free)] = r
           /\ \A i \in Occupied : queue'[i] = queue[i]
<1>1. First(Free) \in Free
  <2>1. Free \in SUBSET Slots /\ Free # {}
    BY RoomInQueue DEF Free
  <2> QED BY <2>1, FirstIsIn
<1>2. First(Free) \in Slots /\ queue[First(Free)] = None
  BY <1>1 DEF Free
<1>3. r # None
  BY Apart
<1> QED BY <1>2, <1>3 DEF TypeOK, Occupied

LEMMA SubmitStep ==
    ASSUME IInv, NEW c \in Clients, NEW r \in FirstRequest(c), Submit(c, r)
    PROVE  IInv'
<1> DEFINE s == First(Free)
<1>1. TypeOK /\ NeverRefused /\ QueueInv /\ LockInv /\ StreamInv /\ OvertakeInv
  BY DEF IInv
<1>2. r \in Request /\ r.client = c /\ Sound(r)
  BY FirstRequestIsSound
<1>3. Free # {} /\ ctl = "idle"
  BY <1>1, RoomInQueue DEF Submit
<1>4. /\ queue' = [queue EXCEPT ![s] = r]
      /\ IF queued = None THEN queued' = s /\ ctl' = "start"
         ELSE queued' = queued /\ ctl' = ctl
      /\ dropped' = dropped
      /\ overtaken' = [overtaken EXCEPT ![c] = 0]
      /\ ~Waiting(c)
      /\ UNCHANGED <<last_sector, next_sector, writing, buffer, dest, status,
                     transferred, lock, waiters, selected, card, disk>>
  BY <1>3 DEF Submit, bus
<1>5. /\ s \in Slots \ Occupied
      /\ Occupied' = Occupied \cup {s}
      /\ queue' \in [Slots -> Request \cup {None}]
      /\ queue'[s] = r
      /\ \A i \in Occupied : queue'[i] = queue[i]
  BY <1>1, <1>2, <1>3, <1>4, AddedRequest
<1> HIDE DEF s
<1>6. \A i \in Occupied : queue[i].client # c
  BY <1>4 DEF Waiting
<1>7. s # None
  BY <1>5, Apart, SdQueueAssumption DEF Slots
<1>8. TypeOK'
  BY <1>1, <1>4, <1>5 DEF TypeOK
<1>9. NeverRefused'
  BY <1>1, <1>4 DEF NeverRefused
<1>10. QueueInv'
  <2>1. queued' # None /\ queued' \in Occupied'
    BY <1>1, <1>4, <1>5, <1>7 DEF QueueInv
  <2>2. \A i \in Occupied' : Sound(queue[i])'
    BY <1>1, <1>2, <1>5 DEF QueueInv, Sound
  <2>3. \A i, j \in Occupied' : i # j => queue'[i].client # queue'[j].client
    BY <1>1, <1>2, <1>3, <1>5, <1>6 DEF QueueInv
  <2> QED BY <2>1, <2>2, <2>3 DEF QueueInv
<1>11. LockInv'
  BY <1>1, <1>3, <1>4, <1>7 DEF LockInv, QueueInv
<1>12. StreamInv'
  <2>1. transferred # None => queued' = queued /\ queue'[queued'] = queue[queued]
    BY <1>1, <1>4, <1>5 DEF QueueInv
  <2> QED BY <1>1, <1>4, <2>1 DEF StreamInv, StreamAgrees, CacheFresh
<1>13. OvertakeInv'
  <2> SUFFICES ASSUME QueueSize > 2, NEW d \in Clients
               PROVE  /\ overtaken'[d] <= 1
                      /\ overtaken'[d] = 1 => Short(d)' /\ queue'[queued'].count = 1
    BY <1>3, <1>4 DEF OvertakeInv
  <2>1. CASE d = c
    BY <1>1, <1>4, <2>1 DEF TypeOK
  <2>2. CASE d # c
    <3>1. overtaken'[d] = overtaken[d]
      BY <1>1, <1>4, <2>2 DEF TypeOK
    <3>2. Short(d) => Short(d)'
      BY <1>5 DEF Short
    <3>3. Short(d) => queued' = queued /\ queue'[queued'] = queue[queued]
      BY <1>1, <1>4, <1>5 DEF Short, QueueInv
    <3> QED BY <1>1, <1>3, <3>1, <3>2, <3>3 DEF OvertakeInv
  <2> QED BY <2>1, <2>2
<1> QED BY <1>8, <1>9, <1>10, <1>11, <1>12, <1>13 DEF IInv

-----------------------------------------------------------------------------
(* Steps of the driver *)

(* What holds whenever a handler is running or a transfer is on its way. *)
LEMMA ServedRequest ==
    ASSUME IInv, ctl # "idle" \/ transferred # None
    PROVE  /\ queued \in Slots /\ queued \in Occupied
           /\ queue[queued] \in Request /\ Sound(queue[queued])
           /\ queue[queued].sector \in Sectors
           /\ queue[queued].sector + 1 \in 0..LastSector + 1
<1>1. queued \in Occupied
  BY DEF IInv, QueueInv
<1>2. queued \in Slots /\ queue[queued] \in Request
  BY <1>1 DEF IInv, TypeOK, Occupied
<1>3. queue[queued].sector \in 0..LastSector
  BY <1>2 DEF Request, Sectors
<1>4. LastSector \in Nat
  BY SdQueueAssumption
<1> QED BY <1>1, <1>2, <1>3, <1>4 DEF IInv, QueueInv, Sectors

LEMMA LockBusyStep == ASSUME IInv, LockBusy PROVE IInv'
<1>1. TypeOK /\ NeverRefused /\ QueueInv /\ LockInv /\ StreamInv /\ OvertakeInv
  BY DEF IInv
<1>2. /\ ctl = "start" /\ ctl' = "idle" /\ lock # None
      /\ UNCHANGED <<queue, queued, last_sector, next_sector, writing, buffer, dest,
                     status, transferred, lock, selected, card, disk, dropped, overtaken>>
  BY DEF LockBusy, mmc, results
<1>3. waiters' = Append(waiters, Sd)
  BY <1>1, <1>2 DEF LockBusy, LockInv
<1>4. waiters \in Seq(Users \cup {Sd})
  BY <1>1 DEF TypeOK
<1>5. /\ Len(waiters') = Len(waiters) + 1
      /\ waiters'[Len(waiters) + 1] = Sd
      /\ \A k \in 1..Len(waiters) : waiters'[k] = waiters[k]
      /\ waiters' \in Seq(Users \cup {Sd})
      /\ Len(waiters) \in Nat
  BY <1>3, <1>4
<1>6. TypeOK'
  BY <1>1, <1>2, <1>5 DEF TypeOK
<1>7. Occupied' = Occupied
  BY <1>2 DEF Occupied
<1>8. QueueInv'
  BY <1>1, <1>2, <1>7 DEF QueueInv, Sound
<1>9. LockInv'
  <2>1. transferred = None /\ queued # None
    BY <1>1, <1>2 DEF LockInv, QueueInv
  <2>2. \A k \in 1..Len(waiters) : waiters[k] # Sd
    BY <1>1, <1>2 DEF LockInv
  <2>3. \E k \in 1..Len(waiters') : waiters'[k] = Sd
    BY <1>5
  <2>4. \A j, k \in 1..Len(waiters') : waiters'[j] = Sd /\ waiters'[k] = Sd => j = k
    BY <1>5, <2>2
  <2>5. lock' # Sd
    BY <1>1, <1>2, <2>1 DEF LockInv
  <2> QED BY <1>2, <2>1, <2>3, <2>4, <2>5 DEF LockInv
<1>10. StreamInv'
  BY <1>1, <1>2 DEF StreamInv, StreamAgrees, CacheFresh
<1>11. OvertakeInv'
  BY <1>1, <1>2, <1>7 DEF OvertakeInv, Short
<1> QED BY <1>1, <1>2, <1>6, <1>8, <1>9, <1>10, <1>11 DEF IInv, NeverRefused

(* The command a request finds the card in, or is sent to it. *)
LEMMA StreamIsThere ==
    ASSUME IInv, ctl = "start"
    PROVE  StreamTo(queue[queued]) = [mode |-> Mode(queue[queued].write),
                                      at |-> queue[queued].sector]
<1> DEFINE r == queue[queued]
<1>1. StreamAgrees /\ transferred = None /\ TypeOK
  BY DEF IInv, StreamInv, LockInv
<1>2. r.sector # None
  BY ServedRequest, Apart DEF Request, Sectors
<1>3. CASE Continues(r)
  BY <1>1, <1>2, <1>3 DEF Continues, StreamTo, StreamAgrees, TypeOK
<1>4. CASE ~Continues(r)
  <2>1. Stopped.mode = "idle"
    BY <1>1 DEF Stopped, StreamAgrees, TypeOK
  <2> QED BY <1>4, <2>1 DEF StreamTo
<1> QED BY <1>3, <1>4

LEMMA WriteSectorStep ==
    ASSUME IInv, NEW accepted \in BOOLEAN, WriteSector(accepted)
    PROVE  IInv'
<1> DEFINE r == queue[queued]
<1>1. TypeOK /\ NeverRefused /\ QueueInv /\ LockInv /\ StreamInv /\ OvertakeInv
  BY DEF IInv
<1>2. ctl = "start" /\ lock = None /\ r.write
  BY DEF WriteSector
<1>3. /\ r \in Request /\ r.sector \in Sectors /\ Sound(r) /\ r.sector + 1 \in 0..LastSector + 1
      /\ queued \in Occupied
  BY <1>2, ServedRequest
<1>4. StreamTo(r) = [mode |-> "write", at |-> r.sector]
  BY <1>2, StreamIsThere DEF Mode
<1>5. r.data \in Vals
  BY <1>2, <1>3 DEF Sound, Request
<1>6. /\ lock' = Sd
      /\ last_sector' = IF last_sector = r.sector THEN None ELSE last_sector
      /\ disk' = IF accepted THEN [disk EXCEPT ![r.sector] = r.data] ELSE disk
      /\ card' = [mode |-> "write", at |-> r.sector + 1]
      /\ status' \in Vals \cup {Error}
      /\ next_sector' = r.sector + 1
      /\ writing' = TRUE
      /\ ctl' = "done"
      /\ UNCHANGED <<queue, queued, buffer, dest, transferred, waiters, selected,
                     dropped, overtaken>>
  BY <1>4, <1>5 DEF WriteSector, Invalidated, results
<1>7. transferred = None
  BY <1>1, <1>2 DEF LockInv
<1>8. TypeOK'
  <2>1. disk' \in [Sectors -> Vals]
    BY <1>1, <1>5, <1>6 DEF TypeOK
  <2>2. last_sector' \in Sectors \cup {None} /\ status' \in Vals \cup {None, Error}
    BY <1>1, <1>6 DEF TypeOK
  <2>3. card' \in [mode : {"idle", "read", "write"}, at : 0..LastSector + 1]
    BY <1>3, <1>6
  <2> QED BY <1>1, <1>3, <1>6, <2>1, <2>2, <2>3 DEF TypeOK
<1>9. Occupied' = Occupied
  BY <1>6 DEF Occupied
<1>10. QueueInv'
  BY <1>1, <1>2, <1>3, <1>6, <1>7, <1>9 DEF QueueInv, Sound
<1>11. LockInv'
  BY <1>1, <1>2, <1>6, <1>7, Apart DEF LockInv
<1>12. StreamInv'
  <2>1. StreamAgrees'
    BY <1>3, <1>6, <1>7, Apart DEF StreamAgrees, Mode
  <2>2. last_sector' # None => last_sector' = last_sector /\ last_sector # r.sector
    BY <1>6
  <2>3. CacheFresh'
    BY <1>1, <1>6, <1>7, <2>2 DEF CacheFresh, StreamInv, TypeOK
  <2>4. ~selected
    BY <1>1, <1>2, Apart DEF StreamInv
  <2> QED BY <1>6, <1>7, <2>1, <2>3, <2>4 DEF StreamInv
<1>13. OvertakeInv'
  BY <1>1, <1>2, <1>6, <1>9 DEF OvertakeInv, Short
<1> QED BY <1>1, <1>6, <1>8, <1>10, <1>11, <1>12, <1>13 DEF IInv, NeverRefused

LEMMA CacheHitStep == ASSUME IInv, CacheHit PROVE IInv'
<1>1. TypeOK /\ NeverRefused /\ QueueInv /\ LockInv /\ StreamInv /\ OvertakeInv
  BY DEF IInv
<1>2. /\ ctl = "start" /\ lock = None /\ ctl' = "done" /\ lock' = Sd
      /\ UNCHANGED <<queue, queued, last_sector, next_sector, writing, buffer, dest,
                     status, transferred, waiters, selected, card, disk, dropped, overtaken>>
  BY DEF CacheHit, mmc, results
<1>3. Occupied' = Occupied
  BY <1>2 DEF Occupied
<1>4. TypeOK'
  BY <1>1, <1>2 DEF TypeOK
<1>5. QueueInv'
  BY <1>1, <1>2, <1>3 DEF QueueInv, Sound
<1>6. LockInv'
  BY <1>1, <1>2, Apart DEF LockInv
<1>7. StreamInv'
  BY <1>1, <1>2, Apart DEF StreamInv, StreamAgrees, CacheFresh
<1>8. OvertakeInv'
  BY <1>1, <1>2, <1>3 DEF OvertakeInv, Short
<1> QED BY <1>1, <1>2, <1>4, <1>5, <1>6, <1>7, <1>8 DEF IInv, NeverRefused

LEMMA StartTransferStep == ASSUME IInv, StartTransfer PROVE IInv'
<1> DEFINE r == queue[queued]
<1>1. TypeOK /\ NeverRefused /\ QueueInv /\ LockInv /\ StreamInv /\ OvertakeInv
  BY DEF IInv
<1>2. ctl = "start" /\ lock = None /\ r.write = FALSE /\ r.sector # last_sector
  BY ServedRequest DEF StartTransfer, Request
<1>3. /\ r \in Request /\ r.sector \in Sectors /\ r.sector + 1 \in 0..LastSector + 1
      /\ queued \in Occupied
  BY <1>2, ServedRequest
<1>4. StreamTo(r) = [mode |-> "read", at |-> r.sector]
  BY <1>2, StreamIsThere DEF Mode
<1>5. /\ lock' = Sd
      /\ last_sector' = IF r.whole THEN last_sector ELSE r.sector
      /\ card' = [mode |-> "read", at |-> r.sector]
      /\ transferred' = -1
      /\ next_sector' = r.sector + 1
      /\ writing' = FALSE
      /\ ctl' = "idle"
      /\ UNCHANGED <<queue, queued, buffer, dest, status, waiters, selected, disk,
                     dropped, overtaken>>
  BY <1>4 DEF StartTransfer, results
<1>6. TypeOK'
  <2>1. LastSector \in Nat
    BY SdQueueAssumption
  <2>2. card' \in [mode : {"idle", "read", "write"}, at : 0..LastSector + 1]
    BY <1>3, <1>5, <2>1 DEF Sectors
  <2>3. last_sector' \in Sectors \cup {None}
    BY <1>1, <1>3, <1>5 DEF TypeOK
  <2> QED BY <1>1, <1>3, <1>5, <2>2, <2>3 DEF TypeOK
<1>7. Occupied' = Occupied
  BY <1>5 DEF Occupied
<1>8. transferred = None /\ transferred' # None
  BY <1>1, <1>2, <1>5, Apart DEF LockInv
<1>9. QueueInv'
  BY <1>1, <1>2, <1>5, <1>7, <1>3, Apart DEF QueueInv, Sound
<1>10. LockInv'
  BY <1>1, <1>2, <1>5, <1>8, Apart DEF LockInv
<1>11. StreamInv'
  <2>1. StreamAgrees'
    BY <1>3, <1>5, <1>8, Apart DEF StreamAgrees, Mode, Sectors
  <2>2. CacheFresh'
    BY <1>1, <1>5, <1>8 DEF StreamInv, CacheFresh
  <2>3. ~selected
    BY <1>1, <1>2, Apart DEF StreamInv
  <2> QED BY <1>2, <1>5, <2>1, <2>2, <2>3 DEF StreamInv
<1>12. OvertakeInv'
  BY <1>1, <1>2, <1>5, <1>7 DEF OvertakeInv, Short
<1> QED BY <1>1, <1>5, <1>6, <1>9, <1>10, <1>11, <1>12 DEF IInv, NeverRefused

LEMMA TcProgressStep == ASSUME IInv, TcProgress PROVE IInv'
<1>1. TypeOK /\ NeverRefused /\ QueueInv /\ LockInv /\ StreamInv /\ OvertakeInv
  BY DEF IInv
<1>2. /\ ctl = "idle" /\ transferred \in {-1, 0} /\ transferred' \in {0, 512}
      /\ UNCHANGED <<queue, queued, last_sector, next_sector, writing, buffer, dest,
                     status, ctl, lock, waiters, selected, card, disk, dropped, overtaken>>
  BY DEF TcProgress, mmc, bus, results
<1>3. transferred # None /\ transferred' # None
  BY <1>2, Apart
<1>4. Occupied' = Occupied
  BY <1>2 DEF Occupied
<1>5. TypeOK'
  BY <1>1, <1>2 DEF TypeOK
<1>6. QueueInv'
  BY <1>1, <1>2, <1>3, <1>4 DEF QueueInv, Sound
<1>7. LockInv'
  BY <1>1, <1>2, <1>3 DEF LockInv
<1>8. StreamInv'
  BY <1>1, <1>2, <1>3 DEF StreamInv, StreamAgrees, CacheFresh
<1>9. OvertakeInv'
  BY <1>1, <1>2, <1>4 DEF OvertakeInv, Short
<1> QED BY <1>1, <1>2, <1>5, <1>6, <1>7, <1>8, <1>9 DEF IInv, NeverRefused

LEMMA TcDoneStep == ASSUME IInv, TcDone PROVE IInv'
<1> DEFINE r == queue[queued]
<1>1. TypeOK /\ NeverRefused /\ QueueInv /\ LockInv /\ StreamInv /\ OvertakeInv
  BY DEF IInv
<1>2. ctl = "idle" /\ transferred = 512 /\ transferred # None
  BY Apart DEF TcDone
<1>3. r.sector \in Sectors /\ queued \in Occupied
  BY <1>2, ServedRequest
<1>4. card.at = r.sector /\ card.mode = "read" /\ next_sector = r.sector + 1
      /\ next_sector # None /\ writing = FALSE /\ r.write = FALSE
  BY <1>1, <1>2, <1>3, Apart DEF StreamInv, StreamAgrees, Mode, Sectors
<1>5. /\ transferred' = None
      /\ card' = [mode |-> "read", at |-> r.sector + 1]
      /\ buffer' = IF r.sector = last_sector THEN disk[r.sector] ELSE buffer
      /\ dest' = IF r.sector = last_sector THEN dest ELSE disk[r.sector]
      /\ ctl' = "done"
      /\ UNCHANGED <<queue, queued, last_sector, next_sector, writing, status,
                     lock, waiters, selected, disk, dropped, overtaken>>
  BY <1>1, <1>4 DEF TcDone, bus, results, TypeOK
<1>6. TypeOK'
  <2>1. LastSector \in Nat
    BY SdQueueAssumption
  <2>2. card' \in [mode : {"idle", "read", "write"}, at : 0..LastSector + 1]
    BY <1>3, <1>5, <2>1 DEF Sectors
  <2>3. buffer' \in Vals \cup {None} /\ dest' \in Vals \cup {None}
    BY <1>1, <1>3, <1>5 DEF TypeOK
  <2> QED BY <1>1, <1>5, <2>2, <2>3 DEF TypeOK
<1>7. Occupied' = Occupied
  BY <1>5 DEF Occupied
<1>8. QueueInv'
  BY <1>1, <1>2, <1>5, <1>7, <1>3 DEF QueueInv, Sound
<1>9. LockInv'
  BY <1>1, <1>2, <1>5 DEF LockInv
<1>10. StreamInv'
  <2>1. StreamAgrees'
    BY <1>4, <1>5 DEF StreamAgrees, Mode
  <2>2. CacheFresh'
    BY <1>1, <1>5 DEF StreamInv, CacheFresh
  <2>3. ~selected
    BY <1>1, <1>4 DEF StreamInv
  <2> QED BY <1>5, <2>1, <2>2, <2>3 DEF StreamInv
<1>11. OvertakeInv'
  BY <1>1, <1>2, <1>5, <1>7 DEF OvertakeInv, Short
<1> QED BY <1>1, <1>5, <1>6, <1>8, <1>9, <1>10, <1>11 DEF IInv, NeverRefused

(* What the callback asks for is sound, and made in the client's name. *)
LEMMA NextRequestIsSound ==
    ASSUME NEW r \in Request, Sound(r), NEW n \in NextRequest(r), n # None
    PROVE  n \in Request /\ n.client = r.client /\ Sound(n)
<1>1. CASE r.count > 1
  <2>1. LastSector \in Nat /\ r.sector \in 0..LastSector /\ r.count \in Nat
    BY SdQueueAssumption DEF Request, Sectors
  <2>2. r.sector + 1 \in Sectors /\ r.count - 1 \in Nat
    BY <1>1, <2>1 DEF Sound, Sectors
  <2>3. n \in [client : {r.client}, sector : {r.sector + 1}, count : {r.count - 1},
               whole : BOOLEAN, write : {FALSE}, data : {None}]
    BY <1>1 DEF NextRequest
  <2>4. n \in Request
    BY <2>2, <2>3 DEF Request
  <2>5. n.sector + n.count = r.sector + r.count
    BY <2>1, <2>3
  <2> QED BY <2>3, <2>4, <2>5 DEF Sound
<1>2. CASE ~(r.count > 1)
  BY <1>2, FirstRequestIsSound DEF NextRequest, Request
<1> QED BY <1>1, <1>2

LEMMA CallbackStep == ASSUME IInv, Callback PROVE IInv'
<1> DEFINE r == queue[queued]
           s == First(Free)
<1>1. TypeOK /\ NeverRefused /\ QueueInv /\ LockInv /\ StreamInv /\ OvertakeInv
  BY DEF IInv
<1>2. ctl = "done" /\ ctl' = "unlock"
  BY DEF Callback
<1>3. r \in Request /\ Sound(r) /\ queued \in Slots /\ queued \in Occupied
  BY <1>2, ServedRequest
<1>4. Free # {}
  BY <1>1, <1>2, RoomInQueue
<1>5. PICK n \in NextRequest(r) :
         queue' = IF n # None THEN [queue EXCEPT ![s] = n] ELSE queue
  BY <1>4 DEF Callback
<1>6. dropped' = dropped
  BY <1>4 DEF Callback
<1>7. /\ dest' = None /\ status' = None
      /\ overtaken' = [c \in Clients |->
                          IF c = r.client THEN 0
                          ELSE IF Short(c) /\ r.count > 1 THEN overtaken[c] + 1
                          ELSE overtaken[c]]
      /\ UNCHANGED <<queued, last_sector, next_sector, writing, buffer,
                     transferred, lock, waiters, selected, card, disk>>
  BY DEF Callback, bus
<1>8. /\ queue' \in [Slots -> Request \cup {None}]
      /\ Occupied \subseteq Occupied'
      /\ \A i \in Occupied : queue'[i] = queue[i]
      /\ \A i \in Occupied' \ Occupied :
            i = s /\ n # None /\ queue'[i] = n
  <2>1. CASE n = None
    BY <1>1, <1>5, <2>1 DEF Occupied, TypeOK
  <2>2. CASE n # None
    <3>1. n \in Request
      BY <1>3, <2>2, NextRequestIsSound
    <3>2. queue' = [queue EXCEPT ![First(Free)] = n]
      BY <1>5, <2>2
    <3> QED BY <1>1, <1>2, <2>2, <3>1, <3>2, AddedRequest
  <2> QED BY <2>1, <2>2
<1>9. n # None => n \in Request /\ n.client = r.client /\ Sound(n)
  BY <1>3, NextRequestIsSound
<1>10. queue'[queued'] = r /\ queued' \in Occupied'
  BY <1>3, <1>7, <1>8
<1> HIDE DEF r, s
<1>11. TypeOK'
  BY <1>1, <1>2, <1>6, <1>7, <1>8 DEF TypeOK
<1>12. QueueInv'
  <2>1. \A i \in Occupied' : Sound(queue[i])'
    BY <1>1, <1>8, <1>9 DEF QueueInv, Sound
  <2>2. ASSUME NEW i \in Occupied', NEW j \in Occupied', i # j,
               queue'[i].client = queue'[j].client
        PROVE  queued' \in {i, j}
    <3>1. CASE i \in Occupied /\ j \in Occupied
      BY <1>1, <1>2, <1>8, <2>2, <3>1 DEF QueueInv
    <3>2. CASE i \notin Occupied /\ j \in Occupied
      BY <1>1, <1>2, <1>3, <1>7, <1>8, <1>9, <2>2, <3>2 DEF QueueInv, r
    <3>3. CASE i \in Occupied /\ j \notin Occupied
      BY <1>1, <1>2, <1>3, <1>7, <1>8, <1>9, <2>2, <3>3 DEF QueueInv, r
    <3>4. CASE i \notin Occupied /\ j \notin Occupied
      BY <1>8, <2>2, <3>4
    <3> QED BY <3>1, <3>2, <3>3, <3>4
  <2>3. queued' # None
    BY <1>1, <1>2, <1>7 DEF QueueInv
  <2> QED BY <1>2, <1>10, <2>1, <2>2, <2>3 DEF QueueInv
<1>13. LockInv'
  BY <1>1, <1>2, <1>7 DEF LockInv
<1>14. StreamInv'
  BY <1>1, <1>2, <1>7 DEF LockInv, StreamInv, StreamAgrees, CacheFresh
<1>15. OvertakeInv'
  <2>1. ASSUME QueueSize > 2, NEW c \in Clients
        PROVE  overtaken'[c] <= 1 /\ (overtaken'[c] = 1 => Short(c)')
    <3>1. Short(c) => Short(c)'
      BY <1>8 DEF Short
    <3>2. overtaken[c] \in Nat /\ r.count \in Nat
      BY <1>1, <1>3 DEF TypeOK, Request
    <3>3. /\ overtaken[c] <= 1
          /\ overtaken[c] = 1 => Short(c) /\ r.count = 1
      BY <1>1, <1>2, <2>1 DEF OvertakeInv, r
    <3> QED BY <1>7, <3>1, <3>2, <3>3
  <2>2. overtaken'[r.client] = 0
    BY <1>3, <1>7 DEF Request
  <2> QED BY <1>2, <1>10, <2>1, <2>2 DEF OvertakeInv
<1> QED BY <1>1, <1>6, <1>11, <1>12, <1>13, <1>14, <1>15 DEF IInv, NeverRefused

(* EXIUnlock takes the first waiter off the list. *)
LEMMA HandedOver ==
    ASSUME waiters \in Seq(Users \cup {Sd}), HandOver
    PROVE  /\ waiters' \in Seq(Users \cup {Sd})
           /\ waiters = <<>> => lock' = None /\ waiters' = <<>>
           /\ waiters # <<>> =>
                 /\ Len(waiters) \in Nat \ {0}
                 /\ lock' = IF waiters[1] = Sd THEN None ELSE waiters[1]
                 /\ waiters[1] # Sd => lock' \in Users
                 /\ Len(waiters') = Len(waiters) - 1
                 /\ \A k \in 1..Len(waiters') :
                       k + 1 \in 1..Len(waiters) /\ waiters'[k] = waiters[k + 1]
<1>1. CASE waiters = <<>>
  BY <1>1 DEF HandOver
<1>2. CASE waiters # <<>>
  <2>1. waiters' = Tail(waiters) /\ Head(waiters) = waiters[1]
    BY <1>2 DEF HandOver
  <2>2. Head(waiters) \in Users \cup {Sd}
    BY <1>2
  <2>3. /\ Len(waiters) \in Nat \ {0}
        /\ waiters' \in Seq(Users \cup {Sd})
        /\ Len(waiters') = Len(waiters) - 1
        /\ \A k \in 1..Len(waiters') : waiters'[k] = waiters[k + 1]
    BY <1>2, <2>1, HeadTailProperties
  <2> QED BY <1>2, <2>1, <2>2, <2>3 DEF HandOver
<1> QED BY <1>1, <1>2

LEMMA UnlockStep == ASSUME IInv, Unlock PROVE IInv'
<1>1. TypeOK /\ NeverRefused /\ QueueInv /\ LockInv /\ StreamInv /\ OvertakeInv
  BY DEF IInv
<1>2. /\ ctl = "unlock" /\ ctl' = "release" /\ HandOver
      /\ UNCHANGED <<queue, queued, last_sector, next_sector, writing, buffer, dest,
                     status, transferred, selected, card, disk, dropped, overtaken>>
  BY DEF Unlock, mmc, results
<1>3. waiters \in Seq(Users \cup {Sd})
  BY <1>1 DEF TypeOK
<1>4. \A k \in 1..Len(waiters) : waiters[k] # Sd
  BY <1>1, <1>2 DEF LockInv
<1>5. /\ waiters' \in Seq(Users \cup {Sd})
      /\ lock' \in Users \cup {None}
      /\ waiters' # <<>> => lock' # None
      /\ \A k \in 1..Len(waiters') : waiters'[k] # Sd
  <2>1. CASE waiters = <<>>
    BY <1>2, <1>3, <2>1, HandedOver
  <2>2. CASE waiters # <<>>
    <3>1. 1 \in 1..Len(waiters)
      BY <1>2, <1>3, <2>2, HandedOver
    <3>2. waiters[1] # Sd
      BY <1>4, <3>1
    <3> QED BY <1>2, <1>3, <1>4, <2>2, <3>2, HandedOver, Apart
  <2> QED BY <2>1, <2>2
<1>6. Occupied' = Occupied
  BY <1>2 DEF Occupied
<1>7. TypeOK'
  BY <1>1, <1>2, <1>5 DEF TypeOK
<1>8. QueueInv'
  BY <1>1, <1>2, <1>6 DEF QueueInv, Sound
<1>9. LockInv'
  BY <1>1, <1>2, <1>5, Apart DEF LockInv
<1>10. StreamInv'
  BY <1>1, <1>2, Apart DEF LockInv, StreamInv, StreamAgrees, CacheFresh
<1>11. OvertakeInv'
  BY <1>1, <1>2, <1>6 DEF OvertakeInv, Short
<1> QED BY <1>1, <1>2, <1>7, <1>8, <1>9, <1>10, <1>11 DEF IInv, NeverRefused

LEMMA ReleaseStep == ASSUME IInv, Release PROVE IInv'
<1>1. TypeOK /\ NeverRefused /\ QueueInv /\ LockInv /\ StreamInv /\ OvertakeInv
  BY DEF IInv
<1>2. /\ ctl = "release"
      /\ queue' = [queue EXCEPT ![queued] = None]
      /\ queued' = IF Urgent # {} THEN First(Urgent)
                   ELSE IF Left # {} THEN First(Left) ELSE None
      /\ ctl' = IF Left # {} THEN "start" ELSE "idle"
      /\ UNCHANGED <<last_sector, next_sector, writing, buffer, dest, status, transferred,
                     lock, waiters, selected, card, disk, dropped, overtaken>>
  BY DEF Release, bus, results
<1>3. queued \in Slots /\ queued \in Occupied
  BY <1>2, ServedRequest
<1>4. Urgent \in SUBSET Left /\ Left \in SUBSET Slots
  BY DEF Urgent, Left, Occupied
<1>5. /\ Occupied' = Left
      /\ \A i \in Left : queue'[i] = queue[i] /\ i \in Occupied /\ i # queued
      /\ queue' \in [Slots -> Request \cup {None}]
  BY <1>1, <1>2, <1>3 DEF TypeOK, Occupied, Left
<1>6. /\ Urgent # {} => queued' \in Urgent /\ queued' \in Left
      /\ Left # {} => queued' \in Left
      /\ Left = {} => queued' = None /\ Urgent = {}
  BY <1>2, <1>4, FirstIsIn
<1>7. queued' # None => Left # {} /\ queued' \in Slots
  BY <1>4, <1>6
<1>8. Left # {} => queued' # None
  <2>1. None \notin Slots
    BY Apart, SdQueueAssumption DEF Slots
  <2> QED BY <1>4, <1>6, <2>1
<1>9. transferred = None /\ lock # Sd
  BY <1>1, <1>2 DEF LockInv
<1>10. TypeOK'
  BY <1>1, <1>2, <1>5, <1>7 DEF TypeOK
<1>11. QueueInv'
  BY <1>1, <1>2, <1>5, <1>6, <1>8, <1>9 DEF QueueInv, Sound
<1>12. LockInv'
  BY <1>1, <1>2, <1>6, <1>8, <1>9 DEF LockInv
<1>13. StreamInv'
  BY <1>1, <1>2, <1>9 DEF StreamInv, StreamAgrees, CacheFresh
<1>14. OvertakeInv'
  <2> SUFFICES ASSUME QueueSize > 2, NEW c \in Clients
               PROVE  /\ overtaken[c] <= 1
                      /\ overtaken[c] = 1 => Short(c)' /\ queue'[queued'].count = 1
    BY <1>2 DEF OvertakeInv
  <2>1. overtaken[c] <= 1 /\ (overtaken[c] = 1 => Short(c) /\ c # queue[queued].client)
    BY <1>1, <1>2 DEF OvertakeInv
  <2>2. ASSUME overtaken[c] = 1 PROVE Short(c)' /\ queue'[queued'].count = 1
    <3>1. PICK i \in Occupied : queue[i].client = c /\ queue[i].count = 1
      BY <2>1, <2>2 DEF Short
    <3>2. i \in Urgent
      BY <2>1, <2>2, <3>1 DEF Urgent, Left
    <3>3. Short(c)'
      BY <1>4, <1>5, <3>1, <3>2 DEF Short
    <3>4. queued' \in Urgent
      BY <1>6, <3>2
    <3>5. queue'[queued'] = queue[queued'] /\ queue[queued'].count = 1
      BY <1>4, <1>5, <3>4 DEF Urgent
    <3> QED BY <3>3, <3>5
  <2> QED BY <2>1, <2>2
<1> QED BY <1>1, <1>2, <1>10, <1>11, <1>12, <1>13, <1>14 DEF IInv, NeverRefused

-----------------------------------------------------------------------------
(* Steps of the game's drivers *)

LEMMA UserLockStep == ASSUME IInv, NEW u \in Users, UserLock(u) PROVE IInv'
<1>1. TypeOK /\ NeverRefused /\ QueueInv /\ LockInv /\ StreamInv /\ OvertakeInv
  BY DEF IInv
<1>2. /\ ctl = "idle" /\ ctl' = ctl
      /\ \/ lock = None /\ lock' = u /\ waiters' = waiters
         \/ lock # None /\ lock' = lock /\ waiters' = Append(waiters, u)
      /\ UNCHANGED <<queue, queued, last_sector, next_sector, writing, buffer, dest,
                     status, transferred, selected, card, disk, dropped, overtaken>>
  BY DEF UserLock, mmc, results
<1>3. waiters \in Seq(Users \cup {Sd}) /\ u # Sd /\ u # None
  BY <1>1, Apart DEF TypeOK
<1>4. /\ waiters' \in Seq(Users \cup {Sd})
      /\ Len(waiters) \in Nat
      /\ Len(waiters') \in {Len(waiters), Len(waiters) + 1}
      /\ \A k \in 1..Len(waiters) : waiters'[k] = waiters[k] /\ k \in 1..Len(waiters')
      /\ \A k \in 1..Len(waiters') : waiters'[k] = Sd => k \in 1..Len(waiters)
  <2>1. CASE waiters' = waiters
    BY <1>3, <2>1
  <2>2. CASE waiters' = Append(waiters, u)
    <3>1. /\ Len(waiters') = Len(waiters) + 1
          /\ waiters'[Len(waiters) + 1] = u
          /\ \A k \in 1..Len(waiters) : waiters'[k] = waiters[k]
          /\ waiters' \in Seq(Users \cup {Sd})
          /\ Len(waiters) \in Nat
      BY <1>3, <2>2
    <3> QED BY <1>3, <3>1
  <2> QED BY <1>2, <2>1, <2>2
<1>5. Occupied' = Occupied
  BY <1>2 DEF Occupied
<1>6. TypeOK'
  BY <1>1, <1>2, <1>4 DEF TypeOK
<1>7. QueueInv'
  BY <1>1, <1>2, <1>5 DEF QueueInv, Sound
<1>8. LockInv'
  <2>1. (\E k \in 1..Len(waiters') : waiters'[k] = Sd)
           <=> (\E k \in 1..Len(waiters) : waiters[k] = Sd)
    BY <1>4
  <2>2. \A j, k \in 1..Len(waiters') : waiters'[j] = Sd /\ waiters'[k] = Sd => j = k
    BY <1>1, <1>4 DEF LockInv
  <2>3. lock' # None /\ (lock' = Sd <=> lock = Sd)
    BY <1>2, <1>3, Apart
  <2> QED BY <1>1, <1>2, <2>1, <2>2, <2>3 DEF LockInv
<1>9. StreamInv'
  BY <1>1, <1>2, <1>3, Apart DEF StreamInv, StreamAgrees, CacheFresh
<1>10. OvertakeInv'
  BY <1>1, <1>2, <1>5 DEF OvertakeInv, Short
<1> QED BY <1>1, <1>2, <1>6, <1>7, <1>8, <1>9, <1>10 DEF IInv, NeverRefused

LEMMA UserSelectStep == ASSUME IInv, NEW u \in Users, UserSelect(u) PROVE IInv'
<1>1. TypeOK /\ NeverRefused /\ QueueInv /\ LockInv /\ StreamInv /\ OvertakeInv
  BY DEF IInv
<1>2. /\ ctl = "idle" /\ lock = u /\ selected' = TRUE /\ next_sector' = None
      /\ card' = Stopped
      /\ UNCHANGED <<queue, queued, last_sector, writing, buffer, dest, status, ctl,
                     transferred, lock, waiters, disk, dropped, overtaken>>
  BY DEF UserSelect, results
<1>3. card' \in [mode : {"idle", "read", "write"}, at : 0..LastSector + 1]
      /\ card'.mode = "idle"
  BY <1>1, <1>2 DEF Stopped, StreamInv, StreamAgrees, TypeOK
<1>4. transferred = None
  BY <1>1, <1>2, Apart DEF LockInv
<1>5. Occupied' = Occupied
  BY <1>2 DEF Occupied
<1>6. TypeOK'
  BY <1>1, <1>2, <1>3 DEF TypeOK
<1>7. QueueInv'
  BY <1>1, <1>2, <1>5 DEF QueueInv, Sound
<1>8. LockInv'
  BY <1>1, <1>2 DEF LockInv
<1>9. StreamInv'
  BY <1>1, <1>2, <1>3, <1>4 DEF StreamInv, StreamAgrees, CacheFresh
<1>10. OvertakeInv'
  BY <1>1, <1>2, <1>5 DEF OvertakeInv, Short
<1> QED BY <1>1, <1>2, <1>6, <1>7, <1>8, <1>9, <1>10 DEF IInv, NeverRefused

LEMMA UserDeselectStep == ASSUME IInv, NEW u \in Users, UserDeselect(u) PROVE IInv'
<1>1. TypeOK /\ NeverRefused /\ QueueInv /\ LockInv /\ StreamInv /\ OvertakeInv
  BY DEF IInv
<1>2. /\ selected' = FALSE
      /\ UNCHANGED <<queue, queued, last_sector, next_sector, writing, buffer, dest,
                     status, ctl, transferred, lock, waiters, card, disk, dropped, overtaken>>
  BY DEF UserDeselect, mmc, results
<1>3. Occupied' = Occupied
  BY <1>2 DEF Occupied
<1>4. TypeOK'
  <2>1. selected' \in BOOLEAN /\ UNCHANGED <<queue, queued, waiters, card, disk>>
    BY <1>2
  <2> QED BY <1>1, <1>2, <2>1 DEF TypeOK
<1>5. QueueInv'
  BY <1>1, <1>2, <1>3 DEF QueueInv, Sound
<1>6. LockInv'
  BY <1>1, <1>2 DEF LockInv
<1>7. StreamInv'
  BY <1>1, <1>2 DEF StreamInv, StreamAgrees, CacheFresh
<1>8. OvertakeInv'
  BY <1>1, <1>2, <1>3 DEF OvertakeInv, Short
<1> QED BY <1>1, <1>2, <1>4, <1>5, <1>6, <1>7, <1>8 DEF IInv, NeverRefused

LEMMA UserUnlockStep == ASSUME IInv, NEW u \in Users, UserUnlock(u) PROVE IInv'
<1>1. TypeOK /\ NeverRefused /\ QueueInv /\ LockInv /\ StreamInv /\ OvertakeInv
  BY DEF IInv
<1>2. /\ ctl = "idle" /\ lock = u /\ ~selected /\ HandOver
      /\ ctl' = IF waiters # <<>> /\ Head(waiters) = Sd THEN "start" ELSE "idle"
      /\ UNCHANGED <<queue, queued, last_sector, next_sector, writing, buffer, dest,
                     status, transferred, selected, card, disk, dropped, overtaken>>
  BY DEF UserUnlock, mmc, results
<1>3. waiters \in Seq(Users \cup {Sd}) /\ transferred = None
  BY <1>1, <1>2, Apart DEF TypeOK, LockInv
<1>4. ctl' = IF waiters # <<>> /\ waiters[1] = Sd THEN "start" ELSE "idle"
  BY <1>2, <1>3
<1>5. waiters' \in Seq(Users \cup {Sd}) /\ lock' \in Users \cup {None}
  BY <1>2, <1>3, HandedOver, Apart
<1>6. Occupied' = Occupied
  BY <1>2 DEF Occupied
<1>7. TypeOK'
  BY <1>1, <1>2, <1>5 DEF TypeOK
<1>8. (\E k \in 1..Len(waiters) : waiters[k] = Sd) <=> queued # None
  BY <1>1, <1>2, <1>3 DEF LockInv
<1>9. QueueInv'
  <2>1. ctl' = "start" => queued # None
    BY <1>2, <1>3, <1>4, <1>8, HandedOver
  <2> QED BY <1>1, <1>2, <1>3, <1>6, <2>1 DEF QueueInv, Sound
<1>10. LockInv'
  <2>1. CASE waiters = <<>>
    <3>1. lock' = None /\ waiters' = <<>> /\ ctl' = "idle"
      BY <1>2, <1>3, <2>1, HandedOver
    <3>2. queued = None
      BY <1>3, <1>8, <2>1
    <3> QED BY <1>2, <1>3, <3>1, <3>2, Apart DEF LockInv
  <2>2. CASE waiters # <<>>
    <3>1. /\ Len(waiters) \in Nat \ {0}
          /\ lock' = IF waiters[1] = Sd THEN None ELSE waiters[1]
          /\ waiters[1] # Sd => lock' \in Users
          /\ Len(waiters') = Len(waiters) - 1
          /\ \A k \in 1..Len(waiters') :
                k + 1 \in 1..Len(waiters) /\ waiters'[k] = waiters[k + 1]
      BY <1>2, <1>3, <2>2, HandedOver
    <3>2. \A j, k \in 1..Len(waiters) : waiters[j] = Sd /\ waiters[k] = Sd => j = k
      BY <1>1 DEF LockInv
    <3>3. \A j, k \in 1..Len(waiters') : waiters'[j] = Sd /\ waiters'[k] = Sd => j = k
      BY <3>1, <3>2
    <3>4. CASE waiters[1] = Sd
      <4>1. \A k \in 1..Len(waiters') : waiters'[k] # Sd
        BY <3>1, <3>2, <3>4
      <4>2. ctl' = "start" /\ lock' = None
        BY <1>4, <2>2, <3>1, <3>4
      <4> QED BY <1>2, <1>3, <3>3, <4>1, <4>2, Apart DEF LockInv
    <3>5. CASE waiters[1] # Sd
      <4>1. (\E k \in 1..Len(waiters') : waiters'[k] = Sd)
               <=> (\E k \in 1..Len(waiters) : waiters[k] = Sd)
        <5>1. ASSUME NEW k \in 1..Len(waiters), waiters[k] = Sd
              PROVE  k - 1 \in 1..Len(waiters') /\ waiters'[k - 1] = Sd
          BY <3>1, <3>5, <5>1
        <5> QED BY <3>1, <5>1
      <4>2. ctl' = "idle" /\ lock' \in Users
        BY <1>4, <3>1, <3>5
      <4> QED BY <1>2, <1>3, <1>8, <3>3, <4>1, <4>2, Apart DEF LockInv
    <3> QED BY <3>4, <3>5
  <2> QED BY <2>1, <2>2
<1>11. StreamInv'
  BY <1>1, <1>2, <1>3 DEF StreamInv, StreamAgrees, CacheFresh
<1>12. OvertakeInv'
  <2>1. ctl' \notin {"unlock", "release"}
    BY <1>4
  <2> QED BY <1>1, <1>2, <1>6, <2>1 DEF OvertakeInv, Short
<1> QED BY <1>1, <1>2, <1>7, <1>9, <1>10, <1>11, <1>12 DEF IInv, NeverRefused

-----------------------------------------------------------------------------
(* The theorems *)

LEMMA NextIInv == IInv /\ [Next]_vars => IInv'
<1> SUFFICES ASSUME IInv, [Next]_vars PROVE IInv'
  OBVIOUS
<1>1. CASE \E c \in Clients : \E r \in FirstRequest(c) : Submit(c, r)
  BY <1>1, SubmitStep
<1>2. CASE Driver
  BY <1>2, LockBusyStep, WriteSectorStep, CacheHitStep, StartTransferStep, TcProgressStep,
     TcDoneStep, CallbackStep, UnlockStep, ReleaseStep DEF Driver
<1>3. CASE \E u \in Users :
              UserLock(u) \/ UserSelect(u) \/ UserDeselect(u) \/ UserUnlock(u)
  BY <1>3, UserLockStep, UserSelectStep, UserDeselectStep, UserUnlockStep
<1>4. CASE UNCHANGED vars
  <2>1. /\ IInv
        /\ UNCHANGED <<queue, queued, last_sector, next_sector, writing, buffer, dest, status,
                       transferred, ctl, lock, waiters, selected, card, disk, dropped, overtaken>>
    BY <1>4 DEF vars, mmc, bus, results
  <2>2. Occupied' = Occupied
    BY <2>1 DEF Occupied
  <2>3. TypeOK' /\ NeverRefused' /\ LockInv'
    BY <2>1 DEF IInv, TypeOK, NeverRefused, LockInv
  <2>4. QueueInv' /\ StreamInv' /\ OvertakeInv'
    BY <2>1, <2>2 DEF IInv, QueueInv, Sound, StreamInv, StreamAgrees, CacheFresh,
                      OvertakeInv, Short
  <2> QED BY <2>3, <2>4 DEF IInv
<1> QED BY <1>1, <1>2, <1>3, <1>4 DEF Next

LEMMA SpecIInv == Spec => []IInv
  BY InitIInv, NextIInv, PTL DEF Spec

(* Every variable of the driver keeps its type (sd.c:69-91). *)
THEOREM TypeCorrect == Spec => []TypeOK
<1>1. IInv => TypeOK
  BY DEF IInv
<1> QED BY <1>1, SpecIInv, PTL

(* No request is refused, for any number of clients: one slot more than    *)
(* there are clients is enough (do_read_write_async, sd.c:336-363).        *)
THEOREM NoRequestRefused == Spec => []NeverRefused
<1>1. IInv => NeverRefused
  BY DEF IInv
<1> QED BY <1>1, SpecIInv, PTL

(* Work in the queue is always being worked on, or the driver is waiting   *)
(* exactly once for a bus another owner holds (mmc_read_queued).           *)
THEOREM WakeupNotLost == Spec => []NoLostWakeup
<1>1. IInv => NoLostWakeup
  <2> SUFFICES ASSUME IInv, ctl = "idle"
               PROVE  /\ queued = None => Occupied = {}
                      /\ queued # None =>
                            \/ lock = Sd /\ transferred # None
                            \/ /\ lock \in Users /\ transferred = None
                               /\ Cardinality({k \in 1..Len(waiters) : waiters[k] = Sd}) = 1
    BY DEF NoLostWakeup
  <2>1. TypeOK /\ QueueInv /\ LockInv
    BY DEF IInv
  <2>2. queued = None => Occupied = {}
    BY <2>1 DEF QueueInv
  <2>3. ASSUME queued # None, transferred = None
        PROVE  lock \in Users /\ Cardinality({k \in 1..Len(waiters) : waiters[k] = Sd}) = 1
    <3>1. PICK k \in 1..Len(waiters) : waiters[k] = Sd
      BY <2>1, <2>3 DEF LockInv
    <3>2. {j \in 1..Len(waiters) : waiters[j] = Sd} = {k}
      BY <2>1, <3>1 DEF LockInv
    <3>3. Cardinality({k}) = 1
      BY FS_Singleton
    <3>4. waiters # <<>>
      BY <3>1
    <3>5. lock # None /\ lock # Sd
      BY <2>1, <2>3, <3>4 DEF LockInv
    <3> QED BY <2>1, <3>2, <3>3, <3>5 DEF TypeOK
  <2> QED BY <2>1, <2>2, <2>3 DEF LockInv
<1> QED BY <1>1, SpecIInv, PTL

(* The driver and the card agree on the open multi-block command (end_read *)
(* and mmc_read_queued, sd.c:251-254, 278-281, 426-437).                   *)
THEOREM StreamsAgree == Spec => []StreamAgrees
<1>1. IInv => StreamAgrees
  BY DEF IInv, StreamInv
<1> QED BY <1>1, SpecIInv, PTL

(* The game never shares the bus with a command of the card. *)
THEOREM BusIsExclusive == Spec => []BusExclusive
<1>1. IInv => BusExclusive
  BY Apart DEF IInv, StreamInv, StreamAgrees, LockInv, BusExclusive
<1> QED BY <1>1, SpecIInv, PTL

(* mmc.buffer is never a stale copy of the card's sector. *)
THEOREM CacheIsFresh == Spec => []CacheFresh
<1>1. IInv => CacheFresh
  BY DEF IInv, StreamInv
<1> QED BY <1>1, SpecIInv, PTL

(* A request at the end of its transfer is overtaken once at most. *)
THEOREM ShortIsFirst == Spec => []ShortFirst
<1>1. IInv => ShortFirst
  BY DEF IInv, OvertakeInv, ShortFirst
<1> QED BY <1>1, SpecIInv, PTL

-----------------------------------------------------------------------------
(* The driver as a BlockService *)

(* What the service knows of the request in slot i. *)
ViewOf(i) ==
    LET r == queue[i] IN
    IF i = queued /\ ctl = "done" THEN Service!Served(r.sector, r.count, Result)
    ELSE Service!Asked(r.sector, r.count, r.data)

(* A client waits for one request at most, and its view is of that one. *)
ViewInv ==
    /\ PendingView = [c \in Clients |-> PendingView[c]]
    /\ \A c \in Clients :
          /\ Pending(c) = {} => PendingView[c] = None
          /\ \A i \in Pending(c) : Pending(c) = {i} /\ PendingView[c] = ViewOf(i)

LEMMA ViewIsOfPending == IInv => ViewInv
<1> SUFFICES ASSUME IInv PROVE ViewInv
  OBVIOUS
<1>1. PendingView = [c \in Clients |-> PendingView[c]]
  BY DEF PendingView
<1>2. ASSUME NEW c \in Clients, Pending(c) = {} PROVE PendingView[c] = None
  BY <1>2 DEF PendingView
<1>3. ASSUME NEW c \in Clients, NEW i \in Pending(c)
      PROVE  Pending(c) = {i} /\ PendingView[c] = ViewOf(i)
  <2>1. Pending(c) = {i}
    BY <1>3 DEF IInv, QueueInv, Pending
  <2>2. First(Pending(c)) = i
    <3>1. {i} \in SUBSET Slots
      BY DEF Pending, Occupied
    <3> QED BY <2>1, <3>1, FirstIsIn
  <2>3. PendingView[c] = LET j == First(Pending(c))
                             r == queue[j]
                         IN IF j = queued /\ ctl = "done"
                            THEN [stage |-> "served", sector |-> r.sector, count |-> r.count,
                                  answer |-> Result]
                            ELSE [stage |-> "asked", sector |-> r.sector, count |-> r.count,
                                  data |-> r.data]
    BY <2>1 DEF PendingView
  <2> QED BY <2>1, <2>2, <2>3 DEF ViewOf, Service!Served, Service!Asked
<1> QED BY <1>1, <1>2, <1>3 DEF ViewInv

(* The same of the state after a step. *)
LEMMA ViewIsOfPendingNext == IInv' => ViewInv'
  BY ViewIsOfPending, PTL

(* A view is one of BlockService's records, and so not None. *)
LEMMA ViewType ==
    ASSUME IInv, NEW i \in Occupied
    PROVE  /\ ViewOf(i) # None
           /\ queue[i] \in Request /\ queue[i].sector \in Sectors /\ queue[i].count \in Nat
<1>1. queue[i] \in Request
  BY DEF IInv, TypeOK, Occupied
<1>2. Result \in Vals \cup {None, Error}
  BY DEF IInv, TypeOK, Result
<1>3. ViewOf(i) \in Views
  BY <1>1, <1>2 DEF ViewOf, Views, Request, Service!Served, Service!Asked
<1> QED BY <1>1, <1>3, ViewAssumption DEF Request

(* A client whose request neither comes nor goes nor changes has its view. *)
LEMMA SameView ==
    ASSUME IInv, IInv', NEW c \in Clients, Pending(c)' = Pending(c),
           \A i \in Pending(c) : ViewOf(i)' = ViewOf(i)
    PROVE  PendingView'[c] = PendingView[c]
  BY ViewIsOfPending, ViewIsOfPendingNext DEF ViewInv

LEMMA AllSame ==
    ASSUME IInv, IInv', \A c \in Clients : PendingView'[c] = PendingView[c]
    PROVE  PendingView' = PendingView
  BY ViewIsOfPending, ViewIsOfPendingNext DEF ViewInv

LEMMA OneChanges ==
    ASSUME IInv, IInv', NEW c \in Clients,
           \A d \in Clients \ {c} : PendingView'[d] = PendingView[d]
    PROVE  PendingView' = [PendingView EXCEPT ![c] = PendingView'[c]]
  BY ViewIsOfPending, ViewIsOfPendingNext DEF ViewInv

(* Steps the service does not see: those that leave the queue as it is and *)
(* do not reach the callback.                                              *)
LEMMA Unseen ==
    ASSUME IInv, IInv', UNCHANGED <<queue, queued, disk>>,
           ctl \notin {"done", "unlock", "release"},
           ctl' \notin {"done", "unlock", "release"}
    PROVE  PendingView' = PendingView
<1>1. Occupied' = Occupied
  BY DEF Occupied
<1>2. \A c \in Clients : Pending(c)' = Pending(c)
  BY <1>1 DEF Pending
<1>3. \A i : ViewOf(i)' = ViewOf(i)
  BY DEF ViewOf
<1> QED BY <1>2, <1>3, SameView, AllSame

(* The steps that bring a request to its callback. *)
LEMMA ServedNow ==
    ASSUME IInv, IInv', UNCHANGED <<queue, queued>>, queued # None,
           ctl \in {"idle", "start"}, ctl' = "done"
    PROVE  LET r == queue[queued] IN
           /\ r.client \in Clients
           /\ PendingView[r.client] = Service!Asked(r.sector, r.count, r.data)
           /\ PendingView[r.client] # None
           /\ PendingView' = [PendingView EXCEPT
                 ![r.client] = Service!Served(r.sector, r.count, Result')]
<1> DEFINE r == queue[queued]
<1>1. queued \in Occupied /\ r \in Request
  BY ViewType DEF IInv, QueueInv
<1>2. r.client \in Clients
  BY <1>1 DEF Request
<1>3. Occupied' = Occupied
  BY DEF Occupied
<1>4. \A c \in Clients : Pending(c)' = Pending(c)
  BY <1>3 DEF Pending
<1>5. queued \in Pending(r.client)
  BY <1>1 DEF Pending
<1>6. /\ PendingView[r.client] = ViewOf(queued)
      /\ PendingView'[r.client] = ViewOf(queued)'
  BY <1>2, <1>4, <1>5, ViewIsOfPending, ViewIsOfPendingNext DEF ViewInv
<1>7. /\ ViewOf(queued) = Service!Asked(r.sector, r.count, r.data)
      /\ ViewOf(queued)' = Service!Served(r.sector, r.count, Result')
  BY DEF ViewOf
<1>8. ASSUME NEW d \in Clients \ {r.client} PROVE PendingView'[d] = PendingView[d]
  <2>1. \A i \in Pending(d) : i # queued
    BY DEF Pending
  <2>2. \A i \in Pending(d) : ViewOf(i)' = ViewOf(i)
    BY <2>1 DEF ViewOf
  <2> QED BY <1>4, <2>2, SameView
<1> HIDE DEF r
<1>9. PendingView' = [PendingView EXCEPT ![r.client] = PendingView'[r.client]]
  BY <1>2, <1>8, OneChanges
<1>10. PendingView[r.client] # None
  BY <1>1, <1>6, ViewType
<1> QED BY <1>2, <1>6, <1>7, <1>9, <1>10 DEF r

ServiceStep == Service!ServiceNext \/ UNCHANGED <<disk, PendingView>>

LEMMA WriteSectorServes ==
    ASSUME IInv, IInv', NEW accepted \in BOOLEAN, WriteSector(accepted)
    PROVE  ServiceStep
<1> DEFINE r == queue[queued]
<1>1. ctl = "start" /\ ctl' = "done" /\ r.write /\ UNCHANGED <<queue, queued>>
  BY DEF WriteSector
<1>2. queued # None /\ Sound(r) /\ r.sector \in Sectors
  BY <1>1, ServedRequest DEF IInv, QueueInv
<1>3. StreamTo(r) = [mode |-> "write", at |-> r.sector]
  BY <1>1, StreamIsThere DEF Mode
<1>4. /\ disk' = IF accepted THEN [disk EXCEPT ![r.sector] = r.data] ELSE disk
      /\ status' = IF accepted THEN r.data ELSE Error
  BY <1>3 DEF WriteSector
<1>5. Result' = status'
  BY <1>1 DEF Result
<1>6. r.data # None
  BY <1>1, <1>2 DEF Sound
<1> DEFINE p == PendingView[r.client]
<1>7. /\ r.client \in Clients /\ p # None
      /\ p = Service!Asked(r.sector, r.count, r.data)
      /\ PendingView' = [PendingView EXCEPT
            ![r.client] = Service!Served(r.sector, r.count, Result')]
  BY <1>1, <1>2, ServedNow
<1>8. p.stage = "asked" /\ p.sector = r.sector /\ p.count = r.count /\ p.data = r.data
  BY <1>7 DEF Service!Asked
<1> HIDE DEF r, p
<1>9. Service!Serve(r.client)
  BY <1>4, <1>5, <1>6, <1>7, <1>8 DEF Service!Serve, p
<1> QED BY <1>7, <1>9 DEF ServiceStep, Service!ServiceNext

(* A read is answered with what the card holds. *)
LEMMA ReadServes ==
    ASSUME IInv, IInv', UNCHANGED <<queue, queued, disk>>, queued # None,
           ctl \in {"idle", "start"}, ctl' = "done",
           queue[queued].data = None, Result' = disk[queue[queued].sector]
    PROVE  ServiceStep
<1> DEFINE r == queue[queued]
           p == PendingView[r.client]
<1>1. /\ r.client \in Clients /\ p # None
      /\ p = Service!Asked(r.sector, r.count, r.data)
      /\ PendingView' = [PendingView EXCEPT
            ![r.client] = Service!Served(r.sector, r.count, Result')]
  BY ServedNow
<1>2. p.stage = "asked" /\ p.sector = r.sector /\ p.count = r.count /\ p.data = None
  BY <1>1 DEF Service!Asked
<1>3. Result' = disk[r.sector]
  OBVIOUS
<1> HIDE DEF r, p
<1>4. Service!Serve(r.client)
  BY <1>1, <1>2, <1>3 DEF Service!Serve, p
<1> QED BY <1>1, <1>4 DEF ServiceStep, Service!ServiceNext

LEMMA CacheHitServes == ASSUME IInv, IInv', CacheHit PROVE ServiceStep
<1>1. /\ ctl = "start" /\ ctl' = "done" /\ ~queue[queued].write
      /\ queue[queued].sector = last_sector
      /\ UNCHANGED <<queue, queued, disk, last_sector, buffer, transferred>>
  BY DEF CacheHit, mmc
<1>2. queued # None /\ Sound(queue[queued]) /\ queue[queued].sector \in Sectors
  BY <1>1, ServedRequest DEF IInv, QueueInv
<1>3. queue[queued].data = None
  BY <1>1, <1>2 DEF Sound
<1>4. buffer = disk[last_sector]
  <2>1. transferred = None /\ last_sector # None
    BY <1>1, <1>2, SdQueueAssumption DEF IInv, LockInv, Sectors
  <2> QED BY <2>1 DEF IInv, StreamInv, CacheFresh
<1>5. Result' = disk[queue[queued].sector]
  BY <1>1, <1>4 DEF Result
<1> QED BY <1>1, <1>2, <1>3, <1>5, ReadServes

LEMMA TcDoneServes == ASSUME IInv, IInv', TcDone PROVE ServiceStep
<1> DEFINE r == queue[queued]
<1>1. /\ ctl = "idle" /\ ctl' = "done" /\ transferred = 512
      /\ UNCHANGED <<queue, queued, disk, last_sector>>
  BY DEF TcDone
<1>2. transferred # None
  BY <1>1, Apart
<1>3. queued # None /\ Sound(r) /\ r.sector \in Sectors /\ ~r.write
  BY <1>2, ServedRequest DEF IInv, QueueInv, StreamInv
<1>4. r.data = None
  BY <1>3 DEF Sound
<1>5. card.at = r.sector
  BY <1>2, <1>3, Apart DEF IInv, StreamInv, StreamAgrees, Sectors
<1>6. /\ r.sector = last_sector => buffer' = disk[r.sector]
      /\ r.sector # last_sector => dest' = disk[r.sector]
  BY <1>5 DEF TcDone
<1>7. Result' = disk[r.sector]
  BY <1>1, <1>3, <1>6 DEF Result
<1> QED BY <1>1, <1>3, <1>4, <1>7, ReadServes

(* A request made in a free slot is the only one of its client. *)
LEMMA AskedNow ==
    ASSUME IInv, IInv', NEW c \in Clients, NEW r \in Request, r.client = c,
           NEW s \in Slots \ Occupied, Occupied' = Occupied \cup {s}, queue'[s] = r,
           \A i \in Occupied : queue'[i] = queue[i],
           ctl' # "done", s = queued' => ctl' \notin {"unlock", "release"}
    PROVE  PendingView'[c] = Service!Asked(r.sector, r.count, r.data)
<1>1. s \in Pending(c)'
  BY DEF Pending
<1>2. PendingView'[c] = ViewOf(s)'
  BY <1>1, ViewIsOfPendingNext DEF ViewInv
<1> QED BY <1>2 DEF ViewOf

(* Such a request is one BlockService allows. *)
LEMMA FirstRequestIsNew ==
    ASSUME NEW c \in Clients, NEW r \in FirstRequest(c)
    PROVE  Service!Asked(r.sector, r.count, r.data) \in Service!NewRequest(c)
<1>1. r.sector \in Sectors /\ r.count \in 0..MaxCount[c] /\ r.data \in Payloads \cup {None}
  BY SdQueueAssumption DEF FirstRequest
<1> QED BY <1>1 DEF Service!NewRequest

LEMMA SubmitAsks ==
    ASSUME IInv, IInv', NEW c \in Clients, NEW r \in FirstRequest(c), Submit(c, r)
    PROVE  ServiceStep
<1> DEFINE s == First(Free)
<1>1. TypeOK /\ QueueInv /\ ctl = "idle"
  BY DEF IInv, Submit
<1>2. r \in Request /\ r.client = c
  BY FirstRequestIsSound
<1>3. Free # {}
  BY <1>1, RoomInQueue
<1>4. /\ queue' = [queue EXCEPT ![s] = r]
      /\ ctl' \in {"idle", "start"}
      /\ ~Waiting(c)
      /\ queued \in Occupied => queued' = queued
      /\ UNCHANGED disk
  BY <1>1, <1>3, Apart, SdQueueAssumption DEF Submit, Occupied, Slots
<1>5. /\ s \in Slots \ Occupied
      /\ Occupied' = Occupied \cup {s}
      /\ queue'[s] = r
      /\ \A i \in Occupied : queue'[i] = queue[i]
  BY <1>1, <1>2, <1>4, AddedRequest
<1> HIDE DEF s
<1>6. PendingView[c] = None
  <2>1. Pending(c) = {}
    BY <1>4 DEF Pending, Waiting
  <2> QED BY <2>1, ViewIsOfPending DEF ViewInv
<1>7. PendingView'[c] = Service!Asked(r.sector, r.count, r.data)
  BY <1>2, <1>4, <1>5, AskedNow
<1>8. ASSUME NEW d \in Clients \ {c} PROVE PendingView'[d] = PendingView[d]
  <2>1. Pending(d)' = Pending(d)
    BY <1>1, <1>2, <1>4, <1>5 DEF Pending
  <2>2. \A i \in Pending(d) : ViewOf(i)' = ViewOf(i)
    BY <1>1, <1>4, <1>5 DEF ViewOf, Pending
  <2> QED BY <2>1, <2>2, SameView
<1>9. PendingView' = [PendingView EXCEPT ![c] = PendingView'[c]]
  BY <1>8, OneChanges
<1>10. Service!Ask(c)
  BY <1>4, <1>6, <1>7, <1>9, FirstRequestIsNew DEF Service!Ask
<1> QED BY <1>10 DEF ServiceStep, Service!ServiceNext

LEMMA CallbackAnswers == ASSUME IInv, IInv', Callback PROVE ServiceStep
<1> DEFINE r == queue[queued]
           s == First(Free)
<1>1. TypeOK /\ QueueInv /\ ctl = "done" /\ ctl' = "unlock"
      /\ UNCHANGED <<queued, disk>>
  BY DEF IInv, Callback
<1>2. r \in Request /\ Sound(r) /\ queued \in Occupied
  BY <1>1, ServedRequest
<1>client. PICK c \in Clients : c = r.client
  BY <1>2 DEF Request
<1> DEFINE p == PendingView[c]
<1>3. Free # {}
  BY <1>1, RoomInQueue
<1>4. PICK n \in NextRequest(r) :
         queue' = IF n # None THEN [queue EXCEPT ![s] = n] ELSE queue
  BY <1>3 DEF Callback
<1>5. p = Service!Served(r.sector, r.count, Result) /\ p # None
  <2>1. queued \in Pending(c)
    BY <1>1, <1>2, <1>client DEF Pending
  <2>2. PendingView[c] = ViewOf(queued)
    BY <2>1, ViewIsOfPending DEF ViewInv
  <2> QED BY <1>1, <1>2, <2>2, ViewType DEF ViewOf
<1>6. p.stage = "served" /\ p.sector = r.sector /\ p.count = r.count
  BY <1>5 DEF Service!Served
<1>7. n # None =>
         /\ n \in Request /\ n.client = c
         /\ s \in Slots \ Occupied
         /\ Occupied' = Occupied \cup {s}
         /\ queue'[s] = n
         /\ \A i \in Occupied : queue'[i] = queue[i]
  <2> SUFFICES ASSUME n # None
               PROVE  /\ n \in Request /\ n.client = c
                      /\ s \in Slots \ Occupied
                      /\ Occupied' = Occupied \cup {s}
                      /\ queue'[s] = n
                      /\ \A i \in Occupied : queue'[i] = queue[i]
    OBVIOUS
  <2>1. n \in Request /\ n.client = c
    BY <1>2, <1>client, NextRequestIsSound
  <2>2. queue' = [queue EXCEPT ![First(Free)] = n]
    BY <1>4
  <2> QED BY <1>1, <2>1, <2>2, AddedRequest
<1>8. n = None => Occupied' = Occupied /\ queue' = queue
  BY <1>4 DEF Occupied
<1>9. PendingView'[c] = IF n = None THEN None ELSE Service!Asked(n.sector, n.count, n.data)
  <2>1. CASE n = None
    <3>1. Pending(c)' = {}
      BY <1>1, <1>2, <1>client, <1>8, <2>1 DEF Pending, QueueInv
    <3>2. PendingView'[c] = None
      BY <3>1, ViewIsOfPendingNext DEF ViewInv
    <3> QED BY <2>1, <3>2
  <2>2. CASE n # None
    <3>1. s # queued'
      BY <1>1, <1>2, <1>7, <2>2
    <3> HIDE DEF s, r
    <3>2. ctl' # "done"
      BY <1>1
    <3>3. PendingView'[c] = Service!Asked(n.sector, n.count, n.data)
      BY <1>2, <1>7, <2>2, <3>1, <3>2, AskedNow
    <3> QED BY <2>2, <3>3
  <2> QED BY <2>1, <2>2
<1>10. ASSUME NEW d \in Clients \ {c} PROVE PendingView'[d] = PendingView[d]
  <2>1. \A i \in Occupied : queue'[i] = queue[i]
    BY <1>7, <1>8
  <2>2. \A i \in Occupied' \ Occupied : queue'[i].client = c
    BY <1>7, <1>8
  <2>3. Occupied \subseteq Occupied'
    BY <1>7, <1>8
  <2>4. \A i \in Pending(d) \cup Pending(d)' : i # queued
    BY <1>1, <1>2, <1>client, <2>1 DEF Pending
  <2>5. Pending(d)' = Pending(d)
    BY <1>1, <2>1, <2>2, <2>3, <2>4 DEF Pending
  <2>6. \A i \in Pending(d) : ViewOf(i)' = ViewOf(i)
    BY <1>1, <2>1, <2>4 DEF ViewOf, Pending
  <2> QED BY <2>5, <2>6, SameView
<1>11. PendingView' = [PendingView EXCEPT ![c] = PendingView'[c]]
  BY <1>2, <1>10, OneChanges
<1>12. PendingView'[c] \in IF p.count > 1 THEN {Service!Asked(p.sector + 1, p.count - 1, None)}
                           ELSE {None} \cup Service!NewRequest(c)
  <2>1. CASE r.count > 1
    <3>1. n \in [client : {c}, sector : {r.sector + 1}, count : {r.count - 1},
                 whole : BOOLEAN, write : {FALSE}, data : {None}]
      BY <1>client, <2>1 DEF NextRequest
    <3>2. r.sector + 1 \in Sectors /\ r.count - 1 \in Nat
      BY <1>2, <2>1, SdQueueAssumption DEF Sound, Request, Sectors
    <3>3. n \in Request
      BY <1>2, <3>1, <3>2 DEF Request
    <3>4. n # None /\ n.sector = r.sector + 1 /\ n.count = r.count - 1 /\ n.data = None
      BY <3>1, <3>3, Apart
    <3> QED BY <1>6, <1>9, <2>1, <3>4
  <2>2. CASE ~(r.count > 1)
    <3>1. n = None \/ n \in FirstRequest(c)
      BY <1>client, <2>2 DEF NextRequest
    <3>2. ~(p.count > 1)
      BY <1>6, <2>2
    <3> HIDE DEF p
    <3> QED BY <1>2, <1>9, <3>1, <3>2, FirstRequestIsNew
  <2> QED BY <2>1, <2>2
<1>13. Service!Answer(c)
  <2> HIDE DEF r, s, p
  <2> QED BY <1>1, <1>5, <1>6, <1>11, <1>12 DEF Service!Answer, p
<1> QED BY <1>2, <1>13 DEF ServiceStep, Service!ServiceNext

LEMMA UnlockIsUnseen == ASSUME IInv, IInv', Unlock PROVE ServiceStep
<1>1. ctl = "unlock" /\ ctl' = "release" /\ UNCHANGED <<queue, queued, disk>>
  BY DEF Unlock, mmc
<1>2. Occupied' = Occupied
  BY <1>1 DEF Occupied
<1>3. ASSUME NEW c \in Clients PROVE PendingView'[c] = PendingView[c]
  <2>1. Pending(c)' = Pending(c)
    BY <1>1, <1>2 DEF Pending
  <2>2. \A i \in Pending(c) : ViewOf(i)' = ViewOf(i)
    BY <1>1 DEF ViewOf
  <2> QED BY <2>1, <2>2, SameView
<1> QED BY <1>1, <1>3, AllSame DEF ServiceStep

LEMMA ReleaseIsUnseen == ASSUME IInv, IInv', Release PROVE ServiceStep
<1>1. ctl = "release" /\ ctl' \in {"start", "idle"} /\ UNCHANGED disk
      /\ queue' = [queue EXCEPT ![queued] = None]
  BY DEF Release
<1>2. queued \in Occupied /\ queued \in Slots
  BY <1>1, ServedRequest
<1>3. /\ Occupied' = Occupied \ {queued}
      /\ \A i \in Occupied \ {queued} : queue'[i] = queue[i]
  BY <1>1, <1>2 DEF IInv, TypeOK, Occupied
<1>4. ASSUME NEW c \in Clients PROVE PendingView'[c] = PendingView[c]
  <2>1. Pending(c)' = Pending(c)
    BY <1>1, <1>3 DEF Pending
  <2>2. \A i \in Pending(c) : ViewOf(i)' = ViewOf(i)
    BY <1>1, <1>3 DEF ViewOf, Pending
  <2> QED BY <2>1, <2>2, SameView
<1> QED BY <1>1, <1>4, AllSame DEF ServiceStep

LEMMA NextIsService == IInv /\ IInv' /\ [Next]_vars => ServiceStep
<1> SUFFICES ASSUME IInv, IInv', [Next]_vars PROVE ServiceStep
  OBVIOUS
<1>1. CASE \E c \in Clients : \E r \in FirstRequest(c) : Submit(c, r)
  BY <1>1, SubmitAsks
<1>2. CASE \/ \E accepted \in BOOLEAN : WriteSector(accepted)
           \/ CacheHit \/ TcDone \/ Callback \/ Unlock \/ Release
  BY <1>2, WriteSectorServes, CacheHitServes, TcDoneServes, CallbackAnswers,
     UnlockIsUnseen, ReleaseIsUnseen
<1>3. CASE LockBusy \/ StartTransfer \/ TcProgress
  <2>1. /\ UNCHANGED <<queue, queued, disk>>
        /\ ctl \in {"idle", "start"} /\ ctl' \in {"idle", "start"}
    BY <1>3 DEF LockBusy, StartTransfer, TcProgress, mmc
  <2> QED BY <2>1, Unseen DEF ServiceStep
<1>4. CASE \E u \in Users :
              UserLock(u) \/ UserSelect(u) \/ UserDeselect(u) \/ UserUnlock(u)
  <2>1. /\ UNCHANGED <<queue, queued, disk>>
        /\ ctl \in {"idle", "start"} /\ ctl' \in {"idle", "start"}
    BY <1>4 DEF UserLock, UserSelect, UserDeselect, UserUnlock, mmc
  <2> QED BY <2>1, Unseen DEF ServiceStep
<1>5. CASE UNCHANGED vars
  <2>1. UNCHANGED <<queue, queued, disk, ctl, buffer, dest, status, last_sector>>
    BY <1>5 DEF vars, mmc
  <2>2. Occupied' = Occupied /\ Result' = Result
    BY <2>1 DEF Occupied, Result
  <2>3. ASSUME NEW c \in Clients PROVE PendingView'[c] = PendingView[c]
    <3>1. Pending(c)' = Pending(c)
      BY <2>1, <2>2 DEF Pending
    <3>2. \A i \in Pending(c) : ViewOf(i)' = ViewOf(i)
      BY <2>1, <2>2 DEF ViewOf
    <3> QED BY <3>1, <3>2, SameView
  <2> QED BY <2>1, <2>3, AllSame DEF ServiceStep
<1> QED BY <1>1, <1>2, <1>3, <1>4, <1>5 DEF Next, Driver

(* Every accepted request is performed once, at one moment between the     *)
(* call and the callback, and the callback is given what the card held at  *)
(* that moment (do_read_write_async to mmc_done_queued, sd.c:290-563).     *)
THEOREM DriverImplementsService == Spec => ImplementsService
<1>1. Init => Service!ServiceInit
  <2> SUFFICES ASSUME Init PROVE Service!ServiceInit
    OBVIOUS
  <2>1. disk \in [Sectors -> Vals]
    BY SdQueueAssumption DEF Init
  <2>2. \A c \in Clients : Pending(c) = {}
    BY DEF Init, Pending, Occupied
  <2>3. PendingView = [c \in Clients |-> None]
    BY <2>2 DEF PendingView
  <2> QED BY <2>1, <2>3 DEF Service!ServiceInit
<1>2. IInv /\ IInv' /\ [Next]_vars => [Service!ServiceNext]_(Service!serviceVars)
  BY NextIsService DEF ServiceStep, Service!serviceVars
<1> QED BY <1>1, <1>2, SpecIInv, PTL DEF Spec, ImplementsService, Service!ServiceSpec
=============================================================================
