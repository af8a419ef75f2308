--------------------------- MODULE AtaQueueProofs ---------------------------
(***************************************************************************)
(* Proofs about AtaQueue for every number of clients, sectors, slots and   *)
(* users of the bus: the driver's count of the sectors the drive still     *)
(* sends, the order in which requests are served, and that the driver      *)
(* implements BlockService.                                                *)
(***************************************************************************)
EXTENDS AtaQueue, TLAPS, FiniteSetTheorems, SequenceTheorems, WellFoundedInduction

-----------------------------------------------------------------------------
(* The inductive invariant *)

TypeInv ==
    /\ queue \in [Slots -> Request \cup {None}]
    /\ queued \in Slots \cup {None}
    /\ last_sector \in Sectors \cup {None}
    /\ next_sector \in Nat \cup {None}
    /\ count \in 0..CountMod - 1
    /\ buffer \in Vals \cup {None}
    /\ dest \in Vals \cup {None}
    /\ status \in Vals \cup {None, Error}
    /\ transferred \in {-1, 512, None}
    /\ ctl \in {"idle", "start", "done", "unlock", "release"}
    /\ lock \in Users \cup {Ata, None}
    /\ waiters \in Seq(Users \cup {Ata})
    /\ drive \in [at : Nat, left : Nat]
    /\ disk \in [Sectors -> Vals]
    /\ overtaken \in [Clients -> Nat]

(* A request stays inside the disk, a write is of one sector, and a command *)
(* for it is one the drive can be given.                                   *)
Sound(r) ==
    /\ r.sector + r.count <= LastSector + 1
    /\ r.data # None => r.count = 1
    /\ r.count <= DriveMod
    /\ r.count = 0 => Seekers # {}

(* A served slot is taken, and a client has one request, but for the one   *)
(* it makes from the callback of the one before.                           *)
QueueInv ==
    /\ queued = None => Occupied = {} /\ ctl = "idle" /\ transferred = None
    /\ queued # None => queued \in Occupied
    /\ \A i \in Occupied : Sound(queue[i])
    /\ \A i, j \in Occupied :
          i # j /\ queue[i].client = queue[j].client
             => queued \in {i, j} /\ ctl \in {"unlock", "release"}

(* Who holds the bus and who waits for it. *)
LockInv ==
    /\ ctl # "idle" => transferred = None
    /\ lock = Ata <=> transferred # None \/ ctl \in {"done", "unlock"}
    /\ (\E k \in 1..Len(waiters) : waiters[k] = Ata)
          <=> ctl = "idle" /\ queued # None /\ transferred = None
    /\ \A j, k \in 1..Len(waiters) : waiters[j] = Ata /\ waiters[k] = Ata => j = k
    /\ waiters # <<>> /\ ctl # "start" => lock # None

(* The drive sends what the driver takes it to send, and ata.buffer is a   *)
(* copy of its sector, whatever the driver's count says.                   *)
DriveInv ==
    /\ transferred # None =>
          /\ Served.data = None
          /\ drive.at = Served.sector /\ next_sector = Served.sector + 1
    /\ transferred = 512 => drive.left > 0
    /\ count # 0 => drive.at = IF transferred = None THEN next_sector ELSE next_sector - 1
    /\ last_sector # None =>
          \/ buffer = disk[last_sector]
          \/ transferred # None /\ Served.sector = last_sector

(* A drive that takes as large a count as the driver keeps, or a build     *)
(* without seeks: then no count is cut short.                              *)
CountFits == DriveMod = CountMod \/ Seekers = {}

CountInv ==
    CountFits =>
        /\ transferred # None => drive.left > 0
        /\ count = IF transferred = None THEN drive.left ELSE drive.left - 1

(* Once a command for a longer transfer has overtaken a single sector, the *)
(* next one sent is for a single sector.                                   *)
OvertakeInv ==
    QueueSize > 2 =>
        /\ \A c \in Clients :
              /\ overtaken[c] <= 1
              /\ overtaken[c] = 1 =>
                    /\ Single(c)
                    /\ \/ ctl \in {"done", "unlock", "release"} \/ transferred # None
                       \/ Served.count = 1 \/ Continues(Served)
        /\ ctl \in {"unlock", "release"} => overtaken[Served.client] = 0

IInv == TypeInv /\ QueueInv /\ LockInv /\ DriveInv /\ CountInv /\ OvertakeInv

-----------------------------------------------------------------------------
(* Lemmas about the helpers *)

(* The loops over the queue find the first entry of a kind, if there is one. *)
LEMMA FirstIsIn ==
    ASSUME NEW S \in SUBSET Slots, S # {}
    PROVE  First(S) \in S
<1>1. S \subseteq Nat
  BY AtaQueueAssumption DEF Slots
<1> DEFINE R == {ss \in Nat \X Nat : ss[1] < ss[2]}
<1>2. IsWellFoundedOn(R, Nat)
  BY NatLessThanWellFounded DEF OpToRel
<1>3. \A x, y \in Nat : x < y => <<x, y>> \in R
  OBVIOUS
<1> HIDE DEF R
<1>4. \E x \in S : \A y \in S : ~(<<y, x>> \in R)
  BY <1>1, <1>2, WFMin
<1>5. PICK x \in S : \A y \in S : ~(<<y, x>> \in R)
  BY <1>4
<1>6. ASSUME NEW j \in S PROVE x <= j
  <2>1. j \in Nat /\ x \in Nat
    BY <1>1
  <2>2. ~(j < x)
    BY <1>3, <1>5, <2>1
  <2> QED BY <2>1, <2>2
<1> QED BY <1>6 DEF First

(* The queue has a free slot whenever a client may make a request: by the  *)
(* pigeonhole principle, since each client has one request and the Makefile *)
(* gives the queue more slots than clients.                                *)
LEMMA RoomInQueue ==
    ASSUME TypeInv, QueueInv, ctl \notin {"unlock", "release"}
    PROVE  Free # {}
<1> SUFFICES ASSUME Free = {} PROVE FALSE
  OBVIOUS
<1>1. \A i \in Slots : i \in Occupied
  BY DEF Free, Occupied
<1> DEFINE owner == [i \in Slots |-> queue[i].client]
<1>2. owner \in [Slots -> Clients]
  BY <1>1 DEF TypeInv, Request, Occupied
<1>3. IsFiniteSet(Slots) /\ Cardinality(Slots) = QueueSize
  <2>1. QueueSize \in Nat \ {0}
    BY AtaQueueAssumption
  <2> QED BY <2>1, FS_Interval DEF Slots
<1>4. IsFiniteSet(Clients) /\ Cardinality(Clients) < Cardinality(Slots)
  <2>1. Cardinality(Clients) \in Nat /\ QueueSize \in Nat
    BY AtaRoomAssumption, AtaQueueAssumption, FS_CardinalityType
  <2> QED BY <1>3, <2>1, AtaRoomAssumption
<1>5. \E i, j \in Slots : i # j /\ owner[i] = owner[j]
  <2> HIDE DEF owner
  <2> QED BY <1>2, <1>3, <1>4, FS_PigeonHole
<1>6. PICK i, j \in Slots : i # j /\ queue[i].client = queue[j].client
  BY <1>5
<1> QED BY <1>1, <1>6 DEF QueueInv

(* Constants that are nothing else. *)
LEMMA Apart ==
    /\ None \notin Request /\ None \notin Int /\ None \notin Users
    /\ None # Ata /\ Ata \notin Users /\ None \notin Vals
  BY AtaQueueAssumption

(* Counts modulo the width of a field. *)
LEMMA Wrapped ==
    ASSUME NEW m \in Nat \ {0}, NEW n \in Int
    PROVE  n % m \in 0..m - 1 /\ (n \in 0..m - 1 => n % m = n)
  OBVIOUS

LEMMA NotWrapped == \A m \in Nat \ {0} : \A n \in 0..m - 1 : n % m = n
  OBVIOUS

(* A command for n sectors is taken for what it says, unless n is 0. *)
LEMMA CommandedAll ==
    ASSUME NEW n \in 0..DriveMod
    PROVE  /\ Commanded(n) \in 1..DriveMod
           /\ n # 0 => Commanded(n) = n
           /\ n = 0 => Commanded(n) = DriveMod
<1>1. DriveMod \in Nat \ {0}
  BY AtaQueueAssumption
<1>2. n % DriveMod \in 0..DriveMod - 1
  BY <1>1, Wrapped
<1>3. CASE n = DriveMod
  <2>1. n % DriveMod = 0
    BY <1>1, <1>3
  <2> QED BY <1>1, <1>3, <2>1 DEF Commanded
<1>4. CASE n # DriveMod
  <2>1. n % DriveMod = n
    BY <1>1, <1>4, Wrapped
  <2> QED BY <1>1, <1>4, <2>1 DEF Commanded
<1> QED BY <1>3, <1>4

(* A request a client may make is one the queue can hold. *)
LEMMA RequestIsSound ==
    ASSUME NEW c \in Clients, NEW r \in Requests(c)
    PROVE  r \in Request /\ r.client = c /\ Sound(r)
<1>1. /\ Region[c] \subseteq Sectors
      /\ MaxCount[c] \in 1..DriveMod
      /\ Payloads \subseteq Vals
      /\ LastSector \in Nat
      /\ DriveMod \in Nat
      /\ Seekers \subseteq Clients
  BY AtaQueueAssumption
<1>2. r \in [client : {c}, sector : Region[c], count : 0..MaxCount[c],
             whole : BOOLEAN, data : Payloads \cup {None}]
  BY DEF Requests
<1>3. r \in Request /\ r.client = c
  BY <1>1, <1>2 DEF Request
<1>4. /\ r.data # None => r.count = 1
      /\ r.count = 0 => c \in Seekers
      /\ r.sector + r.count - 1 \in Region[c] \cup {r.sector - 1}
  BY DEF Requests
<1>5. r.sector \in 0..LastSector /\ r.count \in 0..DriveMod
  BY <1>1, <1>2 DEF Sectors
<1>6. r.sector + r.count <= LastSector + 1
  BY <1>1, <1>4, <1>5 DEF Sectors
<1> QED BY <1>3, <1>4, <1>5, <1>6 DEF Sound

(* What the callback asks for is sound, and made in the client's name. *)
LEMMA NextRequestIsSound ==
    ASSUME NEW r \in Request, Sound(r), NEW n \in NextRequest(r), n # None
    PROVE  n \in Request /\ n.client = r.client /\ Sound(n)
<1>1. CASE r.count > 1
  <2>1. LastSector \in Nat /\ DriveMod \in Nat /\ r.sector \in 0..LastSector /\ r.count \in Nat
    BY AtaQueueAssumption DEF Request, Sectors
  <2>2. r.sector + 1 \in Sectors /\ r.count - 1 \in Nat \ {0} /\ r.count - 1 <= DriveMod
    BY <1>1, <2>1 DEF Sound, Sectors
  <2>3. n \in [client : {r.client}, sector : {r.sector + 1}, count : {r.count - 1},
               whole : BOOLEAN, data : {None}]
    BY <1>1 DEF NextRequest
  <2>4. n \in Request
    BY <2>2, <2>3 DEF Request
  <2>5. n.sector + n.count = r.sector + r.count
    BY <2>1, <2>3
  <2> QED BY <2>2, <2>3, <2>4, <2>5 DEF Sound
<1>2. CASE ~(r.count > 1)
  BY <1>2, RequestIsSound DEF NextRequest, Request
<1> QED BY <1>1, <1>2

(* What holds whenever a handler is running or a transfer is on its way. *)
LEMMA ServedRequest ==
    ASSUME IInv, ctl # "idle" \/ transferred # None
    PROVE  /\ queued \in Slots /\ queued \in Occupied /\ queued # None
           /\ Served \in Request /\ Sound(Served)
           /\ Served.sector \in Sectors /\ Served.sector \in Nat
           /\ Served.count \in 0..DriveMod
<1>1. queued \in Occupied /\ queued # None
  BY DEF IInv, QueueInv
<1>2. queued \in Slots /\ Served \in Request
  BY <1>1 DEF IInv, TypeInv, Occupied, Served
<1>3. Served.sector \in Sectors /\ Served.count \in Nat
  BY <1>2 DEF Request
<1>4. LastSector \in Nat /\ DriveMod \in Nat
  BY AtaQueueAssumption
<1>5. Sound(Served)
  BY <1>1 DEF IInv, QueueInv, Served
<1> QED BY <1>1, <1>2, <1>3, <1>4, <1>5 DEF Sound, Sectors

-----------------------------------------------------------------------------
(* The initial states *)

LEMMA InitIInv == Init => IInv
<1> SUFFICES ASSUME Init PROVE IInv
  OBVIOUS
<1>1. Occupied = {}
  BY DEF Init, Occupied
<1>2. TypeInv
  <2>1. InitDisk \in [Sectors -> Vals] /\ CountMod - 1 \in Nat
    BY AtaQueueAssumption
  <2>2. waiters \in Seq(Users \cup {Ata})
    BY DEF Init
  <2> QED BY <2>1, <2>2 DEF Init, TypeInv
<1>3. QueueInv
  BY <1>1 DEF Init, QueueInv
<1>4. LockInv
  BY Apart DEF Init, LockInv
<1>5. DriveInv
  BY Apart DEF Init, DriveInv
<1>6. CountInv
  BY DEF Init, CountInv
<1>7. OvertakeInv
  BY DEF Init, OvertakeInv
<1> QED BY <1>2, <1>3, <1>4, <1>5, <1>6, <1>7 DEF IInv

-----------------------------------------------------------------------------
(* Steps of the clients *)

(* A request added to a free slot changes neither the served request nor   *)
(* any other.                                                              *)
LEMMA AddedRequest ==
    ASSUME TypeInv, QueueInv, ctl \notin {"unlock", "release"}, NEW r \in Request,
           queue' = [queue EXCEPT ![First(Free)] = r]
    PROVE  /\ First(Free) \in Slots \ Occupied
           /\ Occupied' = Occupied \cup {First(Free)}
           /\ queue' \in [Slots -> Request \cup {None}]
           /\ queue'[First(Free)] = r
           /\ \A i \in Occupied : queue'[i] = queue[i]
<1>1. First(Free) \in Free
  <2>1. Free \in SUBSET Slots /\ Free # {}
    BY RoomInQueue DEF Free
  <2> QED BY <2>1, FirstIsIn
<1>2. First(Free) \in Slots /\ queue[First(Free)] = None
  BY <1>1 DEF Free
<1>3. r # None
  BY Apart
<1> QED BY <1>2, <1>3 DEF TypeInv, Occupied

LEMMA SubmitStep ==
    ASSUME IInv, NEW c \in Clients, NEW r \in Requests(c), Submit(c, r)
    PROVE  IInv'
<1> DEFINE s == First(Free)
<1>1. TypeInv /\ QueueInv /\ LockInv /\ DriveInv /\ CountInv /\ OvertakeInv
  BY DEF IInv
<1>2. r \in Request /\ r.client = c /\ Sound(r)
  BY RequestIsSound
<1>3. /\ ctl = "idle" /\ ~Waiting(c)
      /\ queue' = [queue EXCEPT ![s] = r]
      /\ IF queued = None THEN queued' = s /\ ctl' = "start"
         ELSE queued' = queued /\ ctl' = ctl
      /\ overtaken' = [overtaken EXCEPT ![c] = 0]
      /\ UNCHANGED <<last_sector, next_sector, count, buffer, dest, status,
                     transferred, lock, waiters, drive, disk>>
  BY DEF Submit, bus
<1>4. /\ s \in Slots \ Occupied
      /\ Occupied' = Occupied \cup {s}
      /\ queue' \in [Slots -> Request \cup {None}]
      /\ queue'[s] = r
      /\ \A i \in Occupied : queue'[i] = queue[i]
  BY <1>1, <1>2, <1>3, AddedRequest
<1> HIDE DEF s
<1>5. \A i \in Occupied : queue[i].client # c
  BY <1>3 DEF Waiting
<1>6. s # None
  BY <1>4, Apart, AtaQueueAssumption DEF Slots
<1>7. queued # None => queued' = queued /\ Served' = Served
  BY <1>1, <1>3, <1>4 DEF QueueInv, Served
<1>8. TypeInv'
  BY <1>1, <1>3, <1>4 DEF TypeInv
<1>9. QueueInv'
  <2>1. queued' # None /\ queued' \in Occupied'
    BY <1>1, <1>3, <1>4, <1>6 DEF QueueInv
  <2>2. \A i \in Occupied' : Sound(queue[i])'
    BY <1>1, <1>2, <1>4 DEF QueueInv, Sound
  <2>3. \A i, j \in Occupied' : i # j => queue'[i].client # queue'[j].client
    BY <1>1, <1>2, <1>3, <1>4, <1>5 DEF QueueInv
  <2> QED BY <2>1, <2>2, <2>3 DEF QueueInv
<1>10. LockInv'
  BY <1>1, <1>3, <1>6 DEF LockInv, QueueInv
<1>11. DriveInv'
  <2>1. transferred # None => Served' = Served
    BY <1>1, <1>7 DEF QueueInv
  <2> QED BY <1>1, <1>3, <2>1 DEF DriveInv
<1>12. CountInv'
  BY <1>1, <1>3 DEF CountInv, CountFits
<1>13. OvertakeInv'
  <2> SUFFICES ASSUME QueueSize > 2, NEW d \in Clients
               PROVE  /\ overtaken'[d] <= 1
                      /\ overtaken'[d] = 1 =>
                            /\ Single(d)'
                            /\ \/ transferred' # None
                               \/ Served'.count = 1 \/ Continues(Served)'
    BY <1>3 DEF OvertakeInv
  <2>1. CASE d = c
    BY <1>1, <1>3, <2>1 DEF TypeInv
  <2>2. CASE d # c
    <3>1. overtaken'[d] = overtaken[d]
      BY <1>1, <1>3, <2>2 DEF TypeInv
    <3>2. Single(d) => Single(d)'
      BY <1>4 DEF Single
    <3>3. Single(d) => Served' = Served
      BY <1>1, <1>7 DEF Single, QueueInv
    <3>4. Single(d) => Continues(Served)' = Continues(Served)
      BY <1>3, <3>3 DEF Continues
    <3> QED BY <1>1, <1>3, <3>1, <3>2, <3>3, <3>4 DEF OvertakeInv
  <2> QED BY <2>1, <2>2
<1> QED BY <1>8, <1>9, <1>10, <1>11, <1>12, <1>13 DEF IInv

-----------------------------------------------------------------------------
(* Steps of the driver *)

LEMMA LockBusyStep == ASSUME IInv, LockBusy PROVE IInv'
<1>1. TypeInv /\ QueueInv /\ LockInv /\ DriveInv /\ CountInv /\ OvertakeInv
  BY DEF IInv
<1>2. /\ ctl = "start" /\ ctl' = "idle" /\ lock # None
      /\ UNCHANGED <<queue, queued, last_sector, next_sector, count, buffer, dest, status,
                     transferred, lock, drive, disk, overtaken>>
  BY DEF LockBusy, ata
<1>3. waiters' = Append(waiters, Ata)
  BY <1>1, <1>2 DEF LockBusy, LockInv
<1>4. waiters \in Seq(Users \cup {Ata})
  BY <1>1 DEF TypeInv
<1>5. /\ Len(waiters') = Len(waiters) + 1
      /\ waiters'[Len(waiters) + 1] = Ata
      /\ \A k \in 1..Len(waiters) : waiters'[k] = waiters[k]
      /\ waiters' \in Seq(Users \cup {Ata})
      /\ Len(waiters) \in Nat
  BY <1>3, <1>4
<1>6. Occupied' = Occupied /\ Served' = Served /\ Continues(Served)' = Continues(Served)
  BY <1>2 DEF Occupied, Served, Continues
<1>7. TypeInv'
  BY <1>1, <1>2, <1>5 DEF TypeInv
<1>8. QueueInv'
  BY <1>1, <1>2, <1>6 DEF QueueInv, LockInv, Sound
<1>9. LockInv'
  <2>1. transferred = None /\ queued # None
    BY <1>1, <1>2 DEF LockInv, QueueInv
  <2>2. \A k \in 1..Len(waiters) : waiters[k] # Ata
    BY <1>1, <1>2 DEF LockInv
  <2>3. \E k \in 1..Len(waiters') : waiters'[k] = Ata
    BY <1>5
  <2>4. \A j, k \in 1..Len(waiters') : waiters'[j] = Ata /\ waiters'[k] = Ata => j = k
    BY <1>5, <2>2
  <2>5. lock' # Ata
    BY <1>1, <1>2, <2>1 DEF LockInv
  <2> QED BY <1>2, <2>1, <2>3, <2>4, <2>5 DEF LockInv
<1>10. DriveInv' /\ CountInv'
  BY <1>1, <1>2, <1>6 DEF DriveInv, CountInv, CountFits
<1>11. OvertakeInv'
  BY <1>1, <1>2, <1>6 DEF OvertakeInv, Single
<1> QED BY <1>7, <1>8, <1>9, <1>10, <1>11 DEF IInv

LEMMA WriteSectorStep ==
    ASSUME IInv, NEW accepted \in BOOLEAN, WriteSector(accepted)
    PROVE  IInv'
<1> DEFINE r == Served
<1>1. TypeInv /\ QueueInv /\ LockInv /\ DriveInv /\ CountInv /\ OvertakeInv
  BY DEF IInv
<1>2. ctl = "start" /\ lock = None /\ r.data # None
  BY DEF WriteSector
<1>3. /\ r \in Request /\ r.sector \in Sectors /\ r.sector \in Nat /\ Sound(r)
      /\ queued \in Occupied /\ queued # None
  BY <1>2, ServedRequest
<1>4. r.data \in Vals
  BY <1>2, <1>3 DEF Request
<1>5. /\ lock' = Ata
      /\ last_sector' = IF last_sector = r.sector THEN None ELSE last_sector
      /\ drive' = [at |-> r.sector + 1, left |-> 0]
      /\ disk' = IF accepted THEN [disk EXCEPT ![r.sector] = r.data] ELSE disk
      /\ status' \in Vals \cup {Error}
      /\ count' = 0
      /\ ctl' = "done"
      /\ UNCHANGED <<queue, queued, next_sector, buffer, dest, transferred, waiters,
                     overtaken>>
  BY <1>4 DEF WriteSector, Invalidated
<1>6. transferred = None
  BY <1>1, <1>2 DEF LockInv
<1>7. TypeInv'
  <2>1. disk' \in [Sectors -> Vals]
    BY <1>1, <1>4, <1>5 DEF TypeInv
  <2>2. last_sector' \in Sectors \cup {None} /\ status' \in Vals \cup {None, Error}
    BY <1>1, <1>5 DEF TypeInv
  <2>3. drive' \in [at : Nat, left : Nat] /\ count' \in 0..CountMod - 1
    BY <1>1, <1>3, <1>5, AtaQueueAssumption
  <2> QED BY <1>1, <1>5, <2>1, <2>2, <2>3 DEF TypeInv
<1>8. Occupied' = Occupied /\ Served' = Served
  BY <1>5 DEF Occupied, Served
<1>9. QueueInv'
  BY <1>1, <1>2, <1>3, <1>5, <1>6, <1>8 DEF QueueInv, Sound
<1>10. LockInv'
  BY <1>1, <1>2, <1>5, <1>6, Apart DEF LockInv
<1>11. DriveInv'
  <2>1. last_sector' # None => last_sector' = last_sector /\ last_sector # r.sector
    BY <1>5
  <2>2. last_sector' # None => buffer' = disk'[last_sector']
    BY <1>1, <1>5, <1>6, <2>1 DEF DriveInv, TypeInv
  <2> QED BY <1>5, <1>6, <2>2, Apart DEF DriveInv
<1>12. CountInv'
  BY <1>5, <1>6 DEF CountInv
<1>13. OvertakeInv'
  BY <1>1, <1>2, <1>5, <1>8 DEF OvertakeInv, Single
<1> QED BY <1>7, <1>9, <1>10, <1>11, <1>12, <1>13 DEF IInv

LEMMA CacheHitStep == ASSUME IInv, CacheHit PROVE IInv'
<1>1. TypeInv /\ QueueInv /\ LockInv /\ DriveInv /\ CountInv /\ OvertakeInv
  BY DEF IInv
<1>2. /\ ctl = "start" /\ lock = None /\ ctl' = "done" /\ lock' = Ata
      /\ UNCHANGED <<queue, queued, last_sector, next_sector, count, buffer, dest, status,
                     transferred, waiters, drive, disk, overtaken>>
  BY DEF CacheHit, ata
<1>3. Occupied' = Occupied /\ Served' = Served
  BY <1>2 DEF Occupied, Served
<1>4. TypeInv'
  BY <1>1, <1>2 DEF TypeInv
<1>5. QueueInv'
  BY <1>1, <1>2, <1>3 DEF QueueInv, Sound
<1>6. LockInv'
  BY <1>1, <1>2, Apart DEF LockInv
<1>7. DriveInv' /\ CountInv'
  BY <1>1, <1>2, <1>3 DEF DriveInv, CountInv, CountFits
<1>8. OvertakeInv'
  BY <1>1, <1>2, <1>3 DEF OvertakeInv, Single
<1> QED BY <1>4, <1>5, <1>6, <1>7, <1>8 DEF IInv

LEMMA StartTransferStep == ASSUME IInv, StartTransfer PROVE IInv'
<1> DEFINE r == Served
<1>1. TypeInv /\ QueueInv /\ LockInv /\ DriveInv /\ CountInv /\ OvertakeInv
  BY DEF IInv
<1>2. ctl = "start" /\ lock = None /\ r.data = None /\ r.sector # last_sector
  BY DEF StartTransfer
<1>3. /\ r \in Request /\ r.sector \in Sectors /\ r.sector \in Nat /\ Sound(r)
      /\ r.count \in 0..DriveMod /\ queued \in Occupied /\ queued # None
  BY <1>2, ServedRequest
<1>4. transferred = None
  BY <1>1, <1>2 DEF LockInv
<1>5. /\ lock' = Ata
      /\ last_sector' = IF r.whole THEN last_sector ELSE r.sector
      /\ IF Continues(r)
         THEN count' = (count - 1) % CountMod /\ drive' = drive
         ELSE /\ count' = (r.count - 1) % CountMod
              /\ drive' = [at |-> r.sector, left |-> Commanded(r.count)]
      /\ next_sector' = r.sector + 1
      /\ transferred' = -1 /\ transferred' # None /\ transferred' # 512
      /\ overtaken' = [c \in Clients |->
                          IF c # r.client /\ Single(c) /\ r.count # 1 /\ ~Continues(r)
                          THEN overtaken[c] + 1 ELSE overtaken[c]]
      /\ ctl' = "idle"
      /\ UNCHANGED <<queue, queued, buffer, dest, status, waiters, disk>>
  BY Apart DEF StartTransfer
<1>6. Occupied' = Occupied /\ Served' = r
  BY <1>5 DEF Occupied, Served
<1>7. /\ DriveMod \in Nat \ {0} /\ CountMod \in Nat \ {0} /\ DriveMod <= CountMod
      /\ count \in 0..CountMod - 1 /\ drive \in [at : Nat, left : Nat]
  BY <1>1, AtaQueueAssumption DEF TypeInv
<1>8. /\ count' \in 0..CountMod - 1 /\ drive' \in [at : Nat, left : Nat]
      /\ drive'.at = r.sector
      /\ CountFits => count' = drive'.left - 1 /\ drive'.left > 0
  <2> HIDE DEF r
  <2>1. CASE Continues(r)
    <3>1. r.sector = next_sector /\ count # 0 /\ count - 1 \in 0..CountMod - 1
      BY <1>7, <2>1 DEF Continues
    <3>2. (count - 1) % CountMod = count - 1
      BY <1>7, <3>1, NotWrapped, Zenon
    <3>3. count' = count - 1 /\ drive' = drive
      BY <1>5, <2>1, <3>2
    <3>4. drive.at = r.sector
      BY <1>1, <1>4, <3>1 DEF DriveInv
    <3>5. CountFits => drive.left = count /\ drive.left > 0
      BY <1>1, <1>4, <1>7, <3>1 DEF CountInv
    <3> QED BY <1>7, <3>1, <3>3, <3>4, <3>5
  <2>2. CASE ~Continues(r)
    <3>1. /\ r.count - 1 \in Int /\ Commanded(r.count) \in 1..DriveMod
          /\ drive' = [at |-> r.sector, left |-> Commanded(r.count)]
          /\ count' = (r.count - 1) % CountMod
      BY <1>3, <1>5, <1>7, <2>2, CommandedAll
    <3>2. count' \in 0..CountMod - 1
      BY <1>7, <3>1, Wrapped
    <3>3. ASSUME r.count # 0 PROVE count' = r.count - 1 /\ Commanded(r.count) = r.count
      <4>1. r.count - 1 \in 0..CountMod - 1
        BY <1>3, <1>7, <3>3
      <4>2. (r.count - 1) % CountMod = r.count - 1
        BY <1>7, <4>1, NotWrapped, Zenon
      <4> QED BY <1>3, <3>1, <3>3, <4>2, CommandedAll
    <3>4. ASSUME r.count = 0 PROVE count' = CountMod - 1 /\ Commanded(r.count) = DriveMod
      <4>1. (0 - 1) % CountMod = CountMod - 1
        BY <1>7
      <4> QED BY <1>3, <3>1, <3>4, <4>1, CommandedAll
    <3>5. CountFits => count' = drive'.left - 1 /\ drive'.left > 0
      <4>1. CountFits /\ r.count = 0 => DriveMod = CountMod
        BY <1>3 DEF CountFits, Sound
      <4> QED BY <1>3, <1>7, <3>1, <3>3, <3>4, <4>1
    <3> QED BY <1>3, <1>7, <3>1, <3>2, <3>5
  <2> QED BY <2>1, <2>2
<1>9. TypeInv'
  <2>1. last_sector' \in Sectors \cup {None}
    BY <1>1, <1>3, <1>5 DEF TypeInv
  <2>2. overtaken' \in [Clients -> Nat]
    BY <1>1, <1>5 DEF TypeInv
  <2> QED BY <1>1, <1>3, <1>5, <1>8, <2>1, <2>2 DEF TypeInv
<1>10. QueueInv'
  BY <1>1, <1>2, <1>3, <1>5, <1>6 DEF QueueInv, Sound
<1>11. LockInv'
  BY <1>1, <1>2, <1>4, <1>5, Apart DEF LockInv
<1>12. DriveInv'
  <2>1. last_sector' # None => last_sector' = r.sector \/ last_sector' = last_sector
    BY <1>5
  <2>2. last_sector # None => buffer = disk[last_sector]
    BY <1>1, <1>4 DEF DriveInv
  <2>3. next_sector' - 1 = r.sector
    BY <1>3, <1>5
  <2> QED BY <1>2, <1>5, <1>6, <1>8, <2>1, <2>2, <2>3 DEF DriveInv
<1>13. CountInv'
  BY <1>5, <1>8 DEF CountInv, CountFits
<1>14. OvertakeInv'
  <2> SUFFICES ASSUME QueueSize > 2, NEW c \in Clients
               PROVE  overtaken'[c] <= 1 /\ (overtaken'[c] = 1 => Single(c)')
    BY <1>5 DEF OvertakeInv
  <2>1. Single(c)' = Single(c)
    BY <1>5, <1>6 DEF Single
  <2>2. /\ overtaken[c] \in Nat /\ overtaken[c] <= 1
        /\ overtaken[c] = 1 => Single(c) /\ (r.count = 1 \/ Continues(r))
    BY <1>1, <1>2, <1>4 DEF OvertakeInv, TypeInv
  <2>3. overtaken'[c] = IF c # r.client /\ Single(c) /\ r.count # 1 /\ ~Continues(r)
                        THEN overtaken[c] + 1 ELSE overtaken[c]
    BY <1>5
  <2> HIDE DEF r
  <2> QED BY <2>1, <2>2, <2>3
<1> QED BY <1>9, <1>10, <1>11, <1>12, <1>13, <1>14 DEF IInv

LEMMA TcProgressStep == ASSUME IInv, TcProgress PROVE IInv'
<1>1. TypeInv /\ QueueInv /\ LockInv /\ DriveInv /\ CountInv /\ OvertakeInv
  BY DEF IInv
<1>2. /\ ctl = "idle" /\ transferred = -1 /\ transferred' = 512 /\ drive.left > 0
      /\ UNCHANGED <<queue, queued, last_sector, next_sector, count, buffer, dest, status,
                     ctl, lock, waiters, drive, disk, overtaken>>
  BY DEF TcProgress, ata, bus
<1>3. transferred # None /\ transferred' # None
  BY <1>2, Apart
<1>4. Occupied' = Occupied /\ Served' = Served
  BY <1>2 DEF Occupied, Served
<1>5. TypeInv'
  BY <1>1, <1>2 DEF TypeInv
<1>6. QueueInv'
  BY <1>1, <1>2, <1>3, <1>4 DEF QueueInv, Sound
<1>7. LockInv'
  BY <1>1, <1>2, <1>3 DEF LockInv
<1>8. DriveInv'
  BY <1>1, <1>2, <1>3, <1>4 DEF DriveInv
<1>9. CountInv'
  BY <1>1, <1>2, <1>3 DEF CountInv, CountFits
<1>10. OvertakeInv'
  BY <1>1, <1>2, <1>3, <1>4 DEF OvertakeInv, Single
<1> QED BY <1>5, <1>6, <1>7, <1>8, <1>9, <1>10 DEF IInv

LEMMA TcDoneStep == ASSUME IInv, TcDone PROVE IInv'
<1> DEFINE r == Served
<1>1. TypeInv /\ QueueInv /\ LockInv /\ DriveInv /\ CountInv /\ OvertakeInv
  BY DEF IInv
<1>2. ctl = "idle" /\ transferred = 512 /\ transferred # None
  BY Apart DEF TcDone
<1>3. r.sector \in Sectors /\ r.sector \in Nat /\ queued \in Occupied /\ queued # None
  BY <1>2, ServedRequest
<1>4. /\ drive.at = r.sector /\ drive.left > 0 /\ next_sector = r.sector + 1
      /\ r.data = None /\ drive \in [at : Nat, left : Nat]
  BY <1>1, <1>2 DEF DriveInv, TypeInv
<1>5. /\ transferred' = None
      /\ drive' = [at |-> r.sector + 1, left |-> drive.left - 1]
      /\ buffer' = IF r.sector = last_sector THEN disk[r.sector] ELSE buffer
      /\ dest' = IF r.sector = last_sector THEN dest ELSE disk[r.sector]
      /\ ctl' = "done"
      /\ UNCHANGED <<queue, queued, last_sector, next_sector, count, status, lock, waiters,
                     disk, overtaken>>
  BY <1>4 DEF TcDone, bus
<1>6. TypeInv'
  <2>1. drive' \in [at : Nat, left : Nat]
    BY <1>3, <1>4, <1>5
  <2>2. buffer' \in Vals \cup {None} /\ dest' \in Vals \cup {None}
    BY <1>1, <1>3, <1>5 DEF TypeInv
  <2> QED BY <1>1, <1>5, <2>1, <2>2 DEF TypeInv
<1>7. Occupied' = Occupied /\ Served' = Served
  BY <1>5 DEF Occupied, Served
<1>8. QueueInv'
  BY <1>1, <1>2, <1>3, <1>5, <1>7 DEF QueueInv, Sound
<1>9. LockInv'
  BY <1>1, <1>2, <1>5 DEF LockInv
<1>10. DriveInv'
  <2>1. last_sector # None /\ last_sector # r.sector => buffer = disk[last_sector]
    BY <1>1 DEF DriveInv
  <2> QED BY <1>4, <1>5, <2>1, Apart DEF DriveInv
<1>11. CountInv'
  BY <1>1, <1>2, <1>4, <1>5 DEF CountInv, CountFits
<1>12. OvertakeInv'
  BY <1>1, <1>2, <1>5, <1>7 DEF OvertakeInv, Single
<1> QED BY <1>6, <1>8, <1>9, <1>10, <1>11, <1>12 DEF IInv


LEMMA CallbackStep == ASSUME IInv, Callback PROVE IInv'
<1> DEFINE r == Served
           s == First(Free)
<1>1. TypeInv /\ QueueInv /\ LockInv /\ DriveInv /\ CountInv /\ OvertakeInv
  BY DEF IInv
<1>2. ctl = "done" /\ ctl' = "unlock"
  BY DEF Callback
<1>3. r \in Request /\ Sound(r) /\ queued \in Slots /\ queued \in Occupied /\ queued # None
  BY <1>2, ServedRequest
<1>4. PICK n \in NextRequest(r) :
         queue' = IF n = None THEN queue ELSE [queue EXCEPT ![s] = n]
  BY DEF Callback
<1>5. /\ dest' = None /\ status' = None
      /\ overtaken' = [overtaken EXCEPT ![r.client] = 0]
      /\ UNCHANGED <<queued, last_sector, next_sector, count, buffer, transferred,
                     lock, waiters, drive, disk>>
  BY DEF Callback, bus
<1>6. n # None => n \in Request /\ n.client = r.client /\ Sound(n)
  BY <1>3, NextRequestIsSound
<1>7. /\ queue' \in [Slots -> Request \cup {None}]
      /\ Occupied \subseteq Occupied'
      /\ \A i \in Occupied : queue'[i] = queue[i]
      /\ \A i \in Occupied' \ Occupied :
            i = s /\ n # None /\ queue'[i] = n
  <2>1. CASE n = None
    BY <1>1, <1>4, <2>1 DEF Occupied, TypeInv
  <2>2. CASE n # None
    <3>1. n \in Request
      BY <1>6, <2>2
    <3>2. queue' = [queue EXCEPT ![First(Free)] = n]
      BY <1>4, <2>2
    <3> QED BY <1>1, <1>2, <2>2, <3>1, <3>2, AddedRequest
  <2> QED BY <2>1, <2>2
<1>8. Served' = r /\ queued' \in Occupied'
  BY <1>3, <1>5, <1>7 DEF Served
<1>9. r.client \in Clients /\ r = queue[queued]
  BY <1>3 DEF Request, Served
<1> HIDE DEF r, s
<1>10. transferred = None /\ transferred' = None
  BY <1>1, <1>2, <1>5 DEF LockInv
<1>11. TypeInv'
  <2>1. overtaken' \in [Clients -> Nat]
    BY <1>1, <1>5 DEF TypeInv
  <2> QED BY <1>1, <1>2, <1>5, <1>7, <2>1 DEF TypeInv
<1>12. QueueInv'
  <2>1. \A i \in Occupied' : Sound(queue[i])'
    BY <1>1, <1>6, <1>7 DEF QueueInv, Sound
  <2>2. ASSUME NEW i \in Occupied', NEW j \in Occupied', i # j,
               queue'[i].client = queue'[j].client
        PROVE  queued' \in {i, j}
    <3>1. CASE i \in Occupied /\ j \in Occupied
      BY <1>1, <1>2, <1>7, <2>2, <3>1 DEF QueueInv
    <3>2. CASE i \notin Occupied /\ j \in Occupied
      BY <1>1, <1>2, <1>3, <1>5, <1>6, <1>7, <1>9, <2>2, <3>2 DEF QueueInv
    <3>3. CASE i \in Occupied /\ j \notin Occupied
      BY <1>1, <1>2, <1>3, <1>5, <1>6, <1>7, <1>9, <2>2, <3>3 DEF QueueInv
    <3>4. CASE i \notin Occupied /\ j \notin Occupied
      BY <1>7, <2>2, <3>4
    <3> QED BY <3>1, <3>2, <3>3, <3>4
  <2>3. queued' # None
    BY <1>3, <1>5
  <2> QED BY <1>2, <1>8, <2>1, <2>2, <2>3 DEF QueueInv
<1>13. LockInv'
  BY <1>1, <1>2, <1>5 DEF LockInv
<1>14. DriveInv'
  BY <1>1, <1>5, <1>10, Apart DEF DriveInv
<1>15. CountInv'
  BY <1>1, <1>5 DEF CountInv, CountFits
<1>16. OvertakeInv'
  <2>1. ASSUME QueueSize > 2, NEW c \in Clients
        PROVE  overtaken'[c] <= 1 /\ (overtaken'[c] = 1 => Single(c)')
    <3>1. Single(c) => Single(c)'
      BY <1>7 DEF Single
    <3>2. overtaken'[c] = IF c = r.client THEN 0 ELSE overtaken[c]
      BY <1>1, <1>5, <1>9 DEF TypeInv
    <3>3. overtaken[c] <= 1 /\ (overtaken[c] = 1 => Single(c))
      BY <1>1, <2>1 DEF OvertakeInv
    <3> QED BY <3>1, <3>2, <3>3
  <2>2. overtaken'[r.client] = 0
    BY <1>1, <1>5, <1>9 DEF TypeInv
  <2> QED BY <1>2, <1>8, <2>1, <2>2 DEF OvertakeInv
<1> QED BY <1>11, <1>12, <1>13, <1>14, <1>15, <1>16 DEF IInv

(* EXIUnlock takes the first waiter off the list. *)
LEMMA HandedOver ==
    ASSUME waiters \in Seq(Users \cup {Ata}), HandOver
    PROVE  /\ waiters' \in Seq(Users \cup {Ata})
           /\ waiters = <<>> => lock' = None /\ waiters' = <<>>
           /\ waiters # <<>> =>
                 /\ Len(waiters) \in Nat \ {0}
                 /\ lock' = IF waiters[1] = Ata THEN None ELSE waiters[1]
                 /\ waiters[1] # Ata => lock' \in Users
                 /\ Len(waiters') = Len(waiters) - 1
                 /\ \A k \in 1..Len(waiters') :
                       k + 1 \in 1..Len(waiters) /\ waiters'[k] = waiters[k + 1]
<1>1. CASE waiters = <<>>
  BY <1>1 DEF HandOver
<1>2. CASE waiters # <<>>
  <2>1. waiters' = Tail(waiters) /\ Head(waiters) = waiters[1]
    BY <1>2 DEF HandOver
  <2>2. Head(waiters) \in Users \cup {Ata}
    BY <1>2
  <2>3. /\ Len(waiters) \in Nat \ {0}
        /\ waiters' \in Seq(Users \cup {Ata})
        /\ Len(waiters') = Len(waiters) - 1
        /\ \A k \in 1..Len(waiters') : waiters'[k] = waiters[k + 1]
    BY <1>2, <2>1, HeadTailProperties
  <2> QED BY <1>2, <2>1, <2>2, <2>3 DEF HandOver
<1> QED BY <1>1, <1>2

LEMMA UnlockStep == ASSUME IInv, Unlock PROVE IInv'
<1>1. TypeInv /\ QueueInv /\ LockInv /\ DriveInv /\ CountInv /\ OvertakeInv
  BY DEF IInv
<1>2. /\ ctl = "unlock" /\ ctl' = "release" /\ HandOver
      /\ UNCHANGED <<queue, queued, last_sector, next_sector, count, buffer, dest,
                     status, transferred, drive, disk, overtaken>>
  BY DEF Unlock, ata
<1>3. waiters \in Seq(Users \cup {Ata})
  BY <1>1 DEF TypeInv
<1>4. \A k \in 1..Len(waiters) : waiters[k] # Ata
  BY <1>1, <1>2 DEF LockInv
<1>5. /\ waiters' \in Seq(Users \cup {Ata})
      /\ lock' \in Users \cup {None}
      /\ waiters' # <<>> => lock' # None
      /\ \A k \in 1..Len(waiters') : waiters'[k] # Ata
  <2>1. CASE waiters = <<>>
    BY <1>2, <1>3, <2>1, HandedOver
  <2>2. CASE waiters # <<>>
    <3>1. 1 \in 1..Len(waiters)
      BY <1>2, <1>3, <2>2, HandedOver
    <3>2. waiters[1] # Ata
      BY <1>4, <3>1
    <3> QED BY <1>2, <1>3, <1>4, <2>2, <3>2, HandedOver, Apart
  <2> QED BY <2>1, <2>2
<1>6. Occupied' = Occupied /\ Served' = Served
  BY <1>2 DEF Occupied, Served
<1>7. TypeInv'
  BY <1>1, <1>2, <1>5 DEF TypeInv
<1>8. QueueInv'
  BY <1>1, <1>2, <1>6 DEF QueueInv, Sound
<1>9. LockInv'
  BY <1>1, <1>2, <1>5, Apart DEF LockInv
<1>10. DriveInv'
  BY <1>1, <1>2, <1>6 DEF DriveInv
<1>11. CountInv'
  BY <1>1, <1>2 DEF CountInv, CountFits
<1>12. OvertakeInv'
  BY <1>1, <1>2, <1>6 DEF OvertakeInv, Single
<1> QED BY <1>7, <1>8, <1>9, <1>10, <1>11, <1>12 DEF IInv

LEMMA ReleaseStep == ASSUME IInv, Release PROVE IInv'
<1>1. TypeInv /\ QueueInv /\ LockInv /\ DriveInv /\ CountInv /\ OvertakeInv
  BY DEF IInv
<1>2. /\ ctl = "release"
      /\ queue' = [queue EXCEPT ![queued] = None]
      /\ queued' = Pick
      /\ ctl' = IF Left # {} THEN "start" ELSE "idle"
      /\ UNCHANGED <<last_sector, next_sector, count, buffer, dest, status, transferred,
                     lock, waiters, drive, disk, overtaken>>
  BY DEF Release, bus
<1>3. queued \in Slots /\ queued \in Occupied
  BY <1>2, ServedRequest
<1>4. Following \in SUBSET Left /\ Urgent \in SUBSET Left /\ Left \in SUBSET Slots
  BY DEF Following, Urgent, Left, Occupied
<1>5. /\ Occupied' = Left
      /\ \A i \in Left : queue'[i] = queue[i] /\ i \in Occupied /\ i # queued
      /\ queue' \in [Slots -> Request \cup {None}]
  BY <1>1, <1>2, <1>3 DEF TypeInv, Occupied, Left
<1>6. /\ Urgent # {} => queued' \in Following \cup Urgent
      /\ Left # {} => queued' \in Left
      /\ Left = {} => queued' = None
  BY <1>2, <1>4, FirstIsIn DEF Pick
<1>7. queued' # None => Left # {} /\ queued' \in Slots
  BY <1>4, <1>6
<1>8. Left # {} => queued' # None
  <2>1. None \notin Slots
    BY Apart, AtaQueueAssumption DEF Slots
  <2> QED BY <1>4, <1>6, <2>1
<1>9. transferred = None /\ transferred' = None /\ lock # Ata
  BY <1>1, <1>2 DEF LockInv
<1>10. TypeInv'
  BY <1>1, <1>2, <1>5, <1>7 DEF TypeInv
<1>11. QueueInv'
  BY <1>1, <1>2, <1>5, <1>6, <1>8, <1>9 DEF QueueInv, Sound
<1>12. LockInv'
  BY <1>1, <1>2, <1>6, <1>8, <1>9 DEF LockInv
<1>13. DriveInv'
  BY <1>1, <1>2, <1>9, Apart DEF DriveInv
<1>14. CountInv'
  BY <1>1, <1>2 DEF CountInv, CountFits
<1>15. OvertakeInv'
  <2> SUFFICES ASSUME QueueSize > 2, NEW c \in Clients
               PROVE  /\ overtaken[c] <= 1
                      /\ overtaken[c] = 1 =>
                            Single(c)' /\ (Served'.count = 1 \/ Continues(Served)')
    BY <1>2 DEF OvertakeInv
  <2>1. overtaken[c] <= 1 /\ (overtaken[c] = 1 => Single(c) /\ c # Served.client)
    BY <1>1, <1>2 DEF OvertakeInv
  <2>2. ASSUME overtaken[c] = 1
        PROVE  Single(c)' /\ (Served'.count = 1 \/ Continues(Served)')
    <3>1. PICK i \in Occupied : queue[i].client = c /\ queue[i].count = 1
      BY <2>1, <2>2 DEF Single
    <3>2. i \in Urgent
      BY <2>1, <2>2, <3>1 DEF Urgent, Left, Served
    <3>3. Single(c)'
      BY <1>4, <1>5, <3>1, <3>2 DEF Single
    <3>4. queued' \in Following \cup Urgent
      BY <1>6, <3>2
    <3>5. Served' = queue[queued']
      BY <1>4, <1>5, <3>4 DEF Served
    <3>6. queued' \in Urgent => Served'.count = 1
      BY <3>5 DEF Urgent
    <3>7. queued' \in Following => Continues(Served)'
      <4>1. count' = count /\ next_sector' = next_sector /\ count \in 0..CountMod - 1
        BY <1>1, <1>2 DEF TypeInv
      <4>2. CountMod \in Nat
        BY AtaQueueAssumption
      <4> QED BY <3>5, <4>1, <4>2 DEF Following, Continues
    <3> QED BY <3>3, <3>4, <3>6, <3>7
  <2> QED BY <2>1, <2>2
<1> QED BY <1>10, <1>11, <1>12, <1>13, <1>14, <1>15 DEF IInv

-----------------------------------------------------------------------------
(* Steps of the game's drivers *)

LEMMA UserLockStep == ASSUME IInv, NEW u \in Users, UserLock(u) PROVE IInv'
<1>1. TypeInv /\ QueueInv /\ LockInv /\ DriveInv /\ CountInv /\ OvertakeInv
  BY DEF IInv
<1>2. /\ ctl = "idle" /\ ctl' = ctl
      /\ \/ lock = None /\ lock' = u /\ waiters' = waiters
         \/ lock # None /\ lock' = lock /\ waiters' = Append(waiters, u)
      /\ UNCHANGED <<queue, queued, last_sector, next_sector, count, buffer, dest,
                     status, transferred, drive, disk, overtaken>>
  BY DEF UserLock, ata
<1>3. waiters \in Seq(Users \cup {Ata}) /\ u # Ata /\ u # None
  BY <1>1, Apart DEF TypeInv
<1>4. /\ waiters' \in Seq(Users \cup {Ata})
      /\ Len(waiters) \in Nat
      /\ Len(waiters') \in {Len(waiters), Len(waiters) + 1}
      /\ \A k \in 1..Len(waiters) : waiters'[k] = waiters[k] /\ k \in 1..Len(waiters')
      /\ \A k \in 1..Len(waiters') : waiters'[k] = Ata => k \in 1..Len(waiters)
  <2>1. CASE waiters' = waiters
    BY <1>3, <2>1
  <2>2. CASE waiters' = Append(waiters, u)
    <3>1. /\ Len(waiters') = Len(waiters) + 1
          /\ waiters'[Len(waiters) + 1] = u
          /\ \A k \in 1..Len(waiters) : waiters'[k] = waiters[k]
          /\ waiters' \in Seq(Users \cup {Ata})
          /\ Len(waiters) \in Nat
      BY <1>3, <2>2
    <3> QED BY <1>3, <3>1
  <2> QED BY <1>2, <2>1, <2>2
<1>5. Occupied' = Occupied /\ Served' = Served /\ Continues(Served)' = Continues(Served)
  BY <1>2 DEF Occupied, Served, Continues
<1>6. TypeInv'
  BY <1>1, <1>2, <1>4 DEF TypeInv
<1>7. QueueInv'
  BY <1>1, <1>2, <1>5 DEF QueueInv, Sound
<1>8. LockInv'
  <2>1. (\E k \in 1..Len(waiters') : waiters'[k] = Ata)
           <=> (\E k \in 1..Len(waiters) : waiters[k] = Ata)
    BY <1>4
  <2>2. \A j, k \in 1..Len(waiters') : waiters'[j] = Ata /\ waiters'[k] = Ata => j = k
    BY <1>1, <1>4 DEF LockInv
  <2>3. lock' # None /\ (lock' = Ata <=> lock = Ata)
    BY <1>2, <1>3, Apart
  <2> QED BY <1>1, <1>2, <2>1, <2>2, <2>3 DEF LockInv
<1>9. DriveInv' /\ CountInv'
  BY <1>1, <1>2, <1>5 DEF DriveInv, CountInv, CountFits
<1>10. OvertakeInv'
  BY <1>1, <1>2, <1>5 DEF OvertakeInv, Single
<1> QED BY <1>6, <1>7, <1>8, <1>9, <1>10 DEF IInv

LEMMA UserUnlockStep == ASSUME IInv, NEW u \in Users, UserUnlock(u) PROVE IInv'
<1>1. TypeInv /\ QueueInv /\ LockInv /\ DriveInv /\ CountInv /\ OvertakeInv
  BY DEF IInv
<1>2. /\ ctl = "idle" /\ lock = u /\ HandOver
      /\ ctl' = IF waiters # <<>> /\ Head(waiters) = Ata THEN "start" ELSE "idle"
      /\ UNCHANGED <<queue, queued, last_sector, next_sector, count, buffer, dest,
                     status, transferred, drive, disk, overtaken>>
  BY DEF UserUnlock, ata
<1>3. waiters \in Seq(Users \cup {Ata}) /\ transferred = None /\ transferred' = None
  BY <1>1, <1>2, Apart DEF TypeInv, LockInv
<1>4. ctl' = IF waiters # <<>> /\ waiters[1] = Ata THEN "start" ELSE "idle"
  BY <1>2, <1>3
<1>5. waiters' \in Seq(Users \cup {Ata}) /\ lock' \in Users \cup {None}
  BY <1>2, <1>3, HandedOver, Apart
<1>6. Occupied' = Occupied /\ Served' = Served /\ Continues(Served)' = Continues(Served)
  BY <1>2 DEF Occupied, Served, Continues
<1>7. TypeInv'
  BY <1>1, <1>2, <1>4, <1>5 DEF TypeInv
<1>8. (\E k \in 1..Len(waiters) : waiters[k] = Ata) <=> queued # None
  BY <1>1, <1>2, <1>3 DEF LockInv
<1>9. QueueInv'
  <2>1. ctl' = "start" => queued # None
    BY <1>2, <1>3, <1>4, <1>8, HandedOver
  <2> QED BY <1>1, <1>2, <1>3, <1>4, <1>6, <2>1 DEF QueueInv, Sound
<1>10. LockInv'
  <2>1. CASE waiters = <<>>
    <3>1. lock' = None /\ waiters' = <<>> /\ ctl' = "idle"
      BY <1>2, <1>3, <2>1, HandedOver
    <3>2. queued = None
      BY <1>3, <1>8, <2>1
    <3> QED BY <1>2, <1>3, <3>1, <3>2, Apart DEF LockInv
  <2>2. CASE waiters # <<>>
    <3>1. /\ Len(waiters) \in Nat \ {0}
          /\ lock' = IF waiters[1] = Ata THEN None ELSE waiters[1]
          /\ waiters[1] # Ata => lock' \in Users
          /\ Len(waiters') = Len(waiters) - 1
          /\ \A k \in 1..Len(waiters') :
                k + 1 \in 1..Len(waiters) /\ waiters'[k] = waiters[k + 1]
      BY <1>2, <1>3, <2>2, HandedOver
    <3>2. \A j, k \in 1..Len(waiters) : waiters[j] = Ata /\ waiters[k] = Ata => j = k
      BY <1>1 DEF LockInv
    <3>3. \A j, k \in 1..Len(waiters') : waiters'[j] = Ata /\ waiters'[k] = Ata => j = k
      BY <3>1, <3>2
    <3>4. CASE waiters[1] = Ata
      <4>1. \A k \in 1..Len(waiters') : waiters'[k] # Ata
        BY <3>1, <3>2, <3>4
      <4>2. ctl' = "start" /\ lock' = None
        BY <1>4, <2>2, <3>1, <3>4
      <4> QED BY <1>2, <1>3, <3>3, <4>1, <4>2, Apart DEF LockInv
    <3>5. CASE waiters[1] # Ata
      <4>1. (\E k \in 1..Len(waiters') : waiters'[k] = Ata)
               <=> (\E k \in 1..Len(waiters) : waiters[k] = Ata)
        <5>1. ASSUME NEW k \in 1..Len(waiters), waiters[k] = Ata
              PROVE  k - 1 \in 1..Len(waiters') /\ waiters'[k - 1] = Ata
          BY <3>1, <3>5, <5>1
        <5> QED BY <3>1, <5>1
      <4>2. ctl' = "idle" /\ lock' \in Users
        BY <1>4, <3>1, <3>5
      <4> QED BY <1>2, <1>3, <1>8, <3>3, <4>1, <4>2, Apart DEF LockInv
    <3> QED BY <3>4, <3>5
  <2> QED BY <2>1, <2>2
<1>11. DriveInv' /\ CountInv'
  BY <1>1, <1>2, <1>6 DEF DriveInv, CountInv, CountFits
<1>12. OvertakeInv'
  <2>1. ctl' \notin {"unlock", "release"} /\ ctl \notin {"done", "unlock", "release"}
    BY <1>2, <1>4
  <2> QED BY <1>1, <1>2, <1>6, <2>1 DEF OvertakeInv, Single
<1> QED BY <1>7, <1>9, <1>10, <1>11, <1>12 DEF IInv

-----------------------------------------------------------------------------
(* The theorems *)

LEMMA NextIInv == IInv /\ [Next]_vars => IInv'
<1> SUFFICES ASSUME IInv, [Next]_vars PROVE IInv'
  OBVIOUS
<1>1. CASE \E c \in Clients : \E r \in Requests(c) : Submit(c, r)
  BY <1>1, SubmitStep
<1>2. CASE Driver
  BY <1>2, LockBusyStep, WriteSectorStep, CacheHitStep, StartTransferStep, TcProgressStep,
     TcDoneStep, CallbackStep, UnlockStep, ReleaseStep DEF Driver
<1>3. CASE \E u \in Users : UserLock(u) \/ UserUnlock(u)
  BY <1>3, UserLockStep, UserUnlockStep
<1>4. CASE UNCHANGED vars
  <2>1. /\ IInv
        /\ UNCHANGED <<queue, queued, last_sector, next_sector, count, buffer, dest, status,
                       transferred, ctl, lock, waiters, drive, disk, overtaken>>
    BY <1>4 DEF vars, ata, bus
  <2>2. Occupied' = Occupied /\ Served' = Served /\ Continues(Served)' = Continues(Served)
    BY <2>1 DEF Occupied, Served, Continues
  <2>3. TypeInv' /\ LockInv' /\ CountInv'
    BY <2>1 DEF IInv, TypeInv, LockInv, CountInv, CountFits
  <2>4. QueueInv' /\ DriveInv' /\ OvertakeInv'
    BY <2>1, <2>2 DEF IInv, QueueInv, Sound, DriveInv, OvertakeInv, Single
  <2> QED BY <2>3, <2>4 DEF IInv
<1> QED BY <1>1, <1>2, <1>3, <1>4 DEF Next

LEMMA SpecIInv == Spec => []IInv
  BY InitIInv, NextIInv, PTL DEF Spec

(* The driver and the drive agree on what the open command has left, for   *)
(* every drive that takes the 16 bits of ata.count, and for every drive if *)
(* nobody seeks (ata_read_queued and ata_done_queued, ata.c:340-420).      *)
THEOREM DriveAndDriverAgree == ASSUME CountFits PROVE Spec => []DriveAgrees
<1>1. IInv => DriveAgrees
  BY DEF IInv, DriveInv, CountInv, DriveAgrees
<1> QED BY <1>1, SpecIInv, PTL

(* A request for a single sector is overtaken by one command for a longer  *)
(* transfer at most (ata.c:403-420).                                       *)
THEOREM SingleIsServed == Spec => []SingleServed
<1>1. IInv => SingleServed
  BY DEF IInv, OvertakeInv, SingleServed
<1> QED BY <1>1, SpecIInv, PTL

-----------------------------------------------------------------------------
(* The driver as a BlockService *)

(* What the service knows of the request in slot i. *)
ViewOf(i) ==
    LET r == queue[i] IN
    IF i = queued /\ ctl = "done" THEN Service!Served(r.sector, r.count, Result)
    ELSE Service!Asked(r.sector, r.count, r.data)

(* A client waits for one request at most, and its view is of that one. *)
ViewInv ==
    /\ PendingView = [c \in Clients |-> PendingView[c]]
    /\ \A c \in Clients :
          /\ Pending(c) = {} => PendingView[c] = None
          /\ \A i \in Pending(c) : Pending(c) = {i} /\ PendingView[c] = ViewOf(i)

LEMMA ViewIsOfPending == IInv => ViewInv
<1> SUFFICES ASSUME IInv PROVE ViewInv
  OBVIOUS
<1>1. PendingView = [c \in Clients |-> PendingView[c]]
  BY DEF PendingView
<1>2. ASSUME NEW c \in Clients, Pending(c) = {} PROVE PendingView[c] = None
  BY <1>2 DEF PendingView
<1>3. ASSUME NEW c \in Clients, NEW i \in Pending(c)
      PROVE  Pending(c) = {i} /\ PendingView[c] = ViewOf(i)
  <2>1. Pending(c) = {i}
    BY <1>3 DEF IInv, QueueInv, Pending
  <2>2. First(Pending(c)) = i
    <3>1. {i} \in SUBSET Slots
      BY DEF Pending, Occupied
    <3> QED BY <2>1, <3>1, FirstIsIn
  <2>3. PendingView[c] = LET j == First(Pending(c))
                             r == queue[j]
                         IN IF j = queued /\ ctl = "done"
                            THEN [stage |-> "served", sector |-> r.sector, count |-> r.count,
                                  answer |-> Result]
                            ELSE [stage |-> "asked", sector |-> r.sector, count |-> r.count,
                                  data |-> r.data]
    BY <2>1 DEF PendingView
  <2> QED BY <2>1, <2>2, <2>3 DEF ViewOf, Service!Served, Service!Asked
<1> QED BY <1>1, <1>2, <1>3 DEF ViewInv

(* The same of the state after a step. *)
LEMMA ViewIsOfPendingNext == IInv' => ViewInv'
  BY ViewIsOfPending, PTL

(* A view is one of BlockService's records, and so not None. *)
LEMMA ViewType ==
    ASSUME IInv, NEW i \in Occupied
    PROVE  /\ ViewOf(i) # None
           /\ queue[i] \in Request /\ queue[i].sector \in Sectors /\ queue[i].count \in Nat
<1>1. queue[i] \in Request
  BY DEF IInv, TypeInv, Occupied
<1>2. Result \in Vals \cup {None, Error}
  BY DEF IInv, TypeInv, Result
<1>3. ViewOf(i) \in Views
  BY <1>1, <1>2 DEF ViewOf, Views, Request, Service!Served, Service!Asked
<1> QED BY <1>1, <1>3, ViewAssumption DEF Request

(* A client whose request neither comes nor goes nor changes has its view. *)
LEMMA SameView ==
    ASSUME IInv, IInv', NEW c \in Clients, Pending(c)' = Pending(c),
           \A i \in Pending(c) : ViewOf(i)' = ViewOf(i)
    PROVE  PendingView'[c] = PendingView[c]
  BY ViewIsOfPending, ViewIsOfPendingNext DEF ViewInv

LEMMA AllSame ==
    ASSUME IInv, IInv', \A c \in Clients : PendingView'[c] = PendingView[c]
    PROVE  PendingView' = PendingView
  BY ViewIsOfPending, ViewIsOfPendingNext DEF ViewInv

LEMMA OneChanges ==
    ASSUME IInv, IInv', NEW c \in Clients,
           \A d \in Clients \ {c} : PendingView'[d] = PendingView[d]
    PROVE  PendingView' = [PendingView EXCEPT ![c] = PendingView'[c]]
  BY ViewIsOfPending, ViewIsOfPendingNext DEF ViewInv

(* Steps the service does not see: those that leave the queue as it is and *)
(* do not reach the callback.                                              *)
LEMMA Unseen ==
    ASSUME IInv, IInv', UNCHANGED <<queue, queued, disk>>,
           ctl \notin {"done", "unlock", "release"},
           ctl' \notin {"done", "unlock", "release"}
    PROVE  PendingView' = PendingView
<1>1. Occupied' = Occupied
  BY DEF Occupied
<1>2. \A c \in Clients : Pending(c)' = Pending(c)
  BY <1>1 DEF Pending
<1>3. \A i : ViewOf(i)' = ViewOf(i)
  BY DEF ViewOf
<1> QED BY <1>2, <1>3, SameView, AllSame

(* The steps that bring a request to its callback. *)
LEMMA ServedNow ==
    ASSUME IInv, IInv', UNCHANGED <<queue, queued>>, queued # None,
           ctl \in {"idle", "start"}, ctl' = "done"
    PROVE  LET r == Served IN
           /\ r.client \in Clients
           /\ PendingView[r.client] = Service!Asked(r.sector, r.count, r.data)
           /\ PendingView[r.client] # None
           /\ PendingView' = [PendingView EXCEPT
                 ![r.client] = Service!Served(r.sector, r.count, Result')]
<1> DEFINE r == Served
<1>1. queued \in Occupied /\ r \in Request
  BY ViewType DEF IInv, QueueInv, Served
<1>2. r.client \in Clients
  BY <1>1 DEF Request
<1>3. Occupied' = Occupied
  BY DEF Occupied
<1>4. \A c \in Clients : Pending(c)' = Pending(c)
  BY <1>3 DEF Pending
<1>5. queued \in Pending(r.client)
  BY <1>1 DEF Pending, Served
<1>6. /\ PendingView[r.client] = ViewOf(queued)
      /\ PendingView'[r.client] = ViewOf(queued)'
  BY <1>2, <1>4, <1>5, ViewIsOfPending, ViewIsOfPendingNext DEF ViewInv
<1>7. /\ ViewOf(queued) = Service!Asked(r.sector, r.count, r.data)
      /\ ViewOf(queued)' = Service!Served(r.sector, r.count, Result')
  BY DEF ViewOf, Served
<1>8. ASSUME NEW d \in Clients \ {r.client} PROVE PendingView'[d] = PendingView[d]
  <2>1. \A i \in Pending(d) : i # queued
    BY DEF Pending, Served
  <2>2. \A i \in Pending(d) : ViewOf(i)' = ViewOf(i)
    BY <2>1 DEF ViewOf
  <2> QED BY <1>4, <2>2, SameView
<1> HIDE DEF r
<1>9. PendingView' = [PendingView EXCEPT ![r.client] = PendingView'[r.client]]
  BY <1>2, <1>8, OneChanges
<1>10. PendingView[r.client] # None
  BY <1>1, <1>6, ViewType
<1> QED BY <1>2, <1>6, <1>7, <1>9, <1>10 DEF r

ServiceStep == Service!ServiceNext \/ UNCHANGED <<disk, PendingView>>

LEMMA WriteSectorServes ==
    ASSUME IInv, IInv', NEW accepted \in BOOLEAN, WriteSector(accepted)
    PROVE  ServiceStep
<1> DEFINE r == Served
<1>1. ctl = "start" /\ ctl' = "done" /\ r.data # None /\ UNCHANGED <<queue, queued>>
  BY DEF WriteSector
<1>2. queued # None /\ Sound(r) /\ r.sector \in Sectors
  BY <1>1, ServedRequest
<1>3. Served' = r
  BY <1>1 DEF Served
<1>4. /\ disk' = IF accepted THEN [disk EXCEPT ![r.sector] = r.data] ELSE disk
      /\ status' = IF accepted THEN r.data ELSE Error
  BY DEF WriteSector
<1>5. Result' = status'
  BY <1>1, <1>3 DEF Result
<1>6. r.data # None
  BY <1>1
<1> DEFINE p == PendingView[r.client]
<1>7. /\ r.client \in Clients /\ p # None
      /\ p = Service!Asked(r.sector, r.count, r.data)
      /\ PendingView' = [PendingView EXCEPT
            ![r.client] = Service!Served(r.sector, r.count, Result')]
  BY <1>1, <1>2, ServedNow
<1>8. p.stage = "asked" /\ p.sector = r.sector /\ p.count = r.count /\ p.data = r.data
  BY <1>7 DEF Service!Asked
<1> HIDE DEF r, p
<1>9. Service!Serve(r.client)
  BY <1>4, <1>5, <1>6, <1>7, <1>8 DEF Service!Serve, p
<1> QED BY <1>7, <1>9 DEF ServiceStep, Service!ServiceNext

(* A read is answered with what the drive holds. *)
LEMMA ReadServes ==
    ASSUME IInv, IInv', UNCHANGED <<queue, queued, disk>>, queued # None,
           ctl \in {"idle", "start"}, ctl' = "done",
           Served.data = None, Result' = disk[Served.sector]
    PROVE  ServiceStep
<1> DEFINE r == Served
           p == PendingView[r.client]
<1>1. /\ r.client \in Clients /\ p # None
      /\ p = Service!Asked(r.sector, r.count, r.data)
      /\ PendingView' = [PendingView EXCEPT
            ![r.client] = Service!Served(r.sector, r.count, Result')]
  BY ServedNow
<1>2. p.stage = "asked" /\ p.sector = r.sector /\ p.count = r.count /\ p.data = None
  BY <1>1 DEF Service!Asked
<1>3. Result' = disk[r.sector]
  OBVIOUS
<1> HIDE DEF r, p
<1>4. Service!Serve(r.client)
  BY <1>1, <1>2, <1>3 DEF Service!Serve, p
<1> QED BY <1>1, <1>4 DEF ServiceStep, Service!ServiceNext

LEMMA CacheHitServes == ASSUME IInv, IInv', CacheHit PROVE ServiceStep
<1>1. /\ ctl = "start" /\ ctl' = "done" /\ Served.data = None
      /\ Served.sector = last_sector
      /\ UNCHANGED <<queue, queued, disk, last_sector, buffer, transferred>>
  BY DEF CacheHit, ata
<1>2. queued # None /\ Served.sector \in Sectors
  BY <1>1, ServedRequest
<1>3. Served.data = None /\ Served' = Served
  BY <1>1 DEF Served
<1>4. buffer = disk[last_sector]
  <2>1. transferred = None /\ last_sector # None
    BY <1>1, <1>2, AtaQueueAssumption DEF IInv, LockInv, Sectors
  <2> QED BY <2>1 DEF IInv, DriveInv
<1>5. Result' = disk[Served.sector]
  BY <1>1, <1>3, <1>4 DEF Result
<1> QED BY <1>1, <1>2, <1>3, <1>5, ReadServes

LEMMA TcDoneServes == ASSUME IInv, IInv', TcDone PROVE ServiceStep
<1> DEFINE r == Served
<1>1. /\ ctl = "idle" /\ ctl' = "done" /\ transferred = 512
      /\ UNCHANGED <<queue, queued, disk, last_sector>>
  BY DEF TcDone
<1>2. transferred # None
  BY <1>1, Apart
<1>3. queued # None /\ r.sector \in Sectors /\ Served' = r
  BY <1>1, <1>2, ServedRequest DEF Served
<1>4. r.data = None
  BY <1>2 DEF IInv, DriveInv
<1>5. drive.at = r.sector
  BY <1>2 DEF IInv, DriveInv
<1>6. /\ r.sector = last_sector => buffer' = disk[r.sector]
      /\ r.sector # last_sector => dest' = disk[r.sector]
  BY <1>5 DEF TcDone
<1>7. Result' = disk[r.sector]
  BY <1>1, <1>3, <1>4, <1>6 DEF Result
<1> QED BY <1>1, <1>3, <1>4, <1>7, ReadServes

(* A request made in a free slot is the only one of its client. *)
LEMMA AskedNow ==
    ASSUME IInv, IInv', NEW c \in Clients, NEW r \in Request, r.client = c,
           NEW s \in Slots \ Occupied, Occupied' = Occupied \cup {s}, queue'[s] = r,
           \A i \in Occupied : queue'[i] = queue[i],
           ctl' # "done", s = queued' => ctl' \notin {"unlock", "release"}
    PROVE  PendingView'[c] = Service!Asked(r.sector, r.count, r.data)
<1>1. s \in Pending(c)'
  BY DEF Pending
<1>2. PendingView'[c] = ViewOf(s)'
  BY <1>1, ViewIsOfPendingNext DEF ViewInv
<1> QED BY <1>2 DEF ViewOf

(* Such a request is one BlockService allows. *)
LEMMA RequestIsNew ==
    ASSUME NEW c \in Clients, NEW r \in Requests(c)
    PROVE  Service!Asked(r.sector, r.count, r.data) \in Service!NewRequest(c)
<1>1. r.sector \in Sectors /\ r.count \in 0..MaxCount[c] /\ r.data \in Payloads \cup {None}
  BY AtaQueueAssumption DEF Requests
<1> QED BY <1>1 DEF Service!NewRequest

LEMMA SubmitAsks ==
    ASSUME IInv, IInv', NEW c \in Clients, NEW r \in Requests(c), Submit(c, r)
    PROVE  ServiceStep
<1> DEFINE s == First(Free)
<1>1. TypeInv /\ QueueInv /\ ctl = "idle"
  BY DEF IInv, Submit
<1>2. r \in Request /\ r.client = c
  BY RequestIsSound
<1>3. Free # {}
  BY <1>1, RoomInQueue
<1>4. /\ queue' = [queue EXCEPT ![s] = r]
      /\ ctl' \in {"idle", "start"}
      /\ ~Waiting(c)
      /\ queued \in Occupied => queued' = queued
      /\ UNCHANGED disk
  BY <1>1, <1>3, Apart, AtaQueueAssumption DEF Submit, Occupied, Slots
<1>5. /\ s \in Slots \ Occupied
      /\ Occupied' = Occupied \cup {s}
      /\ queue'[s] = r
      /\ \A i \in Occupied : queue'[i] = queue[i]
  BY <1>1, <1>2, <1>4, AddedRequest
<1> HIDE DEF s
<1>6. PendingView[c] = None
  <2>1. Pending(c) = {}
    BY <1>4 DEF Pending, Waiting
  <2> QED BY <2>1, ViewIsOfPending DEF ViewInv
<1>7. PendingView'[c] = Service!Asked(r.sector, r.count, r.data)
  BY <1>2, <1>4, <1>5, AskedNow
<1>8. ASSUME NEW d \in Clients \ {c} PROVE PendingView'[d] = PendingView[d]
  <2>1. Pending(d)' = Pending(d)
    BY <1>1, <1>2, <1>4, <1>5 DEF Pending
  <2>2. \A i \in Pending(d) : ViewOf(i)' = ViewOf(i)
    BY <1>1, <1>4, <1>5 DEF ViewOf, Pending
  <2> QED BY <2>1, <2>2, SameView
<1>9. PendingView' = [PendingView EXCEPT ![c] = PendingView'[c]]
  BY <1>8, OneChanges
<1>10. Service!Ask(c)
  BY <1>4, <1>6, <1>7, <1>9, RequestIsNew DEF Service!Ask
<1> QED BY <1>10 DEF ServiceStep, Service!ServiceNext

LEMMA CallbackAnswers == ASSUME IInv, IInv', Callback PROVE ServiceStep
<1> DEFINE r == Served
           s == First(Free)
<1>1. TypeInv /\ QueueInv /\ ctl = "done" /\ ctl' = "unlock"
      /\ UNCHANGED <<queued, disk>>
  BY DEF IInv, Callback
<1>2. r \in Request /\ Sound(r) /\ queued \in Occupied
  BY <1>1, ServedRequest
<1>client. PICK c \in Clients : c = r.client
  BY <1>2 DEF Request
<1> DEFINE p == PendingView[c]
<1>3. Free # {}
  BY <1>1, RoomInQueue
<1>4. PICK n \in NextRequest(r) :
         queue' = IF n # None THEN [queue EXCEPT ![s] = n] ELSE queue
  BY <1>3 DEF Callback
<1>5. p = Service!Served(r.sector, r.count, Result) /\ p # None
  <2>1. queued \in Pending(c)
    BY <1>1, <1>2, <1>client DEF Pending, Served
  <2>2. PendingView[c] = ViewOf(queued)
    BY <2>1, ViewIsOfPending DEF ViewInv
  <2> QED BY <1>1, <1>2, <2>2, ViewType DEF ViewOf, Served
<1>6. p.stage = "served" /\ p.sector = r.sector /\ p.count = r.count
  BY <1>5 DEF Service!Served
<1>7. n # None =>
         /\ n \in Request /\ n.client = c
         /\ s \in Slots \ Occupied
         /\ Occupied' = Occupied \cup {s}
         /\ queue'[s] = n
         /\ \A i \in Occupied : queue'[i] = queue[i]
  <2> SUFFICES ASSUME n # None
               PROVE  /\ n \in Request /\ n.client = c
                      /\ s \in Slots \ Occupied
                      /\ Occupied' = Occupied \cup {s}
                      /\ queue'[s] = n
                      /\ \A i \in Occupied : queue'[i] = queue[i]
    OBVIOUS
  <2>1. n \in Request /\ n.client = c
    BY <1>2, <1>client, NextRequestIsSound
  <2>2. queue' = [queue EXCEPT ![First(Free)] = n]
    BY <1>4
  <2> QED BY <1>1, <2>1, <2>2, AddedRequest
<1>8. n = None => Occupied' = Occupied /\ queue' = queue
  BY <1>4 DEF Occupied
<1>9. PendingView'[c] = IF n = None THEN None ELSE Service!Asked(n.sector, n.count, n.data)
  <2>1. CASE n = None
    <3>1. Pending(c)' = {}
      BY <1>1, <1>2, <1>client, <1>8, <2>1 DEF Pending, QueueInv, Served
    <3>2. PendingView'[c] = None
      BY <3>1, ViewIsOfPendingNext DEF ViewInv
    <3> QED BY <2>1, <3>2
  <2>2. CASE n # None
    <3>1. s # queued'
      BY <1>1, <1>2, <1>7, <2>2
    <3> HIDE DEF s, r
    <3>2. ctl' # "done"
      BY <1>1
    <3>3. PendingView'[c] = Service!Asked(n.sector, n.count, n.data)
      BY <1>2, <1>7, <2>2, <3>1, <3>2, AskedNow
    <3> QED BY <2>2, <3>3
  <2> QED BY <2>1, <2>2
<1>10. ASSUME NEW d \in Clients \ {c} PROVE PendingView'[d] = PendingView[d]
  <2>1. \A i \in Occupied : queue'[i] = queue[i]
    BY <1>7, <1>8
  <2>2. \A i \in Occupied' \ Occupied : queue'[i].client = c
    BY <1>7, <1>8
  <2>3. Occupied \subseteq Occupied'
    BY <1>7, <1>8
  <2>4. \A i \in Pending(d) \cup Pending(d)' : i # queued
    BY <1>1, <1>2, <1>client, <2>1 DEF Pending, Served
  <2>5. Pending(d)' = Pending(d)
    BY <1>1, <2>1, <2>2, <2>3, <2>4 DEF Pending
  <2>6. \A i \in Pending(d) : ViewOf(i)' = ViewOf(i)
    BY <1>1, <2>1, <2>4 DEF ViewOf, Pending
  <2> QED BY <2>5, <2>6, SameView
<1>11. PendingView' = [PendingView EXCEPT ![c] = PendingView'[c]]
  BY <1>2, <1>10, OneChanges
<1>12. PendingView'[c] \in IF p.count > 1 THEN {Service!Asked(p.sector + 1, p.count - 1, None)}
                           ELSE {None} \cup Service!NewRequest(c)
  <2>1. CASE r.count > 1
    <3>1. n \in [client : {c}, sector : {r.sector + 1}, count : {r.count - 1},
                 whole : BOOLEAN, data : {None}]
      BY <1>client, <2>1 DEF NextRequest
    <3>2. r.sector + 1 \in Sectors /\ r.count - 1 \in Nat
      BY <1>2, <2>1, AtaQueueAssumption DEF Sound, Request, Sectors
    <3>3. n \in Request
      BY <1>2, <3>1, <3>2 DEF Request
    <3>4. n # None /\ n.sector = r.sector + 1 /\ n.count = r.count - 1 /\ n.data = None
      BY <3>1, <3>3, Apart
    <3> QED BY <1>6, <1>9, <2>1, <3>4
  <2>2. CASE ~(r.count > 1)
    <3>1. n = None \/ n \in Requests(c)
      BY <1>client, <2>2 DEF NextRequest
    <3>2. ~(p.count > 1)
      BY <1>6, <2>2
    <3> HIDE DEF p
    <3> QED BY <1>2, <1>9, <3>1, <3>2, RequestIsNew
  <2> QED BY <2>1, <2>2
<1>13. Service!Answer(c)
  <2> HIDE DEF r, s, p
  <2> QED BY <1>1, <1>5, <1>6, <1>11, <1>12 DEF Service!Answer, p
<1> QED BY <1>2, <1>13 DEF ServiceStep, Service!ServiceNext

LEMMA UnlockIsUnseen == ASSUME IInv, IInv', Unlock PROVE ServiceStep
<1>1. ctl = "unlock" /\ ctl' = "release" /\ UNCHANGED <<queue, queued, disk>>
  BY DEF Unlock, ata
<1>2. Occupied' = Occupied
  BY <1>1 DEF Occupied
<1>3. ASSUME NEW c \in Clients PROVE PendingView'[c] = PendingView[c]
  <2>1. Pending(c)' = Pending(c)
    BY <1>1, <1>2 DEF Pending
  <2>2. \A i \in Pending(c) : ViewOf(i)' = ViewOf(i)
    BY <1>1 DEF ViewOf
  <2> QED BY <2>1, <2>2, SameView
<1> QED BY <1>1, <1>3, AllSame DEF ServiceStep

LEMMA ReleaseIsUnseen == ASSUME IInv, IInv', Release PROVE ServiceStep
<1>1. ctl = "release" /\ ctl' \in {"start", "idle"} /\ UNCHANGED disk
      /\ queue' = [queue EXCEPT ![queued] = None]
  BY DEF Release
<1>2. queued \in Occupied /\ queued \in Slots
  BY <1>1, ServedRequest
<1>3. /\ Occupied' = Occupied \ {queued}
      /\ \A i \in Occupied \ {queued} : queue'[i] = queue[i]
  BY <1>1, <1>2 DEF IInv, TypeInv, Occupied
<1>4. ASSUME NEW c \in Clients PROVE PendingView'[c] = PendingView[c]
  <2>1. Pending(c)' = Pending(c)
    BY <1>1, <1>3 DEF Pending
  <2>2. \A i \in Pending(c) : ViewOf(i)' = ViewOf(i)
    BY <1>1, <1>3 DEF ViewOf, Pending
  <2> QED BY <2>1, <2>2, SameView
<1> QED BY <1>1, <1>4, AllSame DEF ServiceStep

LEMMA NextIsService == IInv /\ IInv' /\ [Next]_vars => ServiceStep
<1> SUFFICES ASSUME IInv, IInv', [Next]_vars PROVE ServiceStep
  OBVIOUS
<1>1. CASE \E c \in Clients : \E r \in Requests(c) : Submit(c, r)
  BY <1>1, SubmitAsks
<1>2. CASE \/ \E accepted \in BOOLEAN : WriteSector(accepted)
           \/ CacheHit \/ TcDone \/ Callback \/ Unlock \/ Release
  BY <1>2, WriteSectorServes, CacheHitServes, TcDoneServes, CallbackAnswers,
     UnlockIsUnseen, ReleaseIsUnseen
<1>3. CASE LockBusy \/ StartTransfer \/ TcProgress
  <2>1. /\ UNCHANGED <<queue, queued, disk>>
        /\ ctl \in {"idle", "start"} /\ ctl' \in {"idle", "start"}
    BY <1>3 DEF LockBusy, StartTransfer, TcProgress, ata
  <2> QED BY <2>1, Unseen DEF ServiceStep
<1>4. CASE \E u \in Users :
              UserLock(u) \/ UserUnlock(u)
  <2>1. /\ UNCHANGED <<queue, queued, disk>>
        /\ ctl \in {"idle", "start"} /\ ctl' \in {"idle", "start"}
    BY <1>4 DEF UserLock, UserUnlock, ata
  <2> QED BY <2>1, Unseen DEF ServiceStep
<1>5. CASE UNCHANGED vars
  <2>1. UNCHANGED <<queue, queued, disk, ctl, buffer, dest, status, last_sector>>
    BY <1>5 DEF vars, ata
  <2>2. Occupied' = Occupied /\ Result' = Result
    BY <2>1 DEF Occupied, Result, Served
  <2>3. ASSUME NEW c \in Clients PROVE PendingView'[c] = PendingView[c]
    <3>1. Pending(c)' = Pending(c)
      BY <2>1, <2>2 DEF Pending
    <3>2. \A i \in Pending(c) : ViewOf(i)' = ViewOf(i)
      BY <2>1, <2>2 DEF ViewOf
    <3> QED BY <3>1, <3>2, SameView
  <2> QED BY <2>1, <2>3, AllSame DEF ServiceStep
<1> QED BY <1>1, <1>2, <1>3, <1>4, <1>5 DEF Next, Driver

(* Every accepted request is performed once, at one moment between the     *)
(* call and the callback, and the callback is given what the drive held    *)
(* then (ata_read_queued to do_read_write_async, ata.c:336-475).           *)
THEOREM DriverImplementsService == Spec => ImplementsService
<1>1. Init => Service!ServiceInit
  <2> SUFFICES ASSUME Init PROVE Service!ServiceInit
    OBVIOUS
  <2>1. disk \in [Sectors -> Vals]
    BY AtaQueueAssumption DEF Init
  <2>2. \A c \in Clients : Pending(c) = {}
    BY DEF Init, Pending, Occupied
  <2>3. PendingView = [c \in Clients |-> None]
    BY <2>2 DEF PendingView
  <2> QED BY <2>1, <2>3 DEF Service!ServiceInit
<1>2. IInv /\ IInv' /\ [Next]_vars => [Service!ServiceNext]_(Service!serviceVars)
  BY NextIsService DEF ServiceStep, Service!serviceVars
<1> QED BY <1>1, <1>2, SpecIInv, PTL DEF Spec, ImplementsService, Service!ServiceSpec
=============================================================================
