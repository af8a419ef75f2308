---------------------------- MODULE WkfReadProofs ----------------------------
(***************************************************************************)
(* Proofs about WkfRead for every setup, every size of the granule, the    *)
(* sector and the block, and every length of reads: the WKF driver reads   *)
(* what DiscRead says, into the buffer and nowhere else, and what remains  *)
(* of a read is always in its queue.                                       *)
(***************************************************************************)
EXTENDS WkfRead, DiscReadProofs

-----------------------------------------------------------------------------
(* The invariant *)

(* The streamer's request: a sector, to its own buffer.                    *)
StreamRequest(r) ==
    /\ r \in Requests /\ r.client = "dtk" /\ r.at = StreamAt /\ r.size = Sector
    /\ Sector < Word - Granule

(* The request the game's read waits for, if the driver has it.            *)
GameRequest ==
    IF dvd.read /\ ~OnCard(piece) THEN Request(piece, Len(dvd.got)) ELSE None

(* The queue q has the game's request g, one of the streamer at most, and  *)
(* nothing else.                                                           *)
QueueIs(q, g) ==
    /\ q \in [1..3 -> Requests \cup {None}]
    /\ \A i \in Slots : q[i] # None => q[i] = g \/ (streaming /\ StreamRequest(q[i]))
    /\ \A i, j \in Slots :
          q[i] # None /\ q[j] # None /\ q[i].client = q[j].client => i = j
    /\ g # None => \E i \in Slots : q[i] = g

(* k is the entry served of q: there is one if there is any.               *)
Serves(k, q) ==
    IF k = None THEN \A i \in Slots : q[i] = None
    ELSE k \in Slots /\ q[k] # None

(* The drive has been prepared for r: the base is told, the bytes before a *)
(* misaligned buffer are saved.                                            *)
Ready(r, b, s, mem) ==
    /\ b = BaseOf(r)
    /\ Misalign(r) # 0 => s = [i \in 1..Misalign(r) |-> mem[r.at - Misalign(r) + i - 1]]

(* The length of the game's read. *)
Wanted == dvd.length + Len(dvd.got)

Fits(n) == n \in Nat /\ n <= Longest /\ n % Granule = 0 /\ n < Word - Granule

(* The game's buffer has got, for a read of n in all, and nothing else has *)
(* changed.                                                                *)
Kept(mem, got, n) ==
    /\ \A a \in Addresses \ (BufferAt..BufferAt + n - 1 \cup StreamBuffer) : mem[a] = Own
    /\ \A k \in 1..Len(got) : mem[BufferAt + k - 1] = got[k]

(* The streamer's buffer has what h asked for. *)
Heard(mem, h) ==
    h # None =>
        \A i \in 0..Sector - 1 : mem[StreamAt + i] = Contents(h.data, h.offset + i)

WInv ==
    /\ streaming \in BOOLEAN
    /\ QueueIs(queue, GameRequest)
    /\ Serves(queued, queue)
    /\ queued # None => Ready(queue[queued], base, saved, memory)
    /\ Fits(Wanted)
    /\ Kept(memory, dvd.got, Wanted)
    /\ Heard(memory, heard)

-----------------------------------------------------------------------------
(* Where things are *)

LEMMA Layout ==
    /\ Granule \in Nat \ {0} /\ Sector \in Nat \ {0} /\ Block \in Nat /\ Word \in Nat
    /\ Longest \in Nat /\ Longest % Granule = 0 /\ Sector % Granule = 0
    /\ BufferAt = Granule /\ BufferAt % Granule = 0
    /\ StreamAt = Granule + Longest + Granule /\ StreamAt \in Nat /\ StreamAt % Granule = 0
<1>1. PICK gr \in Nat \ {0}, sec \in Nat \ {0}, lo \in Nat :
         /\ gr = Granule /\ sec = Sector /\ lo = Longest /\ lo % gr = 0 /\ sec % gr = 0
  BY DiscReadAssumption, WkfReadAssumption
<1>2. Block \in Nat /\ Word \in Nat
  BY DiscReadAssumption
<1>3. gr % gr = 0
  BY <1>1
<1>4. lo \in Int /\ gr \in Int /\ gr + lo \in Int
  BY <1>1
<1>5. (gr + lo) % gr = 0
  BY <1>1, <1>3, <1>4, SumOfMultiples
<1>6. (gr + lo + gr) % gr = 0
  BY <1>1, <1>3, <1>4, <1>5, SumOfMultiples
<1> QED BY <1>1, <1>2, <1>3, <1>6 DEF BufferAt, StreamAt

(* A read is shorter than a word has numbers. *)
LEMMA ReadIsShort ==
    ASSUME setup \in Setups, NEW file \in Files, NEW x \in Nat, NEW n \in Nat,
           x..x + n - 1 \subseteq Image(file)
    PROVE  n < Word - Granule
<1>1. PICK runs \in Runs, a \in Nat :
         /\ Total(runs) < Word - Granule
         /\ Image(file) = a..a + Total(runs) - 1
  <2>1. /\ setup.disc1 \in Runs /\ setup.disc2 \in Runs /\ setup.apploader \in Runs
        /\ ApploaderAt \in Nat
        /\ \A runs \in {setup.disc1, setup.disc2, setup.apploader} :
              Total(runs) < Word - Granule
    BY DiscReadAssumption DEF Setup
  <2>2. CASE file = Disc1
    <3>1. Image(file) = 0..Total(setup.disc1) - 1
      BY <2>2 DEF Image
    <3>2. Image(file) = 0..0 + Total(setup.disc1) - 1
      <4>1. Total(setup.disc1) \in Nat
        BY <2>1, TotalIs
      <4> QED BY <3>1, <4>1
    <3> QED BY <2>1, <3>2
  <2>3. CASE file = Disc2
    <3>1. Image(file) = 0..Total(setup.disc2) - 1
      BY <2>3 DEF Image, Disc1, Disc2
    <3>2. Image(file) = 0..0 + Total(setup.disc2) - 1
      <4>1. Total(setup.disc2) \in Nat
        BY <2>1, TotalIs
      <4> QED BY <3>1, <4>1
    <3> QED BY <2>1, <3>2
  <2>4. CASE file = Apploader
    <3>1. Image(file) = ApploaderAt..ApploaderAt + Total(setup.apploader) - 1
      BY <2>4 DEF Image, Disc1, Disc2, Apploader
    <3> QED BY <2>1, <3>1
  <2> QED BY <2>2, <2>3, <2>4 DEF Files, Discs
<1>2. PICK t \in Nat : t = Total(runs)
  BY TotalIs
<1>3. CASE n = 0
  <2>1. Word \in Nat /\ Granule \in Nat
    BY DiscReadAssumption
  <2> QED BY <1>1, <1>2, <1>3, <2>1
<1>4. CASE n # 0
  <2>1. x \in x..x + n - 1 /\ x + n - 1 \in x..x + n - 1
    BY <1>4
  <2>2. x \in a..a + t - 1 /\ x + n - 1 \in a..a + t - 1
    BY <1>1, <1>2, <2>1
  <2>3. n <= t
    BY <2>2
  <2>4. Word \in Nat /\ Granule \in Nat
    BY DiscReadAssumption
  <2> QED BY <1>1, <1>2, <2>3, <2>4
<1> QED BY <1>3, <1>4

LEMMA PlaceIs == Place \subseteq Places
  BY DEF Place, Places, Names, Files, Discs, Disc1, Disc2, Apploader

LEMMA NoMultipleBetween ==
    ASSUME NEW g \in Nat \ {0}, NEW d \in Int, d % g = 0, d <= g - 1
    PROVE  d <= 0
<1>1. CASE d \in 1..g - 1
  BY <1>1
<1> QED BY <1>1

-----------------------------------------------------------------------------
(* The queue *)

LEMMA SlotsAre ==
    ASSUME streaming \in BOOLEAN
    PROVE  /\ Slots \subseteq 1..3 /\ Slots # {}
           /\ streaming => Slots = {1, 2, 3}
           /\ ~streaming => Slots = {1, 2}
           /\ None \notin Slots
  BY WkfReadAssumption DEF Slots

(* There is room for one more. *)
LEMMA Pushed ==
    ASSUME streaming \in BOOLEAN, NEW q, NEW g \in Requests \cup {None}, QueueIs(q, g),
           g # None => g.client = "dvd", NEW r
    PROVE  \E i \in Slots : q[i] = None /\ i = Min(Free(q)) /\ Push(q, r) = [q EXCEPT ![i] = r]
<1>1. Free(q) # {}
  <2> SUFFICES ASSUME Free(q) = {} PROVE FALSE
    OBVIOUS
  <2>1. \A i \in Slots : q[i] # None
    BY DEF Free
  <2>2. \A i \in Slots : q[i] = g \/ (streaming /\ q[i].client = "dtk")
    BY <2>1 DEF QueueIs, StreamRequest
  <2>3. \A i \in Slots : q[i].client = "dvd" \/ (streaming /\ q[i].client = "dtk")
    BY <2>1, <2>2
  <2>4. \A i, j \in Slots : q[i].client = q[j].client => i = j
    BY <2>1 DEF QueueIs
  <2>5. CASE streaming
    <3>1. 1 \in Slots /\ 2 \in Slots /\ 3 \in Slots
      BY <2>5 DEF Slots
    <3>2. q[1].client # q[2].client /\ q[1].client # q[3].client /\ q[2].client # q[3].client
      BY <2>4, <3>1
    <3>3. /\ q[1].client = "dvd" \/ q[1].client = "dtk"
          /\ q[2].client = "dvd" \/ q[2].client = "dtk"
          /\ q[3].client = "dvd" \/ q[3].client = "dtk"
      BY <2>3, <3>1
    <3> QED BY <3>2, <3>3
  <2>6. CASE ~streaming
    <3>1. 1 \in Slots /\ 2 \in Slots
      BY <2>6 DEF Slots
    <3>2. q[1].client # q[2].client
      BY <2>4, <3>1
    <3>3. q[1].client = "dvd" /\ q[2].client = "dvd"
      BY <2>3, <2>6, <3>1
    <3> QED BY <3>2, <3>3
  <2> QED BY <2>5, <2>6
<1>2. Free(q) \in SUBSET Nat
  BY SlotsAre DEF Free
<1>3. PICK i : i = Min(Free(q))
  OBVIOUS
<1>4. i \in Free(q)
  BY <1>1, <1>2, <1>3, MinIs
<1>5. i \in Slots /\ q[i] = None
  BY <1>4 DEF Free
<1>6. Push(q, r) = [q EXCEPT ![i] = r]
  BY <1>1, <1>3 DEF Push
<1> QED BY <1>3, <1>5, <1>6

(* The next entry to serve. *)
LEMMA FollowingIs ==
    ASSUME streaming \in BOOLEAN, NEW q
    PROVE  Serves(Following(q), q)
<1> DEFINE left  == {i \in Slots : q[i] # None}
           short == {i \in left : q[i].size + (q[i].offset % Sector) <= Sector}
<1>1. left \in SUBSET Nat /\ short \in SUBSET Nat /\ short \subseteq left
  BY SlotsAre
<1>2. Following(q) = IF left = {} THEN None
                     ELSE IF streaming /\ short # {} THEN Min(short)
                     ELSE Min(left)
  BY DEF Following
<1>3. \A i \in left : i \in Slots /\ q[i] # None /\ i # None
  BY SlotsAre
<1>4. left = {} => \A i \in Slots : q[i] = None
  OBVIOUS
<1> HIDE DEF left, short
<1>5. CASE left = {}
  BY <1>2, <1>4, <1>5 DEF Serves
<1>6. CASE left # {}
  <2>1. Following(q) \in left
    <3>1. CASE streaming /\ short # {}
      BY <1>1, <1>2, <1>6, <3>1, MinIs
    <3>2. CASE ~(streaming /\ short # {})
      BY <1>1, <1>2, <1>6, <3>2, MinIs
    <3> QED BY <3>1, <3>2
  <2> QED BY <1>3, <2>1 DEF Serves
<1> QED BY <1>5, <1>6

(* An entry without more: the request that was served is forgotten. *)
LEMMA WithoutServed ==
    ASSUME NEW q, NEW g, QueueIs(q, g), NEW k \in Slots, q[k] # None,
           NEW h, (h = g /\ q[k] # g) \/ (h = None /\ q[k] = g)
    PROVE  QueueIs([q EXCEPT ![k] = None], h)
<1>1. PICK p : p = [q EXCEPT ![k] = None]
  OBVIOUS
<1>2. /\ q \in [1..3 -> Requests \cup {None}]
      /\ \A i \in Slots : q[i] # None => q[i] = g \/ (streaming /\ StreamRequest(q[i]))
      /\ \A i, j \in Slots :
            q[i] # None /\ q[j] # None /\ q[i].client = q[j].client => i = j
      /\ g # None => \E i \in Slots : q[i] = g
  BY DEF QueueIs
<1>3. Slots \subseteq 1..3
  BY DEF Slots
<1>4. p \in [1..3 -> Requests \cup {None}]
  BY <1>1, <1>2
<1>5. p[k] = None /\ \A i \in Slots : i # k => p[i] = q[i]
  BY <1>1, <1>2, <1>3
<1>6. \A i, j \in Slots :
         p[i] # None /\ p[j] # None /\ p[i].client = p[j].client => i = j
  BY <1>2, <1>5
<1>7. \A i \in Slots : p[i] # None => p[i] = h \/ (streaming /\ StreamRequest(p[i]))
  <2> TAKE i \in Slots
  <2> HAVE p[i] # None
  <2>1. i # k /\ p[i] = q[i]
    BY <1>5
  <2>2. q[i] = g \/ (streaming /\ StreamRequest(q[i]))
    BY <1>2, <2>1
  <2>3. q[i] = g /\ h = None => FALSE
    BY <1>2, <2>1
  <2> QED BY <2>1, <2>2, <2>3
<1>8. h # None => \E i \in Slots : p[i] = h
  BY <1>2, <1>5
<1> QED BY <1>1, <1>4, <1>6, <1>7, <1>8 DEF QueueIs

(* A request in a free entry. *)
LEMMA WithOneMore ==
    ASSUME NEW q, NEW g, QueueIs(q, g), NEW i \in Slots, q[i] = None, NEW r \in Requests,
           NEW h, (h = r /\ g = None) \/ (h = g /\ streaming /\ StreamRequest(r)),
           \A j \in Slots : q[j] # None => q[j].client # r.client
    PROVE  QueueIs([q EXCEPT ![i] = r], h)
<1>1. PICK p : p = [q EXCEPT ![i] = r]
  OBVIOUS
<1>2. /\ q \in [1..3 -> Requests \cup {None}]
      /\ \A j \in Slots : q[j] # None => q[j] = g \/ (streaming /\ StreamRequest(q[j]))
      /\ \A j, k \in Slots :
            q[j] # None /\ q[k] # None /\ q[j].client = q[k].client => j = k
      /\ g # None => \E j \in Slots : q[j] = g
  BY DEF QueueIs
<1>3. Slots \subseteq 1..3
  BY DEF Slots
<1>4. p \in [1..3 -> Requests \cup {None}]
  BY <1>1, <1>2
<1>5. p[i] = r /\ \A j \in Slots : j # i => p[j] = q[j]
  BY <1>1, <1>2, <1>3
<1>6. \A j, k \in Slots :
         p[j] # None /\ p[k] # None /\ p[j].client = p[k].client => j = k
  BY <1>2, <1>5
<1>7. \A j \in Slots : p[j] # None => p[j] = h \/ (streaming /\ StreamRequest(p[j]))
  BY <1>2, <1>5
<1>8. h # None => \E j \in Slots : p[j] = h
  <2>1. CASE h = r
    BY <1>5, <2>1
  <2>2. CASE h = g
    BY <1>2, <1>5, <2>2
  <2> QED BY <2>1, <2>2
<1> QED BY <1>1, <1>4, <1>6, <1>7, <1>8 DEF QueueIs

-----------------------------------------------------------------------------
(* Memory *)

LEMMA HeardKept ==
    ASSUME setup' = setup, NEW mem, NEW h
    PROVE  Heard(mem, h)' = Heard(mem, h)
<1>1. \A i : Contents(h.data, h.offset + i)' = Contents(h.data, h.offset + i)
  BY SetupKept
<1> QED BY <1>1 DEF Heard, StreamAt, BufferAt, Longest

(* n units from offset o of the place d have been written to at, and what  *)
(* follows them up to e may have changed.                                  *)
Written(mem, d, o, at, n, e) ==
    \A a \in Addresses :
        mem[a] = IF n > 0 /\ at <= a /\ a < e THEN Contents(d, o + (a - at)) ELSE memory[a]

(* A transfer changes what it is asked for, and rounding what follows up   *)
(* to 32 bytes; what comes before is put back.                             *)
LEMMA Transferred ==
    ASSUME NEW r \in Requests, Ready(r, base, saved, memory), NEW mem, mem = Filled(r),
           Misalign(r) + r.size + Granule - 1 < Word
    PROVE  \E e \in Nat :
              /\ e % Granule = 0 /\ r.at + r.size <= e /\ e <= r.at + r.size + Granule - 1
              /\ Written(mem, r.data, r.offset, r.at, r.size, e)
<1> PICK d : d = r.data
  OBVIOUS
<1>1. PICK at \in Nat, n \in Nat, o \in Nat : at = r.at /\ n = r.size /\ o = r.offset /\ d = r.data
  BY DEF Requests
<1>2. PICK gr \in Nat \ {0}, blk \in Nat : gr = Granule /\ blk = Block
  BY Layout
<1>3. PICK m \in 0..gr - 1 : m = at % gr /\ m <= at
  BY <1>2
<1>4. m = Misalign(r) /\ m + n \in Nat /\ m + n + gr - 1 < Word
  BY <1>1, <1>2, <1>3 DEF Misalign
<1>5. PICK z \in Nat : z = Round(m + n) /\ z % gr = 0 /\ z <= m + n + gr - 1 /\ m + n <= z
  BY <1>2, <1>4, RoundIs
<1>6. PICK e \in Nat : e = at - m + z
  BY <1>3
<1>7. e % gr = 0
  <2>1. (at - m) % gr = 0
    <3>1. at = gr * (at \div gr) + (at % gr) /\ at \div gr \in Int
      BY Quotient
    <3>2. PICK w \in Int : w = gr * (at \div gr)
      BY <3>1
    <3>3. w % gr = 0
      BY <3>1, <3>2, Multiple
    <3>4. at - m = w
      BY <1>3, <3>1, <3>2
    <3> QED BY <3>3, <3>4
  <2>2. at - m \in Int /\ z \in Int
    BY <1>3, <1>5
  <2> QED BY <1>5, <1>6, <2>1, <2>2, SumOfMultiples
<1>8. at + n <= e /\ e <= at + n + gr - 1
  BY <1>3, <1>5, <1>6
<1>9. PICK back \in Nat : back = (IF m # 0 THEN blk ELSE 0)
  OBVIOUS
<1>10. BaseOf(r) = [data |-> d, back |-> back] /\ base = BaseOf(r)
  BY <1>1, <1>2, <1>4, <1>9 DEF BaseOf, Ready
<1>11. ASSUME NEW a \in Nat, at <= a
       PROVE  Device(o + back + a - at) = Contents(d, o + (a - at))
  <2>1. base.back = back /\ base.data = d
    BY <1>10
  <2>2. ~(o + back + a - at < back) /\ o + back + a - at - back = o + (a - at)
    BY <1>11
  <2> QED BY <2>1, <2>2 DEF Device
<1>12. ASSUME NEW a \in Nat, at - m <= a, a < at
       PROVE  saved[a - (at - m) + 1] = memory[a]
  <2>1. m # 0
    BY <1>12, <1>3
  <2>2. saved = [i \in 1..m |-> memory[at - m + i - 1]]
    BY <1>1, <1>4, <2>1 DEF Ready
  <2>3. a - (at - m) + 1 \in 1..m /\ at - m + (a - (at - m) + 1) - 1 = a
    BY <1>3, <1>12
  <2> QED BY <2>2, <2>3
<1>13. Addresses \subseteq Nat
  BY DEF Addresses
<1>14. \A a \in Addresses :
          mem[a] = IF n > 0 /\ at <= a /\ a < e
                   THEN Contents(d, o + (a - at)) ELSE memory[a]
  <2> TAKE a \in Addresses
  <2>1. a \in Nat
    BY <1>13
  <2>2. mem[a] = IF a \in at - m..at - 1 THEN saved[a - (at - m) + 1]
                 ELSE IF n > 0 /\ a \in at..e - 1 THEN Device(o + back + a - at)
                 ELSE memory[a]
    <3>1. BaseOf(r).back = back
      BY <1>10
    <3>2. mem[a] = IF a \in at - m..at - 1 THEN saved[a - (at - m) + 1]
                   ELSE IF n > 0 /\ a \in at..at - m + Round(m + n) - 1
                   THEN Device(o + BaseOf(r).back + a - at)
                   ELSE memory[a]
      BY <1>1, <1>4 DEF Filled
    <3> QED BY <1>5, <1>6, <3>1, <3>2
  <2>3. CASE a \in at - m..at - 1
    <3>1. at - m <= a /\ a < at
      BY <1>3, <2>1, <2>3
    <3>2. saved[a - (at - m) + 1] = memory[a]
      BY <1>12, <2>1, <3>1
    <3>3. ~(at <= a)
      BY <2>1, <3>1
    <3> QED BY <2>2, <2>3, <3>2, <3>3
  <2>4. CASE a \notin at - m..at - 1
    <3>1. a \in at..e - 1 <=> at <= a /\ a < e
      BY <2>1
    <3>2. at <= a => Device(o + back + a - at) = Contents(d, o + (a - at))
      BY <1>11, <2>1
    <3> QED BY <2>2, <2>4, <3>1, <3>2
  <2> QED BY <2>3, <2>4
<1> QED BY <1>1, <1>2, <1>6, <1>7, <1>8, <1>14 DEF Written

(* all is got, which is len long, and n units from offset o of the place d.*)
Extends(all, got, len, d, o, n) ==
    /\ Len(all) = len + n /\ \A k \in 1..len : all[k] = got[k]
    /\ \A c \in 0..n - 1 : all[len + c + 1] = Contents(d, o + c)

(* Up to the end of its 32 bytes, a read of the game writes to its buffer. *)
LEMMA GameWrites ==
    ASSUME NEW mem, NEW got, NEW len \in Nat, len = Len(got), NEW n \in Nat, NEW total,
           Fits(total), len + n <= total,
           Kept(memory, got, total), NEW h, Heard(memory, h),
           NEW d, NEW o, NEW e \in Nat, NEW at, at = BufferAt + len,
           at + n <= e, e <= BufferAt + total,
           Written(mem, d, o, at, n, e), NEW all, Extends(all, got, len, d, o, n)
    PROVE  Kept(mem, all, total) /\ Heard(mem, h)
<1> USE DEF Extends, Written
<1>1. PICK b \in Nat, s \in Nat, sec \in Nat, lo \in Nat, gr \in Nat, t \in Nat :
         /\ b = BufferAt /\ s = StreamAt /\ sec = Sector /\ lo = Longest /\ gr = Granule
         /\ t = total /\ t <= lo /\ b = gr /\ s = b + lo + gr
  BY Layout DEF Fits
<1>2. Addresses = 0..s + sec + gr - 1 /\ StreamBuffer = s..s + sec - 1
  BY <1>1 DEF Addresses, StreamBuffer
<1>3. \A a \in Addresses : a \notin b..b + t - 1 => mem[a] = memory[a]
  <2> TAKE a \in Addresses
  <2> HAVE a \notin b..b + t - 1
  <2>1. a \in Nat
    BY <1>2
  <2>2. ~(b + len <= a /\ a < e)
    BY <1>1, <2>1
  <2> QED BY <1>1, <2>2
<1>4. \A k \in 1..len : mem[b + k - 1] = got[k]
  <2> TAKE k \in 1..len
  <2>1. b + k - 1 \in Addresses /\ ~(b + len <= b + k - 1)
    BY <1>1, <1>2
  <2>2. memory[b + k - 1] = got[k]
    BY <1>1 DEF Kept
  <2> QED BY <1>1, <2>1, <2>2
<1>5. \A c \in 0..n - 1 : mem[b + (len + c + 1) - 1] = Contents(d, o + c)
  <2> TAKE c \in 0..n - 1
  <2>1. PICK a \in Nat : a = b + (len + c + 1) - 1
    BY <1>1
  <2>2. a \in Addresses /\ b + len <= a /\ a < e /\ n > 0 /\ a - (b + len) = c
    BY <1>1, <1>2, <2>1
  <2> QED BY <1>1, <2>1, <2>2
<1>6. \A k \in 1..Len(all) : mem[BufferAt + k - 1] = all[k]
  <2> TAKE k \in 1..Len(all)
  <2>1. CASE k \in 1..len
    BY <1>1, <1>4, <2>1
  <2>2. CASE k \notin 1..len
    <3>1. k - len - 1 \in 0..n - 1 /\ k = len + (k - len - 1) + 1
      BY <2>2
    <3> QED BY <1>1, <1>5, <3>1
  <2> QED BY <2>1, <2>2
<1>7. \A a \in Addresses \ (BufferAt..BufferAt + total - 1 \cup StreamBuffer) : mem[a] = Own
  BY <1>1, <1>3 DEF Kept
<1>8. Heard(mem, h)
  <2> SUFFICES ASSUME h # None, NEW i \in 0..Sector - 1
               PROVE  mem[StreamAt + i] = Contents(h.data, h.offset + i)
    BY DEF Heard
  <2>1. memory[StreamAt + i] = Contents(h.data, h.offset + i)
    BY DEF Heard
  <2>2. s + i \in Addresses /\ s + i \notin b..b + t - 1
    BY <1>1, <1>2
  <2> QED BY <1>1, <1>3, <2>1, <2>2
<1> QED BY <1>6, <1>7, <1>8 DEF Kept

(* The streamer's block is written to its own buffer. *)
LEMMA StreamWrites ==
    ASSUME NEW r, StreamRequest(r), Ready(r, base, saved, memory), NEW mem, mem = Filled(r),
           NEW got, Len(got) \in Nat, NEW total, Fits(total), Len(got) <= total,
           Kept(memory, got, total)
    PROVE  Kept(mem, got, total) /\ Heard(mem, r)
<1>1. PICK b \in Nat, s \in Nat, sec \in Nat \ {0}, lo \in Nat, gr \in Nat \ {0}, t \in Nat :
         /\ b = BufferAt /\ s = StreamAt /\ sec = Sector /\ lo = Longest /\ gr = Granule
         /\ t = total /\ t <= lo /\ b = gr /\ s = b + lo + gr
         /\ s % gr = 0 /\ sec % gr = 0
  BY Layout DEF Fits
<1>2. Addresses = 0..s + sec + gr - 1 /\ StreamBuffer = s..s + sec - 1
  BY <1>1 DEF Addresses, StreamBuffer
<1>3. r \in Requests /\ r.at = s /\ r.size = sec /\ Misalign(r) = 0 /\ sec < Word - gr
  BY <1>1 DEF StreamRequest, Misalign
<1>4. Misalign(r) + r.size + Granule - 1 < Word
  <2>1. Word \in Nat
    BY Layout
  <2> QED BY <1>1, <1>3, <2>1
<1>5. PICK e \in Nat :
         /\ e % gr = 0 /\ s + sec <= e /\ e <= s + sec + gr - 1
         /\ \A a \in Addresses :
               mem[a] = IF sec > 0 /\ s <= a /\ a < e
                        THEN Contents(r.data, r.offset + (a - s)) ELSE memory[a]
  <2>1. PICK e \in Nat :
           /\ e % Granule = 0 /\ r.at + r.size <= e /\ e <= r.at + r.size + Granule - 1
           /\ Written(mem, r.data, r.offset, r.at, r.size, e)
    BY <1>3, <1>4, Transferred
  <2>2. /\ e % gr = 0 /\ s + sec <= e /\ e <= s + sec + gr - 1
        /\ \A a \in Addresses :
              mem[a] = IF sec > 0 /\ s <= a /\ a < e
                       THEN Contents(r.data, r.offset + (a - s)) ELSE memory[a]
    BY <1>1, <1>3, <2>1 DEF Written
  <2> QED BY <2>2
<1>6. e = s + sec
  <2>1. (s + sec) % gr = 0
    <3>1. s \in Int /\ sec \in Int
      OBVIOUS
    <3> QED BY <1>1, <3>1, SumOfMultiples
  <2>2. (e - (s + sec)) % gr = 0
    <3>1. e \in Int /\ s + sec \in Int
      OBVIOUS
    <3> QED BY <1>5, <2>1, <3>1, SumOfMultiples
  <2>3. e - (s + sec) \in Int /\ e - (s + sec) <= gr - 1
    BY <1>5
  <2>4. e - (s + sec) <= 0
    BY <2>2, <2>3, NoMultipleBetween
  <2> QED BY <1>5, <2>4
<1>7. \A a \in Addresses : a \notin s..s + sec - 1 => mem[a] = memory[a]
  BY <1>2, <1>5, <1>6
<1>8. \A a \in Addresses \ (BufferAt..BufferAt + total - 1 \cup StreamBuffer) : mem[a] = Own
  BY <1>2, <1>7 DEF Kept
<1>9. \A k \in 1..Len(got) : mem[BufferAt + k - 1] = got[k]
  <2> TAKE k \in 1..Len(got)
  <2>1. b + k - 1 \in Addresses /\ b + k - 1 \notin s..s + sec - 1
    BY <1>1, <1>2
  <2>2. memory[b + k - 1] = got[k]
    BY <1>1 DEF Kept
  <2> QED BY <1>1, <1>7, <2>1, <2>2
<1>10. \A i \in 0..sec - 1 : mem[s + i] = Contents(r.data, r.offset + i)
  <2> TAKE i \in 0..sec - 1
  <2>1. s + i \in Addresses /\ s <= s + i /\ s + i < e /\ (s + i) - s = i
    BY <1>1, <1>2, <1>6
  <2> QED BY <1>5, <2>1
<1> QED BY <1>1, <1>8, <1>9, <1>10 DEF Kept, Heard

-----------------------------------------------------------------------------
(* The driver *)

LEMMA ReadyAfter ==
    ASSUME NEW r, NEW mem, mem = memory', ReadQueued(r, memory')
    PROVE  Ready(r, base', saved', mem)
  BY DEF ReadQueued, Told, Ready

(* For the streamer nothing is saved. *)
LEMMA ReadyStream ==
    ASSUME NEW r, StreamRequest(r), NEW b, NEW s, NEW mem, NEW new, Ready(r, b, s, mem)
    PROVE  Ready(r, b, s, new)
<1>1. Misalign(r) = 0
  BY Layout DEF StreamRequest, Misalign
<1> QED BY <1>1 DEF Ready

(* The driver's part of the invariant, for the values its variables get.   *)
LEMMA DriverNext ==
    ASSUME streaming' = streaming, NEW p, p = queue', NEW k, k = queued',
           NEW mem, mem = memory', NEW h, h = GameRequest',
           QueueIs(p, h), Serves(k, p), k # None => Ready(p[k], base', saved', mem)
    PROVE  /\ QueueIs(queue, GameRequest)' /\ Serves(queued, queue)'
           /\ (queued # None => Ready(queue[queued], base, saved, memory))'
<1>1. Slots' = Slots
  BY DEF Slots
<1>2. QueueIs(queue, GameRequest)'
  BY <1>1 DEF QueueIs
<1>3. Serves(queued, queue)'
  BY <1>1 DEF Serves
<1>4. (queued # None => Ready(queue[queued], base, saved, memory))'
  BY DEF Ready
<1> QED BY <1>2, <1>3, <1>4

LEMMA Submitted ==
    ASSUME streaming \in BOOLEAN,
           NEW g \in Requests \cup {None}, g # None => g.client = "dvd",
           NEW q, q = queue, QueueIs(q, g), Serves(queued, q), NEW mem, mem = memory',
           queued # None => Ready(q[queued], base, saved, mem),
           NEW r \in Requests, Submit(r),
           NEW h, (h = r /\ g = None) \/ (h = g /\ streaming /\ StreamRequest(r)),
           \A j \in Slots : q[j] # None => q[j].client # r.client,
           NEW p, p = queue', NEW k, k = queued'
    PROVE  QueueIs(p, h) /\ Serves(k, p) /\ (k # None => Ready(p[k], base', saved', mem))
<1>1. PICK i \in Slots : q[i] = None /\ i = Min(Free(q)) /\ Push(q, r) = [q EXCEPT ![i] = r]
  BY Pushed
<1>2. p = [q EXCEPT ![i] = r]
  BY <1>1 DEF Submit
<1>3. QueueIs(p, h)
  <2>1. QueueIs([q EXCEPT ![i] = r], h)
    <3>1. (h = r /\ g = None) \/ (h = g /\ streaming /\ StreamRequest(r))
      OBVIOUS
    <3>2. \A j \in Slots : q[j] # None => q[j].client # r.client
      OBVIOUS
    <3>3. q[i] = None /\ i \in Slots /\ r \in Requests /\ QueueIs(q, g)
      BY <1>1
    <3> QED BY <3>1, <3>2, <3>3, WithOneMore, Zenon
  <2> QED BY <1>2, <2>1
<1>4. q \in [1..3 -> Requests \cup {None}] /\ Slots \subseteq 1..3
  BY DEF QueueIs, Slots
<1>5. p[i] = r /\ r # None /\ i # None /\ \A j \in Slots : j # i => p[j] = q[j]
  BY <1>1, <1>2, <1>4, WkfReadAssumption, SlotsAre
<1>6. CASE queued = None
  <2>1. k = i /\ ReadQueued(r, memory')
    BY <1>1, <1>6 DEF Submit
  <2>2. Ready(r, base', saved', mem)
    BY <2>1, ReadyAfter
  <2>3. Serves(i, p)
    BY <1>5 DEF Serves
  <2> QED BY <1>3, <1>5, <2>1, <2>2, <2>3
<1>7. CASE queued # None
  <2>1. k = queued /\ base' = base /\ saved' = saved
    BY <1>7 DEF Submit
  <2>2. queued \in Slots /\ q[queued] # None
    BY <1>7 DEF Serves
  <2>3. queued # i /\ p[queued] = q[queued]
    BY <1>1, <1>5, <2>2
  <2>4. Serves(queued, p)
    BY <1>7, <2>2, <2>3 DEF Serves
  <2>5. Ready(p[queued], base, saved, mem)
    BY <1>7, <2>3
  <2> QED BY <1>3, <1>7, <2>1, <2>4, <2>5
<1> QED BY <1>6, <1>7

LEMMA Released ==
    ASSUME streaming \in BOOLEAN, NEW q, Release(q), NEW mem, mem = memory',
           NEW h, QueueIs([q EXCEPT ![queued] = None], h),
           NEW p, p = queue', NEW k, k = queued'
    PROVE  QueueIs(p, h) /\ Serves(k, p) /\ (k # None => Ready(p[k], base', saved', mem))
<1>1. p = [q EXCEPT ![queued] = None] /\ k = Following(p)
  BY DEF Release
<1>2. Serves(k, p)
  BY <1>1, FollowingIs
<1>3. ASSUME k # None PROVE Ready(p[k], base', saved', mem)
  <2>1. ReadQueued(p[k], memory')
    BY <1>3 DEF Release
  <2> QED BY <2>1, ReadyAfter
<1> QED BY <1>1, <1>2, <1>3

(* A piece that is scheduled is one. *)
LEMMA ScheduledIs ==
    ASSUME NEW file, NEW length, NEW x, Schedule(file, length, x),
           NEW p, p = piece', p.size \in Nat, p.offset \in Nat, p.data \in Place
    PROVE  p # None
<1>1. \E o, d, n : p = [offset |-> o, data |-> d, size |-> n]
  <2>1. \E o, d, n : FragGet(file, x, length) = [offset |-> o, data |-> d, size |-> n]
    BY DEF FragGet
  <2>2. PICK n : p = [FragGet(file, x, length) EXCEPT !.size = n]
    BY DEF Schedule
  <2> QED BY <2>1, <2>2
<1>2. p \in [offset : Nat, data : Places, size : Nat]
  BY <1>1, PlaceIs
<1> QED BY <1>2, WkfReadAssumption

LEMMA RequestIs ==
    ASSUME NEW p, p.size \in Nat, p.offset \in Nat, p.data \in Place, NEW done \in Nat,
           NEW r, r = Request(p, done)
    PROVE  /\ r \in Requests /\ r.client = "dvd" /\ r.at = BufferAt + done
           /\ r.size = p.size /\ r.offset = p.offset /\ r.data = p.data
<1>1. PICK b \in Nat : b = BufferAt
  BY Layout
<1>2. r = [client |-> "dvd", data |-> p.data, offset |-> p.offset, size |-> p.size,
           at |-> b + done]
  BY <1>1 DEF Request
<1>3. p.data \in Places /\ b + done \in Nat
  BY PlaceIs
<1> QED BY <1>1, <1>2, <1>3 DEF Requests

LEMMA GameRequestIs ==
    ASSUME IInv
    PROVE  /\ GameRequest \in Requests \cup {None}
           /\ GameRequest # None =>
                 /\ dvd.read /\ ~OnCard(piece) /\ GameRequest = Request(piece, Len(dvd.got))
                 /\ GameRequest.client = "dvd"
           /\ dvd.read /\ ~OnCard(piece) =>
                 GameRequest # None /\ GameRequest = Request(piece, Len(dvd.got))
<1>1. Len(dvd.got) \in Nat
  BY LenProperties DEF IInv
<1>2. CASE dvd.read /\ ~OnCard(piece)
  <2>1. piece.size \in Nat /\ piece.offset \in Nat /\ piece.data \in Place
    <3>1. dvd.length \in Nat
      BY DEF IInv
    <3> QED BY <1>2, <3>1 DEF IInv, GoodPiece
  <2>2. GameRequest = Request(piece, Len(dvd.got))
    BY <1>2 DEF GameRequest
  <2>3. GameRequest \in Requests /\ GameRequest.client = "dvd"
    BY <1>1, <2>1, <2>2, RequestIs
  <2> QED BY <1>2, <2>2, <2>3, WkfReadAssumption
<1>3. CASE ~(dvd.read /\ ~OnCard(piece))
  BY <1>3 DEF GameRequest
<1> QED BY <1>2, <1>3

(* What the streamer asks for. *)
LEMMA StreamRequestIs ==
    ASSUME IInv, NEW r \in StreamRequests
    PROVE  StreamRequest(r)
<1>1. PICK x \in Image(disc) :
         /\ x + Sector - 1 \in Image(disc)
         /\ r = [client |-> "dtk", data |-> FragGet(disc, x, Sector).data,
                 offset |-> FragGet(disc, x, Sector).offset, size |-> Sector, at |-> StreamAt]
  BY DEF StreamRequests
<1>2. setup \in Setups /\ frags = Table(setup) /\ disc \in Files
  BY DEF IInv
<1>3. x \in Nat /\ Sector \in Nat \ {0} /\ StreamAt \in Nat
  BY <1>1, <1>2, ImageIs, Layout
<1>4. PICK g : g = FragGet(disc, x, Sector) /\ g.offset \in Nat /\ g.data \in Place
  BY <1>1, <1>2, <1>3, PieceIsRight
<1>5. r \in Requests
  BY <1>1, <1>3, <1>4, PlaceIs DEF Requests
<1>6. Sector < Word - Granule
  <2>1. \E a, b \in Int : Image(disc) = a..b
    <3>1. setup.disc1 \in Runs /\ setup.disc2 \in Runs /\ setup.apploader \in Runs
          /\ ApploaderAt \in Nat
      BY <1>2, DiscReadAssumption DEF Setup
    <3>2. PICK t1 \in Nat, t2 \in Nat, t3 \in Nat :
             t1 = Total(setup.disc1) /\ t2 = Total(setup.disc2) /\ t3 = Total(setup.apploader)
      BY <3>1, TotalIs
    <3> QED BY <3>1, <3>2 DEF Image
  <2>2. x..x + Sector - 1 \subseteq Image(disc)
    BY <1>1, <1>3, <2>1
  <2> QED BY <1>2, <1>3, <2>2, ReadIsShort
<1> QED BY <1>1, <1>5, <1>6 DEF StreamRequest

-----------------------------------------------------------------------------
(* The steps *)

LEMMA WInitInv == WkfInit /\ IInv => WInv
<1> SUFFICES ASSUME WkfInit, IInv PROVE WInv
  OBVIOUS
<1>1. PICK nil : nil = dvd.got /\ nil = <<>> /\ Len(nil) = 0 /\ dvd.length = 0 /\ ~dvd.read
  <2>1. dvd.got = <<>> /\ dvd.length = 0 /\ dvd.read = FALSE
    BY DEF WkfInit, Init, NoRead
  <2>2. PICK nil : nil = <<>>
    OBVIOUS
  <2>3. Len(nil) = 0
    BY <2>2
  <2> QED BY <2>1, <2>2, <2>3
<1>2. streaming \in BOOLEAN /\ heard = None
  BY DEF WkfInit
<1>3. GameRequest = None
  BY <1>1 DEF GameRequest
<1>4. PICK q : q = queue /\ q = [i \in 1..3 |-> None]
  BY DEF WkfInit
<1>5. \A i \in Slots : q[i] = None
  BY <1>2, <1>4, SlotsAre
<1>6. QueueIs(q, None) /\ Serves(None, q)
  BY <1>4, <1>5 DEF QueueIs, Serves
<1>7. queued = None
  BY DEF WkfInit
<1>8. Fits(Wanted)
  <2>1. Wanted = 0
    BY <1>1 DEF Wanted
  <2>2. 0 % Granule = 0 /\ 0 <= Longest
    BY Layout
  <2>3. 0 < Word - Granule
    <3>1. setup \in Setups /\ setup.disc1 \in Runs /\ Total(setup.disc1) < Word - Granule
      BY DiscReadAssumption DEF IInv, Setup
    <3>2. Total(setup.disc1) \in Nat
      BY <3>1, TotalIs
    <3> QED BY <3>1, <3>2, Layout
  <2> QED BY <2>1, <2>2, <2>3 DEF Fits
<1>9. Kept(memory, nil, Wanted)
  <2>1. \A a \in Addresses : memory[a] = Own
    BY DEF WkfInit
  <2> QED BY <1>1, <2>1 DEF Kept
<1>10. Heard(memory, heard)
  BY <1>2 DEF Heard
<1> QED BY <1>1, <1>2, <1>3, <1>4, <1>6, <1>7, <1>8, <1>9, <1>10 DEF WInv

(* Entries for the streamer alone, or for the game.                        *)
LEMMA OnlyStream ==
    ASSUME NEW q, QueueIs(q, None)
    PROVE  \A j \in Slots : q[j] # None => q[j].client # "dvd" /\ StreamRequest(q[j])
  BY DEF QueueIs, StreamRequest

LEMMA WReadStep ==
    ASSUME IInv, IInv', WInv, NEW length \in Lengths, NEW offset \in Image(disc),
           Read(length, offset)
    PROVE  WInv'
<1>1. /\ ~dvd.read /\ setup' = setup /\ streaming' = streaming /\ heard' = heard
      /\ streaming \in BOOLEAN
  BY DEF Read, PerformRead, WInv
<1>2. PICK nil : nil = dvd'.got /\ nil = <<>> /\ Len(nil) = 0
  <2>1. dvd'.got = <<>>
    BY DEF Read, PerformRead
  <2>2. PICK nil : nil = <<>>
    OBVIOUS
  <2>3. Len(nil) = 0
    BY <2>2
  <2> QED BY <2>1, <2>2, <2>3
<1>3. dvd'.length = length /\ dvd'.read /\ length \in Nat /\ length % Granule = 0
  BY DiscReadAssumption DEF Read, PerformRead
<1>4. Wanted' = length
  BY <1>2, <1>3 DEF Wanted
<1>5. Fits(length)
  <2>1. length <= Longest
    BY WkfReadAssumption
  <2>2. PICK file : file = Redirected(offset) /\ offset..offset + length - 1 \subseteq Image(file)
    BY DEF Read, PerformRead
  <2>3. setup \in Setups /\ disc \in Files /\ file \in Files
    BY <2>2 DEF IInv, Redirected, Files
  <2>4. offset \in Nat
    BY <2>3, ImageIs
  <2>5. length < Word - Granule
    BY <1>3, <2>2, <2>3, <2>4, ReadIsShort
  <2> QED BY <1>3, <2>1, <2>5 DEF Fits
<1>6. PICK mem : /\ mem = memory'
                 /\ mem = [a \in Addresses |-> IF a \in StreamBuffer THEN memory[a] ELSE Own]
  BY DEF Read
<1>7. Kept(mem, nil, length)
  BY <1>2, <1>6 DEF Kept
<1>8. PICK hd : hd = heard
  OBVIOUS
<1>9. Heard(mem, hd)
  <2> SUFFICES ASSUME hd # None, NEW i \in 0..Sector - 1
               PROVE  mem[StreamAt + i] = Contents(hd.data, hd.offset + i)
    BY DEF Heard
  <2>1. memory[StreamAt + i] = Contents(hd.data, hd.offset + i)
    BY <1>8 DEF WInv, Heard
  <2>2. StreamAt + i \in Addresses /\ StreamAt + i \in StreamBuffer
    BY Layout DEF Addresses, StreamBuffer
  <2> QED BY <1>6, <2>1, <2>2
<1>10. PICK q, h, p, k : q = queue /\ h = GameRequest' /\ p = queue' /\ k = queued'
  OBVIOUS
<1>11. QueueIs(q, None) /\ Serves(queued, q)
  BY <1>1, <1>10 DEF WInv, GameRequest
<1>12. ASSUME queued # None PROVE Ready(q[queued], base, saved, mem)
  <2>1. StreamRequest(q[queued])
    BY <1>11, <1>12, OnlyStream DEF Serves
  <2>2. Ready(q[queued], base, saved, memory)
    BY <1>10, <1>12 DEF WInv
  <2> QED BY <2>1, <2>2, ReadyStream
<1>13. QueueIs(p, h) /\ Serves(k, p) /\ (k # None => Ready(p[k], base', saved', mem))
  <2>1. CASE OnCard(piece')
    <3>1. h = None
      BY <1>10, <2>1 DEF GameRequest
    <3>2. p = q /\ k = queued /\ base' = base /\ saved' = saved
      BY <1>10, <2>1 DEF Read, wkf
    <3> QED BY <1>11, <1>12, <3>1, <3>2
  <2>2. CASE ~OnCard(piece')
    <3>1. PICK r : r = Request(piece', 0) /\ Submit(r)
      BY <2>2 DEF Read
    <3>2. piece'.size \in Nat /\ piece'.offset \in Nat /\ piece'.data \in Place
      BY <1>3 DEF IInv, GoodPiece
    <3>3. PICK pc : pc = piece'
      OBVIOUS
    <3>4. r \in Requests /\ r.client = "dvd"
      BY <3>1, <3>2, <3>3, RequestIs
    <3>5. h = r
      BY <1>2, <1>3, <1>10, <2>2, <3>1 DEF GameRequest
    <3>6. \A j \in Slots : q[j] # None => q[j].client # r.client
      BY <1>11, <3>4, OnlyStream
    <3>7. PICK g : g = None
      OBVIOUS
    <3>8. g \in Requests \cup {None} /\ (g # None => g.client = "dvd") /\ QueueIs(q, g)
      BY <1>11, <3>7
    <3>9. (h = r /\ g = None) \/ (h = g /\ streaming /\ StreamRequest(r))
      BY <3>5, <3>7
    <3> QED BY <1>1, <1>6, <1>10, <1>11, <1>12, <3>1, <3>4, <3>6, <3>8, <3>9, Submitted
  <2> QED BY <2>1, <2>2
<1>14. /\ QueueIs(queue, GameRequest)' /\ Serves(queued, queue)'
       /\ (queued # None => Ready(queue[queued], base, saved, memory))'
  BY <1>1, <1>6, <1>10, <1>13, DriverNext
<1>15. Heard(memory, heard)'
  <2>1. Heard(mem, hd)'
    BY <1>1, <1>9, HeardKept
  <2> QED BY <1>1, <1>6, <1>8, <2>1
<1> QED BY <1>1, <1>2, <1>4, <1>5, <1>6, <1>7, <1>14, <1>15 DEF WInv

LEMMA WFillStep ==
    ASSUME IInv, WInv, Fill
    PROVE  WInv'
<1>1. /\ streaming /\ streaming' = streaming /\ UNCHANGED vars /\ memory' = memory
      /\ heard' = heard /\ \A i \in Slots : queue[i] # None => queue[i].client = "dvd"
      /\ streaming \in BOOLEAN
  BY DEF Fill, WInv
<1>2. PICK r \in StreamRequests : Submit(r)
  BY DEF Fill
<1>3. StreamRequest(r) /\ r \in Requests /\ r.client = "dtk"
  BY <1>2, StreamRequestIs DEF StreamRequest
<1>4. PICK g, q, mem, p, k :
         g = GameRequest /\ q = queue /\ mem = memory /\ p = queue' /\ k = queued'
  OBVIOUS
<1>5. g \in Requests \cup {None} /\ (g # None => g.client = "dvd")
  BY <1>4, GameRequestIs
<1>6. QueueIs(q, g) /\ Serves(queued, q) /\ (queued # None => Ready(q[queued], base, saved, mem))
  BY <1>4 DEF WInv
<1>7. \A j \in Slots : q[j] # None => q[j].client # r.client
  BY <1>1, <1>3, <1>4
<1>8. QueueIs(p, g) /\ Serves(k, p) /\ (k # None => Ready(p[k], base', saved', mem))
  BY <1>1, <1>2, <1>3, <1>4, <1>5, <1>6, <1>7, Submitted
<1>9. GameRequest' = GameRequest
  BY <1>1 DEF GameRequest, vars
<1>10. /\ QueueIs(queue, GameRequest)' /\ Serves(queued, queue)'
       /\ (queued # None => Ready(queue[queued], base, saved, memory))'
  BY <1>1, <1>4, <1>8, <1>9, DriverNext
<1>11. PICK hd : hd = heard
  OBVIOUS
<1>12. Heard(memory, heard)'
  <2>1. Heard(mem, hd)' = Heard(mem, hd)
    BY <1>1, HeardKept DEF vars
  <2> QED BY <1>1, <1>4, <1>11, <2>1 DEF WInv
<1>13. dvd' = dvd
  BY <1>1 DEF vars
<1>14. Wanted' = Wanted
  BY <1>13 DEF Wanted
<1> QED BY <1>1, <1>10, <1>12, <1>13, <1>14 DEF WInv

(* What a callback of the game's read does. *)
CallsBack(n, got, all, len, p) ==
    /\ dvd.read /\ setup' = setup
    /\ n \in Nat /\ n <= dvd.length /\ len \in Nat /\ dvd.length \in Nat
    /\ piece.offset \in Nat /\ piece.data \in Place
    /\ Extends(all, got, len, piece.data, piece.offset, n)
    /\ Wanted' = Wanted /\ Wanted = dvd.length + len
    /\ IF dvd'.read
       THEN p # None /\ p.size \in Nat /\ p.offset \in Nat /\ p.data \in Place
       ELSE p = None

LEMMA CallbackIs ==
    ASSUME IInv, IInv', ReadCallback, NEW n, n = piece.size, NEW got, got = dvd.got,
           NEW all, all = dvd'.got, NEW len, len = Len(got), NEW p, p = piece'
    PROVE  CallsBack(n, got, all, len, p)
<1>1. setup' = setup /\ piece # None /\ dvd.read
  BY DEF ReadCallback, IInv
<1>2. n \in 0..dvd.length /\ piece.offset \in Nat /\ piece.data \in Place
  BY <1>1 DEF IInv, GoodPiece
<1>3. dvd.length \in Nat /\ got \in Seq(Place \cup {None}) /\ len \in Nat
  BY LenProperties DEF IInv
<1>4. PICK new : new = [k \in 1..n |-> Contents(piece.data, piece.offset + k - 1)]
  OBVIOUS
<1>5. all = got \o new /\ dvd'.length = dvd.length - n /\ dvd'.read = (dvd.length # n)
  <2>1. PICK l, x, a : l = dvd.length - n /\ x = dvd.offset + n /\ a = got \o new
    OBVIOUS
  <2>2. PICK rd \in BOOLEAN : rd = (dvd.length # n)
    OBVIOUS
  <2>3. dvd' = [dvd EXCEPT !.length = l, !.offset = x, !.read = rd, !.got = a]
    BY <1>4, <2>1, <2>2 DEF ReadCallback
  <2>4. dvd \in [length : Nat, offset : Nat, read : BOOLEAN, disc : Files \cup {None},
                 start : Nat, got : Seq(Place \cup {None})]
    BY DEF IInv
  <2>5. PICK e : e = [dvd EXCEPT !.length = l, !.offset = x, !.read = rd, !.got = a]
    OBVIOUS
  <2>6. e.length = l /\ e.read = rd /\ e.got = a
    BY <2>4, <2>5
  <2> QED BY <2>1, <2>2, <2>3, <2>5, <2>6
<1>6. new \in Seq(Place \cup {None}) /\ Len(new) = n
  <2>1. PICK pd \in Place, po \in Nat : pd = piece.data /\ po = piece.offset
    BY <1>2
  <2>2. n \in Nat
    BY <1>2, <1>3
  <2>3. \A k \in 1..n : Contents(pd, po + k - 1) \in Place \cup {None}
    <3> TAKE k \in 1..n
    <3>1. po + k - 1 \in Nat
      BY <2>2
    <3> QED BY <3>1, ContentsType
  <2>4. new \in [1..n -> Place \cup {None}]
    BY <1>4, <2>1, <2>3
  <2> QED BY <2>2, <2>4
<1>7. /\ Len(all) = len + n /\ \A k \in 1..len : all[k] = got[k]
      /\ \A k \in 1..n : all[len + k] = new[k]
  <2>1. PICK S : S = Place \cup {None}
    OBVIOUS
  <2>2. got \in Seq(S) /\ new \in Seq(S)
    BY <1>3, <1>6, <2>1
  <2>3. /\ Len(got \o new) = Len(got) + Len(new)
        /\ \A i \in 1..Len(got) : (got \o new)[i] = got[i]
        /\ \A i \in 1..Len(new) : (got \o new)[Len(got) + i] = new[i]
    BY <2>2, Joined
  <2> QED BY <1>5, <1>6, <2>3
<1>8. \A c \in 0..n - 1 : all[len + c + 1] = Contents(piece.data, piece.offset + c)
  <2> TAKE c \in 0..n - 1
  <2>1. PICK k \in 1..n : k = c + 1 /\ len + c + 1 = len + k
    BY <1>2, <1>3
  <2>2. PICK po \in Nat : po = piece.offset
    BY <1>2
  <2>3. po + k - 1 = po + c
    BY <1>2, <1>3, <2>1
  <2> QED BY <1>4, <1>7, <2>1, <2>2, <2>3
<1>9. Wanted' = Wanted /\ Wanted = dvd.length + len
  BY <1>2, <1>3, <1>5, <1>7 DEF Wanted
<1>10. Extends(all, got, len, piece.data, piece.offset, n)
  BY <1>7, <1>8 DEF Extends
<1>11. n \in Nat /\ n <= dvd.length
  BY <1>2, <1>3
<1>12. CASE dvd'.read
  <2>1. p.size \in Nat /\ p.offset \in Nat /\ p.data \in Place
    <3>1. dvd'.length \in Nat
      BY DEF IInv
    <3> QED BY <1>12, <3>1 DEF IInv, GoodPiece
  <2>2. PICK f, l, x : Schedule(f, l, x)
    BY <1>5, <1>12 DEF ReadCallback
  <2>3. p # None
    BY <2>1, <2>2, ScheduledIs
  <2> QED BY <1>1, <1>2, <1>3, <1>9, <1>12, <1>10, <1>11, <2>1, <2>3 DEF CallsBack
<1>13. CASE ~(dvd'.read)
  <2>1. p = None
    BY <1>13 DEF IInv
  <2> QED BY <1>1, <1>2, <1>3, <1>9, <1>13, <1>10, <1>11, <2>1 DEF CallsBack
<1> QED BY <1>12, <1>13

LEMMA WCardDoneStep ==
    ASSUME IInv, IInv', WInv, CardDone
    PROVE  WInv'
<1>1. /\ streaming' = streaming /\ heard' = heard /\ OnCard(piece) /\ ReadCallback
      /\ streaming \in BOOLEAN
  BY DEF CardDone, WInv
<1>2. PICK n, got, all, len, p :
         n = piece.size /\ got = dvd.got /\ all = dvd'.got /\ len = Len(got) /\ p = piece'
  OBVIOUS
<1>3. /\ dvd.read /\ setup' = setup
      /\ n \in Nat /\ n <= dvd.length /\ len \in Nat /\ dvd.length \in Nat
      /\ piece.offset \in Nat /\ piece.data \in Place
      /\ Extends(all, got, len, piece.data, piece.offset, n) /\ Len(all) = len + n
      /\ Wanted' = Wanted /\ Wanted = dvd.length + len
      /\ IF dvd'.read
         THEN p # None /\ p.size \in Nat /\ p.offset \in Nat /\ p.data \in Place
         ELSE p = None
  <2>1. CallsBack(n, got, all, len, p)
    BY <1>1, <1>2, CallbackIs
  <2> QED BY <2>1 DEF CallsBack, Extends
<1>4. PICK mem, hd, total, d, o :
         /\ mem = memory' /\ hd = heard /\ total = Wanted /\ d = piece.data /\ o = piece.offset
         /\ o \in Nat
  BY <1>3
<1>5. Fits(total) /\ Kept(memory, got, total) /\ Heard(memory, hd)
  BY <1>2, <1>4 DEF WInv
<1>6. PICK b \in Nat, at \in Nat : b = BufferAt /\ at = b + len
  BY <1>3, Layout
<1>7. PICK e \in Nat : e = at + n /\ at + n <= e /\ e <= BufferAt + total /\ len + n <= total
  <2>1. at + n \in Nat /\ at + n <= b + total /\ len + n <= total
    BY <1>3, <1>4, <1>6
  <2> QED BY <1>6, <2>1
<1>8. Written(mem, d, o, at, n, e)
  <2>1. mem = [a \in Addresses |->
                  IF a \in at..at + n - 1 THEN Contents(d, o + a - at) ELSE memory[a]]
    BY <1>2, <1>4, <1>6 DEF CardDone
  <2>2. SUFFICES ASSUME NEW a \in Addresses
                 PROVE  mem[a] = IF n > 0 /\ at <= a /\ a < e
                                 THEN Contents(d, o + (a - at)) ELSE memory[a]
    BY DEF Written
  <2>3. a \in Nat
    BY DEF Addresses
  <2>4. a \in at..at + n - 1 <=> n > 0 /\ at <= a /\ a < e
    BY <1>3, <1>7, <2>3
  <2>5. o + a - at = o + (a - at)
    BY <1>4, <2>3
  <2> QED BY <2>1, <2>4, <2>5
<1>9. Kept(mem, all, total) /\ Heard(mem, hd)
  <2>1. Extends(all, got, len, d, o, n)
    BY <1>3, <1>4
  <2>2. at = BufferAt + len
    BY <1>6
  <2> QED BY <1>2, <1>3, <1>5, <1>7, <1>8, <2>1, <2>2, GameWrites
<1>10. PICK q, h, pq, k : q = queue /\ h = GameRequest' /\ pq = queue' /\ k = queued'
  OBVIOUS
<1>11. QueueIs(q, None) /\ Serves(queued, q)
  <2>1. GameRequest = None
    BY <1>1 DEF GameRequest
  <2> QED BY <1>10, <2>1 DEF WInv
<1>12. ASSUME queued # None PROVE Ready(q[queued], base, saved, mem)
  <2>1. StreamRequest(q[queued])
    BY <1>11, <1>12, OnlyStream DEF Serves
  <2>2. Ready(q[queued], base, saved, memory)
    BY <1>10, <1>12 DEF WInv
  <2> QED BY <2>1, <2>2, ReadyStream
<1>13. QueueIs(pq, h) /\ Serves(k, pq) /\ (k # None => Ready(pq[k], base', saved', mem))
  <2>1. CASE p = None \/ OnCard(p)
    <3>1. h = None
      BY <1>2, <1>3, <1>10, <2>1 DEF GameRequest
    <3>2. pq = q /\ k = queued /\ base' = base /\ saved' = saved
      BY <1>2, <1>10, <2>1 DEF CardDone, wkf
    <3> QED BY <1>11, <1>12, <3>1, <3>2
  <2>2. CASE ~(p = None \/ OnCard(p))
    <3>1. PICK r : r = Request(p, Len(all)) /\ Submit(r)
      BY <1>2, <2>2 DEF CardDone
    <3>2. dvd'.read /\ Len(all) \in Nat
      BY <1>3, <2>2
    <3>3. r \in Requests /\ r.client = "dvd"
      BY <1>3, <3>1, <3>2, RequestIs
    <3>4. h = r
      BY <1>2, <1>10, <2>2, <3>1, <3>2 DEF GameRequest
    <3>5. \A j \in Slots : q[j] # None => q[j].client # r.client
      BY <1>11, <3>3, OnlyStream
    <3>6. PICK g : g = None
      OBVIOUS
    <3>7. g \in Requests \cup {None} /\ (g # None => g.client = "dvd") /\ QueueIs(q, g)
      BY <1>11, <3>6
    <3>8. (h = r /\ g = None) \/ (h = g /\ streaming /\ StreamRequest(r))
      BY <3>4, <3>6
    <3> QED BY <1>1, <1>4, <1>10, <1>11, <1>12, <3>1, <3>3, <3>5, <3>7, <3>8, Submitted
  <2> QED BY <2>1, <2>2
<1>14. /\ QueueIs(queue, GameRequest)' /\ Serves(queued, queue)'
       /\ (queued # None => Ready(queue[queued], base, saved, memory))'
  BY <1>1, <1>4, <1>10, <1>13, DriverNext
<1>15. Heard(memory, heard)'
  <2>1. Heard(mem, hd)'
    BY <1>3, <1>9, HeardKept
  <2> QED BY <1>1, <1>4, <2>1
<1> QED BY <1>1, <1>2, <1>3, <1>4, <1>5, <1>9, <1>14, <1>15 DEF WInv

(* Where the drive's writing for the game ends: in the buffer.             *)
LEMMA EndsInBuffer ==
    ASSUME NEW total, Fits(total), NEW len \in Nat, NEW n \in Nat, len + n <= total,
           NEW at, at = BufferAt + len, NEW e \in Nat, e % Granule = 0,
           e <= at + n + Granule - 1
    PROVE  e <= BufferAt + total
<1>1. PICK b \in Nat, gr \in Nat \ {0}, t \in Nat :
         b = BufferAt /\ gr = Granule /\ t = total /\ b % gr = 0 /\ t % gr = 0
  BY Layout DEF Fits
<1>2. (b + t) % gr = 0
  <2>1. b \in Int /\ t \in Int
    OBVIOUS
  <2> QED BY <1>1, <2>1, SumOfMultiples
<1>3. (e - (b + t)) % gr = 0
  <2>1. e \in Int /\ b + t \in Int
    OBVIOUS
  <2> QED BY <1>1, <1>2, <2>1, SumOfMultiples
<1>4. e - (b + t) \in Int /\ e - (b + t) <= gr - 1
  BY <1>1
<1>5. e - (b + t) <= 0
  BY <1>3, <1>4, NoMultipleBetween
<1> QED BY <1>1, <1>5

LEMMA WReadDoneStep ==
    ASSUME IInv, IInv', WInv, ReadDone
    PROVE  WInv'
<1>1. /\ streaming' = streaming /\ heard' = heard /\ ReadCallback
      /\ streaming \in BOOLEAN /\ queued # None /\ queue[queued].client = "dvd"
  BY DEF ReadDone, WInv
<1>2. PICK n, got, all, len, p :
         n = piece.size /\ got = dvd.got /\ all = dvd'.got /\ len = Len(got) /\ p = piece'
  OBVIOUS
<1>3. /\ dvd.read /\ setup' = setup
      /\ n \in Nat /\ n <= dvd.length /\ len \in Nat /\ dvd.length \in Nat
      /\ piece.offset \in Nat /\ piece.data \in Place
      /\ Extends(all, got, len, piece.data, piece.offset, n) /\ Len(all) = len + n
      /\ Wanted' = Wanted /\ Wanted = dvd.length + len
      /\ IF dvd'.read
         THEN p # None /\ p.size \in Nat /\ p.offset \in Nat /\ p.data \in Place
         ELSE p = None
  <2>1. CallsBack(n, got, all, len, p)
    BY <1>1, <1>2, CallbackIs
  <2> QED BY <2>1 DEF CallsBack, Extends
<1>4. PICK mem, hd, total, d, o :
         /\ mem = memory' /\ hd = heard /\ total = Wanted /\ d = piece.data /\ o = piece.offset
         /\ o \in Nat
  BY <1>3
<1>5. Fits(total) /\ Kept(memory, got, total) /\ Heard(memory, hd)
  BY <1>2, <1>4 DEF WInv
<1>6. PICK q, g, h, pq, k : /\ q = queue /\ g = GameRequest /\ h = GameRequest'
                            /\ pq = queue' /\ k = queued'
  OBVIOUS
<1>7. QueueIs(q, g) /\ queued \in Slots /\ q[queued] # None /\ q[queued].client = "dvd"
  BY <1>1, <1>6 DEF WInv, Serves
<1>8. q[queued] = g
  BY <1>7 DEF QueueIs, StreamRequest
<1>9. g = Request(piece, len) /\ g # None
  BY <1>2, <1>6, <1>7, <1>8, GameRequestIs
<1>10. /\ g \in Requests /\ g.client = "dvd" /\ g.at = BufferAt + len
       /\ g.size = n /\ g.offset = o /\ g.data = d
  <2>1. piece.size \in Nat
    BY <1>2, <1>3
  <2> QED BY <1>2, <1>3, <1>4, <1>9, <2>1, RequestIs
<1>11. PICK at \in Nat : at = g.at /\ at = BufferAt + len
  BY <1>10 DEF Requests
<1>12. len + n <= total
  BY <1>3, <1>4
<1>13. Misalign(g) + g.size + Granule - 1 < Word
  <2>1. PICK gr \in Nat \ {0}, w \in Nat, t \in Nat :
           gr = Granule /\ w = Word /\ t = total /\ t < w - gr
    BY <1>5, Layout DEF Fits
  <2>2. Misalign(g) = (gr + len) % gr
    BY <1>11, <2>1, Layout DEF Misalign
  <2>3. PICK m \in Nat : m = (gr + len) % gr /\ m <= len
    <3>1. PICK x \in Nat : x = gr + len
      BY <1>3
    <3>2. x = gr * (x \div gr) + (x % gr) /\ x \div gr \in Int /\ x % gr \in 0..gr - 1
      <4>1. gr \in Nat \ {0} /\ x \in Int
        BY <2>1, <3>1
      <4> QED BY <4>1, Quotient
    <3>3. PICK y \in Int : y = gr * (x \div gr)
      BY <3>2
    <3>4. y % gr = 0 /\ gr % gr = 0
      <4>1. gr \in Nat \ {0} /\ x \div gr \in Int
        BY <2>1, <3>2
      <4>2. (gr * (x \div gr)) % gr = 0
        BY <4>1, Multiple
      <4> QED BY <3>3, <4>1, <4>2
    <3>5. PICK m \in 0..gr - 1 : m = x % gr
      BY <3>2
    <3>6. gr - y = m - len
      BY <1>3, <3>1, <3>2, <3>3, <3>5
    <3>7. gr \in Int
      OBVIOUS
    <3>8. (gr - y) % gr = 0
      BY <3>4, <3>7, SumOfMultiples
    <3>9. m - len \in Int /\ m - len <= gr - 1
      BY <1>3, <3>5
    <3>10. m - len <= 0
      BY <3>6, <3>8, <3>9, NoMultipleBetween
    <3> QED BY <1>3, <3>1, <3>5, <3>10
  <2> QED BY <1>3, <1>10, <1>12, <2>1, <2>2, <2>3
<1>14. PICK e \in Nat :
          /\ e % Granule = 0 /\ at + n <= e /\ e <= at + n + Granule - 1
          /\ Written(mem, d, o, at, n, e)
  <2>1. Ready(g, base, saved, memory)
    BY <1>1, <1>6, <1>8 DEF WInv
  <2>2. mem = Filled(g)
    BY <1>4, <1>6, <1>8 DEF ReadDone
  <2>3. PICK e \in Nat :
           /\ e % Granule = 0 /\ g.at + g.size <= e /\ e <= g.at + g.size + Granule - 1
           /\ Written(mem, g.data, g.offset, g.at, g.size, e)
    BY <1>10, <1>13, <2>1, <2>2, Transferred
  <2> QED BY <1>10, <1>11, <2>3
<1>15. e <= BufferAt + total
  BY <1>3, <1>5, <1>11, <1>12, <1>14, EndsInBuffer
<1>16. Kept(mem, all, total) /\ Heard(mem, hd)
  <2>1. Extends(all, got, len, d, o, n)
    BY <1>3, <1>4
  <2> QED BY <1>2, <1>3, <1>5, <1>11, <1>12, <1>14, <1>15, <2>1, GameWrites
<1>17. QueueIs(pq, h) /\ Serves(k, pq) /\ (k # None => Ready(pq[k], base', saved', mem))
  <2>1. CASE p = None \/ OnCard(p)
    <3>1. h = None
      BY <1>2, <1>3, <1>6, <2>1 DEF GameRequest
    <3>2. Release(q)
      BY <1>2, <1>6, <2>1 DEF ReadDone
    <3>3. QueueIs([q EXCEPT ![queued] = None], h)
      BY <1>7, <1>8, <3>1, WithoutServed
    <3> QED BY <1>1, <1>4, <1>6, <3>2, <3>3, Released
  <2>2. CASE ~(p = None \/ OnCard(p))
    <3>1. PICK r : r = Request(p, Len(all)) /\ Release(Push(q, r))
      BY <1>2, <1>6, <2>2 DEF ReadDone
    <3>2. dvd'.read /\ Len(all) \in Nat
      BY <1>3, <2>2
    <3>3. r \in Requests /\ r.client = "dvd"
      BY <1>3, <3>1, <3>2, RequestIs
    <3>4. h = r
      BY <1>2, <1>6, <2>2, <3>1, <3>2 DEF GameRequest
    <3>5. PICK i \in Slots : q[i] = None /\ Push(q, r) = [q EXCEPT ![i] = r]
      BY <1>1, <1>7, <1>10, Pushed
    <3>6. PICK z : z = [q EXCEPT ![queued] = None]
      OBVIOUS
    <3>7. QueueIs(z, None)
      BY <1>7, <1>8, <3>6, WithoutServed
    <3>8. q \in [1..3 -> Requests \cup {None}] /\ Slots \subseteq 1..3
      BY <1>7 DEF QueueIs, Slots
    <3>9. z[i] = None
      BY <3>5, <3>6, <3>8
    <3>10. PICK y : y = [z EXCEPT ![i] = r]
      OBVIOUS
    <3>11. QueueIs(y, h)
      <4>1. \A j \in Slots : z[j] # None => z[j].client # r.client
        BY <3>3, <3>7, OnlyStream
      <4>2. PICK none : none = None
        OBVIOUS
      <4>3. /\ QueueIs(z, none)
            /\ (h = r /\ none = None) \/ (h = none /\ streaming /\ StreamRequest(r))
        BY <3>4, <3>7, <4>2
      <4>4. QueueIs([z EXCEPT ![i] = r], h)
        BY <3>3, <3>9, <4>1, <4>3, WithOneMore, Zenon
      <4> QED BY <3>10, <4>4
    <3>12. y = [Push(q, r) EXCEPT ![queued] = None]
      <4>1. i # queued
        BY <1>7, <3>5
      <4>2. y = [[q EXCEPT ![queued] = None] EXCEPT ![i] = r]
        BY <3>6, <3>10
      <4>3. [[q EXCEPT ![queued] = None] EXCEPT ![i] = r]
              = [[q EXCEPT ![i] = r] EXCEPT ![queued] = None]
        BY <3>8, <4>1
      <4> QED BY <3>5, <4>2, <4>3
    <3>13. PICK x : x = Push(q, r)
      OBVIOUS
    <3>14. Release(x) /\ QueueIs([x EXCEPT ![queued] = None], h)
      BY <3>1, <3>11, <3>12, <3>13
    <3> QED BY <1>1, <1>4, <1>6, <3>14, Released
  <2> QED BY <2>1, <2>2
<1>18. /\ QueueIs(queue, GameRequest)' /\ Serves(queued, queue)'
       /\ (queued # None => Ready(queue[queued], base, saved, memory))'
  BY <1>1, <1>4, <1>6, <1>17, DriverNext
<1>19. Heard(memory, heard)'
  <2>1. Heard(mem, hd)'
    BY <1>3, <1>16, HeardKept
  <2> QED BY <1>1, <1>4, <2>1
<1> QED BY <1>1, <1>2, <1>3, <1>4, <1>5, <1>16, <1>18, <1>19 DEF WInv

LEMMA WBlockDoneStep ==
    ASSUME IInv, WInv, BlockDone
    PROVE  WInv'
<1>1. /\ streaming' = streaming /\ UNCHANGED vars /\ streaming \in BOOLEAN
      /\ queued # None /\ queue[queued].client = "dtk"
  BY DEF BlockDone, WInv
<1>2. dvd' = dvd /\ setup' = setup /\ piece' = piece
  BY <1>1 DEF vars
<1>3. PICK mem, got, total, len :
         mem = memory' /\ got = dvd.got /\ total = Wanted /\ len = Len(got)
  OBVIOUS
<1>4. len \in Nat /\ dvd.length \in Nat
  BY <1>3, LenProperties DEF IInv
<1>5. Fits(total) /\ Kept(memory, got, total) /\ len <= total
  <2>1. len <= total
    BY <1>3, <1>4 DEF Wanted
  <2> QED BY <1>3, <2>1 DEF WInv
<1>6. PICK q, g, pq, k : q = queue /\ g = GameRequest /\ pq = queue' /\ k = queued'
  OBVIOUS
<1>7. QueueIs(q, g) /\ queued \in Slots /\ q[queued] # None /\ q[queued].client = "dtk"
  BY <1>1, <1>6 DEF WInv, Serves
<1>8. g \in Requests \cup {None} /\ (g # None => g.client = "dvd")
  BY <1>6, GameRequestIs
<1>9. PICK r : r = q[queued] /\ StreamRequest(r) /\ streaming
  BY <1>7, <1>8 DEF QueueIs
<1>10. Kept(mem, got, total) /\ Heard(mem, r)
  <2>1. Ready(r, base, saved, memory)
    BY <1>1, <1>6, <1>9 DEF WInv
  <2>2. mem = Filled(r)
    BY <1>3, <1>6, <1>9 DEF BlockDone
  <2> QED BY <1>3, <1>4, <1>5, <1>9, <2>1, <2>2, StreamWrites
<1>11. PICK z : z = [q EXCEPT ![queued] = None]
  OBVIOUS
<1>12. QueueIs(z, g)
  <2>1. q[queued] # g
    BY <1>7, <1>8
  <2> QED BY <1>7, <1>11, <2>1, WithoutServed
<1>13. QueueIs(pq, g) /\ Serves(k, pq) /\ (k # None => Ready(pq[k], base', saved', mem))
  <2>1. PICK x : (x = q \/ \E t \in StreamRequests : x = Push(q, t)) /\ Release(x)
    BY <1>6 DEF BlockDone
  <2>2. QueueIs([x EXCEPT ![queued] = None], g)
    <3>1. CASE x = q
      BY <1>11, <1>12, <3>1
    <3>2. ASSUME NEW t \in StreamRequests, x = Push(q, t)
          PROVE  QueueIs([x EXCEPT ![queued] = None], g)
      <4>1. StreamRequest(t) /\ t \in Requests /\ t.client = "dtk"
        BY StreamRequestIs DEF StreamRequest
      <4>2. PICK i \in Slots : q[i] = None /\ Push(q, t) = [q EXCEPT ![i] = t]
        BY <1>1, <1>7, <1>8, Pushed
      <4>3. q \in [1..3 -> Requests \cup {None}] /\ Slots \subseteq 1..3
        BY <1>7 DEF QueueIs, Slots
      <4>4. z[i] = None /\ i # queued
        BY <1>7, <1>11, <4>2, <4>3
      <4>5. \A j \in Slots : z[j] # None => z[j].client # t.client
        <5>1. \A j \in Slots : z[j] # None => j # queued /\ z[j] = q[j]
          BY <1>11, <4>3
        <5>2. \A j \in Slots : q[j] # None /\ q[j].client = "dtk" => j = queued
          BY <1>7 DEF QueueIs
        <5> QED BY <4>1, <5>1, <5>2
      <4>6. PICK y : y = [z EXCEPT ![i] = t]
        OBVIOUS
      <4>7. QueueIs(y, g)
        <5>1. (g = t /\ g = None) \/ (g = g /\ streaming /\ StreamRequest(t))
          BY <1>9, <4>1
        <5>2. QueueIs([z EXCEPT ![i] = t], g)
          BY <1>12, <4>1, <4>4, <4>5, <5>1, WithOneMore, Zenon
        <5> QED BY <4>6, <5>2
      <4>8. y = [x EXCEPT ![queued] = None]
        <5>1. y = [[q EXCEPT ![queued] = None] EXCEPT ![i] = t]
          BY <1>11, <4>6
        <5>2. [[q EXCEPT ![queued] = None] EXCEPT ![i] = t]
                = [[q EXCEPT ![i] = t] EXCEPT ![queued] = None]
          BY <4>3, <4>4
        <5> QED BY <3>2, <4>2, <5>1, <5>2
      <4> QED BY <4>7, <4>8
    <3> QED BY <2>1, <3>1, <3>2
  <2> QED BY <1>1, <1>3, <1>6, <2>1, <2>2, Released
<1>14. GameRequest' = GameRequest /\ Wanted' = Wanted
  BY <1>2 DEF GameRequest, Wanted
<1>15. /\ QueueIs(queue, GameRequest)' /\ Serves(queued, queue)'
       /\ (queued # None => Ready(queue[queued], base, saved, memory))'
  BY <1>1, <1>3, <1>6, <1>13, <1>14, DriverNext
<1>16. Heard(memory, heard)'
  <2>1. heard' = r
    BY <1>6, <1>9 DEF BlockDone
  <2>2. Heard(mem, r)'
    BY <1>2, <1>10, HeardKept
  <2> QED BY <1>3, <2>1, <2>2
<1> QED BY <1>1, <1>2, <1>3, <1>5, <1>10, <1>14, <1>15, <1>16 DEF WInv

(* Nothing of the driver or of the command changes. *)
LEMMA WKept ==
    ASSUME WInv, setup' = setup, dvd' = dvd, piece' = piece,
           UNCHANGED <<streaming, wkf, memory, heard>>
    PROVE  WInv'
<1>1. streaming' = streaming /\ queue' = queue /\ queued' = queued /\ base' = base
      /\ saved' = saved /\ memory' = memory /\ heard' = heard /\ streaming \in BOOLEAN
  BY DEF WInv, wkf
<1>2. GameRequest' = GameRequest /\ Wanted' = Wanted
  BY DEF GameRequest, Wanted
<1>3. PICK q, k, g, mem, hd :
         q = queue /\ k = queued /\ g = GameRequest /\ mem = memory /\ hd = heard
  OBVIOUS
<1>4. QueueIs(q, g) /\ Serves(k, q) /\ (k # None => Ready(q[k], base', saved', mem))
  BY <1>1, <1>3 DEF WInv
<1>5. /\ QueueIs(queue, GameRequest)' /\ Serves(queued, queue)'
      /\ (queued # None => Ready(queue[queued], base, saved, memory))'
  BY <1>1, <1>2, <1>3, <1>4, DriverNext
<1>6. Heard(memory, heard)'
  <2>1. Heard(mem, hd)' = Heard(mem, hd)
    BY HeardKept
  <2> QED BY <1>1, <1>3, <2>1 DEF WInv
<1> QED BY <1>1, <1>2, <1>5, <1>6 DEF WInv

LEMMA WkfNextIsNext == [WkfNext]_wkfVars => [Next]_vars
<1> SUFFICES ASSUME [WkfNext]_wkfVars PROVE [Next]_vars
  OBVIOUS
<1>1. ASSUME NEW length \in Lengths, NEW offset \in Image(disc), Read(length, offset)
      PROVE  Next
  BY <1>1 DEF Read, Next
<1>2. CASE Fill \/ BlockDone
  BY <1>2 DEF Fill, BlockDone
<1>3. CASE CardDone \/ ReadDone
  BY <1>3 DEF CardDone, ReadDone, Next
<1>4. CASE StopMotor
  BY <1>4 DEF StopMotor, Next
<1>5. CASE UNCHANGED wkfVars
  BY <1>5 DEF wkfVars
<1> QED BY <1>1, <1>2, <1>3, <1>4, <1>5 DEF WkfNext

LEMMA WNextInv ==
    ASSUME IInv, IInv', WInv, [WkfNext]_wkfVars
    PROVE  WInv'
<1>1. ASSUME NEW length \in Lengths, NEW offset \in Image(disc), Read(length, offset)
      PROVE  WInv'
  BY <1>1, WReadStep
<1>2. CASE Fill
  BY <1>2, WFillStep
<1>3. CASE CardDone
  BY <1>3, WCardDoneStep
<1>4. CASE ReadDone
  BY <1>4, WReadDoneStep
<1>5. CASE BlockDone
  BY <1>5, WBlockDoneStep
<1>6. CASE StopMotor
  BY <1>6, WKept DEF StopMotor, ChangeDisc
<1>7. CASE UNCHANGED wkfVars
  BY <1>7, WKept DEF wkfVars, vars
<1> QED BY <1>1, <1>2, <1>3, <1>4, <1>5, <1>6, <1>7 DEF WkfNext

-----------------------------------------------------------------------------
(* Theorems *)

(* The reads of the WKF driver are reads as DiscRead has them              *)
(* (wkf.c:140-173 under blockdevice.c:44-94).                              *)
THEOREM DriverReadsDisc == WkfSpec => Spec
<1>1. WkfInit => Init
  BY DEF WkfInit
<1> QED BY <1>1, WkfNextIsNext, PTL DEF WkfSpec, Spec

LEMMA SpecWInv == WkfSpec => [](IInv /\ WInv)
<1>1. IInv /\ WInv /\ IInv' /\ [WkfNext]_wkfVars => WInv'
  BY WNextInv
<1>2. WkfSpec => []IInv
  BY DriverReadsDisc, SpecIInv, PTL
<1> QED BY WInitInv, <1>1, <1>2, PTL DEF WkfSpec

(* What is read stands in the buffer it was read for, and no other memory  *)
(* changes: neither before a misaligned buffer, nor after one whose length *)
(* is rounded, nor by a base that another request told (wkf.c:56-105).     *)
THEOREM MemoryStaysIntact == WkfSpec => []MemoryIntact
<1>1. WInv => MemoryIntact
  <2>1. ASSUME WInv PROVE MemoryIntact
    BY <2>1 DEF WInv, Kept, Heard, Wanted, MemoryIntact
  <2> QED BY <2>1
<1> QED BY <1>1, SpecWInv, PTL

(* The next piece of a read is never refused by a full queue, with as many *)
(* entries as the build has clients and one more (wkf.c:150-166).          *)
THEOREM PieceIsOnItsWay == WkfSpec => []PieceOnItsWay
<1>1. IInv /\ WInv => PieceOnItsWay
  <2> SUFFICES ASSUME IInv, WInv, dvd.read, ~OnCard(piece)
               PROVE  \E i \in Slots : queue[i] = Request(piece, Len(dvd.got))
    BY DEF PieceOnItsWay
  <2>1. GameRequest # None /\ GameRequest = Request(piece, Len(dvd.got))
    BY GameRequestIs
  <2>2. QueueIs(queue, GameRequest)
    BY DEF WInv
  <2> QED BY <2>1, <2>2 DEF QueueIs
<1> QED BY <1>1, SpecWInv, PTL

(* So the game finds in its buffer what its disc has, with the patched     *)
(* parts over it: the theorems of DiscRead and of this module together.    *)
THEOREM BufferIsOverlay ==
    WkfSpec => [](\A k \in 1..Len(dvd.got) :
                     LET x == dvd.start + k - 1 IN
                     \/ memory[BufferAt + k - 1] = Meant(dvd.disc, x)
                     \/ ~Aligned /\ \E e \in Edges(dvd.disc) : e <= x /\ x < e + Granule)
<1> DEFINE Overlay == \A k \in 1..Len(dvd.got) :
                     LET x == dvd.start + k - 1 IN
                     \/ memory[BufferAt + k - 1] = Meant(dvd.disc, x)
                     \/ ~Aligned /\ \E e \in Edges(dvd.disc) : e <= x /\ x < e + Granule
<1>1. IInv /\ WInv => Overlay
  BY DEF IInv, ReadIsOverlay, WInv, Kept
<1> HIDE DEF Overlay
<1>2. WkfSpec => []Overlay
  BY <1>1, SpecWInv, PTL
<1> QED BY <1>2 DEF Overlay
=============================================================================
