--------------------------- MODULE DiscReadProofs ---------------------------
(***************************************************************************)
(* Proofs about DiscRead for every setup and every size of the granule,    *)
(* the sector, the block and the words: that a read of the disc is what    *)
(* the disc has with the patched parts laid over it.                       *)
(*                                                                         *)
(* What recursive functions compute is proved by least counterexamples:    *)
(* of the numbers for which a statement fails take the least.              *)
(***************************************************************************)
EXTENDS DiscRead, TLAPS, SequenceTheorems, WellFoundedInduction

-----------------------------------------------------------------------------
(* Numbers *)

LEMMA LeastIs ==
    ASSUME NEW S \in SUBSET Nat, S # {}
    PROVE  \E x \in S : \A y \in S : x <= y
<1> DEFINE R == {ss \in Nat \X Nat : ss[1] < ss[2]}
<1>1. IsWellFoundedOn(R, Nat)
  BY NatLessThanWellFounded DEF OpToRel
<1>2. \A x, y \in Nat : x < y => <<x, y>> \in R
  OBVIOUS
<1> HIDE DEF R
<1>3. PICK x \in S : \A y \in S : ~(<<y, x>> \in R)
  BY <1>1, WFMin
<1>4. \A y \in S : x <= y
  <2> TAKE y \in S
  <2>1. y \in Nat /\ x \in Nat /\ ~(y < x)
    BY <1>2, <1>3
  <2> QED BY <2>1
<1> QED BY <1>4

LEMMA MinIs ==
    ASSUME NEW S \in SUBSET Nat, S # {}
    PROVE  Min(S) \in S /\ \A y \in S : Min(S) <= y
  BY LeastIs DEF Min

(* Induction over a set of numbers. *)
LEMMA Induction ==
    ASSUME NEW n \in Nat, NEW S, 0 \in S, \A m \in 0..n - 1 : m \in S => m + 1 \in S
    PROVE  \A m \in 0..n : m \in S
<1> DEFINE Bad == {m \in 0..n : m \notin S}
<1>1. Bad \in SUBSET Nat
  OBVIOUS
<1>2. SUFFICES ASSUME Bad # {} PROVE FALSE
  OBVIOUS
<1>3. PICK m \in Bad : \A k \in Bad : m <= k
  <2> HIDE DEF Bad
  <2> QED BY <1>1, <1>2, LeastIs
<1>4. m \in 1..n /\ m - 1 \in 0..n - 1 /\ m - 1 \notin Bad
  BY <1>3
<1>5. m - 1 \in S /\ (m - 1) + 1 = m
  BY <1>4
<1>6. m \in S
  BY <1>4, <1>5
<1> QED BY <1>3, <1>6

LEMMA Quotient ==
    ASSUME NEW g \in Nat \ {0}, NEW a \in Int
    PROVE  a = g * (a \div g) + (a % g) /\ a \div g \in Int /\ a % g \in 0..g - 1
  OBVIOUS

LEMMA Multiple == ASSUME NEW g \in Nat \ {0}, NEW q \in Int PROVE (g * q) % g = 0
  OBVIOUS

LEMMA Product == ASSUME NEW p \in Nat, NEW q \in Nat PROVE p * q \in Nat
  OBVIOUS

LEMMA Distributive ==
    ASSUME NEW g \in Nat, NEW p \in Int, NEW q \in Int
    PROVE  g * p + g * q = g * (p + q) /\ g * p - g * q = g * (p - q)
  OBVIOUS

LEMMA DivisorOf ==
    ASSUME NEW g \in Nat \ {0}, NEW a \in Int, a % g = 0
    PROVE  \E p \in Int : a = g * p
<1>1. a = g * (a \div g) + (a % g) /\ a \div g \in Int
  BY Quotient
<1>2. g * (a \div g) \in Int
  BY <1>1
<1>3. a = g * (a \div g)
  BY <1>1, <1>2
<1> QED BY <1>1, <1>3

LEMMA SumOfMultiples ==
    ASSUME NEW g \in Nat \ {0}, NEW a \in Int, NEW b \in Int, a % g = 0, b % g = 0
    PROVE  (a + b) % g = 0 /\ (a - b) % g = 0
<1>1. PICK p \in Int : a = g * p
  BY DivisorOf
<1>2. PICK q \in Int : b = g * q
  BY DivisorOf
<1>3. a + b = g * (p + q) /\ a - b = g * (p - q) /\ p + q \in Int /\ p - q \in Int
  BY <1>1, <1>2, Distributive
<1> QED BY <1>3, Multiple

LEMMA RestOfMultiple ==
    ASSUME NEW g \in Nat \ {0}, NEW n \in Nat \ {0}, NEW a \in Int, a % g = 0, n % g = 0
    PROVE  (a % n) % g = 0
<1>1. PICK p \in Int : a = g * p
  BY DivisorOf
<1>2. PICK c \in Int : n = g * c
  BY DivisorOf
<1>3. PICK d \in Int : a % n = a - n * d
  <2>1. a = n * (a \div n) + (a % n) /\ a \div n \in Int /\ a % n \in Int
    BY Quotient
  <2>2. PICK d \in Int : d = a \div n
    BY <2>1
  <2>3. n * d \in Int /\ a = n * d + (a % n)
    BY <2>1, <2>2
  <2>4. a % n = a - n * d
    BY <2>1, <2>3
  <2> QED BY <2>4
<1>4. n * d = g * (c * d) /\ c * d \in Int /\ p - c * d \in Int
  BY <1>2
<1>5. a % n = g * (p - c * d)
  BY <1>1, <1>3, <1>4, Distributive
<1> QED BY <1>4, <1>5, Multiple

(* OSRoundUp32B of what is no word's last 31. *)
LEMMA RoundIs ==
    ASSUME NEW x \in Nat
    PROVE  /\ Round(x) \in Nat /\ Round(x) % Granule = 0 /\ Round(x) <= x + Granule - 1
           /\ x + Granule - 1 < Word => x <= Round(x)
<1>1. Granule \in Nat \ {0} /\ Word \in Nat \ {0}
  BY DiscReadAssumption
<1>2. PICK z \in 0..Word - 1 : /\ z = (x + Granule - 1) % Word /\ z <= x + Granule - 1
                               /\ x + Granule - 1 < Word => z = x + Granule - 1
  BY <1>1
<1>3. PICK q \in Nat : q = z \div Granule /\ Granule * q <= z /\ z < Granule * q + Granule
  BY <1>1
<1>4. PICK w \in Nat : w = Granule * q
  BY <1>1, Product
<1>5. w % Granule = 0
  BY <1>1, <1>4, Multiple
<1>6. q * Granule = Granule * q
  BY <1>1
<1>7. Round(x) = w
  BY <1>2, <1>3, <1>4, <1>6 DEF Round
<1>8. w <= z /\ z < w + Granule
  BY <1>3, <1>4
<1> QED BY <1>1, <1>2, <1>5, <1>7, <1>8

-----------------------------------------------------------------------------
(* Sequences laid end to end *)

LEMMA Joined ==
    ASSUME NEW S, NEW a \in Seq(S), NEW b \in Seq(S)
    PROVE  /\ a \o b \in Seq(S) /\ Len(a \o b) = Len(a) + Len(b)
           /\ \A i \in 1..Len(a) : (a \o b)[i] = a[i]
           /\ \A i \in 1..Len(b) : (a \o b)[Len(a) + i] = b[i]
<1>1. a \o b \in Seq(S)
  BY ConcatProperties
<1>2. Len(a \o b) = Len(a) + Len(b)
  BY ConcatProperties
<1>3. \A i \in 1..Len(a) + Len(b) :
          (a \o b)[i] = IF i <= Len(a) THEN a[i] ELSE b[i - Len(a)]
  BY ConcatProperties
<1>4. Len(a) \in Nat /\ Len(b) \in Nat
  BY LenProperties
<1> QED BY <1>1, <1>2, <1>3, <1>4

-----------------------------------------------------------------------------
(* The runs of a file *)

LEMMA SumsAre ==
    ASSUME NEW runs \in Runs
    PROVE  /\ Sums(runs) \in [0..Len(runs) -> Nat] /\ Sums(runs)[0] = 0
           /\ \A i \in 1..Len(runs) : Sums(runs)[i] = Sums(runs)[i - 1] + runs[i]
<1> DEFINE L == Len(runs)
           Sum(g, n) == /\ g \in [0..n -> Nat] /\ g[0] = 0
                        /\ \A i \in 1..n : g[i] = g[i - 1] + runs[i]
           F == CHOOSE f : f = [i \in 0..L |-> IF i = 0 THEN 0 ELSE f[i - 1] + runs[i]]
<1>1. L \in Nat /\ \A i \in 1..L : runs[i] \in Nat \ {0}
  BY LenProperties, ElementOfSeq DEF Runs
<1> DEFINE Good == {n \in 0..L : \E g : Sum(g, n)}
<1>2. L \in Good
  <2>1. 0 \in Good
    <3>1. PICK g : g = [i \in 0..0 |-> 0]
      OBVIOUS
    <3>2. Sum(g, 0)
      BY <3>1
    <3> QED BY <1>1, <3>2
  <2>2. ASSUME NEW m \in 0..L - 1, m \in Good PROVE m + 1 \in Good
    <3>1. PICK g : Sum(g, m)
      BY <2>2
    <3>2. m \in Nat /\ m + 1 \in 0..L /\ runs[m + 1] \in Nat
      BY <1>1
    <3> DEFINE h == [i \in 0..m + 1 |-> IF i <= m THEN g[i] ELSE g[m] + runs[m + 1]]
    <3>3. h \in [0..m + 1 -> Nat] /\ h[0] = 0
      BY <3>1, <3>2
    <3>4. \A i \in 1..m + 1 : h[i] = h[i - 1] + runs[i]
      BY <3>1, <3>2
    <3>5. Sum(h, m + 1)
      BY <3>3, <3>4
    <3> QED BY <3>2, <3>5
  <2> HIDE DEF Good
  <2>3. \A m \in 0..L : m \in Good
    BY <1>1, <2>1, <2>2, Induction
  <2> QED BY <1>1, <2>3
<1>3. PICK g : Sum(g, L)
  BY <1>2
<1>4. g = [i \in 0..L |-> IF i = 0 THEN 0 ELSE g[i - 1] + runs[i]]
  BY <1>1, <1>3
<1>5. F = [i \in 0..L |-> IF i = 0 THEN 0 ELSE F[i - 1] + runs[i]]
  BY <1>4
<1>6. Sums(runs) = F
  BY DEF Sums
<1> HIDE DEF F
<1>7. F[0] = 0 /\ \A i \in 1..L : F[i] = F[i - 1] + runs[i]
  BY <1>1, <1>5
<1>8. \A i \in 0..L : F[i] \in Nat
  <2> DEFINE Typed == {n \in 0..L : F[n] \in Nat}
  <2>1. 0 \in Typed
    BY <1>1, <1>7
  <2>2. ASSUME NEW m \in 0..L - 1, m \in Typed PROVE m + 1 \in Typed
    <3>1. m + 1 \in 1..L /\ (m + 1) - 1 = m /\ F[m] \in Nat
      BY <1>1, <2>2
    <3> QED BY <1>1, <1>7, <3>1
  <2> HIDE DEF Typed
  <2>3. \A m \in 0..L : m \in Typed
    BY <1>1, <2>1, <2>2, Induction
  <2> QED BY <2>3 DEF Typed
<1>9. F \in [0..L -> Nat]
  BY <1>5, <1>8
<1> QED BY <1>6, <1>7, <1>9

(* Runs follow each other. *)
LEMMA SumsGrow ==
    ASSUME NEW runs \in Runs, NEW i \in 0..Len(runs), NEW j \in 0..Len(runs), i < j
    PROVE  Sums(runs)[i] < Sums(runs)[j]
<1> DEFINE F == Sums(runs)
           Good == {m \in 0..Len(runs) : i < m => F[i] < F[m]}
<1>1. /\ F \in [0..Len(runs) -> Nat] /\ Len(runs) \in Nat
      /\ \A k \in 1..Len(runs) : F[k] = F[k - 1] + runs[k] /\ runs[k] \in Nat \ {0}
  BY SumsAre, LenProperties, ElementOfSeq DEF Runs
<1> HIDE DEF F
<1>2. 0 \in Good
  BY <1>1
<1>3. ASSUME NEW m \in 0..Len(runs) - 1, m \in Good PROVE m + 1 \in Good
  <2>1. m \in 0..Len(runs) /\ m + 1 \in 1..Len(runs) /\ (m + 1) - 1 = m
    BY <1>1
  <2>2. F[m + 1] = F[m] + runs[m + 1] /\ runs[m + 1] \in Nat \ {0} /\ F[m] \in Nat /\ F[i] \in Nat
    BY <1>1, <2>1
  <2>3. i < m + 1 => i = m \/ F[i] < F[m]
    BY <1>1, <1>3, <2>1
  <2>4. i < m + 1 => F[i] < F[m + 1]
    BY <2>2, <2>3
  <2> QED BY <2>1, <2>4
<1> HIDE DEF Good
<1>4. \A m \in 0..Len(runs) : m \in Good
  BY <1>1, <1>2, <1>3, Induction
<1> QED BY <1>4 DEF Good, F

(* Every offset of a file is in a run of it. *)
LEMMA RunOf ==
    ASSUME NEW runs \in Runs, NEW y \in Nat, y < Total(runs)
    PROVE  \E i \in 1..Len(runs) : RunStart(runs, i) <= y /\ y < RunStart(runs, i) + runs[i]
<1> DEFINE F == Sums(runs)
           S == {m \in 0..Len(runs) : y < F[m]}
<1>1. /\ F \in [0..Len(runs) -> Nat] /\ F[0] = 0 /\ Len(runs) \in Nat
      /\ \A k \in 1..Len(runs) : F[k] = F[k - 1] + runs[k]
  BY SumsAre, LenProperties DEF Runs
<1>2. Len(runs) \in S
  BY <1>1 DEF Total
<1> HIDE DEF F
<1>3. PICK m \in S : \A k \in S : m <= k
  <2>1. S \in SUBSET Nat
    BY <1>1
  <2> HIDE DEF S
  <2> QED BY <1>2, <2>1, LeastIs
<1>4. m \in 1..Len(runs) /\ m - 1 \in 0..Len(runs)
  BY <1>1, <1>3
<1>5. m - 1 \notin S
  BY <1>3, <1>4
<1>6. F[m - 1] <= y /\ y < F[m - 1] + runs[m]
  BY <1>1, <1>3, <1>4, <1>5
<1> QED BY <1>4, <1>6 DEF RunStart, F

(* Runs start at 32 bytes, and end there but for the last.                 *)
LEMMA WholeRuns ==
    ASSUME NEW runs \in Runs, Whole(runs), NEW i \in 1..Len(runs)
    PROVE  /\ RunStart(runs, i) \in Nat /\ RunStart(runs, i) % Granule = 0
           /\ i < Len(runs) => runs[i] % Granule = 0
           /\ RunStart(runs, i) + runs[i] <= Total(runs)
           /\ i = Len(runs) => RunStart(runs, i) + runs[i] = Total(runs)
           /\ runs[i] \in Nat \ {0}
<1> DEFINE F == Sums(runs)
           Good == {m \in 0..Len(runs) - 1 : F[m] % Granule = 0}
<1>1. /\ F \in [0..Len(runs) -> Nat] /\ F[0] = 0 /\ Len(runs) \in Nat
      /\ \A k \in 1..Len(runs) : F[k] = F[k - 1] + runs[k] /\ runs[k] \in Nat \ {0}
  BY SumsAre, LenProperties, ElementOfSeq DEF Runs
<1>2. i = Len(runs) \/ F[i] < F[Len(runs)]
  BY <1>1, SumsGrow
<1> HIDE DEF F
<1>3. Granule \in Nat \ {0}
  BY DiscReadAssumption
<1>4. \A m \in 0..Len(runs) - 1 : m \in Good
  <2>1. Len(runs) - 1 \in Nat /\ 0 \in Good
    <3>1. 0 % Granule = 0
      BY <1>3
    <3> QED BY <1>1, <3>1
  <2>2. ASSUME NEW m \in 0..(Len(runs) - 1) - 1, m \in Good PROVE m + 1 \in Good
    <3>1. m + 1 \in 1..Len(runs) - 1 /\ m + 1 \in 1..Len(runs) /\ (m + 1) - 1 = m
          /\ m \in 0..Len(runs)
      BY <1>1
    <3>2. F[m] % Granule = 0 /\ runs[m + 1] % Granule = 0
      BY <2>2, <3>1 DEF Whole
    <3>3. F[m + 1] = F[m] + runs[m + 1] /\ runs[m + 1] \in Nat \ {0} /\ F[m] \in Nat
      BY <1>1, <3>1
    <3>4. F[m + 1] % Granule = 0
      BY <1>3, <3>2, <3>3, SumOfMultiples
    <3> QED BY <3>1, <3>4
  <2> HIDE DEF Good
  <2> QED BY <2>1, <2>2, Induction
<1>5. i - 1 \in 0..Len(runs) - 1 /\ i - 1 \in 0..Len(runs)
  BY <1>1
<1>6. F[i - 1] \in Nat /\ F[i - 1] % Granule = 0
  BY <1>1, <1>4, <1>5
<1>7. i < Len(runs) => runs[i] % Granule = 0
  BY <1>1 DEF Whole
<1>8. F[i] = F[i - 1] + runs[i] /\ F[i] <= F[Len(runs)] /\ (i = Len(runs) => F[i] = F[Len(runs)])
  BY <1>1, <1>2
<1> QED BY <1>1, <1>6, <1>7, <1>8 DEF RunStart, Total, F

-----------------------------------------------------------------------------
(* The parts of a setup, and their fragments *)

Files  == Discs \cup {Apploader}
Names  == ({"patch"} \X Nat) \cup ({"disc"} \X Files)
Place  == [of : Names, at : Nat]
FilePart == [name : Names, runs : Runs, file : Files, base : Nat, size : Nat]
Fragment == [file : Files, offset : Nat, size : Nat, data : Place]

(* How much of a part there is. *)
Extent(p) == MinOf(p.size, Total(p.runs))

GoodPart(p) == p \in FilePart /\ Whole(p.runs) /\ Extent(p) < Word - Granule

LEMMA TotalIs == ASSUME NEW runs \in Runs PROVE Total(runs) \in Nat
<1>1. Len(runs) \in 0..Len(runs)
  BY LenProperties DEF Runs
<1> QED BY <1>1, SumsAre DEF Total

LEMMA FragmentsAre ==
    ASSUME NEW p, GoodPart(p)
    PROVE  /\ Fragments(p) \in Seq(Fragment)
           /\ \A i \in 1..Len(Fragments(p)) :
                 /\ i \in 1..Len(p.runs)
                 /\ Fragments(p)[i] =
                       [file |-> p.file, offset |-> p.base + RunStart(p.runs, i),
                        size |-> MinOf(p.runs[i], p.size - RunStart(p.runs, i)),
                        data |-> [of |-> p.name, at |-> RunStart(p.runs, i)]]
                 /\ RunStart(p.runs, i) < p.size
           /\ \A y \in 0..Extent(p) - 1 :
                 \E i \in 1..Len(Fragments(p)) :
                    RunStart(p.runs, i) <= y /\ y < RunStart(p.runs, i) + Fragments(p)[i].size
<1> DEFINE runs == p.runs
           L == Len(runs)
           St(i) == RunStart(runs, i)
           used == {j \in 1..L : St(j) < p.size}
           Frag(i) == [file |-> p.file, offset |-> p.base + St(i),
                       size |-> MinOf(runs[i], p.size - St(i)),
                       data |-> [of |-> p.name, at |-> St(i)]]
           Ends == {m \in 0..L : m = L \/ p.size <= St(m + 1)}
<1>1. /\ p.name \in Names /\ runs \in Runs /\ p.file \in Files /\ p.base \in Nat /\ p.size \in Nat
      /\ L \in Nat /\ Total(runs) \in Nat
  BY TotalIs, LenProperties DEF GoodPart, FilePart, Runs
<1>2. \A i \in 1..L : St(i) \in Nat /\ runs[i] \in Nat \ {0}
  BY <1>1, WholeRuns DEF GoodPart
<1>3. \A i, j \in 1..L : i < j => St(i) < St(j)
  <2> TAKE i, j \in 1..L
  <2>1. i < j => i - 1 \in 0..L /\ j - 1 \in 0..L /\ i - 1 < j - 1
    BY <1>1
  <2> QED BY <1>1, <2>1, SumsGrow DEF RunStart
<1>4. PICK n \in Ends : \A k \in Ends : n <= k
  <2>1. Ends \in SUBSET Nat /\ L \in Ends
    BY <1>1
  <2> HIDE DEF Ends
  <2> QED BY <2>1, LeastIs
<1> HIDE DEF St
<1>5. used = 1..n
  <2>1. ASSUME NEW j \in 1..n PROVE j \in used
    <3>1. j - 1 \in 0..L /\ j - 1 # L /\ (j - 1) + 1 = j /\ j \in 1..L /\ ~(n <= j - 1)
      BY <1>1, <1>4
    <3>2. j - 1 \notin Ends
      BY <1>4, <3>1
    <3> QED BY <1>1, <1>2, <3>1, <3>2
  <2>2. ASSUME NEW j \in used PROVE j \in 1..n
    <3>1. j \in 1..L /\ St(j) < p.size /\ n \in 0..L
      BY <1>4
    <3>2. CASE n < j
      <4>1. n + 1 \in 1..L /\ p.size <= St(n + 1) /\ St(n + 1) \in Nat /\ St(j) \in Nat
        BY <1>1, <1>2, <1>4, <3>1, <3>2
      <4>2. n + 1 = j \/ St(n + 1) < St(j)
        BY <1>3, <3>1, <3>2, <4>1
      <4> QED BY <1>1, <3>1, <4>1, <4>2
    <3> QED BY <1>1, <3>1, <3>2
  <2> QED BY <2>1, <2>2
<1>6. \A i \in 1..n : i \in 1..L /\ St(i) < p.size /\ St(i) \in Nat /\ Frag(i) \in Fragment
  <2> TAKE i \in 1..n
  <2>1. i \in used
    BY <1>5
  <2>2. i \in 1..L /\ St(i) < p.size /\ St(i) \in Nat /\ runs[i] \in Nat
    BY <1>2, <2>1
  <2>3. MinOf(runs[i], p.size - St(i)) \in Nat /\ p.base + St(i) \in Nat
    BY <1>1, <2>2 DEF MinOf
  <2> QED BY <1>1, <2>2, <2>3 DEF Fragment, Place
<1>7. Fragments(p) = [i \in 1..n |-> Frag(i)]
  <2>1. Fragments(p) = [i \in used |-> Frag(i)]
    BY DEF Fragments, St
  <2> QED BY <1>5, <2>1
<1>8. n \in Nat
  BY <1>1, <1>4
<1> HIDE DEF Frag
<1>9. Fragments(p) \in Seq(Fragment) /\ Len(Fragments(p)) = n
  <2>1. Fragments(p) \in [1..n -> Fragment]
    BY <1>6, <1>7
  <2> QED BY <1>8, <2>1
<1>10. \A i \in 1..n : Fragments(p)[i] = Frag(i)
  BY <1>7
<1>11. ASSUME NEW y \in 0..Extent(p) - 1
       PROVE  \E i \in 1..n : St(i) <= y /\ y < St(i) + Fragments(p)[i].size
  <2>1. y \in Nat /\ y < p.size /\ y < Total(runs)
    BY <1>1 DEF Extent, MinOf
  <2>2. PICK i \in 1..L : St(i) <= y /\ y < St(i) + runs[i]
    BY <1>1, <2>1, RunOf DEF St
  <2>3. i \in used
    BY <1>1, <1>2, <2>1, <2>2
  <2>4. Fragments(p)[i].size = MinOf(runs[i], p.size - St(i))
    <3>1. Fragments(p)[i] = Frag(i)
      BY <1>5, <1>10, <2>3
    <3> QED BY <3>1 DEF Frag
  <2>5. y < St(i) + MinOf(runs[i], p.size - St(i))
    BY <1>1, <1>2, <2>1, <2>2 DEF MinOf
  <2> QED BY <1>5, <2>2, <2>3, <2>4, <2>5
<1> QED BY <1>6, <1>9, <1>10, <1>11 DEF Frag, St

(* The part that number j of the table is of. *)
LEMMA PartsAre ==
    ASSUME NEW s \in Setups
    PROVE  LET n == Len(s.patches) IN
           /\ n \in Nat /\ Parts(s) \in Seq(FilePart) /\ Len(Parts(s)) = n + 3
           /\ \A j \in 1..n :
                 Parts(s)[j] = Part(<<"patch", j>>, s.patches[j].runs, s.patches[j].disc,
                                    s.patches[j].offset, s.patches[j].size)
           /\ Parts(s)[n + 1] = Part(<<"disc", Disc1>>, s.disc1, Disc1, 0, Word - 1)
           /\ Parts(s)[n + 2] = Part(<<"disc", Disc2>>, s.disc2, Disc2, 0, Word - 1)
           /\ Parts(s)[n + 3] = Part(<<"disc", Apploader>>, s.apploader, Apploader,
                                     ApploaderAt, Total(s.apploader))
           /\ \A j \in 1..n + 3 : GoodPart(Parts(s)[j])
<1> DEFINE n == Len(s.patches)
           Patch(i) == Part(<<"patch", i>>, s.patches[i].runs, s.patches[i].disc,
                            s.patches[i].offset, s.patches[i].size)
           a == [i \in 1..n |-> Patch(i)]
           d1 == Part(<<"disc", Disc1>>, s.disc1, Disc1, 0, Word - 1)
           d2 == Part(<<"disc", Disc2>>, s.disc2, Disc2, 0, Word - 1)
           d3 == Part(<<"disc", Apploader>>, s.apploader, Apploader, ApploaderAt,
                      Total(s.apploader))
           b == <<d1, d2, d3>>
<1>1. /\ s.disc1 \in Runs /\ s.disc2 \in Runs /\ s.apploader \in Runs
      /\ s.patches \in Seq(PatchedPart)
  BY DiscReadAssumption DEF Setup
<1>2. n \in Nat /\ \A i \in 1..n : s.patches[i] \in PatchedPart
  BY <1>1, LenProperties, ElementOfSeq
<1>3. /\ Word \in Nat \ {0} /\ Granule \in Nat \ {0} /\ ApploaderAt \in Nat
      /\ Total(s.disc1) \in Nat /\ Total(s.disc2) \in Nat /\ Total(s.apploader) \in Nat
  BY <1>1, DiscReadAssumption, TotalIs
<1>4. /\ Whole(s.disc1) /\ Whole(s.disc2) /\ Whole(s.apploader)
      /\ Total(s.disc1) < Word - Granule /\ Total(s.disc2) < Word - Granule
      /\ Total(s.apploader) < Word - Granule
  BY DiscReadAssumption
<1>5. \A i \in 1..n : /\ Whole(s.patches[i].runs)
                      /\ s.patches[i].size <= Total(s.patches[i].runs)
                      /\ s.patches[i].size < Word - Granule
  BY DiscReadAssumption
<1>6. \A i \in 1..n : GoodPart(Patch(i))
  <2> TAKE i \in 1..n
  <2>1. /\ s.patches[i].runs \in Runs /\ s.patches[i].disc \in Discs
        /\ s.patches[i].offset \in Nat /\ s.patches[i].size \in Nat
    BY <1>2 DEF PatchedPart
  <2>2. Patch(i) \in FilePart
    BY <2>1 DEF FilePart, Part, Names, Files
  <2>3. Total(s.patches[i].runs) \in Nat
    BY <2>1, TotalIs
  <2>4. Extent(Patch(i)) < Word - Granule
    BY <1>5, <2>1, <2>3 DEF Extent, Part, MinOf
  <2>5. Whole(Patch(i).runs)
    BY <1>5 DEF Part
  <2> QED BY <2>2, <2>4, <2>5 DEF GoodPart
<1>7. GoodPart(d1) /\ GoodPart(d2) /\ GoodPart(d3)
  <2>1. d1 \in FilePart /\ d2 \in FilePart /\ d3 \in FilePart
    BY <1>1, <1>3 DEF FilePart, Part, Names, Files, Discs
  <2>2. Extent(d1) < Word - Granule /\ Extent(d2) < Word - Granule /\ Extent(d3) < Word - Granule
    BY <1>3, <1>4 DEF Extent, Part, MinOf
  <2>3. Whole(d1.runs) /\ Whole(d2.runs) /\ Whole(d3.runs)
    BY <1>4 DEF Part
  <2> QED BY <2>1, <2>2, <2>3 DEF GoodPart
<1> HIDE DEF Patch, d1, d2, d3
<1>8. a \in Seq(FilePart) /\ Len(a) = n /\ \A i \in 1..n : a[i] = Patch(i)
  <2>1. a \in [1..n -> FilePart]
    BY <1>6 DEF GoodPart
  <2> QED BY <1>2, <2>1
<1>9. b \in Seq(FilePart) /\ Len(b) = 3 /\ b[1] = d1 /\ b[2] = d2 /\ b[3] = d3
  BY <1>7 DEF GoodPart
<1>10. Parts(s) = a \o b
  BY DEF Parts, Patch, d1, d2, d3
<1> HIDE DEF a, b
<1>11. /\ Parts(s) \in Seq(FilePart) /\ Len(Parts(s)) = n + 3
       /\ \A i \in 1..n : Parts(s)[i] = a[i]
       /\ \A k \in 1..3 : Parts(s)[n + k] = b[k]
  <2>1. /\ a \o b \in Seq(FilePart) /\ Len(a \o b) = Len(a) + Len(b)
        /\ \A i \in 1..Len(a) : (a \o b)[i] = a[i]
        /\ \A i \in 1..Len(b) : (a \o b)[Len(a) + i] = b[i]
    BY <1>8, <1>9, Joined
  <2> QED BY <1>8, <1>9, <1>10, <2>1
<1>12. /\ \A j \in 1..n : Parts(s)[j] = Patch(j)
       /\ Parts(s)[n + 1] = d1 /\ Parts(s)[n + 2] = d2 /\ Parts(s)[n + 3] = d3
  BY <1>8, <1>9, <1>11
<1>13. \A j \in 1..n + 3 : GoodPart(Parts(s)[j])
  <2> TAKE j \in 1..n + 3
  <2>1. j \in 1..n \/ j = n + 1 \/ j = n + 2 \/ j = n + 3
    BY <1>2
  <2> QED BY <1>6, <1>7, <1>12, <2>1
<1> QED BY <1>2, <1>11, <1>12, <1>13 DEF Patch, d1, d2, d3

-----------------------------------------------------------------------------
(* The table *)

(* The sequence t holds what the first m of fs hold, own says of which     *)
(* each of its members is.                                                 *)
Upto(t, own, fs, m) ==
    /\ t \in Seq(Fragment) /\ own \in [1..Len(t) -> 1..m]
    /\ \A i, k \in 1..Len(t) : i < k => own[i] <= own[k]
    /\ \A i \in 1..Len(t) : \E k \in 1..Len(fs[own[i]]) : t[i] = fs[own[i]][k]
    /\ \A j \in 1..m : \A k \in 1..Len(fs[j]) :
          \E i \in 1..Len(t) : own[i] = j /\ t[i] = fs[j][k]

LEMMA OneMore ==
    ASSUME NEW N \in Nat, NEW fs \in [1..N -> Seq(Fragment)], NEW m \in 0..N - 1,
           NEW t, NEW own, Upto(t, own, fs, m)
    PROVE  \E o : Upto(t \o fs[m + 1], o, fs, m + 1)
<1>1. m + 1 \in 1..N /\ m \in Nat
  OBVIOUS
<1>2. PICK f \in Seq(Fragment) : f = fs[m + 1]
  BY <1>1
<1>3. PICK a \in Nat, b \in Nat : a = Len(t) /\ b = Len(f)
  BY <1>2, LenProperties DEF Upto
<1>4. t \in Seq(Fragment)
  BY DEF Upto
<1>5. PICK u : u = t \o f
  OBVIOUS
<1>6. /\ u \in Seq(Fragment) /\ Len(u) = a + b
      /\ \A i \in 1..a : u[i] = t[i]
      /\ \A i \in 1..b : u[a + i] = f[i]
  BY <1>3, <1>4, <1>5, Joined
<1>7. PICK o : o = [i \in 1..a + b |-> IF i <= a THEN own[i] ELSE m + 1]
  OBVIOUS
<1>8. own \in [1..a -> 1..m]
  BY <1>3 DEF Upto
<1>9. /\ \A i \in 1..a : o[i] = own[i] /\ own[i] \in 1..m
      /\ \A i \in 1..b : o[a + i] = m + 1
      /\ o \in [1..a + b -> 1..m + 1]
  <2>1. \A i \in 1..a : i \in 1..a + b /\ i <= a /\ own[i] \in 1..m
    BY <1>3, <1>8
  <2>2. \A i \in 1..b : a + i \in 1..a + b /\ ~(a + i <= a)
    BY <1>3
  <2>3. \A i \in 1..m : i \in 1..m + 1
    BY <1>1
  <2>4. m + 1 \in 1..m + 1
    BY <1>1
  <2>5. \A i \in 1..a : o[i] = own[i]
    BY <1>7, <2>1
  <2>6. \A i \in 1..b : o[a + i] = m + 1
    BY <1>7, <2>2
  <2>7. o \in [1..a + b -> 1..m + 1]
    <3>1. ASSUME NEW i \in 1..a + b PROVE (IF i <= a THEN own[i] ELSE m + 1) \in 1..m + 1
      <4>1. CASE i <= a
        <5>1. i \in 1..a
          BY <1>3, <4>1
        <5> QED BY <2>1, <2>3, <4>1, <5>1
      <4>2. CASE ~(i <= a)
        BY <2>4, <4>2
      <4> QED BY <4>1, <4>2
    <3> QED BY <1>7, <3>1
  <2> QED BY <2>1, <2>5, <2>6, <2>7
<1>10. \A i \in 1..a + b : i \in 1..a \/ (i - a \in 1..b /\ i = a + (i - a))
  BY <1>3
<1>11. \A i, k \in 1..a + b : i < k => o[i] <= o[k]
  <2> TAKE i, k \in 1..a + b
  <2> HAVE i < k
  <2>1. CASE k \in 1..a
    <3>1. i \in 1..a /\ own[i] <= own[k]
      BY <1>3, <2>1 DEF Upto
    <3> QED BY <1>9, <2>1, <3>1
  <2>2. CASE k - a \in 1..b /\ k = a + (k - a)
    <3>1. o[k] = m + 1 /\ o[i] \in 1..m + 1
      BY <1>9, <2>2
    <3> QED BY <1>1, <3>1
  <2> QED BY <1>10, <2>1, <2>2
<1>12. \A i \in 1..a + b : \E k \in 1..Len(fs[o[i]]) : u[i] = fs[o[i]][k]
  <2> TAKE i \in 1..a + b
  <2>1. CASE i \in 1..a
    <3>1. \E k \in 1..Len(fs[own[i]]) : t[i] = fs[own[i]][k]
      BY <1>3, <2>1 DEF Upto
    <3> QED BY <1>6, <1>9, <2>1, <3>1
  <2>2. CASE i - a \in 1..b /\ i = a + (i - a)
    <3>1. o[i] = m + 1 /\ u[i] = f[i - a]
      BY <1>6, <1>9, <2>2
    <3> QED BY <1>2, <1>3, <2>2, <3>1
  <2> QED BY <1>10, <2>1, <2>2
<1>13. \A j \in 1..m + 1 : \A k \in 1..Len(fs[j]) :
          \E i \in 1..a + b : o[i] = j /\ u[i] = fs[j][k]
  <2> TAKE j \in 1..m + 1
  <2> TAKE k \in 1..Len(fs[j])
  <2>1. CASE j \in 1..m
    <3>1. PICK i \in 1..a : own[i] = j /\ t[i] = fs[j][k]
      BY <1>3, <2>1 DEF Upto
    <3> QED BY <1>3, <1>6, <1>9, <3>1
  <2>2. CASE j = m + 1
    <3>1. k \in 1..b /\ a + k \in 1..a + b
      BY <1>2, <1>3, <2>2
    <3>2. o[a + k] = j /\ u[a + k] = fs[j][k]
      BY <1>2, <1>6, <1>9, <2>2, <3>1
    <3> QED BY <3>1, <3>2
  <2>3. j \in 1..m \/ j = m + 1
    BY <1>1
  <2> QED BY <2>1, <2>2, <2>3
<1>14. Upto(u, o, fs, m + 1)
  BY <1>6, <1>9, <1>11, <1>12, <1>13 DEF Upto
<1> QED BY <1>2, <1>5, <1>14

(* What the fragments of the parts of a setup are. *)
FragmentsOf(s) == [j \in 1..Len(Parts(s)) |-> Fragments(Parts(s)[j])]

LEMMA TableIs ==
    ASSUME NEW s \in Setups
    PROVE  \E own : Upto(Table(s), own, FragmentsOf(s), Len(Parts(s)))
<1> DEFINE N == Len(Parts(s))
           fs == FragmentsOf(s)
           Lay(g, n) == /\ g \in [0..n -> Seq(Fragment)] /\ g[0] = <<>>
                        /\ \A i \in 1..n : g[i] = g[i - 1] \o fs[i]
           F == CHOOSE f : f = [i \in 0..N |-> IF i = 0 THEN <<>>
                                                 ELSE f[i - 1] \o Fragments(Parts(s)[i])]
<1>1. N \in Nat /\ \A j \in 1..N : GoodPart(Parts(s)[j])
  BY PartsAre
<1>2. fs \in [1..N -> Seq(Fragment)] /\ \A j \in 1..N : fs[j] = Fragments(Parts(s)[j])
  BY <1>1, FragmentsAre DEF FragmentsOf
<1>3. PICK nil : nil = <<>>
  OBVIOUS
<1>4. nil \in Seq(Fragment) /\ Len(nil) = 0
  BY <1>3
<1> HIDE DEF fs, Lay
<1> DEFINE Good == {n \in 0..N : \E g : Lay(g, n)}
<1>5. N \in Good
  <2>1. 0 \in Good
    <3>1. PICK g : g = [i \in 0..0 |-> nil]
      OBVIOUS
    <3>2. g \in [0..0 -> Seq(Fragment)] /\ g[0] = nil
      BY <1>4, <3>1
    <3>3. Lay(g, 0)
      BY <1>3, <3>2 DEF Lay
    <3> QED BY <1>1, <3>3
  <2>2. ASSUME NEW m \in 0..N - 1, m \in Good PROVE m + 1 \in Good
    <3>1. PICK g : Lay(g, m)
      BY <2>2
    <3>2. m \in Nat /\ m + 1 \in 0..N /\ m + 1 \in 1..N /\ m \in 0..m
      BY <1>1
    <3>3. g[m] \in Seq(Fragment) /\ fs[m + 1] \in Seq(Fragment)
      BY <1>2, <3>1, <3>2 DEF Lay
    <3>4. PICK e : e = g[m] \o fs[m + 1] /\ e \in Seq(Fragment)
      BY <3>3, Joined
    <3> DEFINE h == [i \in 0..m + 1 |-> IF i <= m THEN g[i] ELSE e]
    <3>5. h \in [0..m + 1 -> Seq(Fragment)] /\ h[0] = <<>>
      BY <3>1, <3>2, <3>4 DEF Lay
    <3>6. h[m + 1] = e /\ \A i \in 0..m : h[i] = g[i]
      BY <3>2
    <3> HIDE DEF h
    <3>7. ASSUME NEW i \in 1..m + 1 PROVE h[i] = h[i - 1] \o fs[i]
      <4>1. i - 1 \in 0..m /\ h[i - 1] = g[i - 1]
        BY <3>2, <3>6
      <4>2. CASE i = m + 1
        <5>1. i - 1 = m
          BY <3>2, <4>2
        <5>2. h[i] = g[m] \o fs[m + 1]
          BY <3>4, <3>6, <4>2
        <5> QED BY <4>1, <4>2, <5>1, <5>2
      <4>3. CASE i \in 1..m
        <5>1. i \in 0..m
          BY <4>3
        <5>2. g[i] = g[i - 1] \o fs[i] /\ h[i] = g[i]
          BY <3>1, <3>6, <4>3, <5>1 DEF Lay
        <5> QED BY <4>1, <5>2
      <4>4. i = m + 1 \/ i \in 1..m
        BY <3>2
      <4> QED BY <4>2, <4>3, <4>4
    <3>8. Lay(h, m + 1)
      BY <3>5, <3>7 DEF Lay
    <3> QED BY <3>2, <3>8
  <2> HIDE DEF Good
  <2>3. \A m \in 0..N : m \in Good
    BY <1>1, <2>1, <2>2, Induction
  <2> QED BY <1>1, <2>3
<1>6. PICK g : Lay(g, N)
  BY <1>5
<1>7. g = [i \in 0..N |-> IF i = 0 THEN <<>> ELSE g[i - 1] \o Fragments(Parts(s)[i])]
  <2>1. g \in [0..N -> Seq(Fragment)] /\ g[0] = <<>>
    BY <1>6 DEF Lay
  <2>2. ASSUME NEW i \in 0..N
        PROVE  g[i] = IF i = 0 THEN <<>> ELSE g[i - 1] \o Fragments(Parts(s)[i])
    <3>1. CASE i = 0
      BY <2>1, <3>1
    <3>2. CASE i # 0
      <4>1. i \in 1..N
        BY <1>1, <3>2
      <4>2. g[i] = g[i - 1] \o fs[i] /\ fs[i] = Fragments(Parts(s)[i])
        BY <1>2, <1>6, <4>1 DEF Lay
      <4> QED BY <3>2, <4>2
    <3> QED BY <3>1, <3>2
  <2> QED BY <2>1, <2>2
<1>8. F = [i \in 0..N |-> IF i = 0 THEN <<>> ELSE F[i - 1] \o Fragments(Parts(s)[i])]
  BY <1>7
<1>9. Table(s) = F[N]
  BY DEF Table
<1> HIDE DEF F
<1>10. F[0] = <<>> /\ \A i \in 1..N : F[i] = F[i - 1] \o fs[i]
  <2>1. F[0] = <<>>
    <3>1. 0 \in 0..N
      BY <1>1
    <3> QED BY <1>8, <3>1
  <2>2. ASSUME NEW i \in 1..N PROVE F[i] = F[i - 1] \o fs[i]
    <3>1. i \in 0..N /\ i # 0 /\ fs[i] = Fragments(Parts(s)[i])
      BY <1>1, <1>2
    <3> QED BY <1>8, <3>1
  <2> QED BY <2>1, <2>2
<1> DEFINE Laid == {m \in 0..N : \E own : Upto(F[m], own, fs, m)}
<1>11. 0 \in Laid
  <2>1. PICK own : own = [i \in 1..0 |-> 0]
    OBVIOUS
  <2>2. Upto(nil, own, fs, 0)
    BY <1>4, <2>1 DEF Upto
  <2>3. F[0] = nil
    BY <1>10, <1>3
  <2>4. Upto(F[0], own, fs, 0)
    BY <2>2, <2>3
  <2> QED BY <1>1, <2>4
<1>12. ASSUME NEW m \in 0..N - 1, m \in Laid PROVE m + 1 \in Laid
  <2>1. PICK own : Upto(F[m], own, fs, m)
    BY <1>12
  <2>2. m + 1 \in 1..N /\ m + 1 \in 0..N /\ (m + 1) - 1 = m
    BY <1>1
  <2>3. F[m + 1] = F[m] \o fs[m + 1]
    BY <1>10, <2>2
  <2>4. PICK o : Upto(F[m] \o fs[m + 1], o, fs, m + 1)
    BY <1>1, <1>2, <2>1, OneMore
  <2> QED BY <2>2, <2>3, <2>4
<1> HIDE DEF Laid
<1>13. N \in Laid
  <2>1. \A m \in 0..N : m \in Laid
    BY <1>1, <1>11, <1>12, Induction
  <2> QED BY <1>1, <2>1
<1> QED BY <1>9, <1>13 DEF Laid, fs

-----------------------------------------------------------------------------
(* The fragments of a part *)

LEMMA RoundExact ==
    ASSUME NEW x \in Nat, x % Granule = 0, x + Granule - 1 < Word
    PROVE  Round(x) = x
<1>1. Granule \in Nat \ {0}
  BY DiscReadAssumption
<1>2. PICK r \in Nat : r = Round(x) /\ r % Granule = 0 /\ r <= x + Granule - 1 /\ x <= r
  BY RoundIs
<1>3. (r - x) % Granule = 0
  BY <1>1, <1>2, SumOfMultiples
<1>4. r - x \in 0..Granule - 1
  BY <1>1, <1>2
<1>5. r - x = 0
  BY <1>1, <1>3, <1>4
<1> QED BY <1>2, <1>5

(* The part has the offset x of the file. *)
Inside(p, file, x) == p.file = file /\ p.base <= x /\ x < p.base + Extent(p)

LEMMA ExtentIs ==
    ASSUME NEW p, GoodPart(p)
    PROVE  Extent(p) \in Nat /\ Extent(p) <= p.size /\ Extent(p) <= Total(p.runs)
<1>1. p.runs \in Runs /\ p.size \in Nat
  BY DEF GoodPart, FilePart
<1>2. Total(p.runs) \in Nat
  BY <1>1, TotalIs
<1> QED BY <1>1, <1>2 DEF Extent, MinOf

(* f is the fragment of run k, which starts at a, of the part. *)
OfRun(f, p, k, a) ==
    /\ f \in Fragment /\ k \in 1..Len(p.runs)
    /\ f.file = p.file /\ f.offset = p.base + a
    /\ f.size = MinOf(p.runs[k], p.size - a)
    /\ f.data = [of |-> p.name, at |-> a]
    /\ a < p.size

LEMMA FragmentIs ==
    ASSUME NEW p, GoodPart(p), NEW k \in 1..Len(Fragments(p)),
           NEW f, f = Fragments(p)[k], NEW a, a = RunStart(p.runs, k)
    PROVE  OfRun(f, p, k, a)
<1>1. f = [file |-> p.file, offset |-> p.base + a, size |-> MinOf(p.runs[k], p.size - a),
           data |-> [of |-> p.name, at |-> a]]
  BY FragmentsAre
<1>2. Fragments(p) \in Seq(Fragment) /\ k \in 1..Len(p.runs) /\ a < p.size
  BY FragmentsAre
<1>3. f \in Fragment
  BY <1>2, ElementOfSeq
<1> QED BY <1>1, <1>2, <1>3 DEF OfRun

LEMMA FragmentOf ==
    ASSUME NEW p, GoodPart(p), NEW file, NEW x \in Nat, Inside(p, file, x)
    PROVE  \E k \in 1..Len(Fragments(p)) : Holds(Fragments(p)[k], file, x)
<1>1. p.base \in Nat /\ Extent(p) \in Nat
  BY ExtentIs DEF GoodPart, FilePart
<1>2. x - p.base \in 0..Extent(p) - 1
  BY <1>1 DEF Inside
<1>3. PICK k \in 1..Len(Fragments(p)) :
         /\ RunStart(p.runs, k) <= x - p.base
         /\ x - p.base < RunStart(p.runs, k) + Fragments(p)[k].size
  BY <1>2, FragmentsAre
<1>4. PICK f : f = Fragments(p)[k]
  OBVIOUS
<1>5. PICK a : a = RunStart(p.runs, k)
  OBVIOUS
<1>6. f \in Fragment /\ k \in 1..Len(p.runs) /\ f.file = p.file /\ f.offset = p.base + a
  <2>1. OfRun(f, p, k, a)
    BY <1>4, <1>5, FragmentIs
  <2> QED BY <2>1 DEF OfRun
<1>7. a \in Nat
  BY <1>5, <1>6, WholeRuns DEF GoodPart, FilePart
<1>8. f.size \in Nat /\ f.offset = p.base + a /\ a <= x - p.base /\ x - p.base < a + f.size
  BY <1>3, <1>4, <1>5, <1>6, <1>7 DEF Fragment
<1>9. f.offset <= x /\ x < f.offset + f.size
  BY <1>1, <1>8, <1>7
<1> QED BY <1>4, <1>6, <1>9 DEF Holds, Inside

LEMMA FirstFragment ==
    ASSUME NEW p, GoodPart(p), Extent(p) > 0
    PROVE  /\ 1 \in 1..Len(Fragments(p))
           /\ Fragments(p)[1].offset = p.base /\ Fragments(p)[1].file = p.file
<1>1. Extent(p) \in Nat /\ p.runs \in Runs /\ p.base \in Nat
  BY ExtentIs DEF GoodPart, FilePart
<1>2. PICK k \in 1..Len(Fragments(p)) : TRUE
  <2>1. 0 \in 0..Extent(p) - 1
    BY <1>1
  <2> QED BY <2>1, FragmentsAre
<1>3. Len(Fragments(p)) \in Nat
  BY FragmentsAre, LenProperties
<1>4. 1 \in 1..Len(Fragments(p))
  BY <1>2, <1>3
<1>5. RunStart(p.runs, 1) = 0
  <2>1. Sums(p.runs)[0] = 0 /\ 1 - 1 = 0
    BY <1>1, SumsAre
  <2> QED BY <2>1 DEF RunStart
<1>6. PICK f, a : f = Fragments(p)[1] /\ a = RunStart(p.runs, 1)
  OBVIOUS
<1>7. f.offset = p.base + a /\ f.file = p.file
  <2>1. OfRun(f, p, 1, a)
    BY <1>4, <1>6, FragmentIs
  <2> QED BY <2>1 DEF OfRun
<1> QED BY <1>1, <1>4, <1>5, <1>6, <1>7

(* What a fragment is to its part: it lies in a run, keeps to the part,    *)
(* and unless it ends the part it is whole 32 bytes.                       *)
OfPart(f, p, k) ==
    /\ f \in Fragment /\ f.file = p.file
    /\ k \in 1..Len(p.runs) /\ RunStart(p.runs, k) \in Nat /\ RunStart(p.runs, k) % Granule = 0
    /\ f.data = [of |-> p.name, at |-> RunStart(p.runs, k)]
    /\ f.offset = p.base + RunStart(p.runs, k)
    /\ f.size <= p.runs[k]
    /\ f.size < Word - Granule
    /\ f.offset + f.size <= p.base + Extent(p)
    /\ f.size % Granule = 0 \/ f.offset + f.size = p.base + Extent(p)

LEMMA FragmentOfPart ==
    ASSUME NEW p, GoodPart(p), NEW k \in 1..Len(Fragments(p))
    PROVE  OfPart(Fragments(p)[k], p, k)
<1>1. /\ p.runs \in Runs /\ p.base \in Nat /\ p.size \in Nat /\ Whole(p.runs)
      /\ Extent(p) < Word - Granule /\ Word \in Nat /\ Granule \in Nat
  BY DiscReadAssumption DEF GoodPart, FilePart
<1>2. PICK f, a : f = Fragments(p)[k] /\ a = RunStart(p.runs, k)
  OBVIOUS
<1>3. OfRun(f, p, k, a)
  BY <1>2, FragmentIs
<1>4. /\ f \in Fragment /\ k \in 1..Len(p.runs)
      /\ f.file = p.file /\ f.offset = p.base + a /\ f.size = MinOf(p.runs[k], p.size - a)
      /\ f.data = [of |-> p.name, at |-> a] /\ a < p.size
  BY <1>3 DEF OfRun
<1>5. PICK v \in Nat, b \in Nat, r \in Nat, total \in Nat, n \in Nat :
         v = p.size /\ b = p.base /\ r = p.runs[k] /\ total = Total(p.runs) /\ n = Len(p.runs)
  BY <1>1, <1>4, WholeRuns, TotalIs, LenProperties DEF Runs
<1>6. /\ a \in Nat /\ a % Granule = 0
      /\ k < n => r % Granule = 0
      /\ a + r <= total
      /\ k = n => a + r = total
  BY <1>1, <1>2, <1>5, <1>4, WholeRuns
<1>7. PICK e : e = Extent(p) /\ e = MinOf(v, total)
  BY <1>5 DEF Extent
<1>8. PICK z : z = f.size /\ z = MinOf(r, v - a)
  BY <1>5, <1>4
<1>9. /\ z \in Nat /\ z <= r /\ e \in Nat /\ a + z <= e
      /\ z = r \/ a + z = e
      /\ a + r = total => a + z = e
  <2>1. a < v
    BY <1>5, <1>4
  <2>2. a \in Nat /\ a + r <= total /\ z = MinOf(r, v - a) /\ e = MinOf(v, total)
    BY <1>6, <1>7, <1>8
  <2> QED BY <2>1, <2>2 DEF MinOf
<1>10. z % Granule = 0 \/ a + z = e
  <2>1. k < n \/ k = n
    BY <1>5, <1>4
  <2> QED BY <1>6, <1>9, <2>1
<1>11. (b + a) + z <= b + e /\ (a + z = e => (b + a) + z = b + e) /\ z < Word - Granule
  <2>1. e < Word - Granule /\ Word \in Nat /\ Granule \in Nat
    BY <1>1, <1>7
  <2>2. a \in Nat /\ z \in Nat /\ e \in Nat /\ a + z <= e
    BY <1>6, <1>9
  <2>3. z < Word - Granule
    BY <2>1, <2>2
  <2>4. (b + a) + z <= b + e /\ (a + z = e => (b + a) + z = b + e)
    BY <2>2
  <2> QED BY <2>3, <2>4
<1>12. OfPart(f, p, k)
  BY <1>2, <1>5, <1>6, <1>4, <1>7, <1>8, <1>9, <1>10, <1>11 DEF OfPart
<1> QED BY <1>2, <1>12

-----------------------------------------------------------------------------
(* The search *)

(* What frag_get answers: f, the fragment of run k of part j, the first    *)
(* part that has the offset; up to its end, rounded, and up to where a     *)
(* part before it starts, rounded.                                         *)
Answer(s, file, x, size, g, j, k, f) ==
    /\ OfPart(f, Parts(s)[j], k) /\ Holds(f, file, x)
    /\ g.data = f.data /\ g.offset = x - f.offset
    /\ \A i \in 1..j - 1 : ~Inside(Parts(s)[i], file, x)
    /\ g.size \in 0..size /\ g.size <= Round(f.size) - (x - f.offset)
    /\ \A i \in 1..j - 1 :
          LET q == Parts(s)[i] IN
          q.file = file /\ Extent(q) > 0 /\ x < q.base /\ q.base - x < Word
             => g.size <= Round(q.base - x)
    /\ x % Granule = 0 /\ size % Granule = 0 /\ Parts(s)[j].base % Granule = 0
          => g.offset % Granule = 0 /\ g.size % Granule = 0

LEMMA LimitsAre ==
    ASSUME frags \in Seq(Fragment), NEW file, NEW x \in Nat, NEW i \in 1..Len(frags)
    PROVE  \A y \in Limits(file, x, i) : y \in Nat /\ y % Granule = 0
<1> TAKE y \in Limits(file, x, i)
<1>1. Word \in Nat \ {0}
  BY DiscReadAssumption
<1>2. PICK j \in 1..i - 1 : y = Round((frags[j].offset - x) % Word)
  BY DEF Limits
<1>3. j \in 1..Len(frags)
  BY LenProperties
<1>4. frags[j] \in Fragment
  BY <1>3, ElementOfSeq
<1>5. PICK d \in Nat : d = (frags[j].offset - x) % Word
  BY <1>1, <1>4 DEF Fragment
<1>6. y = Round(d)
  BY <1>2, <1>5
<1> QED BY <1>6, RoundIs

LEMMA SearchIs ==
    ASSUME NEW s \in Setups, frags = Table(s), NEW file, NEW x \in Nat, NEW size \in Nat,
           NEW j0 \in 1..Len(Parts(s)), Inside(Parts(s)[j0], file, x),
           NEW g, g = FragGet(file, x, size)
    PROVE  \E j \in 1..Len(Parts(s)) : \E k, f : Answer(s, file, x, size, g, j, k, f)
<1> DEFINE N == Len(Parts(s))
           fs == FragmentsOf(s)
<1>1. N \in Nat /\ \A j \in 1..N : GoodPart(Parts(s)[j])
  BY PartsAre
<1>2. PICK own : Upto(frags, own, fs, N)
  BY TableIs
<1>3. \A j \in 1..N : fs[j] = Fragments(Parts(s)[j])
  BY DEF FragmentsOf
<1>4. /\ Granule \in Nat \ {0} /\ Word \in Nat \ {0} /\ Word % Granule = 0
  BY DiscReadAssumption
<1> HIDE DEF fs
<1>5. frags \in Seq(Fragment) /\ Len(frags) \in Nat
      /\ \A i \in 1..Len(frags) : frags[i] \in Fragment /\ own[i] \in 1..N
  BY <1>2, LenProperties, ElementOfSeq DEF Upto
<1>6. \A j \in 1..N : Inside(Parts(s)[j], file, x)
                         => \E i \in Found(file, x) : own[i] = j
  <2> TAKE j \in 1..N
  <2> HAVE Inside(Parts(s)[j], file, x)
  <2>1. PICK k \in 1..Len(Fragments(Parts(s)[j])) : Holds(Fragments(Parts(s)[j])[k], file, x)
    BY <1>1, FragmentOf
  <2>2. PICK i \in 1..Len(frags) : own[i] = j /\ frags[i] = fs[j][k]
    BY <1>2, <1>3, <2>1 DEF Upto
  <2>3. Holds(frags[i], file, x)
    BY <1>3, <2>1, <2>2
  <2> QED BY <2>2, <2>3 DEF Found
<1>7. PICK i \in Found(file, x) :
         i = Min(Found(file, x)) /\ \A h \in Found(file, x) : i <= h
  <2>1. Found(file, x) \in SUBSET Nat /\ Found(file, x) # {}
    BY <1>6 DEF Found
  <2> QED BY <2>1, MinIs
<1>8. i \in 1..Len(frags) /\ Holds(frags[i], file, x)
  BY <1>7 DEF Found
<1>9. PICK f : f = frags[i]
  OBVIOUS
<1>10. PICK j \in 1..N : f = frags[i] /\ j = own[i]
  BY <1>5, <1>8, <1>9
<1>11. PICK k : OfPart(f, Parts(s)[j], k)
  <2>1. PICK k \in 1..Len(fs[j]) : f = fs[j][k]
    BY <1>2, <1>8, <1>10 DEF Upto
  <2>2. k \in 1..Len(Fragments(Parts(s)[j])) /\ f = Fragments(Parts(s)[j])[k]
    BY <1>3, <2>1
  <2> QED BY <1>1, <2>2, FragmentOfPart
<1>12. PICK o \in Nat : o = x - f.offset /\ o < f.size
  <2>1. f.offset \in Nat /\ f.size \in Nat /\ f.offset <= x /\ x < f.offset + f.size
    BY <1>5, <1>8, <1>10 DEF Fragment, Holds
  <2> QED BY <2>1
<1>13. PICK r \in Nat : r = Round(f.size) - o /\ r = (Round(f.size) - o) % Word
                        /\ (o % Granule = 0 => r % Granule = 0)
  <2>1. PICK e \in Nat : e = f.size /\ e < Word - Granule
    BY <1>5, <1>8, <1>10, <1>11 DEF Fragment, OfPart
  <2>2. e + Granule - 1 < Word
    BY <1>4, <2>1
  <2>3. PICK z \in Nat : z = Round(e) /\ z <= e + Granule - 1 /\ e <= z /\ z % Granule = 0
    BY <2>2, RoundIs
  <2>4. z - o \in 1..Word - 1
    <3>1. o < e
      BY <1>12, <2>1
    <3> QED BY <1>4, <2>3, <2>2, <3>1
  <2>5. (z - o) % Word = z - o
    BY <1>4, <2>4
  <2>6. o % Granule = 0 => (z - o) % Granule = 0
    BY <1>4, <2>3, SumOfMultiples
  <2> QED BY <2>1, <2>3, <2>4, <2>5, <2>6
<1>14. PICK S : S = {size, r} \cup Limits(file, x, i)
  OBVIOUS
<1>15. g.data = f.data /\ g.offset = o /\ g.size = Min(S)
  BY <1>7, <1>10, <1>12, <1>13, <1>14 DEF FragGet
<1>16. S \in SUBSET Nat /\ size \in S /\ r \in S
       /\ \A y \in Limits(file, x, i) : y \in S /\ y % Granule = 0
  BY <1>5, <1>8, <1>14, LimitsAre
<1>17. g.size \in S /\ \A y \in S : g.size <= y
  BY <1>15, <1>16, MinIs
<1>18. g.size \in 0..size /\ g.size <= Round(f.size) - (x - f.offset)
  <2>1. g.size \in Nat /\ g.size <= size /\ g.size <= r
    BY <1>16, <1>17
  <2> QED BY <1>12, <1>13, <2>1
<1>19. \A h \in 1..j - 1 : ~Inside(Parts(s)[h], file, x)
  <2> SUFFICES ASSUME NEW h \in 1..j - 1, Inside(Parts(s)[h], file, x) PROVE FALSE
    OBVIOUS
  <2>1. h \in 1..N
    BY <1>1, <1>10
  <2>2. PICK m \in Found(file, x) : own[m] = h
    BY <1>6, <2>1
  <2>3. m \in 1..Len(frags) /\ i <= m
    BY <1>7, <2>2 DEF Found
  <2>4. own[i] <= own[m]
    <3>1. CASE i = m
      BY <1>10, <3>1
    <3>2. CASE i < m
      BY <1>2, <1>8, <2>3, <3>2 DEF Upto
    <3> QED BY <1>5, <1>8, <2>3, <3>1, <3>2
  <2> QED BY <1>1, <1>10, <2>1, <2>2, <2>4
<1>20. ASSUME NEW h \in 1..j - 1,
              Parts(s)[h].file = file, Extent(Parts(s)[h]) > 0, x < Parts(s)[h].base,
              Parts(s)[h].base - x < Word
       PROVE  g.size <= Round(Parts(s)[h].base - x)
  <2>1. h \in 1..N /\ h < j
    BY <1>1, <1>10
  <2>2. PICK q : q = Parts(s)[h] /\ GoodPart(q)
    BY <1>1, <2>1
  <2>3. 1 \in 1..Len(Fragments(q)) /\ Fragments(q)[1].offset = q.base
        /\ Fragments(q)[1].file = q.file
    BY <1>20, <2>2, FirstFragment
  <2>4. PICK m \in 1..Len(frags) : own[m] = h /\ frags[m] = Fragments(q)[1]
    <3>1. fs[h] = Fragments(q)
      BY <1>3, <2>1, <2>2
    <3>2. \A n \in 1..Len(fs[h]) : \E m \in 1..Len(frags) : own[m] = h /\ frags[m] = fs[h][n]
      BY <1>2, <2>1 DEF Upto
    <3> QED BY <2>3, <3>1, <3>2
  <2>5. m < i
    <3>1. ~(i <= m)
      <4>1. i = m => own[i] = own[m]
        OBVIOUS
      <4>2. i < m => own[i] <= own[m]
        BY <1>2, <1>8 DEF Upto
      <4> QED BY <1>1, <1>5, <1>8, <1>10, <2>1, <2>4, <4>1, <4>2
    <3> QED BY <1>5, <1>8, <3>1
  <2>6. m \in {n \in 1..i - 1 : frags[n].file = file}
    BY <1>5, <1>8, <1>20, <2>2, <2>3, <2>4, <2>5
  <2>7. PICK b \in Nat : b = q.base
    BY <2>2 DEF GoodPart, FilePart
  <2>8. (b - x) % Word = b - x
    <3>1. b - x \in 0..Word - 1
      BY <1>4, <1>20, <2>2, <2>7
    <3> QED BY <1>4, <3>1
  <2>9. Round((frags[m].offset - x) % Word) \in Limits(file, x, i)
    BY <2>6 DEF Limits
  <2>10. frags[m].offset = b
    BY <2>3, <2>4, <2>7
  <2> QED BY <1>16, <1>17, <2>2, <2>7, <2>8, <2>9, <2>10
<1>21. ASSUME x % Granule = 0, size % Granule = 0, Parts(s)[j].base % Granule = 0
       PROVE  g.offset % Granule = 0 /\ g.size % Granule = 0
  <2>1. PICK b \in Nat, a \in Nat :
           b = Parts(s)[j].base /\ a = RunStart(Parts(s)[j].runs, k) /\ a % Granule = 0
    BY <1>1, <1>11 DEF OfPart, GoodPart, FilePart
  <2>2. f.offset = b + a
    BY <1>11, <2>1 DEF OfPart
  <2>3. (b + a) % Granule = 0
    BY <1>4, <1>21, <2>1, SumOfMultiples
  <2>4. (x - (b + a)) % Granule = 0
    BY <1>4, <1>21, <2>1, <2>3, SumOfMultiples
  <2>5. o % Granule = 0
    BY <1>12, <2>2, <2>4
  <2>6. g.size = size \/ g.size = r \/ g.size \in Limits(file, x, i)
    BY <1>14, <1>17
  <2>7. g.size % Granule = 0
    BY <1>13, <1>16, <1>21, <2>5, <2>6
  <2> QED BY <1>15, <2>5, <2>7
<1>22. g.offset = x - f.offset
  BY <1>12, <1>15
<1>23. Answer(s, file, x, size, g, j, k, f)
  BY <1>8, <1>10, <1>11, <1>15, <1>18, <1>19, <1>20, <1>21, <1>22 DEF Answer
<1> QED BY <1>10, <1>23

-----------------------------------------------------------------------------
(* What a piece of a read means *)

NearEdge(file, y) == \E e \in Edges(file) : e <= y /\ y < e + Granule

KeepTo32(file) == \A p \in PatchesOf(file) : p.offset % Granule = 0 /\ p.size % Granule = 0

LEMMA RoundAtMost ==
    ASSUME NEW x \in Nat, x % Granule = 0
    PROVE  Round(x) <= x
<1>1. Granule \in Nat \ {0}
  BY DiscReadAssumption
<1>2. PICK r \in Nat : r = Round(x) /\ r % Granule = 0 /\ r <= x + Granule - 1
  BY RoundIs
<1>3. (r - x) % Granule = 0
  BY <1>1, <1>2, SumOfMultiples
<1>4. r - x \in Int /\ r - x <= Granule - 1
  BY <1>1, <1>2
<1>5. r - x <= 0
  BY <1>1, <1>3, <1>4
<1> QED BY <1>2, <1>5

LEMMA PatchIs ==
    ASSUME setup \in Setups, NEW j \in 1..Len(setup.patches),
           NEW p, p = Parts(setup)[j], NEW file
    PROVE  /\ p.name = <<"patch", j>> /\ p.runs = setup.patches[j].runs
           /\ p.file = setup.patches[j].disc
           /\ p.base = setup.patches[j].offset /\ Extent(p) = setup.patches[j].size
           /\ p.file = file =>
                 /\ p.base \in Edges(file) /\ p.base + Extent(p) \in Edges(file)
                 /\ KeepTo32(file) => p.base % Granule = 0 /\ Extent(p) % Granule = 0
<1>1. PICK h : h = setup.patches[j]
  OBVIOUS
<1>2. p = Part(<<"patch", j>>, h.runs, h.disc, h.offset, h.size)
  BY <1>1, PartsAre
<1>3. /\ p.name = <<"patch", j>> /\ p.runs = h.runs /\ p.file = h.disc /\ p.base = h.offset
      /\ p.size = h.size
  BY <1>2 DEF Part
<1>4. GoodPart(p)
  <2>1. j \in 1..Len(setup.patches) + 3
    BY PartsAre
  <2> QED BY <2>1, PartsAre
<1>5. h.size <= Total(h.runs)
  BY <1>1, DiscReadAssumption
<1>6. h.size \in Nat /\ Total(h.runs) \in Nat
  BY <1>3, <1>4, TotalIs DEF GoodPart, FilePart
<1>7. Extent(p) = h.size
  BY <1>3, <1>5, <1>6 DEF Extent, MinOf
<1>8. h \in ToSet(setup.patches)
  BY <1>1 DEF ToSet
<1>9. ASSUME p.file = file PROVE h \in PatchesOf(file)
  BY <1>3, <1>8, <1>9 DEF PatchesOf
<1>10. ASSUME p.file = file
       PROVE  h.offset \in Edges(file) /\ h.offset + h.size \in Edges(file)
  BY <1>9, <1>10 DEF Edges
<1>11. ASSUME p.file = file, KeepTo32(file)
       PROVE  h.offset % Granule = 0 /\ h.size % Granule = 0
  BY <1>9, <1>11 DEF KeepTo32
<1> QED BY <1>1, <1>3, <1>7, <1>10, <1>11

(* Part d is the image of the disc, or the apploader. *)
DiscPart(d, file) ==
    LET q == Parts(setup)[d] IN
    /\ d \in 1..Len(Parts(setup)) /\ d > Len(setup.patches)
    /\ q.file = file /\ q.name = <<"disc", file>> /\ q.runs = RunsOf(q.name)
    /\ q.base = (IF file = Apploader THEN ApploaderAt ELSE 0) /\ q.base % Granule = 0
    /\ \A y \in Nat : y \in Image(file) <=> Inside(q, file, y)
    /\ \A j \in 1..Len(Parts(setup)) :
          Parts(setup)[j].file = file => j = d \/ j \in 1..Len(setup.patches)

LEMMA DiscPartIs ==
    ASSUME setup \in Setups, NEW file \in Files
    PROVE  \E d : DiscPart(d, file)
<1> DEFINE n == Len(setup.patches)
<1>1. n \in Nat /\ Len(Parts(setup)) = n + 3
  BY PartsAre
<1>2. /\ Word \in Nat \ {0} /\ Granule \in Nat \ {0} /\ ApploaderAt \in Nat
      /\ ApploaderAt % Granule = 0 /\ 0 % Granule = 0
  BY DiscReadAssumption
<1>3. PICK d1, d2, d3 :
        /\ d1 = Parts(setup)[n + 1] /\ d1 = Part(<<"disc", Disc1>>, setup.disc1, Disc1, 0, Word - 1)
        /\ d2 = Parts(setup)[n + 2] /\ d2 = Part(<<"disc", Disc2>>, setup.disc2, Disc2, 0, Word - 1)
        /\ d3 = Parts(setup)[n + 3]
        /\ d3 = Part(<<"disc", Apploader>>, setup.apploader, Apploader, ApploaderAt,
                     Total(setup.apploader))
  BY PartsAre
<1>4. PICK t1 \in Nat, t2 \in Nat, t3 \in Nat :
        /\ t1 = Total(setup.disc1) /\ t2 = Total(setup.disc2) /\ t3 = Total(setup.apploader)
        /\ t1 < Word - Granule /\ t2 < Word - Granule
  <2>1. setup.disc1 \in Runs /\ setup.disc2 \in Runs /\ setup.apploader \in Runs
    BY DiscReadAssumption DEF Setup
  <2>2. Total(setup.disc1) < Word - Granule /\ Total(setup.disc2) < Word - Granule
    BY DiscReadAssumption
  <2> QED BY <2>1, <2>2, TotalIs
<1>5. Extent(d1) = t1 /\ Extent(d2) = t2 /\ Extent(d3) = t3
  <2>1. /\ d1.size = Word - 1 /\ d1.runs = setup.disc1
        /\ d2.size = Word - 1 /\ d2.runs = setup.disc2
        /\ d3.size = t3 /\ d3.runs = setup.apploader
    BY <1>3, <1>4 DEF Part
  <2> QED BY <1>2, <1>4, <2>1 DEF Extent, MinOf
<1>6. /\ d1.file = Disc1 /\ d1.base = 0 /\ d1.name = <<"disc", Disc1>> /\ d1.runs = setup.disc1
      /\ d2.file = Disc2 /\ d2.base = 0 /\ d2.name = <<"disc", Disc2>> /\ d2.runs = setup.disc2
      /\ d3.file = Apploader /\ d3.base = ApploaderAt /\ d3.name = <<"disc", Apploader>>
      /\ d3.runs = setup.apploader
  BY <1>3 DEF Part
<1>7. /\ RunsOf(d1.name) = d1.runs /\ RunsOf(d2.name) = d2.runs /\ RunsOf(d3.name) = d3.runs
  BY <1>6 DEF RunsOf, Disc1, Disc2, Apploader
<1>8. \A j \in 1..n + 3 : j \in 1..n \/ j = n + 1 \/ j = n + 2 \/ j = n + 3
  BY <1>1
<1>9. CASE file = Disc1
  <2>1. \A y \in Nat : y \in Image(file) <=> Inside(d1, file, y)
    BY <1>4, <1>5, <1>6, <1>9 DEF Image, Inside
  <2>2. n + 1 \in 1..Len(Parts(setup)) /\ n + 1 > n
    BY <1>1
  <2>3. ASSUME NEW j \in 1..Len(Parts(setup)), Parts(setup)[j].file = file
        PROVE  j = n + 1 \/ j \in 1..n
    <3>1. j \in 1..n \/ j = n + 1 \/ j = n + 2 \/ j = n + 3
      BY <1>1, <1>8, <2>3
    <3>2. d2.file # file /\ d3.file # file
      BY <1>6, <1>9 DEF Disc1, Disc2, Apploader
    <3>3. j # n + 2 /\ j # n + 3
      BY <1>3, <2>3, <3>2
    <3> QED BY <3>1, <3>3
  <2>4. /\ d1.file = file /\ d1.name = <<"disc", file>> /\ d1.runs = RunsOf(d1.name)
        /\ d1.base = (IF file = Apploader THEN ApploaderAt ELSE 0) /\ d1.base % Granule = 0
    BY <1>2, <1>6, <1>7, <1>9 DEF Disc1, Disc2, Apploader
  <2> QED BY <1>3, <2>1, <2>2, <2>3, <2>4 DEF DiscPart
<1>10. CASE file = Disc2
  <2>1. \A y \in Nat : y \in Image(file) <=> Inside(d2, file, y)
    BY <1>4, <1>5, <1>6, <1>10 DEF Image, Inside, Disc1, Disc2
  <2>2. n + 2 \in 1..Len(Parts(setup)) /\ n + 2 > n
    BY <1>1
  <2>3. ASSUME NEW j \in 1..Len(Parts(setup)), Parts(setup)[j].file = file
        PROVE  j = n + 2 \/ j \in 1..n
    <3>1. j \in 1..n \/ j = n + 1 \/ j = n + 2 \/ j = n + 3
      BY <1>1, <1>8, <2>3
    <3>2. d1.file # file /\ d3.file # file
      BY <1>6, <1>10 DEF Disc1, Disc2, Apploader
    <3>3. j # n + 1 /\ j # n + 3
      BY <1>3, <2>3, <3>2
    <3> QED BY <3>1, <3>3
  <2>4. /\ d2.file = file /\ d2.name = <<"disc", file>> /\ d2.runs = RunsOf(d2.name)
        /\ d2.base = (IF file = Apploader THEN ApploaderAt ELSE 0) /\ d2.base % Granule = 0
    BY <1>2, <1>6, <1>7, <1>10 DEF Disc1, Disc2, Apploader
  <2> QED BY <1>3, <2>1, <2>2, <2>3, <2>4 DEF DiscPart
<1>11. CASE file = Apploader
  <2>1. \A y \in Nat : y \in Image(file) <=> Inside(d3, file, y)
    BY <1>2, <1>4, <1>5, <1>6, <1>11 DEF Image, Inside, Disc1, Disc2, Apploader
  <2>2. n + 3 \in 1..Len(Parts(setup)) /\ n + 3 > n
    BY <1>1
  <2>3. ASSUME NEW j \in 1..Len(Parts(setup)), Parts(setup)[j].file = file
        PROVE  j = n + 3 \/ j \in 1..n
    <3>1. j \in 1..n \/ j = n + 1 \/ j = n + 2 \/ j = n + 3
      BY <1>1, <1>8, <2>3
    <3>2. d1.file # file /\ d2.file # file
      BY <1>6, <1>11 DEF Disc1, Disc2, Apploader
    <3>3. j # n + 1 /\ j # n + 2
      BY <1>3, <2>3, <3>2
    <3> QED BY <3>1, <3>3
  <2>4. /\ d3.file = file /\ d3.name = <<"disc", file>> /\ d3.runs = RunsOf(d3.name)
        /\ d3.base = (IF file = Apploader THEN ApploaderAt ELSE 0) /\ d3.base % Granule = 0
    BY <1>2, <1>6, <1>7, <1>11 DEF Disc1, Disc2, Apploader
  <2> QED BY <1>3, <2>1, <2>2, <2>3, <2>4 DEF DiscPart
<1> QED BY <1>9, <1>10, <1>11 DEF Files, Discs

(* A disc means at an offset what its first part that has the offset has.  *)
LEMMA MeantIs ==
    ASSUME setup \in Setups, NEW file \in Files, NEW y \in Nat,
           NEW j \in 1..Len(Parts(setup)), Inside(Parts(setup)[j], file, y),
           \A i \in 1..j - 1 : ~Inside(Parts(setup)[i], file, y)
    PROVE  Meant(file, y) = [of |-> Parts(setup)[j].name, at |-> y - Parts(setup)[j].base]
<1> DEFINE n == Len(setup.patches)
           over == {i \in 1..n : LET p == setup.patches[i] IN
                                 p.disc = file /\ p.offset <= y /\ y < p.offset + p.size}
<1>1. n \in Nat /\ Len(Parts(setup)) = n + 3
  BY PartsAre
<1>2. \A i \in 1..n : i \in over <=> Inside(Parts(setup)[i], file, y)
  <2> TAKE i \in 1..n
  <2>1. PICK p, h : p = Parts(setup)[i] /\ h = setup.patches[i]
    OBVIOUS
  <2>2. p.file = h.disc /\ p.base = h.offset /\ Extent(p) = h.size
    BY <2>1, PatchIs
  <2>3. i \in over <=> h.disc = file /\ h.offset <= y /\ y < h.offset + h.size
    BY <2>1
  <2> QED BY <2>1, <2>2, <2>3 DEF Inside
<1>3. Meant(file, y) =
        IF over # {}
        THEN [of |-> <<"patch", Min(over)>>, at |-> y - setup.patches[Min(over)].offset]
        ELSE [of |-> <<"disc", file>>, at |-> IF file = Apploader THEN y - ApploaderAt ELSE y]
  BY DEF Meant
<1> HIDE DEF over
<1>4. CASE j \in 1..n
  <2>1. j \in over
    BY <1>2, <1>4
  <2>2. over \in SUBSET Nat /\ \A i \in over : i \in 1..n /\ Inside(Parts(setup)[i], file, y)
    BY <1>2 DEF over
  <2>3. PICK m \in over : m = Min(over) /\ \A i \in over : m <= i
    BY <2>1, <2>2, MinIs
  <2>4. m = j
    <3>1. m \in Nat /\ j \in Nat /\ m <= j /\ m \in 1..n
      BY <1>4, <2>1, <2>2, <2>3
    <3>2. ~(m \in 1..j - 1)
      BY <2>2, <2>3
    <3> QED BY <3>1, <3>2
  <2>5. PICK p, h : p = Parts(setup)[j] /\ h = setup.patches[j]
    OBVIOUS
  <2>6. p.name = <<"patch", j>> /\ p.base = h.offset
    BY <1>4, <2>5, PatchIs
  <2>7. Meant(file, y) = [of |-> <<"patch", m>>, at |-> y - setup.patches[m].offset]
    BY <1>3, <2>1, <2>3
  <2> QED BY <2>4, <2>5, <2>6, <2>7
<1>5. CASE j \notin 1..n
  <2>1. PICK d : DiscPart(d, file)
    BY DiscPartIs
  <2>2. j = d
    BY <1>5, <2>1 DEF DiscPart, Inside
  <2>3. PICK q : q = Parts(setup)[j]
    OBVIOUS
  <2>4. q.name = <<"disc", file>> /\ q.base = IF file = Apploader THEN ApploaderAt ELSE 0
    BY <2>1, <2>2, <2>3 DEF DiscPart
  <2>5. over = {}
    <3> SUFFICES ASSUME NEW i \in over PROVE FALSE
      OBVIOUS
    <3>1. i \in 1..n /\ Inside(Parts(setup)[i], file, y)
      BY <1>2 DEF over
    <3>2. i \in 1..j - 1
      BY <1>1, <1>5, <3>1
    <3> QED BY <3>1, <3>2
  <2>6. Meant(file, y) = [of |-> <<"disc", file>>,
                               at |-> IF file = Apploader THEN y - ApploaderAt ELSE y]
    BY <1>3, <2>5
  <2>7. (IF file = Apploader THEN y - ApploaderAt ELSE y) = y - q.base
    BY <2>4
  <2> QED BY <2>3, <2>4, <2>6, <2>7
<1> QED BY <1>4, <1>5

(* A fragment's place has the part's contents. *)
LEMMA ContentsAre ==
    ASSUME setup \in Setups, NEW j \in 1..Len(Parts(setup)), NEW p, p = Parts(setup)[j],
           NEW k, NEW f, OfPart(f, p, k), NEW o \in Nat, o < f.size
    PROVE  Contents(f.data, o) = [of |-> p.name, at |-> (f.offset - p.base) + o]
<1>1. GoodPart(p)
  BY PartsAre
<1>2. RunsOf(p.name) = p.runs
  <2>1. CASE j \in 1..Len(setup.patches)
    <3>1. p.name = <<"patch", j>> /\ p.runs = setup.patches[j].runs
      BY <2>1, PatchIs
    <3> QED BY <3>1 DEF RunsOf
  <2>2. CASE j \notin 1..Len(setup.patches)
    <3>1. p.file \in Files
      BY <1>1 DEF GoodPart, FilePart
    <3>2. PICK d : DiscPart(d, p.file)
      BY <3>1, DiscPartIs
    <3>3. j = d
      BY <2>2, <3>2 DEF DiscPart
    <3> QED BY <3>2, <3>3 DEF DiscPart
  <2> QED BY <2>1, <2>2
<1>3. PICK a \in Nat, b \in Nat : a = RunStart(p.runs, k) /\ b = p.base
  BY <1>1 DEF OfPart, GoodPart, FilePart
<1>4. /\ k \in 1..Len(p.runs) /\ f.data = [of |-> p.name, at |-> a] /\ f.offset = b + a
      /\ f.size <= p.runs[k] /\ f.size \in Nat
  BY <1>3 DEF OfPart, Fragment
<1>5. p.runs[k] \in Nat
  BY <1>1, <1>4, WholeRuns DEF GoodPart, FilePart
<1>6. o < p.runs[k]
  BY <1>4, <1>5
<1>7. f.data.of = p.name /\ f.data.at = a
  BY <1>4
<1>8. Contents(f.data, o) = [of |-> p.name, at |-> a + o]
  BY <1>2, <1>3, <1>4, <1>6, <1>7 DEF Contents
<1>9. a + o = (f.offset - b) + o
  BY <1>3, <1>4
<1> QED BY <1>3, <1>8, <1>9

(* What frag_get finds for an offset is the disc there, for as far as it   *)
(* says, except where 32 bytes begin in which a patched part starts or     *)
(* ends; and except nowhere when everything keeps to 32 bytes.             *)
LEMMA PieceIsRight ==
    ASSUME setup \in Setups, frags = Table(setup),
           NEW file \in Files, NEW x \in Nat, x \in Image(file), NEW size \in Nat,
           NEW g, g = FragGet(file, x, size)
    PROVE  /\ g.size \in 0..size /\ g.offset \in Nat /\ g.data \in Place
           /\ x % Granule = 0 /\ size % Granule = 0 /\ KeepTo32(file)
                 => g.offset % Granule = 0 /\ g.size % Granule = 0
           /\ \A c \in 0..g.size - 1 : x + c \in Image(file) =>
                 \/ Contents(g.data, g.offset + c) = Meant(file, x + c)
                 \/ /\ NearEdge(file, x + c)
                    /\ ~(x % Granule = 0 /\ KeepTo32(file))
<1> DEFINE n == Len(setup.patches)
           N == Len(Parts(setup))
<1>1. n \in Nat /\ N = n + 3 /\ \A j \in 1..N : GoodPart(Parts(setup)[j])
  BY PartsAre
<1>2. Word \in Nat \ {0} /\ Granule \in Nat \ {0}
  BY DiscReadAssumption
<1>3. PICK d : DiscPart(d, file)
  BY DiscPartIs
<1>4. d \in 1..N /\ Inside(Parts(setup)[d], file, x)
  BY <1>3 DEF DiscPart
<1>5. PICK j \in 1..N : \E k, f : Answer(setup, file, x, size, g, j, k, f)
  BY <1>4, SearchIs
<1>6. PICK k, f : Answer(setup, file, x, size, g, j, k, f)
  BY <1>5
<1>7. PICK p : p = Parts(setup)[j] /\ GoodPart(p)
  BY <1>1
<1>8. PICK b \in Nat, e \in Nat : b = p.base /\ e = Extent(p)
  BY <1>7, ExtentIs DEF GoodPart, FilePart
<1>9. PICK fo \in Nat, fs \in Nat, a \in Nat :
        /\ fo = f.offset /\ fs = f.size /\ a = RunStart(p.runs, k)
        /\ fo = b + a /\ a % Granule = 0 /\ fs < Word - Granule /\ fo + fs <= b + e
        /\ fs % Granule = 0 \/ fo + fs = b + e
        /\ f \in Fragment /\ OfPart(f, p, k)
  BY <1>6, <1>7, <1>8 DEF Answer, OfPart, Fragment
<1>10. fo <= x /\ x < fo + fs /\ p.file = file
  BY <1>6, <1>7, <1>9 DEF Answer, Holds, OfPart
<1>11. PICK o \in Nat : o = x - fo /\ g.offset = o /\ g.data = f.data
  BY <1>6, <1>9, <1>10 DEF Answer
<1>12. PICK z \in 0..size : z = g.size
  BY <1>6 DEF Answer
<1>13. PICK r \in Nat : r = Round(fs) /\ z <= r - o /\ r <= fs + Granule - 1
                        /\ (fs % Granule = 0 => r <= fs)
  BY <1>6, <1>9, <1>11, <1>12, RoundIs, RoundAtMost DEF Answer
<1>14. g.data \in Place
  BY <1>9, <1>11 DEF Fragment
(* The parts before j that have an offset of the piece are patched, and    *)
(* start in it.                                                            *)
<1>15. ASSUME NEW c \in 0..z - 1, NEW i \in 1..j - 1, Inside(Parts(setup)[i], file, x + c)
       PROVE  NearEdge(file, x + c) /\ ~(x % Granule = 0 /\ KeepTo32(file))
  <2>1. i \in 1..N /\ ~Inside(Parts(setup)[i], file, x)
    BY <1>1, <1>6 DEF Answer
  <2>2. i \in 1..n
    BY <1>3, <1>4, <1>15, <2>1 DEF DiscPart, Inside
  <2>3. PICK q : q = Parts(setup)[i] /\ GoodPart(q)
    BY <1>1, <2>1
  <2>4. PICK qb \in Nat, qe \in Nat : qb = q.base /\ qe = Extent(q)
    BY <2>3, ExtentIs DEF GoodPart, FilePart
  <2>5. q.file = file /\ qb <= x + c /\ x + c < qb + qe /\ x < qb
    BY <1>15, <2>1, <2>3, <2>4 DEF Inside
  <2>6. qb \in Edges(file) /\ (KeepTo32(file) => qb % Granule = 0)
    BY <2>2, <2>3, <2>4, <2>5, PatchIs
  <2>7. PICK m \in Nat : m = qb - x /\ m <= c /\ m < Word /\ 0 < qe
    <3>1. c \in Nat /\ c < z
      BY <1>12
    <3>2. c < Word
      <4>1. z <= r /\ r <= fs + Granule - 1
        BY <1>11, <1>12, <1>13
      <4>2. fs < Word - Granule /\ fs \in Nat
        BY <1>9
      <4>3. r < Word
        BY <1>2, <4>1, <4>2
      <4> QED BY <1>2, <1>12, <3>1, <4>1, <4>3
    <3> QED BY <1>2, <2>4, <2>5, <3>1, <3>2
  <2>8. z <= Round(m)
    BY <1>6, <1>12, <2>3, <2>4, <2>5, <2>7 DEF Answer
  <2>9. z <= m + Granule - 1
    <3>1. PICK w \in Nat : w = Round(m) /\ w <= m + Granule - 1
      BY RoundIs
    <3> QED BY <1>2, <2>8, <3>1
  <2>10. x + c < qb + Granule
    BY <1>2, <2>7, <2>9
  <2>11. ASSUME x % Granule = 0, KeepTo32(file) PROVE FALSE
    <3>1. m % Granule = 0
      <4>1. (qb - x) % Granule = 0
        BY <1>2, <2>4, <2>6, <2>11, SumOfMultiples
      <4> QED BY <2>7, <4>1
    <3>2. PICK w \in Nat : w = Round(m) /\ w <= m
      BY <3>1, RoundIs, RoundAtMost
    <3> QED BY <2>7, <2>8, <3>2
  <2> QED BY <2>5, <2>6, <2>10, <2>11 DEF NearEdge
(* Beyond the end of the part. *)
<1>16. ASSUME NEW c \in 0..z - 1, x + c \in Image(file), fo + fs <= x + c
       PROVE  NearEdge(file, x + c) /\ ~(x % Granule = 0 /\ KeepTo32(file))
  <2>1. x + c < fo + r
    BY <1>11, <1>13
  <2>2. ~(fs % Granule = 0) /\ fo + fs = b + e /\ x + c < b + e + Granule
    <3>1. ~(r <= fs)
      BY <1>16, <2>1
    <3>2. ~(fs % Granule = 0) /\ fo + fs = b + e
      BY <1>9, <1>13, <3>1
    <3> QED BY <1>2, <1>13, <2>1, <3>2
  <2>3. j \in 1..n
    <3>1. j = d \/ j \in 1..n
      BY <1>3, <1>7, <1>10 DEF DiscPart
    <3>2. j # d
      <4>1. Inside(Parts(setup)[d], file, x + c)
        BY <1>3, <1>16 DEF DiscPart
      <4>2. ~(x + c < b + e)
        BY <1>16, <2>2
      <4> QED BY <1>7, <1>8, <4>1, <4>2 DEF Inside
    <3> QED BY <3>1, <3>2
  <2>4. b + e \in Edges(file) /\ (KeepTo32(file) => b % Granule = 0 /\ e % Granule = 0)
    BY <1>7, <1>8, <1>10, <2>3, PatchIs
  <2>5. ASSUME KeepTo32(file) PROVE FALSE
    <3>1. (e - a) % Granule = 0
      BY <1>2, <1>9, <2>4, <2>5, SumOfMultiples
    <3>2. fo = b + a /\ fo + fs = b + e
      BY <1>9, <2>2
    <3>3. fs = e - a
      BY <3>2
    <3> QED BY <2>2, <3>1, <3>3
  <2> QED BY <1>16, <2>2, <2>4, <2>5 DEF NearEdge
(* Within the part, and no part before it has the offset.                  *)
<1>17. ASSUME NEW c \in 0..z - 1, x + c < fo + fs,
              \A i \in 1..j - 1 : ~Inside(Parts(setup)[i], file, x + c)
       PROVE  Contents(g.data, g.offset + c) = Meant(file, x + c)
  <2>1. x + c \in Nat /\ o + c \in Nat /\ o + c < f.size /\ (fo - b) + (o + c) = (x + c) - b
    <3>1. c \in Nat
      BY <1>12
    <3>2. o = x - fo /\ fs = f.size
      BY <1>9, <1>11
    <3> QED BY <1>17, <3>1, <3>2
  <2>2. Inside(p, file, x + c)
    <3>1. c \in Nat /\ fo = b + a /\ fo <= x /\ fo + fs <= b + e
      BY <1>9, <1>10, <1>12
    <3>2. b <= x + c /\ x + c < b + e
      BY <1>17, <3>1
    <3> QED BY <1>8, <1>10, <3>2 DEF Inside
  <2>3. Meant(file, x + c) = [of |-> p.name, at |-> (x + c) - p.base]
    BY <1>7, <1>17, <2>1, <2>2, MeantIs
  <2>4. Contents(f.data, o + c) = [of |-> p.name, at |-> (f.offset - p.base) + (o + c)]
    <3>1. PICK t \in Nat : t = o + c /\ t < f.size
      BY <2>1
    <3>2. OfPart(f, p, k)
      BY <1>9
    <3>3. Contents(f.data, t) = [of |-> p.name, at |-> (f.offset - p.base) + t]
      BY <1>7, <3>1, <3>2, ContentsAre
    <3> QED BY <3>1, <3>3
  <2> QED BY <1>8, <1>9, <1>11, <2>1, <2>3, <2>4
<1>18. ASSUME x % Granule = 0, size % Granule = 0, KeepTo32(file)
       PROVE  g.offset % Granule = 0 /\ g.size % Granule = 0
  <2>1. p.base % Granule = 0
    <3>1. CASE j \in 1..n
      BY <1>7, <1>10, <1>18, <3>1, PatchIs
    <3>2. CASE j = d
      BY <1>3, <1>7, <3>2 DEF DiscPart
    <3> QED BY <1>3, <1>7, <1>10, <3>1, <3>2 DEF DiscPart
  <2> QED BY <1>6, <1>7, <1>18, <2>1 DEF Answer
<1>19. ASSUME NEW c \in 0..z - 1, x + c \in Image(file)
       PROVE  \/ Contents(g.data, g.offset + c) = Meant(file, x + c)
              \/ /\ NearEdge(file, x + c)
                 /\ ~(x % Granule = 0 /\ KeepTo32(file))
  <2>1. x + c < fo + fs \/ fo + fs <= x + c
    BY <1>9
  <2> QED BY <1>15, <1>16, <1>17, <1>19, <2>1
<1> QED BY <1>11, <1>12, <1>14, <1>18, <1>19

-----------------------------------------------------------------------------
(* The inductive invariant *)

(* The piece q of a read is what the file has from offset x on.            *)
MeansExactly(q, file, x) ==
    \A c \in 0..q.size - 1 : Contents(q.data, q.offset + c) = Meant(file, x + c)

Means(q, file, x) ==
    \A c \in 0..q.size - 1 :
       Contents(q.data, q.offset + c) = Meant(file, x + c) \/ NearEdge(file, x + c)

GoodPiece ==
    /\ piece.size \in 0..dvd.length /\ piece.offset \in Nat /\ piece.data \in Place
    /\ Aligned => piece.size % Granule = 0
    /\ Means(piece, dvd.disc, dvd.offset)
    /\ Aligned => MeansExactly(piece, dvd.disc, dvd.offset)

IInv ==
    /\ setup \in Setups /\ frags = Table(setup)
    /\ flags \in [two : BOOLEAN, apploader : BOOLEAN]
    /\ flags.apploader => setup.tgc
    /\ flags.two => disc \in Discs
    /\ disc \in Files
    /\ dvd \in [length : Nat, offset : Nat, read : BOOLEAN, disc : Files \cup {None},
                start : Nat, got : Seq(Place \cup {None})]
    /\ dvd.offset = dvd.start + Len(dvd.got)
    /\ IF dvd.read
       THEN /\ dvd.disc = disc
            /\ dvd.offset..dvd.offset + dvd.length - 1 \subseteq Image(disc)
            /\ Aligned => dvd.offset % Granule = 0 /\ dvd.length % Granule = 0
            /\ GoodPiece
       ELSE piece = None
    /\ ReadIsOverlay

-----------------------------------------------------------------------------
(* A piece of a read *)

(* What a driver takes of a piece is a part of it, and whole 32 bytes of   *)
(* whole 32 bytes.                                                         *)
LEMMA TakenIs ==
    ASSUME NEW g, g.size \in Nat, g.offset \in Nat, NEW n \in Taken(g)
    PROVE  /\ n \in Nat /\ n <= g.size
           /\ g.offset % Granule = 0 /\ g.size % Granule = 0 => n % Granule = 0
<1>1. PICK gr \in Nat \ {0}, sec \in Nat \ {0}, blk \in Nat \ {0} :
        /\ gr = Granule /\ sec = Sector /\ blk = Block
        /\ sec % gr = 0 /\ blk % sec = 0
  BY DiscReadAssumption
<1>2. PICK z \in Nat, o \in Nat : z = g.size /\ o = g.offset
  OBVIOUS
<1>3. PICK os \in Nat, s \in Nat : os = o % sec /\ s = sec - os
  BY <1>1
<1>4. PICK r \in Nat : r = Round(o) /\ r % gr = 0
  BY <1>1, RoundIs
<1>5. PICK rb \in Nat, t \in Nat : rb = r % blk /\ t = blk - rb
  BY <1>1
<1>6. n = z \/ n = MinOf(z, s) \/ n = MinOf(z, t)
  BY <1>1, <1>2, <1>3, <1>4, <1>5 DEF Taken, ToSector, ToBlock
<1>7. n \in Nat /\ n <= z /\ (n = z \/ n = s \/ n = t)
  BY <1>6 DEF MinOf
<1>8. ASSUME o % gr = 0 PROVE s % gr = 0
  <2>1. o \in Int /\ os \in Int /\ sec \in Int /\ sec % gr = 0
    BY <1>1
  <2>2. (o % sec) % gr = 0
    BY <1>8, <2>1, RestOfMultiple
  <2>3. (sec - os) % gr = 0
    BY <1>3, <2>1, <2>2, SumOfMultiples
  <2> QED BY <1>3, <2>3
<1>9. t % gr = 0
  <2>1. sec \in Int /\ blk \in Int /\ r \in Int /\ rb \in Int /\ sec % gr = 0 /\ blk % sec = 0
    BY <1>1
  <2>2. PICK p \in Int : sec = gr * p
    BY <2>1, DivisorOf
  <2>3. PICK q \in Int : blk = sec * q
    BY <2>1, DivisorOf
  <2>4. blk = gr * (p * q) /\ p * q \in Int
    BY <2>2, <2>3
  <2>5. blk % gr = 0
    BY <2>4, Multiple
  <2>6. (r % blk) % gr = 0
    BY <1>4, <2>1, <2>5, RestOfMultiple
  <2>7. (blk - rb) % gr = 0
    BY <1>5, <2>1, <2>5, <2>6, SumOfMultiples
  <2> QED BY <1>5, <2>7
<1> QED BY <1>1, <1>2, <1>7, <1>8, <1>9

(* The piece schedule_read asks for. *)
LEMMA PieceIs ==
    ASSUME setup \in Setups, frags = Table(setup),
           NEW file \in Files, NEW x \in Nat, x \in Image(file), NEW size \in Nat,
           x..x + size - 1 \subseteq Image(file),
           Schedule(file, size, x), NEW q, q = piece'
    PROVE  /\ q.size \in 0..size /\ q.offset \in Nat /\ q.data \in Place
           /\ x % Granule = 0 /\ size % Granule = 0 /\ KeepTo32(file) => q.size % Granule = 0
           /\ Means(q, file, x)
           /\ x % Granule = 0 /\ KeepTo32(file) => MeansExactly(q, file, x)
<1>1. PICK g : /\ g = FragGet(file, x, size)
               /\ g = [offset |-> g.offset, data |-> g.data, size |-> g.size]
  <2>1. \E o, p, n : FragGet(file, x, size) = [offset |-> o, data |-> p, size |-> n]
    BY DEF FragGet
  <2> QED BY <2>1
<1>2. /\ g.size \in 0..size /\ g.offset \in Nat /\ g.data \in Place
      /\ x % Granule = 0 /\ size % Granule = 0 /\ KeepTo32(file)
                 => g.offset % Granule = 0 /\ g.size % Granule = 0
      /\ \A c \in 0..g.size - 1 : x + c \in Image(file) =>
                 \/ Contents(g.data, g.offset + c) = Meant(file, x + c)
                 \/ /\ NearEdge(file, x + c)
                    /\ ~(x % Granule = 0 /\ KeepTo32(file))
  BY <1>1, PieceIsRight
<1>3. PICK n \in Taken(g) : q = [g EXCEPT !.size = n]
  BY <1>1 DEF Schedule
<1>4. q.offset = g.offset /\ q.data = g.data /\ q.size = n
  BY <1>1, <1>3
<1>5. /\ n \in Nat /\ n <= g.size
      /\ g.offset % Granule = 0 /\ g.size % Granule = 0 => n % Granule = 0
  BY <1>2, <1>3, TakenIs
<1>6. ASSUME NEW c \in 0..n - 1 PROVE c \in 0..g.size - 1 /\ x + c \in x..x + size - 1
  BY <1>2, <1>5
<1>7. \A c \in 0..n - 1 :
         \/ Contents(q.data, q.offset + c) = Meant(file, x + c)
         \/ NearEdge(file, x + c) /\ ~(x % Granule = 0 /\ KeepTo32(file))
  BY <1>2, <1>4, <1>6
<1>8. Means(q, file, x) /\ (x % Granule = 0 /\ KeepTo32(file) => MeansExactly(q, file, x))
  BY <1>4, <1>7 DEF Means, MeansExactly
<1> QED BY <1>2, <1>4, <1>5, <1>8

LEMMA ImageIs ==
    ASSUME setup \in Setups, NEW file \in Files
    PROVE  Image(file) \subseteq Nat
<1>1. ApploaderAt \in Nat
  BY DiscReadAssumption
<1> QED BY <1>1 DEF Image

LEMMA ApploaderIsThere ==
    ASSUME setup \in Setups, setup.tgc
    PROVE  ApploaderAt \in Image(Apploader)
<1>1. setup.apploader \in Runs /\ setup.apploader # <<>> /\ ApploaderAt \in Nat
  BY DiscReadAssumption DEF Setup
<1>2. Len(setup.apploader) \in Nat \ {0}
  BY <1>1, LenProperties, EmptySeq DEF Runs
<1>3. Sums(setup.apploader)[0] < Sums(setup.apploader)[Len(setup.apploader)]
  BY <1>1, <1>2, SumsGrow
<1>4. PICK t \in Nat : t = Total(setup.apploader) /\ 0 < t
  <2>1. Total(setup.apploader) \in Nat
    BY <1>1, TotalIs
  <2>2. Sums(setup.apploader)[0] = 0
    BY <1>1, SumsAre
  <2> QED BY <1>3, <2>1, <2>2 DEF Total
<1> QED BY <1>1, <1>4 DEF Image, Disc1, Disc2, Apploader

LEMMA SetupKept ==
    ASSUME setup' = setup, NEW f, NEW y
    PROVE  /\ Meant(f, y)' = Meant(f, y) /\ Contents(f, y)' = Contents(f, y)
           /\ NearEdge(f, y)' = NearEdge(f, y) /\ KeepTo32(f)' = KeepTo32(f)
           /\ Image(f)' = Image(f)
<1>1. Meant(f, y)' = Meant(f, y)
  BY DEF Meant
<1>2. Contents(f, y)' = Contents(f, y)
  BY DEF Contents, RunsOf
<1>3. PatchesOf(f)' = PatchesOf(f)
  BY DEF PatchesOf
<1>4. NearEdge(f, y)' = NearEdge(f, y)
  BY <1>3 DEF NearEdge, Edges
<1>5. KeepTo32(f)' = KeepTo32(f)
  BY <1>3 DEF KeepTo32
<1>6. Image(f)' = Image(f)
  BY DEF Image
<1> QED BY <1>1, <1>2, <1>4, <1>5, <1>6

LEMMA MeansKept ==
    ASSUME setup' = setup, NEW q, NEW f, NEW x
    PROVE  Means(q, f, x)' = Means(q, f, x) /\ MeansExactly(q, f, x)' = MeansExactly(q, f, x)
<1>1. \A c : /\ Contents(q.data, q.offset + c)' = Contents(q.data, q.offset + c)
             /\ Meant(f, x + c)' = Meant(f, x + c)
             /\ NearEdge(f, x + c)' = NearEdge(f, x + c)
  BY SetupKept
<1> QED BY <1>1 DEF Means, MeansExactly

LEMMA AlignedIs == Aligned <=> dvd.start % Granule = 0 /\ KeepTo32(dvd.disc)
  BY DEF Aligned, KeepTo32

LEMMA ContentsType ==
    ASSUME NEW data \in Place, NEW k \in Nat
    PROVE  Contents(data, k) \in Place \cup {None}
  BY DEF Contents, Place

-----------------------------------------------------------------------------
(* The steps *)

LEMMA InitIInv == Init => IInv
<1> SUFFICES ASSUME Init PROVE IInv
  OBVIOUS
<1>1. setup \in Setup
  BY DiscReadAssumption DEF Init
<1>2. flags \in [two : BOOLEAN, apploader : BOOLEAN] /\ (flags.apploader => setup.tgc)
  BY <1>1 DEF Init, Setup
<1>3. disc \in Discs /\ disc \in Files
  BY <1>1 DEF Init, Setup, Files
<1>4. dvd \in [length : Nat, offset : Nat, read : BOOLEAN, disc : Files \cup {None},
               start : Nat, got : Seq(Place \cup {None})]
  <2>1. PICK nil : nil = <<>>
    OBVIOUS
  <2>2. nil \in Seq(Place \cup {None})
    BY <2>1
  <2>3. dvd = [length |-> 0, offset |-> 0, read |-> FALSE, disc |-> None, start |-> 0, got |-> nil]
    BY <2>1 DEF Init, NoRead
  <2> QED BY <2>2, <2>3
<1>5. dvd.offset = dvd.start + Len(dvd.got) /\ ~dvd.read /\ ReadIsOverlay
  <2>1. dvd.offset = 0 /\ dvd.start = 0 /\ dvd.got = <<>> /\ dvd.read = FALSE
    BY DEF Init, NoRead
  <2> QED BY <2>1 DEF ReadIsOverlay
<1> QED BY <1>2, <1>3, <1>4, <1>5 DEF Init, IInv

LEMMA PerformReadIInv ==
    ASSUME IInv, NEW length \in Lengths, NEW offset \in Image(disc), PerformRead(length, offset)
    PROVE  IInv'
<1> DEFINE reload == flags.apploader /\ offset = ApploaderAt
<1>1. PICK file : file = Redirected(offset)
  OBVIOUS
<1>2. /\ setup \in Setups /\ frags = Table(setup) /\ setup' = setup /\ frags' = frags
      /\ length \in Nat /\ length % Granule = 0
  BY DiscReadAssumption DEF IInv, PerformRead
<1>3. file \in Files /\ file = IF reload THEN Apploader ELSE disc
  BY <1>1 DEF IInv, Redirected, Files
<1>4. offset \in Image(file) /\ offset \in Nat
  <2>1. CASE reload
    BY <1>2, <1>3, <2>1, ApploaderIsThere, ImageIs DEF IInv
  <2>2. CASE ~reload
    BY <1>2, <1>3, <2>2, ImageIs
  <2> QED BY <2>1, <2>2
<1>5. /\ disc' = file
      /\ flags' = IF reload THEN [two |-> FALSE, apploader |-> FALSE] ELSE flags
      /\ Schedule(file, length, offset)
      /\ offset..offset + length - 1 \subseteq Image(file)
  BY <1>1 DEF PerformRead
<1>6. PICK e : e = dvd' /\ e = [length |-> length, offset |-> offset, read |-> TRUE,
                                disc |-> file, start |-> offset, got |-> <<>>]
  BY <1>3, <1>1 DEF PerformRead
<1>7. PICK q : q = piece'
  OBVIOUS
<1>8. /\ q.size \in 0..length /\ q.offset \in Nat /\ q.data \in Place
      /\ offset % Granule = 0 /\ length % Granule = 0 /\ KeepTo32(file) => q.size % Granule = 0
      /\ Means(q, file, offset)
      /\ offset % Granule = 0 /\ KeepTo32(file) => MeansExactly(q, file, offset)
  BY <1>2, <1>3, <1>4, <1>5, <1>7, PieceIs
<1>9. Aligned' <=> offset % Granule = 0 /\ KeepTo32(file)
  <2>1. Aligned' <=> (dvd.start % Granule = 0 /\ KeepTo32(dvd.disc))'
    BY AlignedIs, PTL
  <2>2. KeepTo32(dvd.disc)' <=> KeepTo32(file)
    BY <1>2, <1>6, SetupKept
  <2> QED BY <1>6, <2>1, <2>2
<1> HIDE DEF reload
<1>10. GoodPiece'
  <2>1. Means(q, file, offset)' /\ (Aligned' => MeansExactly(q, file, offset)')
    BY <1>2, <1>8, <1>9, MeansKept
  <2>2. Aligned' => q.size % Granule = 0
    BY <1>2, <1>8, <1>9
  <2> QED BY <1>6, <1>7, <1>8, <2>1, <2>2 DEF GoodPiece
<1>11. ReadIsOverlay'
  <2>1. dvd'.got = <<>>
    BY <1>6
  <2>2. Len(dvd'.got) = 0
    BY <2>1
  <2> QED BY <2>2 DEF ReadIsOverlay
<1>12. /\ dvd'.disc = disc' /\ dvd'.read /\ dvd'.offset = dvd'.start + Len(dvd'.got)
       /\ dvd'.offset..dvd'.offset + dvd'.length - 1 \subseteq Image(disc)'
       /\ Aligned' => dvd'.offset % Granule = 0 /\ dvd'.length % Granule = 0
  <2>1. Image(disc)' = Image(file)
    BY <1>2, <1>5, SetupKept
  <2>2. Len(dvd'.got) = 0
    BY <1>6
  <2> QED BY <1>2, <1>4, <1>5, <1>6, <1>9, <2>1, <2>2
<1>13. dvd' \in [length : Nat, offset : Nat, read : BOOLEAN, disc : Files \cup {None},
                 start : Nat, got : Seq(Place \cup {None})]
  <2>1. PICK nil : nil = <<>>
    OBVIOUS
  <2>2. nil \in Seq(Place \cup {None})
    BY <2>1
  <2>3. e = [length |-> length, offset |-> offset, read |-> TRUE,
             disc |-> file, start |-> offset, got |-> nil]
    BY <1>6, <2>1
  <2> QED BY <1>2, <1>3, <1>4, <1>6, <2>2, <2>3 DEF reload
<1>14. /\ flags' \in [two : BOOLEAN, apploader : BOOLEAN]
       /\ flags'.apploader => setup.tgc
       /\ flags'.two => disc' \in Discs
       /\ disc' \in Files
  <2>1. flags \in [two : BOOLEAN, apploader : BOOLEAN] /\ (flags.apploader => setup.tgc)
        /\ (flags.two => disc \in Discs)
    BY DEF IInv
  <2>2. CASE reload
    BY <1>3, <1>5, <2>2
  <2>3. CASE ~reload
    BY <1>3, <1>5, <2>1, <2>3
  <2> QED BY <2>2, <2>3
<1>15. setup' \in Setups /\ frags' = Table(setup)' /\ setup'.tgc = setup.tgc
  BY <1>2
<1> QED BY <1>10, <1>11, <1>12, <1>13, <1>14, <1>15 DEF IInv

LEMMA ReadCallbackIInv ==
    ASSUME IInv, ReadCallback
    PROVE  IInv'
<1>1. /\ setup \in Setups /\ frags = Table(setup) /\ setup' = setup /\ frags' = frags
      /\ flags' = flags /\ disc' = disc /\ disc \in Files
  BY DEF IInv, ReadCallback
<1>2. dvd.read /\ dvd.disc = disc /\ GoodPiece
  BY DEF IInv, ReadCallback
<1>3. PICK n \in Nat, length \in Nat, offset \in Nat, start \in Nat,
           got \in Seq(Place \cup {None}) :
        /\ n = piece.size /\ n <= length
        /\ length = dvd.length /\ offset = dvd.offset /\ start = dvd.start /\ got = dvd.got
        /\ offset = start + Len(got)
  BY <1>2 DEF IInv, GoodPiece
<1>4. PICK new : new = [k \in 1..n |-> Contents(piece.data, piece.offset + k - 1)]
  OBVIOUS
<1>5. new \in Seq(Place \cup {None}) /\ Len(new) = n
  <2>1. piece.data \in Place /\ piece.offset \in Nat
    BY <1>2 DEF GoodPiece
  <2>2. PICK pd \in Place, po \in Nat : pd = piece.data /\ po = piece.offset
    BY <2>1
  <2>3. \A k \in 1..n : Contents(pd, po + k - 1) \in Place \cup {None}
    <3> TAKE k \in 1..n
    <3>1. po + k - 1 \in Nat
      BY <1>3
    <3> QED BY <3>1, ContentsType
  <2>4. new \in [1..n -> Place \cup {None}]
    BY <1>4, <2>2, <2>3
  <2> QED BY <1>3, <2>4
<1>6. PICK all : all = got \o new
  OBVIOUS
<1>7. /\ all \in Seq(Place \cup {None}) /\ Len(all) = Len(got) + n /\ Len(got) \in Nat
      /\ \A i \in 1..Len(got) : all[i] = got[i]
      /\ \A i \in 1..n : all[Len(got) + i] = new[i]
  <2>1. /\ got \o new \in Seq(Place \cup {None}) /\ Len(got \o new) = Len(got) + Len(new)
        /\ \A i \in 1..Len(got) : (got \o new)[i] = got[i]
        /\ \A i \in 1..Len(new) : (got \o new)[Len(got) + i] = new[i]
    <3>1. PICK S : S = Place \cup {None}
      OBVIOUS
    <3>2. got \in Seq(S) /\ new \in Seq(S)
      BY <1>5, <3>1
    <3> QED BY <3>1, <3>2, Joined
  <2>2. Len(got) \in Nat
    BY <1>3, LenProperties
  <2> QED BY <1>5, <1>6, <2>1, <2>2
<1>8. PICK e : /\ e = dvd' /\ e.length = length - n /\ e.offset = offset + n
               /\ e.read = (length # n) /\ e.got = all /\ e.start = start /\ e.disc = disc
               /\ e \in [length : Nat, offset : Nat, read : BOOLEAN, disc : Files \cup {None},
                         start : Nat, got : Seq(Place \cup {None})]
  <2>1. PICK l \in Nat, x \in Nat, rd \in BOOLEAN :
           l = length - n /\ x = offset + n /\ rd = (length # n)
    <3>1. length - n \in Nat /\ offset + n \in Nat /\ (length # n) \in BOOLEAN
      BY <1>3
    <3> QED BY <3>1
  <2>2. dvd' = [dvd EXCEPT !.length = l, !.offset = x, !.read = rd, !.got = all]
    BY <1>3, <1>4, <1>6, <2>1 DEF ReadCallback
  <2>3. dvd \in [length : Nat, offset : Nat, read : BOOLEAN, disc : Files \cup {None},
                 start : Nat, got : Seq(Place \cup {None})]
    BY DEF IInv
  <2>4. PICK e : e = [dvd EXCEPT !.length = l, !.offset = x, !.read = rd, !.got = all]
    OBVIOUS
  <2>5. /\ e \in [length : Nat, offset : Nat, read : BOOLEAN, disc : Files \cup {None},
                   start : Nat, got : Seq(Place \cup {None})]
        /\ e.length = l /\ e.offset = x /\ e.read = rd /\ e.got = all /\ e.start = dvd.start
        /\ e.disc = dvd.disc
    BY <1>7, <2>3, <2>4
  <2> QED BY <1>2, <1>3, <2>1, <2>2, <2>4, <2>5
<1>9. Aligned' <=> Aligned
  <2>1. Aligned' <=> (dvd.start % Granule = 0 /\ KeepTo32(dvd.disc))'
    BY AlignedIs, PTL
  <2>2. KeepTo32(dvd.disc)' <=> KeepTo32(dvd.disc)
    BY <1>1, <1>2, <1>8, SetupKept
  <2>3. dvd'.start = dvd.start
    BY <1>3, <1>8
  <2> QED BY <2>1, <2>2, <2>3, AlignedIs
<1>10. ReadIsOverlay'
  <2> SUFFICES ASSUME NEW k \in 1..Len(all)
               PROVE  \/ all[k] = Meant(disc, start + k - 1)
                      \/ ~Aligned /\ NearEdge(disc, start + k - 1)
    <3>1. \A k \in 1..Len(all) :
             \/ all[k] = Meant(disc, start + k - 1)'
             \/ ~Aligned' /\ NearEdge(disc, start + k - 1)'
      BY <1>1, <1>9, SetupKept
    <3> QED BY <1>1, <1>8, <3>1 DEF ReadIsOverlay, NearEdge
  <2>1. CASE k \in 1..Len(got)
    <3>1. \/ got[k] = Meant(disc, start + k - 1)
          \/ ~Aligned /\ NearEdge(disc, start + k - 1)
      BY <1>2, <1>3, <2>1 DEF IInv, ReadIsOverlay, NearEdge
    <3> QED BY <1>7, <2>1, <3>1
  <2>2. CASE k \notin 1..Len(got)
    <3>1. PICK c \in 0..n - 1 : k = Len(got) + (c + 1) /\ start + k - 1 = offset + c
      <4>1. k - Len(got) - 1 \in 0..n - 1
        BY <1>3, <1>7, <2>2
      <4>2. k = Len(got) + ((k - Len(got) - 1) + 1)
            /\ start + k - 1 = offset + (k - Len(got) - 1)
        BY <1>3, <1>7
      <4> QED BY <4>1, <4>2
    <3>2. c + 1 \in 1..n /\ c \in Nat /\ piece.offset \in Nat
          /\ piece.offset + (c + 1) - 1 = piece.offset + c
      BY <1>2, <1>3 DEF GoodPiece
    <3>3. all[k] = Contents(piece.data, piece.offset + c)
      BY <1>4, <1>7, <3>1, <3>2
    <3>4. \/ Contents(piece.data, piece.offset + c) = Meant(disc, offset + c)
          \/ NearEdge(disc, offset + c) /\ ~Aligned
      BY <1>2, <1>3 DEF GoodPiece, Means, MeansExactly
    <3> QED BY <3>1, <3>3, <3>4
  <2> QED BY <2>1, <2>2
<1>11. \A y \in offset..offset + length - 1 : y \in Image(disc)
  BY <1>2, <1>3 DEF IInv
<1>12. Aligned => offset % Granule = 0 /\ length % Granule = 0 /\ n % Granule = 0
  BY <1>2, <1>3 DEF IInv, GoodPiece
<1>13. PICK gr \in Nat \ {0} : gr = Granule
  BY DiscReadAssumption
<1>14. Aligned => (offset + n) % Granule = 0 /\ (length - n) % Granule = 0
  <2>1. ASSUME offset % gr = 0, length % gr = 0, n % gr = 0
        PROVE  (offset + n) % gr = 0 /\ (length - n) % gr = 0
    <3>1. offset \in Int /\ length \in Int /\ n \in Int
      OBVIOUS
    <3>2. (offset + n) % gr = 0
      BY <2>1, <3>1, SumOfMultiples
    <3>3. (length - n) % gr = 0
      BY <2>1, <3>1, SumOfMultiples
    <3> QED BY <3>2, <3>3
  <2> QED BY <1>12, <1>13, <2>1
<1>15. IF dvd'.read
       THEN /\ dvd'.disc = disc'
            /\ dvd'.offset..dvd'.offset + dvd'.length - 1 \subseteq Image(disc)'
            /\ Aligned' => dvd'.offset % Granule = 0 /\ dvd'.length % Granule = 0
            /\ GoodPiece'
       ELSE piece' = None
  <2>1. CASE length = n
    <3>1. ~(dvd'.read) /\ piece' = None
      BY <1>3, <1>8, <2>1 DEF ReadCallback
    <3> QED BY <3>1
  <2>2. CASE length # n
    <3>1. PICK l \in Nat, x \in Nat : l = length - n /\ x = offset + n /\ 0 < l
      BY <1>3, <2>2
    <3>2. Schedule(disc, l, x)
      BY <1>3, <2>2, <3>1 DEF ReadCallback
    <3>3. \A y \in x..x + l - 1 : y \in Image(disc)
      <4> TAKE y \in x..x + l - 1
      <4>1. y \in offset..offset + length - 1
        <5>1. x = offset + n /\ x + l = offset + length
          BY <3>1
        <5> QED BY <5>1
      <4> QED BY <1>11, <4>1
    <3>4. x \in Image(disc)
      <4>1. x \in x..x + l - 1
        BY <3>1
      <4> QED BY <3>3, <4>1
    <3>5. PICK q : q = piece'
      OBVIOUS
    <3>6. /\ q.size \in 0..l /\ q.offset \in Nat /\ q.data \in Place
          /\ x % Granule = 0 /\ l % Granule = 0 /\ KeepTo32(disc) => q.size % Granule = 0
          /\ Means(q, disc, x)
          /\ x % Granule = 0 /\ KeepTo32(disc) => MeansExactly(q, disc, x)
      BY <1>1, <3>2, <3>3, <3>4, <3>5, PieceIs
    <3>7. Aligned => x % Granule = 0 /\ l % Granule = 0 /\ KeepTo32(disc)
      BY <1>2, <1>14, <3>1, AlignedIs
    <3>8. Means(q, disc, x)' /\ (Aligned' => MeansExactly(q, disc, x)')
      BY <1>1, <1>9, <3>6, <3>7, MeansKept
    <3>9. Aligned' => q.size % Granule = 0
      BY <1>9, <3>6, <3>7
    <3>10. GoodPiece'
      BY <1>1, <1>8, <3>1, <3>5, <3>6, <3>8, <3>9 DEF GoodPiece
    <3>11. Image(disc)' = Image(disc)
      BY <1>1, SetupKept
    <3> QED BY <1>1, <1>8, <1>9, <1>14, <2>2, <3>1, <3>3, <3>10, <3>11
  <2> QED BY <2>1, <2>2
<1>16. dvd'.offset = dvd'.start + Len(dvd'.got)
  BY <1>3, <1>7, <1>8
<1>17. /\ flags' \in [two : BOOLEAN, apploader : BOOLEAN]
       /\ flags'.apploader => setup'.tgc
       /\ flags'.two => disc' \in Discs
       /\ disc' \in Files
       /\ setup' \in Setups /\ frags' = Table(setup)'
  BY <1>1 DEF IInv
<1> QED BY <1>8, <1>10, <1>15, <1>16, <1>17 DEF IInv

LEMMA ChangeDiscIInv ==
    ASSUME IInv, ChangeDisc
    PROVE  IInv'
<1>1. /\ setup' = setup /\ frags' = frags /\ flags' = flags /\ dvd' = dvd /\ piece' = piece
      /\ ~dvd.read /\ disc \in Discs /\ disc' = 1 - disc
  BY DEF IInv, ChangeDisc
<1>2. disc' \in Discs /\ disc' \in Files
  BY <1>1 DEF Discs, Disc1, Disc2, Files
<1>3. ReadIsOverlay' /\ frags' = Table(setup)'
  BY <1>1 DEF IInv, ReadIsOverlay, Meant, Aligned, PatchesOf, Edges
<1> QED BY <1>1, <1>2, <1>3 DEF IInv

LEMMA NextIInv ==
    ASSUME IInv, [Next]_vars
    PROVE  IInv'
<1>1. ASSUME NEW length \in Lengths, NEW offset \in Image(disc), PerformRead(length, offset)
      PROVE  IInv'
  BY <1>1, PerformReadIInv
<1>2. CASE ReadCallback
  BY <1>2, ReadCallbackIInv
<1>3. CASE ChangeDisc
  BY <1>3, ChangeDiscIInv
<1>4. CASE UNCHANGED vars
  <2>1. ReadIsOverlay' /\ frags' = Table(setup)'
    BY <1>4 DEF vars, IInv, ReadIsOverlay, Meant, Aligned, PatchesOf, Edges
  <2>2. Aligned' <=> Aligned
    BY <1>4 DEF vars, Aligned, PatchesOf
  <2>3. Image(disc)' = Image(disc)
    BY <1>4, SetupKept DEF vars
  <2>4. ASSUME GoodPiece PROVE GoodPiece'
    <3>1. PICK q, x, f : q = piece /\ x = dvd.offset /\ f = dvd.disc
      OBVIOUS
    <3>2. Means(q, f, x)' = Means(q, f, x) /\ MeansExactly(q, f, x)' = MeansExactly(q, f, x)
      BY <1>4, MeansKept DEF vars
    <3> QED BY <1>4, <2>2, <2>4, <3>1, <3>2 DEF vars, GoodPiece
  <2> QED BY <1>4, <2>1, <2>2, <2>3, <2>4 DEF vars, IInv
<1> QED BY <1>1, <1>2, <1>3, <1>4 DEF Next

LEMMA SpecIInv == Spec => []IInv
<1>1. IInv /\ [Next]_vars => IInv'
  BY NextIInv
<1> QED BY InitIInv, <1>1, PTL DEF Spec

-----------------------------------------------------------------------------
(* Reads go on *)

(* No fragment that lies before others of its file in the table is shorter *)
(* than 32 bytes, and none ends in the last 32 bytes of 2^32.              *)
NoSliver(t) ==
    \A i \in 1..Len(t) :
        /\ t[i].offset + t[i].size <= Word - Granule
        /\ t[i].size >= Granule \/ \A k \in i + 1..Len(t) : t[k].file # t[i].file

NoSlivers == \A s \in Setups : NoSliver(Table(s))

PieceGoesOn == dvd.read /\ dvd.length > 0 => piece.size > 0

(* What is left of a read gets less with every answer. *)
GetsShorter == dvd'.length < dvd.length \/ ~dvd'.read

LEMMA RoundIsPositive ==
    ASSUME NEW d \in Nat, 0 < d, d + Granule - 1 < Word
    PROVE  Round(d) > 0
<1>1. PICK r \in Nat : r = Round(d) /\ d <= r
  BY RoundIs
<1> QED BY <1>1

(* Of the fragments before the first that holds the offset, none limits    *)
(* the read to nothing.                                                    *)
LEMMA LimitIsPositive ==
    ASSUME frags \in Seq(Fragment), NoSliver(frags),
           NEW file, NEW x \in Nat, NEW i \in Found(file, x),
           \A h \in Found(file, x) : i <= h,
           NEW y \in Limits(file, x, i)
    PROVE  y > 0
<1>1. PICK w \in Nat \ {0}, gr \in Nat \ {0} : w = Word /\ gr = Granule /\ gr <= w
  <2>1. Word \in Nat \ {0} /\ Granule \in Nat \ {0} /\ Word % Granule = 0
    BY DiscReadAssumption
  <2>2. PICK p \in Int : Word = Granule * p
    <3>1. PICK g \in Nat \ {0}, a \in Int : g = Granule /\ a = Word
      BY <2>1
    <3>2. a % g = 0
      BY <2>1, <3>1
    <3>3. \E p \in Int : a = g * p
      BY <3>2, DivisorOf
    <3> QED BY <3>1, <3>3
  <2>3. p > 0
    BY <2>1, <2>2
  <2>4. Granule * p >= Granule
    BY <2>1, <2>3
  <2> QED BY <2>1, <2>2, <2>4
<1>2. Len(frags) \in Nat /\ i \in 1..Len(frags) /\ Holds(frags[i], file, x)
  BY LenProperties DEF Found
<1>3. PICK k \in 1..i - 1 : frags[k].file = file /\ y = Round((frags[k].offset - x) % Word)
  BY DEF Limits
<1>4. k \in 1..Len(frags) /\ i \in k + 1..Len(frags) /\ ~(i <= k)
  BY <1>2, <1>3
<1>5. ~Holds(frags[k], file, x)
  BY <1>4 DEF Found
<1>6. frags[i] \in Fragment /\ frags[k] \in Fragment
  BY <1>2, <1>4, ElementOfSeq
<1>7. PICK a \in Nat, z \in Nat, b \in Nat, e \in Nat :
        /\ a = frags[k].offset /\ z = frags[k].size /\ b = frags[i].offset /\ e = frags[i].size
  BY <1>6 DEF Fragment
<1>8. z >= gr /\ a + z <= w - gr /\ b + e <= w - gr /\ x < b + e
  <2>1. frags[i].file = frags[k].file /\ x < b + e
    BY <1>2, <1>3, <1>7 DEF Holds
  <2>2. frags[k].size >= Granule
    BY <1>4, <2>1 DEF NoSliver
  <2>3. frags[k].offset + frags[k].size <= Word - Granule
        /\ frags[i].offset + frags[i].size <= Word - Granule
    BY <1>2, <1>4 DEF NoSliver
  <2> QED BY <1>1, <1>7, <2>1, <2>2, <2>3
<1>9. x < a \/ a + z <= x
  BY <1>3, <1>5, <1>7 DEF Holds
<1>10. PICK d \in Nat : d = (a - x) % w /\ 0 < d /\ d + gr - 1 < w
  <2>1. CASE x < a
    <3>1. a - x \in 0..w - 1
      BY <1>8, <2>1
    <3>2. (a - x) % w = a - x
      BY <3>1
    <3> QED BY <1>8, <2>1, <3>1, <3>2
  <2>2. CASE a + z <= x
    <3>1. a - x + w \in 1..w - gr
      BY <1>8, <2>2
    <3>2. (a - x) % w = a - x + w
      BY <1>8, <2>2, <3>1
    <3> QED BY <3>1, <3>2
  <2> QED BY <1>9, <2>1, <2>2
<1>11. y = Round(d)
  BY <1>1, <1>3, <1>7, <1>10
<1> QED BY <1>1, <1>10, <1>11, RoundIsPositive

(* frag_get never answers nothing for a read of something. *)
LEMMA SearchGoesOn ==
    ASSUME setup \in Setups, frags = Table(setup), NoSlivers,
           NEW file \in Files, NEW x \in Nat, x \in Image(file), NEW size \in Nat, size > 0,
           NEW g, g = FragGet(file, x, size)
    PROVE  g.size > 0
<1> DEFINE fs == FragmentsOf(setup)
<1>1. PICK d : DiscPart(d, file)
  BY DiscPartIs
<1>2. PICK own : Upto(frags, own, fs, Len(Parts(setup)))
  BY TableIs
<1>3. frags \in Seq(Fragment) /\ Len(frags) \in Nat /\ NoSliver(frags)
  BY <1>2, LenProperties DEF Upto, NoSlivers
<1>4. Found(file, x) \in SUBSET Nat /\ Found(file, x) # {}
  <2>1. d \in 1..Len(Parts(setup)) /\ Inside(Parts(setup)[d], file, x)
    BY <1>1 DEF DiscPart
  <2>2. GoodPart(Parts(setup)[d])
    BY <2>1, PartsAre
  <2>3. PICK k \in 1..Len(Fragments(Parts(setup)[d])) : Holds(Fragments(Parts(setup)[d])[k], file, x)
    BY <2>1, <2>2, FragmentOf
  <2>4. fs[d] = Fragments(Parts(setup)[d])
    BY <2>1 DEF FragmentsOf
  <2> HIDE DEF fs
  <2>5. \A n \in 1..Len(fs[d]) : \E m \in 1..Len(frags) : own[m] = d /\ frags[m] = fs[d][n]
    BY <1>2, <2>1 DEF Upto
  <2>6. PICK i \in 1..Len(frags) : frags[i] = Fragments(Parts(setup)[d])[k]
    BY <2>3, <2>4, <2>5
  <2> QED BY <1>3, <2>3, <2>6 DEF Found
<1>5. PICK i \in Found(file, x) : i = Min(Found(file, x)) /\ \A h \in Found(file, x) : i <= h
  BY <1>4, MinIs
<1>6. i \in 1..Len(frags) /\ Holds(frags[i], file, x) /\ frags[i] \in Fragment
  BY <1>3, <1>5, ElementOfSeq DEF Found
<1>7. PICK f, o : f = frags[i] /\ o = x - f.offset
  OBVIOUS
<1>8. PICK r \in Nat : r = (Round(f.size) - o) % Word /\ r > 0
  <2>1. PICK e \in Nat, b \in Nat, w \in Nat \ {0}, gr \in Nat \ {0} :
           e = f.size /\ b = f.offset /\ w = Word /\ gr = Granule
    BY <1>6, <1>7, DiscReadAssumption DEF Fragment
  <2>2. b + e <= w - gr
    BY <1>3, <1>6, <1>7, <2>1 DEF NoSliver
  <2>3. o \in Nat /\ o < e
    BY <1>6, <1>7, <2>1 DEF Holds
  <2>4. PICK z \in Nat : z = Round(e) /\ z <= e + gr - 1 /\ e <= z
    <3>1. e + Granule - 1 < Word
      BY <2>1, <2>2
    <3> QED BY <2>1, <3>1, RoundIs
  <2>5. z - o \in 1..w - 1
    BY <2>2, <2>3, <2>4
  <2>6. (z - o) % w = z - o
    BY <2>5
  <2> QED BY <2>1, <2>4, <2>5, <2>6
<1>9. PICK S : S = {size, r} \cup Limits(file, x, i)
  OBVIOUS
<1>10. g.size = Min(S)
  BY <1>5, <1>7, <1>8, <1>9 DEF FragGet
<1>11. \A y \in Limits(file, x, i) : y \in Nat /\ y > 0
  BY <1>3, <1>5, <1>6, LimitsAre, LimitIsPositive
<1>12. S \in SUBSET Nat /\ S # {} /\ \A y \in S : y > 0
  BY <1>8, <1>9, <1>11
<1> QED BY <1>10, <1>12, MinIs

(* No driver takes nothing of a piece that is something. *)
LEMMA TakenGoesOn ==
    ASSUME NEW g, g.size \in Nat, g.size > 0, g.offset \in Nat, NEW n \in Taken(g)
    PROVE  n > 0
<1>1. PICK z \in Nat, o \in Nat, sec \in Nat \ {0}, blk \in Nat \ {0} :
        z = g.size /\ o = g.offset /\ sec = Sector /\ blk = Block /\ z > 0
  <2>1. Sector \in Nat \ {0} /\ Block \in Nat \ {0}
    BY DiscReadAssumption
  <2> QED BY <2>1
<1>2. PICK r \in Nat : r = Round(o)
  BY RoundIs
<1>3. PICK s \in Nat, t \in Nat : s = sec - (o % sec) /\ t = blk - (r % blk) /\ s > 0 /\ t > 0
  <2>1. o % sec \in 0..sec - 1 /\ r % blk \in 0..blk - 1
    BY Quotient
  <2>2. sec - (o % sec) \in Nat \ {0} /\ blk - (r % blk) \in Nat \ {0}
    BY <2>1
  <2> QED BY <2>2
<1>4. n = z \/ n = MinOf(z, s) \/ n = MinOf(z, t)
  BY <1>1, <1>2, <1>3 DEF Taken, ToSector, ToBlock
<1> QED BY <1>1, <1>3, <1>4 DEF MinOf

LEMMA ScheduleGoesOn ==
    ASSUME setup \in Setups, frags = Table(setup), NoSlivers,
           NEW file \in Files, NEW x \in Nat, x \in Image(file), NEW size \in Nat, size > 0,
           Schedule(file, size, x)
    PROVE  piece'.size > 0
<1>1. PICK g : /\ g = FragGet(file, x, size)
               /\ g = [offset |-> g.offset, data |-> g.data, size |-> g.size]
  <2>1. \E o, p, n : FragGet(file, x, size) = [offset |-> o, data |-> p, size |-> n]
    BY DEF FragGet
  <2> QED BY <2>1
<1>2. g.size \in Nat /\ g.offset \in Nat
  BY <1>1, PieceIsRight
<1>3. g.size > 0
  BY <1>1, SearchGoesOn
<1>4. PICK n \in Taken(g) : piece' = [g EXCEPT !.size = n]
  BY <1>1 DEF Schedule
<1>5. piece'.size = n
  BY <1>1, <1>4
<1> QED BY <1>2, <1>3, <1>4, <1>5, TakenGoesOn

LEMMA NextGoesOn ==
    ASSUME NoSlivers, IInv, PieceGoesOn, [Next]_vars
    PROVE  PieceGoesOn' /\ (dvd.read /\ ~UNCHANGED vars => GetsShorter)
<1>1. setup \in Setups /\ frags = Table(setup) /\ disc \in Files
  BY DEF IInv
<1>2. ASSUME NEW length \in Lengths, NEW offset \in Image(disc), PerformRead(length, offset)
      PROVE  PieceGoesOn' /\ ~dvd.read
  <2>1. PICK file : file = Redirected(offset)
    OBVIOUS
  <2>2. /\ dvd'.length = length /\ Schedule(file, length, offset) /\ ~dvd.read
        /\ offset..offset + length - 1 \subseteq Image(file)
    BY <1>2, <2>1 DEF PerformRead
  <2>3. file \in Files /\ length \in Nat /\ offset \in Nat
    BY <1>1, <2>1, ImageIs, DiscReadAssumption DEF Redirected, Files
  <2>4. ASSUME length > 0 PROVE piece'.size > 0
    <3>1. offset \in Image(file)
      BY <2>2, <2>3, <2>4
    <3> QED BY <1>1, <2>2, <2>3, <2>4, <3>1, ScheduleGoesOn
  <2> QED BY <2>2, <2>4 DEF PieceGoesOn
<1>3. CASE ReadCallback
  <2>1. dvd.read /\ GoodPiece /\ dvd.disc = disc
        /\ dvd.offset..dvd.offset + dvd.length - 1 \subseteq Image(disc)
        /\ dvd \in [length : Nat, offset : Nat, read : BOOLEAN, disc : Files \cup {None},
                start : Nat, got : Seq(Place \cup {None})]
    BY <1>3 DEF IInv, ReadCallback
  <2>2. PICK n \in Nat, length \in Nat, offset \in Nat :
          n = piece.size /\ length = dvd.length /\ offset = dvd.offset /\ n <= length
    BY <2>1 DEF GoodPiece
  <2>3. dvd'.length = length - n /\ dvd'.read = (length # n)
    BY <1>3, <2>1, <2>2 DEF ReadCallback
  <2>4. GetsShorter
    <3>1. length # n => length > 0
      BY <2>2
    <3>2. length > 0 => n > 0
      BY <2>1, <2>2 DEF PieceGoesOn
    <3>3. length # n => length - n < length
      BY <3>1, <3>2
    <3>4. dvd'.length < dvd.length \/ ~dvd'.read
      BY <2>2, <2>3, <3>3
    <3> QED BY <3>4 DEF GetsShorter
  <2>5. ASSUME dvd'.read, length - n > 0 PROVE piece'.size > 0
    <3>1. length # n
      BY <2>3, <2>5
    <3>2. Schedule(disc, length - n, offset + n)
      BY <1>3, <2>2, <3>1 DEF ReadCallback
    <3>3. offset + n \in Nat /\ length - n \in Nat /\ offset + n \in offset..offset + length - 1
      BY <2>2, <2>5
    <3> QED BY <1>1, <2>1, <2>2, <2>5, <3>2, <3>3, ScheduleGoesOn
  <2> QED BY <2>3, <2>4, <2>5 DEF PieceGoesOn
<1>4. CASE ChangeDisc
  BY <1>4 DEF ChangeDisc, PieceGoesOn
<1>5. CASE UNCHANGED vars
  BY <1>5 DEF vars, PieceGoesOn
<1> QED BY <1>2, <1>3, <1>4, <1>5 DEF Next

-----------------------------------------------------------------------------
(* Theorems *)

(* Whatever the runs of the files, the patched parts and the sizes of the  *)
(* pieces a driver takes: each unit the game gets is the one its disc has  *)
(* there, with the patched parts laid over it, but for the 32 bytes after  *)
(* an end of a patched part that is not at 32 bytes (frag.c:56-78,         *)
(* blockdevice.c:44-71, deviceHandler.c:231-305).                          *)
THEOREM ReadsAreOverlay == Spec => []ReadIsOverlay
<1>1. IInv => ReadIsOverlay
  BY DEF IInv
<1> QED BY <1>1, SpecIInv, PTL

(* The safety half of EveryReadEnds: every answer leaves less of the read  *)
(* or ends it, so that the driver owes a read no more answers than it has  *)
(* bytes.  A fragment shorter than 32 bytes before others of its file      *)
(* would stop it: the search is then limited to nothing behind its end     *)
(* (frag.c:67-72, blockdevice.c:44-71).                                    *)
THEOREM ReadsGetShorter ==
    ASSUME NoSlivers
    PROVE  Spec => [][dvd.read => GetsShorter]_vars
<1>1. Init => PieceGoesOn
  BY DEF Init, NoRead, PieceGoesOn
<1>2. IInv /\ PieceGoesOn /\ [Next]_vars => PieceGoesOn' /\ [dvd.read => GetsShorter]_vars
  BY NextGoesOn
<1> QED BY <1>1, <1>2, SpecIInv, PTL DEF Spec
===============================================================================
