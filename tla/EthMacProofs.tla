----------------------------- MODULE EthMacProofs -----------------------------
(***************************************************************************)
(* Proofs about EthMac for every size of the ring, of the frames and of    *)
(* the network chip: the frames a game reads, the interrupts it is given   *)
(* for them, and the frames it sends.                                      *)
(***************************************************************************)
EXTENDS EthMac, TLAPS, SequenceTheorems

-----------------------------------------------------------------------------
(* The inductive invariant *)

Events == {"RI", "TI"}
Regs == [sr : BOOLEAN, st1 : BOOLEAN, imr : SUBSET Events, ir : SUBSET Events,
         rwp : Pages, rrp : Pages]
Commands == [imr : BOOLEAN, isr : BOOLEAN, int : BOOLEAN]
Headers == [next : Pages, pages : 1..MaxPages]
Pieces == Int \cup {None, Mixed}
Chips == [held : Seq(1..MaxPages), intie : BOOLEAN, latch : BOOLEAN]
Games == [at : {"idle", "mask", "ir", "ack", "ring", "data", "next", "clear", "unmask"},
          ir : SUBSET Events, head : Headers \cup {None}, got : Seq(Pieces)]
Senders == [at : {"idle", "write", "wait"}, frame : {0, 1}]

TypeInv ==
    /\ regs \in Regs
    /\ "RI" \in regs.imr
    /\ exi \in Commands
    /\ page \in [Pages -> Pieces]
    /\ header \in [Pages -> Headers \cup {None}]
    /\ fifo \in Seq({0, 1})
    /\ nic \in Chips
    /\ pending \in BOOLEAN
    /\ output \in Nat \cup {None}
    /\ ctl \in {"idle", "callback", "fetch", "enable", "output", "unlock"}
    /\ waiters \in Seq(Users \cup {Eth})
    /\ game \in Games
    /\ game.at \in {"data", "next"} => game.head \in Headers
    /\ tx \in Senders
    /\ unread \in Seq(1..MaxPages)
    /\ lapped \in BOOLEAN
    /\ handed \in Seq(Seq({0, 1}))

(* The pages from q to p, around the ring. *)
From(q, p) == (p - q) % LastPage

(* The frames not yet read lie one behind the other from the page the game *)
(* reads next, s[k] pages on from it the k-th; the last of s is where the  *)
(* next one goes, and the pages from there on are empty.                   *)
Laid(s) ==
    LET n    == Len(unread)
        d(p) == From(regs.rrp, p)
    IN
    /\ s[1] = 0 /\ d(regs.rwp) = s[n + 1]
    /\ \A k \in 1..n : s[k + 1] = s[k] + unread[k]
    /\ \A j, k \in 1..n + 1 : j <= k => s[j] <= s[k]
    /\ \A k \in 1..n : \A p \in Pages :
          /\ d(p) = s[k] =>
                /\ header[p] \in Headers
                /\ header[p].pages = unread[k] /\ d(header[p].next) = s[k + 1]
          /\ s[k] <= d(p) /\ d(p) < s[k + 1] => page[p] = d(p) - s[k]
    /\ \A p \in Pages : s[n + 1] <= d(p) => page[p] = None

Starts == [1..Len(unread) + 1 -> 0..LastPage - 1]

RingInv ==
    ~lapped =>
        /\ \E s \in Starts : Laid(s)
        /\ game.at \in {"data", "next"} =>
              /\ unread # <<>>
              /\ game.head.pages = unread[1]
              /\ From(regs.rrp, game.head.next) = unread[1]
        /\ game.at = "next" => game.got = [i \in 1..unread[1] |-> i - 1]

(* An interrupt the game has been told of stays raised until it looks.     *)
RaisedInv ==
    /\ game.at = "idle" => exi.imr
    /\ game.at = "idle" /\ regs.ir # {} => exi.int
    /\ ~lapped /\ unread # <<>> /\ game.at \notin {"ring", "data", "next"}
          => "RI" \in regs.ir

(* The network chip interrupts for what it holds, but while it is served.  *)
ChipInv ==
    /\ ctl \notin {"fetch", "enable"} =>
          nic.intie /\ (nic.held # <<>> => nic.latch \/ pending)
    /\ ctl = "fetch" => nic.held # <<>>
    /\ ctl \in {"output", "unlock"} => ~pending
    /\ ctl = "unlock" => output = None
    /\ ctl = "idle" /\ (pending \/ output # None) => \E k \in 1..Len(waiters) : waiters[k] = Eth

(* All of a sequence of bytes are the frame's. *)
Whole(q, f) == Len(q) > 0 /\ \A i \in 1..Len(q) : q[i] = f

(* The fifo holds what the game has written and not sent.                  *)
SendInv ==
    /\ tx.at # "wait" => ~regs.st1
    /\ ~regs.st1 => output = None
    /\ tx.at = "idle" => fifo = <<>>
    /\ tx.at = "write" => Whole(fifo, tx.frame)
    /\ tx.at = "wait" =>
          IF regs.st1
          THEN output = Len(fifo) /\ Whole(fifo, tx.frame) /\ handed = <<>>
          ELSE fifo = <<>> /\ Len(handed) = 1 /\ Whole(handed[1], tx.frame)
    /\ Len(handed) <= 1

IInv == TypeInv /\ RingInv /\ RaisedInv /\ ChipInv /\ SendInv

-----------------------------------------------------------------------------
(* Lemmas about the ring *)

(* Remainders of what is at most one turn away. *)
LEMMA Turn ==
    ASSUME NEW m \in Nat \ {0}, NEW n \in Int
    PROVE  /\ n \in 0..m - 1 => n % m = n
           /\ n \in m..2 * m - 1 => n % m = n - m
           /\ n \in -m..-1 => n % m = n + m
  OBVIOUS

LEMMA RingSize == LastPage \in Nat /\ LastPage > 1 /\ MaxPages \in Nat /\ MaxPages > 0
  BY EthMacAssumption

LEMMA FromIs ==
    ASSUME NEW p \in Pages, NEW q \in Pages
    PROVE  /\ From(q, p) \in 0..LastPage - 1
           /\ From(q, p) = IF q <= p THEN p - q ELSE p - q + LastPage
<1>1. p \in 1..LastPage /\ q \in 1..LastPage /\ LastPage \in Nat \ {0}
  BY RingSize DEF Pages
<1> DEFINE n == p - q
           m == LastPage
<1>2. /\ n \in Int /\ m \in Nat \ {0}
      /\ q <= p => n \in 0..m - 1
      /\ ~(q <= p) => n \in -m..-1
  BY <1>1
<1>3. From(q, p) = n % m
  BY DEF From
<1> HIDE DEF n, m
<1>4. /\ q <= p => From(q, p) = n
      /\ ~(q <= p) => From(q, p) = n + m
  BY <1>2, <1>3, Turn
<1> QED BY <1>1, <1>4 DEF n, m

LEMMA AfterIs ==
    ASSUME NEW p \in Pages, NEW k \in 0..LastPage
    PROVE  /\ After(p, k) \in Pages
           /\ After(p, k) = IF p + k <= LastPage THEN p + k ELSE p + k - LastPage
<1>1. p \in 1..LastPage
  BY DEF Pages
<1> QED BY <1>1, RingSize, Turn DEF After, Pages

(* Going k pages on, and back. *)
LEMMA FromAfter ==
    ASSUME NEW p \in Pages, NEW q \in Pages, NEW k \in 0..LastPage - 1
    PROVE  /\ From(q, After(q, k)) = k
           /\ From(q, p) = k => After(q, k) = p
<1>1. k \in 0..LastPage
  BY RingSize
<1>2. After(q, k) \in Pages /\ After(q, k) = IF q + k <= LastPage THEN q + k ELSE q + k - LastPage
  BY <1>1, AfterIs
<1>3. From(q, After(q, k)) = IF q <= After(q, k) THEN After(q, k) - q
                             ELSE After(q, k) - q + LastPage
  BY <1>2, FromIs
<1>4. From(q, p) = IF q <= p THEN p - q ELSE p - q + LastPage
  BY FromIs
<1> HIDE DEF From, After
<1> QED BY <1>2, <1>3, <1>4, RingSize DEF Pages

LEMMA FromItself == ASSUME NEW p \in Pages PROVE From(p, p) = 0
<1>1. From(p, p) = p - p
  BY FromIs DEF Pages
<1> QED BY <1>1 DEF Pages

(* Seen from a page t pages on, what is nearer than that is behind. *)
LEMMA FromLater ==
    ASSUME NEW p \in Pages, NEW q \in Pages, NEW r \in Pages
    PROVE  From(r, p) = IF From(q, r) <= From(q, p) THEN From(q, p) - From(q, r)
                        ELSE From(q, p) - From(q, r) + LastPage
<1>1. /\ From(r, p) = IF r <= p THEN p - r ELSE p - r + LastPage
      /\ From(q, r) = IF q <= r THEN r - q ELSE r - q + LastPage
      /\ From(q, p) = IF q <= p THEN p - q ELSE p - q + LastPage
  BY FromIs
<1> QED BY <1>1, RingSize DEF Pages

(* Pages are the same number of pages on only if they are the same. *)
LEMMA FromOnce ==
    ASSUME NEW p \in Pages, NEW q \in Pages, NEW r \in Pages, From(q, p) = From(q, r)
    PROVE  p = r
<1>1. /\ From(q, r) = IF q <= r THEN r - q ELSE r - q + LastPage
      /\ From(q, p) = IF q <= p THEN p - q ELSE p - q + LastPage
  BY FromIs
<1> QED BY <1>1, RingSize DEF Pages

(* The room there is: the ring but the frames in it. *)
LEMMA RoomIs ==
    ASSUME regs.rwp \in Pages, regs.rrp \in Pages
    PROVE  Room = LastPage - From(regs.rrp, regs.rwp)
<1>1. Room = IF regs.rwp = regs.rrp THEN LastPage ELSE From(regs.rwp, regs.rrp)
  BY DEF Room, From
<1>2. From(regs.rrp, regs.rrp) = 0
  BY FromIs, RingSize DEF Pages
<1>3. From(regs.rwp, regs.rrp) = IF regs.rwp <= regs.rrp THEN regs.rrp - regs.rwp
                                 ELSE regs.rrp - regs.rwp + LastPage
  BY FromIs
<1>4. From(regs.rrp, regs.rwp) = IF regs.rrp <= regs.rwp THEN regs.rwp - regs.rrp
                                 ELSE regs.rwp - regs.rrp + LastPage
  BY FromIs
<1> QED BY <1>1, <1>2, <1>3, <1>4, RingSize DEF Pages

-----------------------------------------------------------------------------
(* Lemmas about the registers *)

(* eth_update_interrupts *)
LEMMA UpdatedIs ==
    ASSUME exi \in Commands, NEW i \in SUBSET Events, NEW m \in BOOLEAN, NEW s \in BOOLEAN,
           NEW e, e = Updated(i, m, s)
    PROVE  /\ e \in Commands
           /\ e.imr <=> m
           /\ e.isr <=> s \/ i # {}
           /\ e.int <=> exi.int \/ ((s \/ i # {}) /\ m)
<1>1. PICK x \in BOOLEAN : x = (s \/ i # {})
  OBVIOUS
<1>2. PICK y \in BOOLEAN : y = (exi.int \/ (x /\ m))
  OBVIOUS
<1>3. e = [imr |-> m, isr |-> x, int |-> y]
  BY <1>1, <1>2, Zenon DEF Updated
<1>4. /\ [imr |-> m, isr |-> x, int |-> y] \in Commands
      /\ [imr |-> m, isr |-> x, int |-> y].imr = m
      /\ [imr |-> m, isr |-> x, int |-> y].isr = x
      /\ [imr |-> m, isr |-> x, int |-> y].int = y
  BY DEF Commands
<1> QED BY <1>1, <1>2, <1>3, <1>4

-----------------------------------------------------------------------------
(* The ring *)

(* What eth_mac_receive does when the game receives. *)
LEMMA Received ==
    ASSUME TypeInv, NEW n \in 1..MaxPages, Receive(n), regs.sr
    PROVE  LET t == From(regs.rrp, regs.rwp)
               fits == n <= LastPage - t
           IN
           /\ t \in 0..LastPage - 1 /\ t + n \in Nat
           /\ lapped' \in BOOLEAN /\ (lapped => lapped')
           /\ fits /\ ~lapped' =>
                 /\ t + n <= LastPage - 1
                 /\ regs'.rwp \in Pages /\ From(regs.rrp, regs'.rwp) = t + n
                 /\ regs' = [regs EXCEPT !.rwp = regs'.rwp, !.ir = regs.ir \cup {"RI"}]
                 /\ exi' = Updated(regs.ir \cup {"RI"}, exi.imr, exi.isr)
                 /\ unread' = Append(unread, n)
                 /\ header'[regs.rwp] = [next |-> regs'.rwp, pages |-> n]
           /\ fits =>
                 /\ regs' = [regs EXCEPT !.rwp = regs'.rwp, !.ir = regs.ir \cup {"RI"}]
                 /\ regs'.rwp \in Pages
                 /\ exi' = Updated(regs.ir \cup {"RI"}, exi.imr, exi.isr)
                 /\ unread' \in {<<>>, Append(unread, n)}
           /\ ~fits => regs' = regs /\ exi' = exi /\ unread' = unread
           /\ ~lapped' => \A p \in Pages \ {regs.rwp} : header'[p] = header[p]
           /\ ~lapped' => \A p \in Pages :
                 LET d == From(regs.rrp, p) IN
                 /\ d < t => page'[p] = page[p]
                 /\ d >= t /\ page[p] = None =>
                       page'[p] = IF fits /\ d < t + n THEN d - t ELSE None
           /\ page' \in [Pages -> Pieces]
           /\ header' \in [Pages -> Headers \cup {None}]
<1> DEFINE t == From(regs.rrp, regs.rwp)
           fits == n <= Room
           next == After(regs.rwp, n)
           at(p) == (p - regs.rwp) % LastPage
           piece(p) == IF page[p] # None THEN Mixed ELSE IF fits THEN at(p) ELSE None
<1>1. /\ regs.rwp \in Pages /\ regs.rrp \in Pages /\ n \in Nat /\ n > 0 /\ "RI" \in regs.imr
      /\ lapped \in BOOLEAN
  BY RingSize DEF TypeInv, Regs
<1>2. t \in 0..LastPage - 1 /\ t \in Nat /\ LastPage \in Nat /\ Room = LastPage - t
  BY <1>1, FromIs, RoomIs, RingSize
<1>3. /\ lapped' = (lapped \/ (fits /\ next = regs.rrp))
      /\ page' = [p \in Pages |-> IF lapped' THEN None
                                  ELSE IF at(p) < n /\ at(p) < Room THEN piece(p) ELSE page[p]]
      /\ header' = [p \in Pages |-> IF lapped' THEN None
                                    ELSE IF p # regs.rwp THEN header[p]
                                    ELSE IF fits THEN [next |-> next, pages |-> n] ELSE None]
      /\ fits => /\ regs' = [regs EXCEPT !.rwp = next, !.ir = Raised("RI")]
                 /\ exi' = Noticed("RI")
                 /\ unread' = IF lapped' THEN <<>> ELSE Append(unread, n)
      /\ ~fits => UNCHANGED <<regs, exi, unread>>
  BY DEF Receive
<1>4. fits => n \in 0..LastPage
  BY <1>1, <1>2
<1>5. fits => next \in Pages
  BY <1>1, <1>4, AfterIs
<1>6. ASSUME fits, ~lapped' PROVE t + n <= LastPage - 1 /\ From(regs.rrp, next) = t + n
  <2>1. next # regs.rrp
    BY <1>3, <1>6
  <2>2. next = IF regs.rwp + n <= LastPage THEN regs.rwp + n ELSE regs.rwp + n - LastPage
    BY <1>1, <1>4, <1>6, AfterIs
  <2>3. t = IF regs.rrp <= regs.rwp THEN regs.rwp - regs.rrp ELSE regs.rwp - regs.rrp + LastPage
    BY <1>1, FromIs
  <2>4. From(regs.rrp, next) = IF regs.rrp <= next THEN next - regs.rrp
                               ELSE next - regs.rrp + LastPage
    BY <1>1, <1>5, <1>6, FromIs
  <2> HIDE DEF t, next
  <2>5. n <= LastPage - t
    BY <1>2, <1>6
  <2> QED BY <1>1, <1>2, <1>5, <1>6, <2>1, <2>2, <2>3, <2>4, <2>5 DEF Pages
<1>7. \A p \in Pages :
         /\ at(p) = From(regs.rwp, p) /\ at(p) \in 0..LastPage - 1
         /\ From(regs.rrp, p) \in 0..LastPage - 1
         /\ From(regs.rrp, p) < t => at(p) = From(regs.rrp, p) - t + LastPage
         /\ From(regs.rrp, p) >= t => at(p) = From(regs.rrp, p) - t
  <2> TAKE p \in Pages
  <2>1. at(p) = From(regs.rwp, p)
    BY DEF From
  <2>2. From(regs.rwp, p) \in 0..LastPage - 1 /\ From(regs.rrp, p) \in 0..LastPage - 1
    BY <1>1, FromIs
  <2>3. From(regs.rwp, p) = IF t <= From(regs.rrp, p) THEN From(regs.rrp, p) - t
                            ELSE From(regs.rrp, p) - t + LastPage
    BY <1>1, FromLater
  <2> HIDE DEF at, t
  <2> QED BY <1>2, <2>1, <2>2, <2>3
<1>8. fits <=> n <= LastPage - t
  BY <1>2
<1>9. Raised("RI") = regs.ir \cup {"RI"} /\ Noticed("RI") = Updated(regs.ir \cup {"RI"}, exi.imr, exi.isr)
  BY <1>1 DEF Raised, Noticed
<1>10. fits => regs'.rwp = next /\ regs' = [regs EXCEPT !.rwp = regs'.rwp, !.ir = regs.ir \cup {"RI"}]
  <2>1. regs \in Regs /\ regs.ir \cup {"RI"} \in SUBSET Events
    BY DEF TypeInv, Regs, Events
  <2>2. fits => regs' = [regs EXCEPT !.rwp = next, !.ir = regs.ir \cup {"RI"}]
    BY <1>3, <1>9, Zenon
  <2> HIDE DEF next, fits
  <2>i. PICK i \in SUBSET Events : i = regs.ir \cup {"RI"}
    BY <2>1
  <2>3. ASSUME fits PROVE regs'.rwp = next
    <3>1. regs' = [regs EXCEPT !.rwp = next, !.ir = i]
      BY <2>2, <2>3, <2>i, Zenon
    <3>2. PICK w \in Pages : w = next
      BY <1>5, <2>3
    <3>3. regs \in Regs /\ regs' = [regs EXCEPT !.rwp = w, !.ir = i]
      BY <2>1, <3>1, <3>2, Zenon
    <3> QED BY <3>2, <3>3 DEF Regs
  <2> QED BY <2>2, <2>3, Zenon
<1>11. page' \in [Pages -> Pieces]
  <2>1. \A p \in Pages : page[p] \in Pieces /\ piece(p) \in Pieces
    BY <1>7 DEF TypeInv, Pieces
  <2>2. None \in Pieces
    BY DEF Pieces
  <2> HIDE DEF at, piece
  <2> QED BY <1>3, <2>1, <2>2
<1>12. header' \in [Pages -> Headers \cup {None}]
  <2>1. fits => [next |-> next, pages |-> n] \in Headers
    BY <1>5 DEF Headers
  <2> HIDE DEF next, fits
  <2> QED BY <1>3, <2>1 DEF TypeInv
<1>13. ~lapped' => \A p \in Pages :
          /\ From(regs.rrp, p) < t => page'[p] = page[p]
          /\ From(regs.rrp, p) >= t /\ page[p] = None =>
                page'[p] = IF fits /\ From(regs.rrp, p) < t + n
                           THEN From(regs.rrp, p) - t ELSE None
  <2> SUFFICES ASSUME ~lapped', NEW p \in Pages
               PROVE  /\ From(regs.rrp, p) < t => page'[p] = page[p]
                      /\ From(regs.rrp, p) >= t /\ page[p] = None =>
                            page'[p] = IF fits /\ From(regs.rrp, p) < t + n
                                       THEN From(regs.rrp, p) - t ELSE None
    OBVIOUS
  <2>1. page'[p] = IF at(p) < n /\ at(p) < Room
                   THEN IF page[p] # None THEN Mixed ELSE IF fits THEN at(p) ELSE None
                   ELSE page[p]
    BY <1>3
  <2>2. /\ From(regs.rrp, p) \in 0..LastPage - 1
        /\ From(regs.rrp, p) < t => at(p) = From(regs.rrp, p) - t + LastPage
        /\ From(regs.rrp, p) >= t => at(p) = From(regs.rrp, p) - t
    BY <1>7
  <2>3. fits <=> n <= Room
    OBVIOUS
  <2> HIDE DEF at, t, fits
  <2> QED BY <1>1, <1>2, <2>1, <2>2, <2>3
<1>14. ~lapped' => /\ \A p \in Pages \ {regs.rwp} : header'[p] = header[p]
                   /\ fits => header'[regs.rwp] = [next |-> next, pages |-> n]
  BY <1>1, <1>3
<1>15. lapped' \in BOOLEAN /\ (lapped => lapped')
  BY <1>1, <1>3
<1> HIDE DEF t, fits, next, at, piece
<1> QED BY <1>1, <1>2, <1>3, <1>5, <1>6, <1>8, <1>9, <1>10, <1>11, <1>12, <1>13, <1>14, <1>15 DEF t

(* What there is to know of the frames of the ring without knowing where   *)
(* they are.                                                               *)
LEMMA LaidType ==
    ASSUME TypeInv, NEW s \in Starts, Laid(s)
    PROVE  /\ Len(unread) \in Nat
           /\ \A k \in 1..Len(unread) : unread[k] \in 1..MaxPages /\ unread[k] \in Nat \ {0}
           /\ \A k \in 1..Len(unread) + 1 : s[k] \in 0..LastPage - 1 /\ s[k] \in Nat
           /\ From(regs.rrp, regs.rwp) = s[Len(unread) + 1]
           /\ \A k \in 1..Len(unread) : s[k] < s[k + 1] /\ s[k + 1] <= s[Len(unread) + 1]
<1>1. unread \in Seq(1..MaxPages)
  BY DEF TypeInv
<1>2. Len(unread) \in Nat /\ \A k \in 1..Len(unread) : unread[k] \in 1..MaxPages
  BY <1>1, LenProperties, ElementOfSeq
<1>3. \A k \in 1..Len(unread) : unread[k] \in Nat \ {0}
  BY <1>2, RingSize
<1>4. \A k \in 1..Len(unread) + 1 : s[k] \in 0..LastPage - 1 /\ s[k] \in Nat
  BY <1>2, RingSize DEF Starts
<1>5. ASSUME NEW k \in 1..Len(unread)
      PROVE  s[k] < s[k + 1] /\ s[k + 1] <= s[Len(unread) + 1]
  <2>1. k \in 1..Len(unread) + 1 /\ k + 1 \in 1..Len(unread) + 1 /\ Len(unread) + 1 \in 1..Len(unread) + 1
        /\ k + 1 <= Len(unread) + 1
    BY <1>2
  <2>2. s[k + 1] = s[k] + unread[k]
    BY DEF Laid
  <2>3. s[k + 1] <= s[Len(unread) + 1]
    BY <2>1 DEF Laid
  <2> QED BY <1>3, <1>4, <2>1, <2>2, <2>3
<1> QED BY <1>2, <1>3, <1>4, <1>5 DEF Laid

(* A frame that comes in is laid behind the others.                        *)
LEMMA LaidReceived ==
    ASSUME TypeInv, NEW s \in Starts, Laid(s), NEW n \in 1..MaxPages, Receive(n), regs.sr,
           ~lapped'
    PROVE  \E u \in Starts' : Laid(u)'
<1> DEFINE N == Len(unread)
           T == s[N + 1]
           d(p) == From(regs.rrp, p)
<1>1. /\ N \in Nat /\ n \in Nat /\ n > 0 /\ LastPage \in Nat
      /\ \A k \in 1..N : unread[k] \in Nat \ {0}
      /\ \A k \in 1..N + 1 : s[k] \in 0..LastPage - 1 /\ s[k] \in Nat
      /\ d(regs.rwp) = T
      /\ \A k \in 1..N : s[k] < s[k + 1] /\ s[k + 1] <= T
  BY LaidType, RingSize
<1>2. regs.rwp \in Pages /\ regs.rrp \in Pages /\ unread \in Seq(1..MaxPages)
      /\ regs \in Regs
  BY DEF TypeInv, Regs
<1>3. \A p \in Pages : d(p) \in 0..LastPage - 1
  BY <1>2, FromIs
<1>4. ASSUME NEW k \in 1..N, NEW p \in Pages, d(p) = s[k] PROVE p # regs.rwp
  BY <1>1, <1>4
<1>5. CASE n <= LastPage - T
  <2> DEFINE u == [k \in 1..N + 2 |-> IF k <= N + 1 THEN s[k] ELSE T + n]
  <2>1. /\ T + n \in 0..LastPage - 1
        /\ regs'.rwp \in Pages /\ d(regs'.rwp) = T + n
        /\ regs' = [regs EXCEPT !.rwp = regs'.rwp, !.ir = regs.ir \cup {"RI"}]
        /\ unread' = Append(unread, n)
        /\ header'[regs.rwp] = [next |-> regs'.rwp, pages |-> n]
    <3>1. T + n \in Nat
      BY <1>1
    <3> HIDE DEF T
    <3> QED BY <1>1, <1>5, <3>1, Received
  <2>2. /\ \A p \in Pages \ {regs.rwp} : header'[p] = header[p]
        /\ \A p \in Pages :
              /\ d(p) < T => page'[p] = page[p]
              /\ d(p) >= T /\ page[p] = None =>
                    page'[p] = IF d(p) < T + n THEN d(p) - T ELSE None
    <3> HIDE DEF T
    <3> QED BY <1>1, <1>5, Received
  <2>3. /\ Len(unread') = N + 1 /\ unread'[N + 1] = n
        /\ \A k \in 1..N : unread'[k] = unread[k]
    BY <1>1, <1>2, <2>1
  <2>4. regs'.rrp = regs.rrp
    BY <1>2, <2>1 DEF Regs
  <2>5. /\ \A k \in 1..N + 1 : u[k] = s[k]
        /\ u[N + 2] = T + n
        /\ u \in [1..N + 2 -> 0..LastPage - 1]
    BY <1>1, <2>1
  <2>6. u[N + 1] = T /\ N + 1 \in 1..N + 1
    BY <1>1, <2>5
  <2>7. PICK v \in [1..N + 2 -> 0..LastPage - 1] :
           v[N + 1] = T /\ v[N + 2] = T + n /\ \A k \in 1..N + 1 : v[k] = s[k]
    BY <2>5, <2>6
  <2> HIDE DEF u
  <2>8. v \in Starts'
    <3>1. N + 1 + 1 = N + 2
      BY <1>1
    <3> QED BY <2>3, <2>7, <3>1 DEF Starts
  <2>9. s[1] = 0 /\ v[1] = 0
    BY <1>1, <2>7 DEF Laid
  <2>10. \A k \in 1..N + 1 : v[k + 1] = v[k] + unread'[k]
    <3>1. ASSUME NEW k \in 1..N PROVE v[k + 1] = v[k] + unread'[k]
      <4>1. k \in 1..N + 1 /\ k + 1 \in 1..N + 1
        BY <1>1
      <4> QED BY <2>3, <2>7, <4>1 DEF Laid
    <3>2. v[N + 1 + 1] = v[N + 1] + unread'[N + 1]
      <4>1. N + 1 + 1 = N + 2
        BY <1>1
      <4> QED BY <2>3, <2>7, <4>1
    <3> QED BY <1>1, <3>1, <3>2
  <2>11. \A j, k \in 1..N + 2 : j <= k => v[j] <= v[k]
    <3> SUFFICES ASSUME NEW j \in 1..N + 2, NEW k \in 1..N + 2, j <= k PROVE v[j] <= v[k]
      OBVIOUS
    <3>1. CASE k \in 1..N + 1
      <4>1. j \in 1..N + 1
        BY <1>1, <3>1
      <4> QED BY <2>7, <3>1, <4>1 DEF Laid
    <3>2. CASE k = N + 2 /\ j \in 1..N + 1
      <4>1. s[j] <= s[N + 1]
        BY <1>1, <2>6, <3>2 DEF Laid
      <4> HIDE DEF T
      <4>2. s[j] <= T /\ s[j] \in Nat /\ T \in Nat
        BY <1>1, <2>6, <3>2, <4>1 DEF T
      <4> QED BY <1>1, <2>7, <3>2, <4>2
    <3>3. CASE j = N + 2
      <4>1. k = N + 2
        BY <1>1, <3>3
      <4> QED BY <1>1, <2>1, <2>7, <3>3, <4>1
    <3> QED BY <1>1, <3>1, <3>2, <3>3
  <2>12. ASSUME NEW k \in 1..N + 1, NEW p \in Pages
         PROVE  /\ d(p) = v[k] =>
                      /\ header'[p] \in Headers
                      /\ header'[p].pages = unread'[k] /\ d(header'[p].next) = v[k + 1]
                /\ v[k] <= d(p) /\ d(p) < v[k + 1] => page'[p] = d(p) - v[k]
    <3>1. CASE k \in 1..N
      <4>1. k \in 1..N + 1 /\ k + 1 \in 1..N + 1
        BY <1>1, <3>1
      <4>2. v[k] = s[k] /\ v[k + 1] = s[k + 1] /\ unread'[k] = unread[k]
        BY <2>3, <2>7, <3>1, <4>1
      <4>3. d(p) = s[k] => header'[p] = header[p]
        BY <1>4, <2>2, <3>1
      <4>4. d(p) < s[k + 1] => d(p) < T
        <5>1. /\ d(p) \in 0..LastPage - 1 /\ s[k + 1] \in 0..LastPage - 1
              /\ T \in 0..LastPage - 1 /\ s[k + 1] <= T /\ LastPage \in Nat
          BY <1>1, <1>3, <2>6, <3>1, <4>1
        <5> HIDE DEF d, T
        <5> QED BY <5>1
      <4>5. d(p) < s[k + 1] => page'[p] = page[p]
        BY <2>2, <4>4
      <4>6. /\ d(p) = s[k] =>
                  /\ header[p] \in Headers
                  /\ header[p].pages = unread[k] /\ d(header[p].next) = s[k + 1]
            /\ s[k] <= d(p) /\ d(p) < s[k + 1] => page[p] = d(p) - s[k]
        BY <3>1 DEF Laid
      <4> HIDE DEF d, T
      <4> QED BY <4>2, <4>3, <4>5, <4>6
    <3>2. CASE k = N + 1
      <4>1. v[k] = T /\ v[k + 1] = T + n /\ unread'[k] = n
        <5>1. k + 1 = N + 2
          BY <1>1, <3>2
        <5> QED BY <2>3, <2>7, <3>2, <5>1
      <4>2. d(p) = T => p = regs.rwp
        BY <1>1, <1>2, FromOnce
      <4>3. header'[regs.rwp] \in Headers
        BY <2>1 DEF Headers
      <4>4. T <= d(p) => page[p] = None
        BY DEF Laid
      <4>5. T <= d(p) /\ d(p) < T + n => page'[p] = d(p) - T
        BY <1>1, <1>3, <2>2, <2>6, <4>4
      <4> HIDE DEF d, T
      <4> QED BY <2>1, <4>1, <4>2, <4>3, <4>5
    <3> QED BY <1>1, <3>1, <3>2
  <2>13. ASSUME NEW p \in Pages, v[N + 2] <= d(p) PROVE page'[p] = None
    <3>1. T <= d(p) /\ ~(d(p) < T + n)
      BY <1>1, <1>3, <2>6, <2>7, <2>13
    <3>2. page[p] = None
      BY <3>1 DEF Laid
    <3> QED BY <1>1, <1>3, <2>2, <2>6, <3>1, <3>2
  <2>14. d(regs'.rwp) = v[N + 2] /\ Len(unread') + 1 = N + 2
    BY <1>1, <2>1, <2>3, <2>7
  <2>15. Laid(v)'
    BY <2>3, <2>4, <2>9, <2>10, <2>11, <2>12, <2>13, <2>14 DEF Laid
  <2> QED BY <2>8, <2>15
<1>6. CASE ~(n <= LastPage - T)
  <2>1. regs' = regs /\ unread' = unread
    <3> HIDE DEF T
    <3> QED BY <1>1, <1>6, Received
  <2>2. /\ \A p \in Pages \ {regs.rwp} : header'[p] = header[p]
        /\ \A p \in Pages :
              /\ d(p) < T => page'[p] = page[p]
              /\ d(p) >= T /\ page[p] = None => page'[p] = None
    <3> HIDE DEF T
    <3> QED BY <1>1, <1>6, Received
  <2>3. s \in Starts'
    BY <2>1 DEF Starts
  <2>4. ASSUME NEW k \in 1..N, NEW p \in Pages
        PROVE  /\ d(p) = s[k] =>
                     /\ header'[p] \in Headers
                     /\ header'[p].pages = unread[k] /\ d(header'[p].next) = s[k + 1]
               /\ s[k] <= d(p) /\ d(p) < s[k + 1] => page'[p] = d(p) - s[k]
    <3>1. k + 1 \in 1..N + 1 /\ N + 1 \in 1..N + 1
      BY <1>1
    <3>2. d(p) = s[k] => header'[p] = header[p]
      BY <1>4, <2>2
    <3>3. d(p) < s[k + 1] => d(p) < T
      BY <1>1, <1>3, <3>1
    <3>4. d(p) < s[k + 1] => page'[p] = page[p]
      BY <2>2, <3>3
    <3>5. /\ d(p) = s[k] =>
                /\ header[p] \in Headers
                /\ header[p].pages = unread[k] /\ d(header[p].next) = s[k + 1]
          /\ s[k] <= d(p) /\ d(p) < s[k + 1] => page[p] = d(p) - s[k]
      BY DEF Laid
    <3> HIDE DEF d, T
    <3> QED BY <3>2, <3>4, <3>5
  <2>5. ASSUME NEW p \in Pages, T <= d(p) PROVE page'[p] = None
    <3>1. page[p] = None
      BY <2>5 DEF Laid
    <3>2. N + 1 \in 1..N + 1
      BY <1>1
    <3> QED BY <1>1, <1>3, <2>2, <2>5, <3>1, <3>2
  <2>6. Laid(s)'
    BY <2>1, <2>4, <2>5 DEF Laid
  <2> QED BY <2>3, <2>6
<1> QED BY <1>5, <1>6

(* When the game has read a frame, the frames behind it are the ring.      *)
LEMMA LaidFreed ==
    ASSUME TypeInv, RingInv, ~lapped, NEW s \in Starts, Laid(s), WriteRRP
    PROVE  \E u \in Starts' : Laid(u)'
<1> DEFINE N == Len(unread)
           d(p) == From(regs.rrp, p)
           e(p) == From(regs'.rrp, p)
<1>1. /\ N \in Nat /\ LastPage \in Nat
      /\ \A k \in 1..N : unread[k] \in Nat \ {0}
      /\ \A k \in 1..N + 1 : s[k] \in 0..LastPage - 1 /\ s[k] \in Nat
      /\ d(regs.rwp) = s[N + 1]
      /\ \A k \in 1..N : s[k] < s[k + 1] /\ s[k + 1] <= s[N + 1]
  BY LaidType, RingSize
<1>2. /\ unread # <<>> /\ game.at = "next" /\ game.head.pages = unread[1]
      /\ game.head \in Headers /\ d(game.head.next) = unread[1]
  BY DEF RingInv, TypeInv, WriteRRP
<1>3. /\ regs' = [regs EXCEPT !.rrp = game.head.next]
      /\ page' = [p \in Pages |-> IF d(p) < unread[1] THEN None ELSE page[p]]
      /\ header' = [header EXCEPT ![regs.rrp] = None]
      /\ unread' = Tail(unread)
  BY <1>2 DEF WriteRRP, From
<1>4. /\ regs.rwp \in Pages /\ regs.rrp \in Pages /\ unread \in Seq(1..MaxPages)
      /\ header \in [Pages -> Headers \cup {None}]
      /\ regs'.rwp = regs.rwp /\ regs'.rrp = game.head.next /\ regs'.rrp \in Pages
  BY <1>2, <1>3 DEF TypeInv, Headers, Regs
<1>5. \A p \in Pages : d(p) \in 0..LastPage - 1 /\ d(p) \in Nat
  BY <1>1, <1>4, FromIs
<1>6. N \in Nat \ {0}
  BY <1>1, <1>2, <1>4
<1>7. s[2] = unread[1] /\ s[1] = 0 /\ s[2] > 0 /\ s[2] \in 0..LastPage - 1
  <2>1. s[1 + 1] = s[1] + unread[1] /\ s[1] = 0
    BY <1>6 DEF Laid
  <2>2. 2 \in 1..N + 1 /\ 1 \in 1..N
    BY <1>6
  <2> QED BY <1>1, <2>1, <2>2
<1>8. /\ Len(unread') = N - 1
      /\ \A k \in 1..N - 1 : unread'[k] = unread[k + 1]
  BY <1>2, <1>3, <1>4, HeadTailProperties
<1>9. \A k \in 2..N + 1 : k \in 1..N + 1 /\ s[2] <= s[k] /\ s[k] \in 0..LastPage - 1
  <2>1. 2 \in 1..N + 1
    BY <1>6
  <2>2. ASSUME NEW k \in 2..N + 1 PROVE k \in 1..N + 1 /\ 2 <= k
    BY <1>6
  <2> QED BY <1>1, <2>1, <2>2 DEF Laid
<1>10. PICK u \in [1..N -> 0..LastPage - 1] : \A k \in 1..N : u[k] = s[k + 1] - s[2]
  <2> DEFINE v == [k \in 1..N |-> s[k + 1] - s[2]]
  <2>1. ASSUME NEW k \in 1..N PROVE s[k + 1] - s[2] \in 0..LastPage - 1
    <3>1. k + 1 \in 2..N + 1
      BY <1>6
    <3>2. s[2] <= s[k + 1] /\ s[k + 1] \in 0..LastPage - 1
      BY <1>9, <3>1
    <3>3. PICK low, high \in 0..LastPage - 1 : low = s[2] /\ high = s[k + 1]
      BY <1>7, <3>2
    <3>4. low <= high
      BY <3>2, <3>3
    <3>5. high - low \in 0..LastPage - 1
      BY <1>1, <3>3, <3>4
    <3> QED BY <3>3, <3>5
  <2>2. v \in [1..N -> 0..LastPage - 1] /\ \A k \in 1..N : v[k] = s[k + 1] - s[2]
    BY <2>1
  <2> QED BY <2>2
<1>11. \A p \in Pages : e(p) = IF s[2] <= d(p) THEN d(p) - s[2] ELSE d(p) - s[2] + LastPage
  BY <1>2, <1>4, <1>7, FromLater
<1>12. ASSUME NEW p \in Pages, NEW k \in 1..N + 1, 2 <= k
       PROVE  /\ e(p) = s[k] - s[2] <=> d(p) = s[k]
              /\ e(p) < s[k] - s[2] <=> s[2] <= d(p) /\ d(p) < s[k]
              /\ s[k] - s[2] <= e(p) <=> d(p) < s[2] \/ s[k] <= d(p)
  <2>1. /\ d(p) \in 0..LastPage - 1 /\ s[2] <= s[k]
        /\ s[k] \in 0..LastPage - 1
        /\ e(p) = IF s[2] <= d(p) THEN d(p) - s[2] ELSE d(p) - s[2] + LastPage
    BY <1>5, <1>9, <1>11, <1>12
  <2> HIDE DEF d, e, N
  <2> QED BY <1>1, <1>7, <2>1
<1>13. \A p \in Pages :
          /\ d(p) >= s[2] => page'[p] = page[p] /\ header'[p] = header[p]
          /\ d(p) < s[2] => page'[p] = None
  <2> TAKE p \in Pages
  <2>1. d(regs.rrp) = 0
    BY <1>4, FromItself
  <2>2. d(p) >= s[2] => p # regs.rrp
    BY <1>5, <1>7, <2>1
  <2>3. /\ d(p) >= s[2] => ~(d(p) < unread[1])
        /\ d(p) < s[2] => d(p) < unread[1]
    BY <1>5, <1>7
  <2>4. page'[p] = IF d(p) < unread[1] THEN None ELSE page[p]
    BY <1>3
  <2> QED BY <1>3, <1>4, <2>2, <2>3, <2>4
<1> HIDE DEF d, e
<1>14. u \in Starts'
  <2>1. N - 1 + 1 = N
    BY <1>6
  <2> QED BY <1>8, <1>10, <2>1 DEF Starts
<1>15. u[1] = 0
  <2>1. 1 \in 1..N /\ 1 + 1 = 2
    BY <1>6
  <2> QED BY <1>7, <1>10, <2>1
<1>16. e(regs'.rwp) = u[N] /\ Len(unread') + 1 = N
  <2>1. N + 1 \in 1..N + 1 /\ 2 <= N + 1 /\ N \in 1..N
    BY <1>6
  <2> QED BY <1>1, <1>4, <1>6, <1>8, <1>10, <1>12, <2>1
<1>17. \A k \in 1..N - 1 : u[k + 1] = u[k] + unread'[k]
  <2> TAKE k \in 1..N - 1
  <2>1. k \in 1..N /\ k + 1 \in 1..N /\ k + 1 + 1 \in 1..N + 1 /\ k + 1 \in 1..N + 1
    BY <1>6
  <2>2. s[k + 1 + 1] = s[k + 1] + unread[k + 1]
    BY <2>1 DEF Laid
  <2>3. u[k] = s[k + 1] - s[2] /\ u[k + 1] = s[k + 1 + 1] - s[2] /\ unread'[k] = unread[k + 1]
    BY <1>8, <1>10, <2>1
  <2> QED BY <1>1, <1>7, <2>1, <2>2, <2>3
<1>18. \A j, k \in 1..N : j <= k => u[j] <= u[k]
  <2> SUFFICES ASSUME NEW j \in 1..N, NEW k \in 1..N, j <= k PROVE u[j] <= u[k]
    OBVIOUS
  <2>1. j + 1 \in 1..N + 1 /\ k + 1 \in 1..N + 1 /\ j + 1 <= k + 1
    BY <1>6
  <2>2. s[j + 1] <= s[k + 1]
    BY <2>1 DEF Laid
  <2>3. u[j] = s[j + 1] - s[2] /\ u[k] = s[k + 1] - s[2]
    BY <1>10
  <2>4. s[j + 1] \in Nat /\ s[k + 1] \in Nat /\ s[2] \in Nat
    BY <1>1, <1>7, <2>1
  <2> QED BY <2>2, <2>3, <2>4
<1>19. ASSUME NEW k \in 1..N - 1, NEW p \in Pages
       PROVE  /\ e(p) = u[k] =>
                    /\ header'[p] \in Headers
                    /\ header'[p].pages = unread'[k] /\ e(header'[p].next) = u[k + 1]
              /\ u[k] <= e(p) /\ e(p) < u[k + 1] => page'[p] = e(p) - u[k]
  <2>1. /\ k \in 1..N /\ k + 1 \in 1..N /\ k + 1 + 1 \in 1..N + 1 /\ k + 1 \in 1..N + 1
        /\ 2 <= k + 1 /\ 2 <= k + 1 + 1 /\ k + 1 \in 2..N + 1
    BY <1>6
  <2>2. /\ u[k] = s[k + 1] - s[2] /\ u[k + 1] = s[k + 1 + 1] - s[2]
        /\ unread'[k] = unread[k + 1]
    BY <1>8, <1>10, <2>1
  <2>3. /\ d(p) = s[k + 1] =>
              /\ header[p] \in Headers
              /\ header[p].pages = unread[k + 1] /\ d(header[p].next) = s[k + 1 + 1]
        /\ s[k + 1] <= d(p) /\ d(p) < s[k + 1 + 1] => page[p] = d(p) - s[k + 1]
    BY <2>1 DEF Laid, d
  <2>4. s[2] <= s[k + 1] /\ s[k + 1] \in Nat /\ s[2] \in Nat /\ d(p) \in Nat
    BY <1>1, <1>5, <1>7, <1>9, <2>1
  <2>5. ASSUME e(p) = u[k]
        PROVE  /\ header'[p] \in Headers
               /\ header'[p].pages = unread'[k] /\ e(header'[p].next) = u[k + 1]
    <3>1. d(p) = s[k + 1]
      BY <1>12, <2>1, <2>2, <2>5
    <3>2. header'[p] = header[p]
      BY <1>13, <2>4, <3>1
    <3>3. header[p].next \in Pages
      BY <2>3, <3>1 DEF Headers
    <3> QED BY <1>12, <2>1, <2>2, <2>3, <3>1, <3>2, <3>3
  <2>6. ASSUME u[k] <= e(p), e(p) < u[k + 1] PROVE page'[p] = e(p) - u[k]
    <3>1. s[2] <= d(p) /\ d(p) < s[k + 1 + 1]
      BY <1>12, <2>1, <2>2, <2>6
    <3>2. s[k + 1] <= d(p)
      BY <1>12, <2>1, <2>2, <2>4, <2>6, <3>1
    <3>3. page'[p] = d(p) - s[k + 1]
      BY <1>13, <2>3, <2>4, <3>1, <3>2
    <3>4. e(p) = d(p) - s[2]
      BY <1>11, <3>1
    <3> QED BY <2>2, <2>4, <3>3, <3>4
  <2> QED BY <2>5, <2>6
<1>20. ASSUME NEW p \in Pages, u[N] <= e(p) PROVE page'[p] = None
  <2>1. N + 1 \in 1..N + 1 /\ 2 <= N + 1 /\ N \in 1..N
    BY <1>6
  <2>2. d(p) < s[2] \/ s[N + 1] <= d(p)
    BY <1>10, <1>12, <1>20, <2>1
  <2>3. s[N + 1] <= d(p) => page[p] = None
    BY DEF Laid, d
  <2> QED BY <1>1, <1>5, <1>7, <1>13, <2>2, <2>3
<1>21. Laid(u)'
  BY <1>8, <1>15, <1>16, <1>17, <1>18, <1>19, <1>20 DEF Laid, e
<1> QED BY <1>14, <1>21

(* The frame the game reads next, and when there is one. *)
LEMMA FrontOfRing ==
    ASSUME TypeInv, RingInv, ~lapped
    PROVE  /\ regs.rrp = regs.rwp <=> unread = <<>>
           /\ unread # <<>> =>
                 /\ unread[1] \in Nat \ {0} /\ unread[1] < LastPage
                 /\ header[regs.rrp] \in Headers
                 /\ header[regs.rrp].pages = unread[1]
                 /\ From(regs.rrp, header[regs.rrp].next) = unread[1]
                 /\ \A p \in Pages : From(regs.rrp, p) < unread[1]
                                        => page[p] = From(regs.rrp, p)
<1>1. PICK s \in Starts : Laid(s)
  BY DEF RingInv
<1>2. regs.rrp \in Pages /\ regs.rwp \in Pages /\ unread \in Seq(1..MaxPages)
  BY DEF TypeInv, Regs
<1> DEFINE N == Len(unread)
           d(p) == From(regs.rrp, p)
<1>3. /\ N \in Nat /\ LastPage \in Nat
      /\ \A k \in 1..N : unread[k] \in Nat \ {0}
      /\ \A k \in 1..N + 1 : s[k] \in 0..LastPage - 1 /\ s[k] \in Nat
      /\ d(regs.rwp) = s[N + 1]
      /\ \A k \in 1..N : s[k] < s[k + 1] /\ s[k + 1] <= s[N + 1]
  BY <1>1, LaidType, RingSize
<1>4. s[1] = 0 /\ d(regs.rrp) = 0 /\ \A p \in Pages : d(p) \in 0..LastPage - 1
  BY <1>1, <1>2, FromItself, FromIs DEF Laid
<1>5. CASE unread = <<>>
  <2>1. d(regs.rwp) = d(regs.rrp)
    BY <1>3, <1>4, <1>5
  <2> QED BY <1>2, <1>5, <2>1, FromOnce
<1>6. CASE unread # <<>>
  <2>1. N # 0 /\ 1 \in 1..N /\ 1 \in 1..N + 1 /\ 2 \in 1..N + 1 /\ N + 1 \in 1..N + 1
    BY <1>2, <1>3, <1>6
  <2>2. s[1 + 1] = s[1] + unread[1]
    BY <1>1, <2>1 DEF Laid
  <2>3. s[2] = unread[1] /\ s[2] > 0 /\ s[2] < LastPage /\ s[2] <= s[N + 1]
    BY <1>3, <1>4, <2>1, <2>2
  <2>4. regs.rrp # regs.rwp
    <3>1. d(regs.rwp) # 0
      BY <1>3, <2>1, <2>3
    <3> QED BY <1>4, <3>1
  <2>5. \A p \in Pages :
           /\ d(p) = s[1] =>
                 /\ header[p] \in Headers
                 /\ header[p].pages = unread[1] /\ d(header[p].next) = s[1 + 1]
           /\ s[1] <= d(p) /\ d(p) < s[1 + 1] => page[p] = d(p) - s[1]
    BY <1>1, <2>1 DEF Laid
  <2>6. \A p \in Pages : d(p) < unread[1] => page[p] = d(p)
    <3> HIDE DEF d
    <3> QED BY <1>3, <1>4, <2>3, <2>5
  <2> HIDE DEF d, N
  <2>7. /\ header[regs.rrp] \in Headers
        /\ header[regs.rrp].pages = unread[1] /\ d(header[regs.rrp].next) = unread[1]
    BY <1>2, <1>4, <2>3, <2>5
  <2> QED BY <1>3, <1>6, <2>1, <2>3, <2>4, <2>6, <2>7 DEF d
<1> QED BY <1>5, <1>6

(* Steps that leave the ring as it is. *)
LEMMA RingSame ==
    ASSUME RingInv, UNCHANGED <<page, header, unread, lapped>>,
           regs'.rwp = regs.rwp, regs'.rrp = regs.rrp,
           game'.at \in {"data", "next"} =>
              game'.at = game.at /\ game'.head = game.head /\ game'.got = game.got
    PROVE  RingInv'
<1>1. Starts' = Starts
  BY DEF Starts
<1>2. \A s : Laid(s)' <=> Laid(s)
  BY DEF Laid
<1> QED BY <1>1, <1>2 DEF RingInv

(* A frame that comes in is one more to read, or is not there at all. *)
LEMMA ReceiveStep ==
    ASSUME TypeInv, RingInv, RaisedInv, NEW n \in 1..MaxPages, Receive(n), game' = game
    PROVE  /\ RingInv' /\ RaisedInv'
           /\ regs' \in Regs
           /\ "RI" \in regs'.imr /\ regs'.st1 = regs.st1
           /\ exi' \in Commands
           /\ page' \in [Pages -> Pieces]
           /\ header' \in [Pages -> Headers \cup {None}]
           /\ unread' \in Seq(1..MaxPages)
           /\ lapped' \in BOOLEAN
<1>1. /\ regs \in Regs
      /\ "RI" \in regs.imr /\ exi \in Commands
      /\ unread \in Seq(1..MaxPages)
  BY DEF TypeInv
<1>2. CASE ~regs.sr
  <2>1. UNCHANGED <<page, header, regs, exi, unread, lapped>>
    BY <1>2 DEF Receive
  <2>2. RingInv'
    BY <2>1, RingSame
  <2>3. RaisedInv'
    BY <2>1 DEF RaisedInv
  <2> QED BY <2>1, <2>2, <2>3 DEF TypeInv
<1>3. CASE regs.sr
  <2> DEFINE t == From(regs.rrp, regs.rwp)
             fits == n <= LastPage - t
  <2>1. /\ lapped' \in BOOLEAN /\ (lapped => lapped')
        /\ fits => /\ regs' = [regs EXCEPT !.rwp = regs'.rwp, !.ir = regs.ir \cup {"RI"}]
                   /\ regs'.rwp \in Pages
                   /\ exi' = Updated(regs.ir \cup {"RI"}, exi.imr, exi.isr)
                   /\ unread' \in {<<>>, Append(unread, n)}
        /\ ~fits => regs' = regs /\ exi' = exi /\ unread' = unread
        /\ fits /\ ~lapped' => unread' = Append(unread, n)
        /\ page' \in [Pages -> Pieces]
        /\ header' \in [Pages -> Headers \cup {None}]
    BY <1>3, Received
  <2> HIDE DEF t, fits
  <2>2. fits => /\ regs' \in Regs
                /\ regs'.imr = regs.imr /\ regs'.st1 = regs.st1 /\ regs'.rrp = regs.rrp
                /\ regs'.ir = regs.ir \cup {"RI"}
    <3> SUFFICES ASSUME fits PROVE /\ regs' \in Regs
                                   /\ regs'.imr = regs.imr /\ regs'.st1 = regs.st1
                                   /\ regs'.rrp = regs.rrp /\ regs'.ir = regs.ir \cup {"RI"}
      OBVIOUS
    <3>1. PICK i \in SUBSET Events : i = regs.ir \cup {"RI"}
      BY <1>1 DEF Regs, Events
    <3>2. PICK w \in Pages : w = regs'.rwp
      BY <2>1
    <3>3. regs \in Regs /\ regs' = [regs EXCEPT !.rwp = w, !.ir = i]
      BY <1>1, <2>1, <3>1, <3>2, Zenon
    <3>4. /\ regs' \in Regs /\ regs'.ir = i
          /\ regs'.imr = regs.imr /\ regs'.st1 = regs.st1 /\ regs'.rrp = regs.rrp
      BY <3>3 DEF Regs
    <3> QED BY <3>1, <3>4
  <2>3. fits => /\ exi' \in Commands /\ (exi'.imr <=> exi.imr)
                /\ exi'.isr /\ (exi'.int <=> exi.int \/ exi.imr)
    <3>1. regs.ir \cup {"RI"} \in SUBSET Events /\ exi.imr \in BOOLEAN /\ exi.isr \in BOOLEAN
      BY <1>1 DEF Regs, Events, Commands
    <3>2. fits => exi' = Updated(regs.ir \cup {"RI"}, exi.imr, exi.isr)
      BY <2>1
    <3>3. regs.ir \cup {"RI"} # {}
      OBVIOUS
    <3> QED BY <1>1, <3>1, <3>2, <3>3, UpdatedIs, Zenon
  <2>5. unread' \in Seq(1..MaxPages)
    <3>1. <<>> \in Seq(1..MaxPages) /\ Append(unread, n) \in Seq(1..MaxPages)
      BY <1>1
    <3> QED BY <1>1, <2>1, <3>1
  <2>6. RaisedInv'
    <3>1. CASE fits
      BY <1>1, <2>1, <2>2, <2>3, <3>1 DEF RaisedInv
    <3>2. CASE ~fits
      BY <2>1, <3>2 DEF RaisedInv
    <3> QED BY <3>1, <3>2
  <2>7. RingInv'
    <3> SUFFICES ASSUME ~lapped' PROVE RingInv'
      BY DEF RingInv
    <3>1. \E u \in Starts' : Laid(u)'
      BY <1>3, <2>1, LaidReceived DEF RingInv
    <3>2. unread # <<>> => unread' # <<>> /\ unread'[1] = unread[1]
      BY <1>1, <2>1
    <3>3. regs'.rrp = regs.rrp
      BY <2>1, <2>2
    <3> QED BY <2>1, <3>1, <3>2, <3>3 DEF RingInv
  <2> QED BY <1>1, <2>1, <2>2, <2>3, <2>5, <2>6, <2>7
<1> QED BY <1>1, <1>2, <1>3 DEF TypeInv

-----------------------------------------------------------------------------
(* Frame conditions: steps that leave a part of the state alone. *)

LEMMA RaisedSame ==
    ASSUME RaisedInv, UNCHANGED <<exi, unread, lapped>>, regs'.ir = regs.ir, game'.at = game.at
    PROVE  RaisedInv'
  BY DEF RaisedInv

LEMMA ChipSame ==
    ASSUME ChipInv, UNCHANGED <<nic, pending, output, ctl, waiters>>
    PROVE  ChipInv'
  BY DEF ChipInv

LEMMA SendSame ==
    ASSUME SendInv, UNCHANGED <<fifo, output, tx, handed>>, regs'.st1 = regs.st1
    PROVE  SendInv'
  BY DEF SendInv, Whole

-----------------------------------------------------------------------------
(* The initial states *)

LEMMA InitIInv == Init => IInv
<1> SUFFICES ASSUME Init PROVE IInv
  OBVIOUS
<1>1. PICK m \in Masks :
         regs = [sr |-> TRUE, st1 |-> FALSE, imr |-> m, ir |-> {}, rwp |-> 1, rrp |-> 1]
  BY DEF Init
<1>2. m \in SUBSET Events /\ "RI" \in m /\ 1 \in Pages
  BY <1>1, EthMacAssumption, RingSize DEF Events, Pages
<1>3. regs \in Regs /\ "RI" \in regs.imr /\ regs.st1 = FALSE /\ regs.ir = {}
      /\ regs.rwp = 1 /\ regs.rrp = 1
  <2> DEFINE yes == TRUE
             no == FALSE
  <2>1. yes \in BOOLEAN /\ no \in BOOLEAN /\ no = FALSE
    OBVIOUS
  <2>2. regs = [sr |-> yes, st1 |-> no, imr |-> m, ir |-> {}, rwp |-> 1, rrp |-> 1]
    BY <1>1
  <2> HIDE DEF yes, no
  <2> QED BY <1>2, <2>1, <2>2 DEF Regs
<1>4. exi \in Commands /\ exi.imr = TRUE
  BY DEF Init, Commands
<1>5. nic \in Chips /\ nic.held = <<>> /\ nic.intie = TRUE
  BY DEF Init, Chips
<1>6. game \in Games /\ game.at = "idle"
  BY DEF Init, Games
<1>7. tx \in Senders /\ tx.at = "idle"
  BY DEF Init, Senders
<1>8. TypeInv
  <2>1. /\ page \in [Pages -> Pieces] /\ header \in [Pages -> Headers \cup {None}]
        /\ output \in Nat \cup {None} /\ pending \in BOOLEAN /\ lapped \in BOOLEAN
        /\ ctl = "idle"
    BY DEF Init, Pieces
  <2>2. /\ fifo \in Seq({0, 1}) /\ waiters \in Seq(Users \cup {Eth})
        /\ unread \in Seq(1..MaxPages) /\ handed \in Seq(Seq({0, 1}))
    BY EmptySeq DEF Init
  <2> QED BY <1>3, <1>4, <1>5, <1>6, <1>7, <2>1, <2>2 DEF TypeInv
<1>9. RingInv
  <2> DEFINE s == [k \in 1..1 |-> 0]
  <2>1. Len(unread) = 0 /\ unread = <<>>
    BY DEF Init
  <2>2. s \in Starts
    BY <2>1, RingSize DEF Starts
  <2>3. From(1, 1) = 0
    BY <1>2, FromItself
  <2>4. Laid(s)
    BY <1>3, <2>1, <2>3 DEF Laid, Init
  <2> HIDE DEF s
  <2> QED BY <1>6, <2>2, <2>4 DEF RingInv
<1>10. RaisedInv
  BY <1>3, <1>4 DEF Init, RaisedInv
<1>11. ChipInv
  BY <1>5 DEF Init, ChipInv
<1>12. SendInv
  BY <1>3, <1>7 DEF Init, SendInv
<1> QED BY <1>8, <1>9, <1>10, <1>11, <1>12 DEF IInv

-----------------------------------------------------------------------------
(* Steps of the network chip and of its driver *)

LEMMA ArriveStep == ASSUME IInv, NEW n \in 1..MaxPages, Arrive(n) PROVE IInv'
<1>1. TypeInv /\ RingInv /\ RaisedInv /\ ChipInv /\ SendInv
  BY DEF IInv
<1>2. UNCHANGED <<regs, exi, page, header, fifo, pending, output, ctl, lock, waiters, game, tx,
                  unread, lapped, handed>>
  BY DEF Arrive, driver, bus, past
<1>3. nic \in Chips /\ nic.held \in Seq(1..MaxPages) /\ nic.intie \in BOOLEAN /\ nic.latch \in BOOLEAN
  BY <1>1 DEF TypeInv, Chips
<1>4. PICK h \in Seq(1..MaxPages) : h = Append(nic.held, n) /\ h # <<>>
  BY <1>3, AppendProperties
<1>5. PICK l \in BOOLEAN : l = (nic.latch \/ (nic.intie /\ nic.held = <<>>))
  OBVIOUS
<1>6. nic' = [nic EXCEPT !.held = h, !.latch = l]
  BY <1>4, <1>5, Zenon DEF Arrive
<1>7. nic' \in Chips /\ nic'.held = h /\ nic'.latch = l /\ nic'.intie = nic.intie
  BY <1>3, <1>6 DEF Chips
<1>8. TypeInv'
  BY <1>1, <1>2, <1>7 DEF TypeInv
<1>9. RingInv' /\ RaisedInv' /\ SendInv'
  BY <1>1, <1>2, RingSame, RaisedSame, SendSame
<1>10. ChipInv'
  <2>1. ASSUME ctl \notin {"fetch", "enable"} PROVE nic.intie /\ (l \/ pending)
    BY <1>1, <1>3, <1>5, <2>1 DEF ChipInv
  <2> QED BY <1>1, <1>2, <1>4, <1>7, <2>1 DEF ChipInv
<1> QED BY <1>8, <1>9, <1>10 DEF IInv

LEMMA InterruptStep == ASSUME IInv, Interrupt PROVE IInv'
<1>1. TypeInv /\ RingInv /\ RaisedInv /\ ChipInv /\ SendInv
  BY DEF IInv
<1>2. /\ ctl = "idle" /\ ctl' = "callback" /\ pending' = TRUE
      /\ nic' = [nic EXCEPT !.latch = FALSE]
      /\ UNCHANGED <<regs, exi, page, header, fifo, output, lock, waiters, game, tx,
                     unread, lapped, handed>>
  BY DEF Interrupt, bus, past
<1>3. nic' \in Chips /\ nic'.held = nic.held /\ nic'.intie = nic.intie
  BY <1>1, <1>2 DEF TypeInv, Chips
<1>4. TypeInv'
  BY <1>1, <1>2, <1>3 DEF TypeInv
<1>5. RingInv' /\ RaisedInv' /\ SendInv'
  BY <1>1, <1>2, RingSame, RaisedSame, SendSame
<1>6. ChipInv'
  BY <1>1, <1>2, <1>3 DEF ChipInv
<1> QED BY <1>4, <1>5, <1>6 DEF IInv

LEMMA LockBusyStep == ASSUME IInv, LockBusy PROVE IInv'
<1>1. TypeInv /\ RingInv /\ RaisedInv /\ ChipInv /\ SendInv
  BY DEF IInv
<1>2. /\ ctl = "callback" /\ ctl' = "idle"
      /\ waiters' = IF \E k \in 1..Len(waiters) : waiters[k] = Eth
                    THEN waiters ELSE Append(waiters, Eth)
      /\ UNCHANGED <<regs, exi, page, header, fifo, nic, pending, output, lock, game, tx,
                     unread, lapped, handed>>
  BY DEF LockBusy, past
<1>3. waiters' \in Seq(Users \cup {Eth}) /\ \E k \in 1..Len(waiters') : waiters'[k] = Eth
  <2>1. waiters \in Seq(Users \cup {Eth})
    BY <1>1 DEF TypeInv
  <2>2. CASE \E k \in 1..Len(waiters) : waiters[k] = Eth
    BY <1>2, <2>1, <2>2
  <2>3. CASE ~\E k \in 1..Len(waiters) : waiters[k] = Eth
    <3>1. waiters' = Append(waiters, Eth)
      BY <1>2, <2>3
    <3>2. /\ waiters' \in Seq(Users \cup {Eth}) /\ Len(waiters') = Len(waiters) + 1
          /\ Len(waiters) \in Nat /\ waiters'[Len(waiters) + 1] = Eth
      BY <2>1, <3>1
    <3> QED BY <3>2
  <2> QED BY <2>2, <2>3
<1>4. TypeInv'
  BY <1>1, <1>2, <1>3 DEF TypeInv
<1>5. RingInv' /\ RaisedInv' /\ SendInv'
  BY <1>1, <1>2, RingSame, RaisedSame, SendSame
<1>6. ChipInv'
  BY <1>1, <1>2, <1>3 DEF ChipInv
<1> QED BY <1>4, <1>5, <1>6 DEF IInv

LEMMA LockTakenStep == ASSUME IInv, LockTaken PROVE IInv'
<1>1. TypeInv /\ RingInv /\ RaisedInv /\ ChipInv /\ SendInv
  BY DEF IInv
<1>2. /\ ctl = "callback"
      /\ IF pending
         THEN /\ nic' = [nic EXCEPT !.intie = FALSE]
              /\ ctl' = IF nic.held # <<>> THEN "fetch" ELSE "enable"
         ELSE nic' = nic /\ ctl' = "output"
      /\ UNCHANGED <<regs, exi, page, header, fifo, pending, output, waiters, game, tx,
                     unread, lapped, handed>>
  BY DEF LockTaken, past
<1>3. nic' \in Chips /\ nic'.held = nic.held /\ nic'.latch = nic.latch
      /\ (~pending => nic' = nic)
  BY <1>1, <1>2 DEF TypeInv, Chips
<1>4. ctl' \in {"fetch", "enable", "output"} /\ (pending <=> ctl' # "output")
      /\ (ctl' = "fetch" => nic.held # <<>>)
  BY <1>2
<1>5. TypeInv'
  BY <1>1, <1>2, <1>3, <1>4 DEF TypeInv
<1>6. RingInv' /\ RaisedInv' /\ SendInv'
  BY <1>1, <1>2, RingSame, RaisedSame, SendSame
<1>7. ChipInv'
  BY <1>1, <1>2, <1>3, <1>4 DEF ChipInv
<1> QED BY <1>5, <1>6, <1>7 DEF IInv

LEMMA FetchStep == ASSUME IInv, Fetch PROVE IInv'
<1>1. TypeInv /\ RingInv /\ RaisedInv /\ ChipInv /\ SendInv
  BY DEF IInv
<1>2. /\ ctl = "fetch" /\ ctl' = "enable" /\ Receive(Head(nic.held))
      /\ nic' = [nic EXCEPT !.held = Tail(nic.held)]
      /\ UNCHANGED <<fifo, pending, output, lock, waiters, game, tx, handed>>
  BY DEF Fetch, bus
<1>3. nic.held \in Seq(1..MaxPages) /\ nic.held # <<>>
  BY <1>1, <1>2 DEF TypeInv, Chips, ChipInv
<1>4. Head(nic.held) \in 1..MaxPages /\ Tail(nic.held) \in Seq(1..MaxPages)
  BY <1>3, HeadTailProperties
<1>5. nic' \in Chips
  BY <1>1, <1>2, <1>4 DEF TypeInv, Chips
<1>6. PICK n \in 1..MaxPages : Receive(n)
  BY <1>2, <1>4
<1>7. /\ RingInv' /\ RaisedInv' /\ regs' \in Regs /\ "RI" \in regs'.imr /\ regs'.st1 = regs.st1
      /\ exi' \in Commands /\ page' \in [Pages -> Pieces]
      /\ header' \in [Pages -> Headers \cup {None}] /\ unread' \in Seq(1..MaxPages)
      /\ lapped' \in BOOLEAN
  BY <1>1, <1>2, <1>6, ReceiveStep
<1>8. TypeInv'
  BY <1>1, <1>2, <1>5, <1>7 DEF TypeInv
<1>9. SendInv'
  BY <1>1, <1>2, <1>7, SendSame
<1>10. ChipInv'
  BY <1>1, <1>2 DEF ChipInv
<1> QED BY <1>7, <1>8, <1>9, <1>10 DEF IInv

LEMMA EnableStep == ASSUME IInv, Enable PROVE IInv'
<1>1. TypeInv /\ RingInv /\ RaisedInv /\ ChipInv /\ SendInv
  BY DEF IInv
<1>2. /\ ctl = "enable" /\ ctl' = "output" /\ pending' = FALSE
      /\ UNCHANGED <<regs, exi, page, header, fifo, output, lock, waiters, game, tx,
                     unread, lapped, handed>>
  BY DEF Enable, bus, past
<1>3. nic \in Chips
  BY <1>1 DEF TypeInv
<1>4. PICK l \in BOOLEAN : l = (nic.latch \/ nic.held # <<>>)
  OBVIOUS
<1>5. PICK i \in BOOLEAN : i = TRUE
  OBVIOUS
<1>6. nic' = [nic EXCEPT !.intie = i, !.latch = l]
  BY <1>4, <1>5, Zenon DEF Enable
<1>7. nic' \in Chips /\ nic'.held = nic.held /\ nic'.intie = i /\ nic'.latch = l
  BY <1>3, <1>6 DEF Chips
<1>8. TypeInv'
  BY <1>1, <1>2, <1>7 DEF TypeInv
<1>9. RingInv' /\ RaisedInv' /\ SendInv'
  BY <1>1, <1>2, RingSame, RaisedSame, SendSame
<1>10. ChipInv'
  BY <1>1, <1>2, <1>4, <1>5, <1>7 DEF ChipInv
<1> QED BY <1>8, <1>9, <1>10 DEF IInv

LEMMA OutputStep == ASSUME IInv, Output PROVE IInv'
<1>1. TypeInv /\ RingInv /\ RaisedInv /\ ChipInv /\ SendInv
  BY DEF IInv
<1>2. /\ ctl = "output" /\ ctl' = "unlock"
      /\ IF output # None
         THEN handed' = Append(handed, SubSeq(fifo, 1, output)) /\ Transmitted /\ output' = None
         ELSE UNCHANGED <<handed, fifo, regs, exi, output>>
      /\ UNCHANGED <<page, header, nic, pending, lock, waiters, game, tx, unread, lapped>>
  BY DEF Output, bus
<1>3. CASE output = None
  <2>1. UNCHANGED <<handed, fifo, regs, exi, output>>
    BY <1>2, <1>3
  <2>2. TypeInv'
    BY <1>1, <1>2, <2>1 DEF TypeInv
  <2>3. RingInv' /\ RaisedInv' /\ SendInv'
    BY <1>1, <1>2, <2>1, RingSame, RaisedSame, SendSame
  <2>4. ChipInv'
    BY <1>1, <1>2, <1>3, <2>1 DEF ChipInv
  <2> QED BY <2>2, <2>3, <2>4 DEF IInv
<1>4. CASE output # None
  <2>1. /\ tx.at = "wait" /\ regs.st1 /\ handed = <<>>
        /\ output = Len(fifo) /\ Whole(fifo, tx.frame) /\ fifo \in Seq({0, 1})
        /\ regs \in Regs /\ exi \in Commands
    BY <1>1, <1>4 DEF SendInv, TypeInv
  <2>2. /\ handed' = Append(<<>>, SubSeq(fifo, 1, Len(fifo))) /\ fifo' = <<>> /\ output' = None
        /\ regs' = [regs EXCEPT !.st1 = FALSE, !.ir = Raised("TI")]
        /\ exi' = Noticed("TI")
    BY <1>2, <1>4, <2>1, Zenon DEF Transmitted
  <2>3. PICK q \in Seq({0, 1}) : q = SubSeq(fifo, 1, Len(fifo)) /\ Whole(q, tx.frame)
    <3>1. SubSeq(fifo, 1, Len(fifo)) = fifo
      BY <2>1
    <3> QED BY <2>1, <3>1
  <2>4. handed' = <<q>> /\ handed' \in Seq(Seq({0, 1})) /\ Len(handed') = 1 /\ handed'[1] = q
    <3>1. handed' = Append(<<>>, q)
      BY <2>2, <2>3
    <3>2. <<>> \in Seq(Seq({0, 1}))
      BY EmptySeq
    <3> QED BY <3>1, <3>2, AppendProperties
  <2>5. PICK i \in SUBSET Events : i = Raised("TI")
    BY <2>1 DEF Raised, Regs, Events
  <2>6. regs' \in Regs /\ regs'.ir = i /\ ~regs'.st1 /\ regs'.imr = regs.imr
        /\ regs'.rwp = regs.rwp /\ regs'.rrp = regs.rrp
    <3>1. PICK f \in BOOLEAN : f = FALSE
      OBVIOUS
    <3>2. regs \in Regs /\ regs' = [regs EXCEPT !.st1 = f, !.ir = i]
      BY <2>1, <2>2, <2>5, <3>1, Zenon
    <3>3. regs' \in Regs /\ regs'.ir = i /\ regs'.st1 = f /\ regs'.imr = regs.imr
          /\ regs'.rwp = regs.rwp /\ regs'.rrp = regs.rrp
      BY <3>2 DEF Regs
    <3> QED BY <3>1, <3>3
  <2>7. CASE "TI" \in regs.imr
    <3>1. i = regs.ir \cup {"TI"} /\ exi' = Updated(i, exi.imr, exi.isr)
      BY <2>2, <2>5, <2>7 DEF Raised, Noticed
    <3>2. exi.imr \in BOOLEAN /\ exi.isr \in BOOLEAN /\ i # {}
      BY <2>1, <3>1 DEF Commands
    <3>3. exi' \in Commands /\ (exi'.imr <=> exi.imr) /\ (exi'.int <=> exi.int \/ exi.imr)
      BY <2>1, <3>1, <3>2, UpdatedIs, Zenon
    <3>4. RaisedInv'
      BY <1>1, <1>2, <2>6, <3>1, <3>3 DEF RaisedInv
    <3>5. TypeInv'
      BY <1>1, <1>2, <2>2, <2>4, <2>6, <3>3, EmptySeq DEF TypeInv
    <3>6. SendInv'
      BY <1>2, <2>1, <2>2, <2>3, <2>4, <2>6 DEF SendInv
    <3>7. RingInv'
      BY <1>1, <1>2, <2>6, RingSame
    <3>8. ChipInv'
      BY <1>1, <1>2, <2>2 DEF ChipInv
    <3> QED BY <3>4, <3>5, <3>6, <3>7, <3>8 DEF IInv
  <2>8. CASE "TI" \notin regs.imr
    <3>1. i = regs.ir /\ exi' = exi
      BY <2>2, <2>5, <2>8 DEF Raised, Noticed
    <3>2. RaisedInv'
      BY <1>1, <1>2, <2>6, <3>1 DEF RaisedInv
    <3>3. TypeInv'
      BY <1>1, <1>2, <2>2, <2>4, <2>6, <3>1, EmptySeq DEF TypeInv
    <3>4. SendInv'
      BY <1>2, <2>1, <2>2, <2>3, <2>4, <2>6 DEF SendInv
    <3>5. RingInv'
      BY <1>1, <1>2, <2>6, RingSame
    <3>6. ChipInv'
      BY <1>1, <1>2, <2>2 DEF ChipInv
    <3> QED BY <3>2, <3>3, <3>4, <3>5, <3>6 DEF IInv
  <2> QED BY <2>7, <2>8
<1> QED BY <1>3, <1>4

(* The bus changes hands: the driver either still waits or is called back. *)
LEMMA HandedOver ==
    ASSUME HandOver, waiters \in Seq(Users \cup {Eth})
    PROVE  /\ waiters' \in Seq(Users \cup {Eth}) /\ ctl' \in {"idle", "callback"}
           /\ ctl' = "idle" /\ (\E k \in 1..Len(waiters) : waiters[k] = Eth)
                 => \E k \in 1..Len(waiters') : waiters'[k] = Eth
<1>1. CASE waiters = <<>>
  BY <1>1 DEF HandOver
<1>2. CASE waiters # <<>>
  <2>1. /\ waiters' = Tail(waiters)
        /\ ctl' = IF Head(waiters) = Eth THEN "callback" ELSE "idle"
    BY <1>2 DEF HandOver
  <2>2. /\ waiters' \in Seq(Users \cup {Eth}) /\ Len(waiters') = Len(waiters) - 1
        /\ Len(waiters) \in Nat /\ Head(waiters) = waiters[1]
        /\ \A k \in 1..Len(waiters') : waiters'[k] = waiters[k + 1]
    BY <1>2, <2>1, HeadTailProperties, LenProperties
  <2>3. ASSUME Head(waiters) # Eth, NEW k \in 1..Len(waiters), waiters[k] = Eth
        PROVE  \E j \in 1..Len(waiters') : waiters'[j] = Eth
    <3>1. k # 1 /\ k - 1 \in 1..Len(waiters') /\ k - 1 + 1 = k
      BY <2>2, <2>3
    <3> QED BY <2>2, <2>3, <3>1
  <2> QED BY <2>1, <2>2, <2>3
<1> QED BY <1>1, <1>2

LEMMA UnlockStep == ASSUME IInv, Unlock PROVE IInv'
<1>1. TypeInv /\ RingInv /\ RaisedInv /\ ChipInv /\ SendInv
  BY DEF IInv
<1>2. /\ ctl = "unlock" /\ HandOver
      /\ UNCHANGED <<regs, exi, page, header, fifo, nic, pending, output, game, tx,
                     unread, lapped, handed>>
  BY DEF Unlock, past
<1>3. waiters' \in Seq(Users \cup {Eth}) /\ ctl' \in {"idle", "callback"}
  BY <1>1, <1>2, HandedOver DEF TypeInv
<1>4. TypeInv'
  BY <1>1, <1>2, <1>3 DEF TypeInv
<1>5. RingInv' /\ RaisedInv' /\ SendInv'
  BY <1>1, <1>2, RingSame, RaisedSame, SendSame
<1>6. ChipInv'
  BY <1>1, <1>2, <1>3 DEF ChipInv
<1> QED BY <1>4, <1>5, <1>6 DEF IInv

-----------------------------------------------------------------------------
(* Steps of the drivers of other devices *)

LEMMA UserLockStep == ASSUME IInv, NEW u \in Users, UserLock(u) PROVE IInv'
<1>1. TypeInv /\ RingInv /\ RaisedInv /\ ChipInv /\ SendInv
  BY DEF IInv
<1>2. /\ waiters' \in {waiters, Append(waiters, u)}
      /\ UNCHANGED <<regs, exi, page, header, fifo, nic, pending, output, ctl, game, tx,
                     unread, lapped, handed>>
  BY DEF UserLock, driver, past
<1>3. /\ waiters' \in Seq(Users \cup {Eth})
      /\ (\E k \in 1..Len(waiters) : waiters[k] = Eth)
            => \E k \in 1..Len(waiters') : waiters'[k] = Eth
  <2>1. waiters \in Seq(Users \cup {Eth}) /\ u \in Users \cup {Eth}
    BY <1>1 DEF TypeInv
  <2>2. CASE waiters' = waiters
    BY <2>1, <2>2
  <2>3. CASE waiters' = Append(waiters, u)
    <3>1. /\ waiters' \in Seq(Users \cup {Eth}) /\ Len(waiters') = Len(waiters) + 1
          /\ Len(waiters) \in Nat /\ \A k \in 1..Len(waiters) : waiters'[k] = waiters[k]
      BY <2>1, <2>3
    <3> QED BY <3>1
  <2> QED BY <1>2, <2>2, <2>3
<1>4. TypeInv'
  BY <1>1, <1>2, <1>3 DEF TypeInv
<1>5. RingInv' /\ RaisedInv' /\ SendInv'
  BY <1>1, <1>2, RingSame, RaisedSame, SendSame
<1>6. ChipInv'
  BY <1>1, <1>2, <1>3 DEF ChipInv
<1> QED BY <1>4, <1>5, <1>6 DEF IInv

LEMMA UserUnlockStep == ASSUME IInv, NEW u \in Users, UserUnlock(u) PROVE IInv'
<1>1. TypeInv /\ RingInv /\ RaisedInv /\ ChipInv /\ SendInv
  BY DEF IInv
<1>2. /\ ctl = "idle" /\ HandOver
      /\ UNCHANGED <<regs, exi, page, header, fifo, nic, pending, output, game, tx,
                     unread, lapped, handed>>
  BY DEF UserUnlock, past
<1>3. /\ waiters' \in Seq(Users \cup {Eth}) /\ ctl' \in {"idle", "callback"}
      /\ ctl' = "idle" /\ (\E k \in 1..Len(waiters) : waiters[k] = Eth)
            => \E k \in 1..Len(waiters') : waiters'[k] = Eth
  BY <1>1, <1>2, HandedOver DEF TypeInv
<1>4. TypeInv'
  BY <1>1, <1>2, <1>3 DEF TypeInv
<1>5. RingInv' /\ RaisedInv' /\ SendInv'
  BY <1>1, <1>2, RingSame, RaisedSame, SendSame
<1>6. ChipInv'
  BY <1>1, <1>2, <1>3 DEF ChipInv
<1> QED BY <1>4, <1>5, <1>6 DEF IInv

-----------------------------------------------------------------------------
(* Steps of the game's interrupt handler *)

(* What is left to show of a step of the handler that reads no frame. *)
LEMMA GameStep ==
    ASSUME IInv, GameKeeps, RingKept, regs' \in Regs, exi' \in Commands, game' \in Games,
           regs'.imr = regs.imr, regs'.rwp = regs.rwp, regs'.rrp = regs.rrp,
           regs'.st1 = regs.st1, game'.at \notin {"data", "next"}, RaisedInv'
    PROVE  IInv'
<1>1. TypeInv /\ RingInv /\ RaisedInv /\ ChipInv /\ SendInv
  BY DEF IInv
<1>2. UNCHANGED <<fifo, nic, pending, output, ctl, lock, waiters, tx, lapped, handed,
                  page, header, unread>>
  BY DEF GameKeeps, RingKept, driver, bus
<1>3. TypeInv'
  BY <1>1, <1>2 DEF TypeInv
<1>4. RingInv' /\ SendInv' /\ ChipInv'
  BY <1>1, <1>2, RingSame, SendSame, ChipSame
<1> QED BY <1>3, <1>4 DEF IInv

LEMMA GameInterruptStep == ASSUME IInv, GameInterrupt PROVE IInv'
<1>1. RaisedInv /\ game \in Games /\ exi \in Commands /\ regs \in Regs
  BY DEF IInv, TypeInv
<1>2. /\ game.at = "idle" /\ game' = [game EXCEPT !.at = "mask"]
      /\ exi' = [exi EXCEPT !.int = FALSE] /\ regs' = regs /\ RingKept /\ GameKeeps
  BY DEF GameInterrupt, Step
<1>3. game' \in Games /\ game'.at = "mask"
  BY <1>1, <1>2 DEF Games
<1>4. exi' \in Commands
  BY <1>1, <1>2 DEF Commands
<1>5. RaisedInv'
  BY <1>1, <1>2, <1>3 DEF RaisedInv, RingKept, GameKeeps
<1> QED BY <1>1, <1>2, <1>3, <1>4, <1>5, GameStep

LEMMA MaskStep == ASSUME IInv, Mask PROVE IInv'
<1>1. RaisedInv /\ game \in Games /\ exi \in Commands /\ regs \in Regs
  BY DEF IInv, TypeInv
<1>2. /\ game.at = "mask" /\ game' = [game EXCEPT !.at = "ir"]
      /\ exi' = Updated(regs.ir, FALSE, exi.isr) /\ regs' = regs /\ RingKept /\ GameKeeps
  BY DEF Mask, Step
<1>3. game' \in Games /\ game'.at = "ir"
  BY <1>1, <1>2 DEF Games
<1>4. regs.ir \in SUBSET Events /\ FALSE \in BOOLEAN /\ exi.isr \in BOOLEAN
  BY <1>1 DEF Regs, Commands
<1>5. exi' \in Commands
  BY <1>1, <1>2, <1>4, UpdatedIs, Zenon
<1>6. RaisedInv'
  BY <1>1, <1>2, <1>3 DEF RaisedInv, RingKept, GameKeeps
<1> QED BY <1>1, <1>2, <1>3, <1>5, <1>6, GameStep

LEMMA ReadIRStep == ASSUME IInv, ReadIR PROVE IInv'
<1>1. RaisedInv /\ game \in Games /\ exi \in Commands /\ regs \in Regs
  BY DEF IInv, TypeInv
<1>2. game.at = "ir" /\ regs' = regs /\ exi' = exi /\ RingKept /\ GameKeeps
  BY DEF ReadIR
<1>3. PICK a \in {"ack", "clear"} : a = IF exi.isr THEN "ack" ELSE "clear"
  OBVIOUS
<1>4. PICK i \in SUBSET Events : i = IF exi.isr THEN regs.ir ELSE {}
  BY <1>1 DEF Regs
<1>5. game' = [game EXCEPT !.at = a, !.ir = i]
  BY <1>3, <1>4, Zenon DEF ReadIR
<1>6. game' \in Games /\ game'.at = a
  BY <1>1, <1>5 DEF Games
<1>7. RaisedInv'
  BY <1>1, <1>2, <1>6 DEF RaisedInv, RingKept, GameKeeps
<1> QED BY <1>1, <1>2, <1>6, <1>7, GameStep

LEMMA AckIRStep == ASSUME IInv, AckIR PROVE IInv'
<1>1. RaisedInv /\ game \in Games /\ exi \in Commands /\ regs \in Regs
  BY DEF IInv, TypeInv
<1>2. /\ game.at = "ack"
      /\ game' = [game EXCEPT !.at = IF "RI" \in game.ir THEN "ring" ELSE "clear"]
      /\ regs' = [regs EXCEPT !.ir = regs.ir \ game.ir]
      /\ exi' = exi /\ RingKept /\ GameKeeps
  BY DEF AckIR, Step
<1>3. game' \in Games /\ game'.at = IF "RI" \in game.ir THEN "ring" ELSE "clear"
  BY <1>1, <1>2 DEF Games
<1>4. /\ regs' \in Regs /\ regs'.ir = regs.ir \ game.ir /\ regs'.imr = regs.imr
      /\ regs'.rwp = regs.rwp /\ regs'.rrp = regs.rrp /\ regs'.st1 = regs.st1
  BY <1>1, <1>2 DEF Regs
<1>5. RaisedInv'
  BY <1>1, <1>2, <1>3, <1>4 DEF RaisedInv, RingKept, GameKeeps
<1> QED BY <1>1, <1>2, <1>3, <1>4, <1>5, GameStep

LEMMA ClearISRStep == ASSUME IInv, ClearISR PROVE IInv'
<1>1. RaisedInv /\ game \in Games /\ exi \in Commands /\ regs \in Regs
  BY DEF IInv, TypeInv
<1>2. /\ game.at = "clear" /\ game' = [game EXCEPT !.at = "unmask"]
      /\ exi' = Updated(regs.ir, exi.imr, FALSE) /\ regs' = regs /\ RingKept /\ GameKeeps
  BY DEF ClearISR, Step
<1>3. game' \in Games /\ game'.at = "unmask"
  BY <1>1, <1>2 DEF Games
<1>4. regs.ir \in SUBSET Events /\ exi.imr \in BOOLEAN /\ FALSE \in BOOLEAN
  BY <1>1 DEF Regs, Commands
<1>5. exi' \in Commands
  BY <1>1, <1>2, <1>4, UpdatedIs, Zenon
<1>6. RaisedInv'
  BY <1>1, <1>2, <1>3 DEF RaisedInv, RingKept, GameKeeps
<1> QED BY <1>1, <1>2, <1>3, <1>5, <1>6, GameStep

(* The mask is taken away: what came in meanwhile raises the interrupt. *)
LEMMA UnmaskStep == ASSUME IInv, Unmask PROVE IInv'
<1>1. RaisedInv /\ game \in Games /\ exi \in Commands /\ regs \in Regs
  BY DEF IInv, TypeInv
<1>2. /\ game.at = "unmask" /\ game' = [game EXCEPT !.at = "idle", !.ir = {}]
      /\ exi' = Updated(regs.ir, TRUE, exi.isr) /\ regs' = regs /\ RingKept /\ GameKeeps
  BY Zenon DEF Unmask
<1>3. PICK a \in {"idle"}, i \in SUBSET Events : i = {}
  OBVIOUS
<1>4. game' = [game EXCEPT !.at = a, !.ir = i]
  BY <1>2, <1>3, Zenon
<1>5. game' \in Games /\ game'.at = "idle"
  BY <1>1, <1>4 DEF Games
<1>6. regs.ir \in SUBSET Events /\ TRUE \in BOOLEAN /\ exi.isr \in BOOLEAN
  BY <1>1 DEF Regs, Commands
<1>7. exi' \in Commands /\ exi'.imr /\ (exi'.int <=> exi.int \/ exi.isr \/ regs.ir # {})
  BY <1>1, <1>2, <1>6, UpdatedIs, Zenon
<1>8. RaisedInv'
  BY <1>1, <1>2, <1>5, <1>7 DEF RaisedInv, RingKept, GameKeeps
<1> QED BY <1>1, <1>2, <1>5, <1>7, <1>8, GameStep

(* The game finds the frame at the front of the ring, or none. *)
LEMMA ReadHeaderStep == ASSUME IInv, ReadHeader PROVE IInv'
<1>1. /\ TypeInv /\ RingInv /\ RaisedInv /\ ChipInv /\ SendInv
      /\ game \in Games /\ exi \in Commands /\ regs \in Regs
  BY DEF IInv, TypeInv
<1>2. /\ game.at = "ring" /\ ~lapped /\ RingKept /\ GameKeeps
      /\ UNCHANGED <<fifo, nic, pending, output, ctl, lock, waiters, tx, lapped, handed,
                     page, header, unread, regs, exi>>
  BY DEF ReadHeader, GameKeeps, RingKept, driver, bus
<1>3. CASE regs.rrp = regs.rwp
  <2>1. game' = [game EXCEPT !.at = "clear"]
    BY <1>3 DEF ReadHeader
  <2>2. game' \in Games /\ game'.at = "clear"
    BY <1>1, <2>1 DEF Games
  <2>3. RaisedInv'
    BY <1>1, <1>2, <1>3, <2>2, FrontOfRing DEF RaisedInv
  <2> QED BY <1>1, <1>2, <2>2, <2>3, GameStep
<1>4. CASE regs.rrp # regs.rwp
  <2>1. /\ unread # <<>> /\ header[regs.rrp] \in Headers
        /\ header[regs.rrp].pages = unread[1]
        /\ From(regs.rrp, header[regs.rrp].next) = unread[1]
    BY <1>1, <1>2, <1>4, FrontOfRing
  <2>2. PICK h \in Headers : h = header[regs.rrp]
    BY <2>1
  <2>3. PICK a \in {"data"} : TRUE
    OBVIOUS
  <2>4. game' = [game EXCEPT !.at = a, !.head = h]
    BY <1>4, <2>2, <2>3, Zenon DEF ReadHeader
  <2>5. game' \in Games /\ game'.at = "data" /\ game'.head = h
    BY <1>1, <2>4 DEF Games
  <2>6. TypeInv'
    BY <1>1, <1>2, <2>5 DEF TypeInv
  <2>7. RingInv'
    <3>1. \A s : Laid(s)' <=> Laid(s)
      BY <1>2 DEF Laid
    <3>2. Starts' = Starts
      BY <1>2 DEF Starts
    <3> QED BY <1>1, <1>2, <2>1, <2>2, <2>5, <3>1, <3>2 DEF RingInv
  <2>8. RaisedInv'
    BY <1>2, <2>5 DEF RaisedInv
  <2>9. SendInv' /\ ChipInv'
    BY <1>1, <1>2, SendSame, ChipSame
  <2> QED BY <2>6, <2>7, <2>8, <2>9 DEF IInv
<1> QED BY <1>3, <1>4

(* The pages the game reads hold the frame from its first piece on. *)
LEMMA ReadFrameStep == ASSUME IInv, ReadFrame PROVE IInv'
<1>1. /\ TypeInv /\ RingInv /\ RaisedInv /\ ChipInv /\ SendInv
      /\ game \in Games /\ regs \in Regs
  BY DEF IInv, TypeInv
<1>2. /\ game.at = "data" /\ game.head \in Headers
      /\ UNCHANGED <<fifo, nic, pending, output, ctl, lock, waiters, tx, lapped, handed,
                     page, header, unread, regs, exi>>
  BY <1>1 DEF ReadFrame, GameKeeps, RingKept, driver, bus, TypeInv
<1>3. /\ game.head.pages \in Nat /\ regs.rrp \in 1..LastPage /\ regs.rrp \in Pages
      /\ page \in [Pages -> Pieces]
  BY <1>1, <1>2, RingSize DEF Headers, Regs, Pages, TypeInv
<1>4. \A i \in 1..game.head.pages : After(regs.rrp, i - 1) \in Pages
  <2> TAKE i \in 1..game.head.pages
  <2>1. regs.rrp - 1 + (i - 1) \in Int /\ LastPage \in Nat \ {0}
    BY <1>3, RingSize
  <2> DEFINE x == regs.rrp - 1 + (i - 1)
  <2>2. x % LastPage \in 0..LastPage - 1
    <3> HIDE DEF x
    <3> QED BY <2>1 DEF x
  <2>3. After(regs.rrp, i - 1) = (x % LastPage) + 1
    BY DEF After
  <2> HIDE DEF x
  <2> QED BY <2>1, <2>2, <2>3 DEF Pages
<1>5. PICK g \in Seq(Pieces) :
         g = [i \in 1..game.head.pages |-> page[After(regs.rrp, i - 1)]]
  <2> DEFINE f == [i \in 1..game.head.pages |-> page[After(regs.rrp, i - 1)]]
  <2>1. f \in [1..game.head.pages -> Pieces]
    BY <1>3, <1>4
  <2>2. f \in Seq(Pieces)
    <3> HIDE DEF f
    <3> QED BY <1>3, <2>1, SeqDef
  <2> QED BY <2>2
<1>6. game' = [game EXCEPT !.at = "next", !.got = g]
  BY <1>5, Zenon DEF ReadFrame
<1>7. game' \in Games /\ game'.at = "next" /\ game'.head = game.head /\ game'.got = g
  <2>1. PICK a \in {"next"} : TRUE
    OBVIOUS
  <2>2. game \in Games /\ game' = [game EXCEPT !.at = a, !.got = g]
    BY <1>1, <1>6, <2>1, Zenon
  <2> QED BY <2>2 DEF Games
<1>8. TypeInv'
  BY <1>1, <1>2, <1>7 DEF TypeInv
<1>9. RingInv'
  <2> SUFFICES ASSUME ~lapped PROVE RingInv'
    BY <1>2 DEF RingInv
  <2>1. /\ \A s : Laid(s)' <=> Laid(s)
        /\ Starts' = Starts
    BY <1>2 DEF Laid, Starts
  <2>2. /\ unread # <<>> /\ game.head.pages = unread[1]
        /\ From(regs.rrp, game.head.next) = unread[1]
    BY <1>1, <1>2 DEF RingInv
  <2>3. /\ unread[1] \in Nat /\ unread[1] < LastPage
        /\ \A p \in Pages : From(regs.rrp, p) < unread[1] => page[p] = From(regs.rrp, p)
    BY <1>1, <2>2, FrontOfRing
  <2>4. ASSUME NEW i \in 1..unread[1] PROVE page[After(regs.rrp, i - 1)] = i - 1
    <3>1. i - 1 \in 0..LastPage - 1 /\ i - 1 < unread[1]
      BY <2>3, RingSize
    <3>2. From(regs.rrp, After(regs.rrp, i - 1)) = i - 1
      BY <1>3, <3>1, FromAfter
    <3>3. After(regs.rrp, i - 1) \in Pages
      BY <1>4, <2>2
    <3> QED BY <2>3, <3>1, <3>2, <3>3
  <2>5. g = [i \in 1..unread[1] |-> i - 1]
    <3> HIDE DEF After
    <3> QED BY <1>5, <2>2, <2>4
  <2> QED BY <1>1, <1>2, <1>7, <2>1, <2>2, <2>5 DEF RingInv
<1>10. RaisedInv'
  BY <1>2, <1>7 DEF RaisedInv
<1>11. SendInv' /\ ChipInv'
  BY <1>1, <1>2, SendSame, ChipSame
<1> QED BY <1>8, <1>9, <1>10, <1>11 DEF IInv

(* The frame that was read is out of the ring. *)
LEMMA WriteRRPStep == ASSUME IInv, WriteRRP PROVE IInv'
<1>1. /\ TypeInv /\ RingInv /\ RaisedInv /\ ChipInv /\ SendInv
      /\ game \in Games /\ regs \in Regs
  BY DEF IInv, TypeInv
<1>2. /\ game.at = "next" /\ game.head \in Headers
      /\ regs' = [regs EXCEPT !.rrp = game.head.next]
      /\ header' = [header EXCEPT ![regs.rrp] = None]
      /\ unread' = IF unread = <<>> THEN <<>> ELSE Tail(unread)
      /\ UNCHANGED <<fifo, nic, pending, output, ctl, lock, waiters, tx, lapped, handed, exi>>
  BY <1>1 DEF WriteRRP, GameKeeps, driver, bus, TypeInv
<1>3. PICK a \in {"ring"}, h \in Headers \cup {None}, g \in Seq(Pieces) : h = None /\ g = <<>>
  BY EmptySeq
<1>4. game' = [game EXCEPT !.at = a, !.head = h, !.got = g]
  BY <1>3, Zenon DEF WriteRRP
<1>5. game' \in Games /\ game'.at = "ring"
  BY <1>1, <1>4 DEF Games
<1>6. regs' \in Regs /\ regs'.imr = regs.imr /\ regs'.st1 = regs.st1
  BY <1>1, <1>2 DEF Regs, Headers
<1>7. page' \in [Pages -> Pieces]
  <2>1. page' = [p \in Pages |-> IF (p - regs.rrp) % LastPage < game.head.pages
                                 THEN None ELSE page[p]]
    BY DEF WriteRRP
  <2>2. None \in Pieces /\ page \in [Pages -> Pieces]
    BY <1>1 DEF Pieces, TypeInv
  <2> QED BY <2>1, <2>2
<1>8. header' \in [Pages -> Headers \cup {None}]
  BY <1>1, <1>2 DEF TypeInv
<1>9. unread' \in Seq(1..MaxPages)
  <2>1. unread \in Seq(1..MaxPages)
    BY <1>1 DEF TypeInv
  <2> QED BY <1>2, <2>1, EmptySeq, HeadTailProperties
<1>10. TypeInv'
  BY <1>1, <1>2, <1>5, <1>6, <1>7, <1>8, <1>9 DEF TypeInv
<1>11. RingInv'
  <2> SUFFICES ASSUME ~lapped PROVE RingInv'
    BY <1>2 DEF RingInv
  <2>1. \E u \in Starts' : Laid(u)'
    BY <1>1, LaidFreed DEF RingInv
  <2> QED BY <1>5, <2>1 DEF RingInv
<1>12. RaisedInv'
  BY <1>5 DEF RaisedInv
<1>13. SendInv' /\ ChipInv'
  BY <1>1, <1>2, <1>6, SendSame, ChipSame
<1> QED BY <1>10, <1>11, <1>12, <1>13 DEF IInv

-----------------------------------------------------------------------------
(* Steps of the game's sender *)

LEMMA SetReceiveStep == ASSUME IInv, SetReceive PROVE IInv'
<1>1. /\ TypeInv /\ RingInv /\ RaisedInv /\ ChipInv /\ SendInv
      /\ regs \in Regs
  BY DEF IInv, TypeInv
<1>2. /\ regs' = [regs EXCEPT !.sr = ~regs.sr]
      /\ UNCHANGED <<exi, page, header, fifo, nic, pending, output, ctl, lock, waiters, game, tx,
                     unread, lapped, handed>>
  BY DEF SetReceive, driver, bus, past
<1>3. PICK b \in BOOLEAN : b = ~regs.sr
  OBVIOUS
<1>4. regs' = [regs EXCEPT !.sr = b]
  BY <1>2, <1>3, Zenon
<1>5. /\ regs' \in Regs /\ regs'.ir = regs.ir /\ regs'.imr = regs.imr /\ regs'.st1 = regs.st1
      /\ regs'.rwp = regs.rwp /\ regs'.rrp = regs.rrp
  BY <1>1, <1>4 DEF Regs
<1>6. TypeInv'
  BY <1>1, <1>2, <1>5 DEF TypeInv
<1>7. RingInv' /\ RaisedInv' /\ SendInv' /\ ChipInv'
  BY <1>1, <1>2, <1>5, RingSame, RaisedSame, SendSame, ChipSame
<1> QED BY <1>6, <1>7 DEF IInv

LEMMA WriteFifoStep == ASSUME IInv, WriteFifo PROVE IInv'
<1>1. /\ TypeInv /\ RingInv /\ RaisedInv /\ ChipInv /\ SendInv
      /\ tx \in Senders /\ fifo \in Seq({0, 1})
  BY DEF IInv, TypeInv
<1>2. /\ tx.at \in {"idle", "write"}
      /\ fifo' = Append(fifo, tx.frame)
      /\ tx' = [tx EXCEPT !.at = "write"]
      /\ UNCHANGED <<regs, exi, page, header, nic, pending, output, ctl, lock, waiters, game,
                     unread, lapped, handed>>
  BY DEF WriteFifo, driver, bus, past
<1>3. tx' \in Senders /\ tx'.at = "write" /\ tx'.frame = tx.frame /\ tx.frame \in {0, 1}
  BY <1>1, <1>2 DEF Senders
<1>4. /\ fifo' \in Seq({0, 1}) /\ Len(fifo') = Len(fifo) + 1 /\ Len(fifo) \in Nat
      /\ \A i \in 1..Len(fifo) : fifo'[i] = fifo[i]
      /\ fifo'[Len(fifo) + 1] = tx.frame
  BY <1>1, <1>2, <1>3
<1>5. \A i \in 1..Len(fifo) : fifo[i] = tx.frame
  BY <1>1, <1>2 DEF SendInv, Whole
<1>6. Whole(fifo', tx.frame)
  BY <1>4, <1>5 DEF Whole
<1>7. TypeInv'
  BY <1>1, <1>2, <1>3, <1>4 DEF TypeInv
<1>8. RingInv' /\ RaisedInv' /\ ChipInv'
  BY <1>1, <1>2, RingSame, RaisedSame, ChipSame
<1>9. SendInv'
  BY <1>1, <1>2, <1>3, <1>6 DEF SendInv, Whole
<1> QED BY <1>7, <1>8, <1>9 DEF IInv

LEMMA StartTransmitStep == ASSUME IInv, StartTransmit PROVE IInv'
<1>1. /\ TypeInv /\ RingInv /\ RaisedInv /\ ChipInv /\ SendInv
      /\ tx \in Senders /\ fifo \in Seq({0, 1}) /\ regs \in Regs
  BY DEF IInv, TypeInv
<1>2. /\ ctl = "idle" /\ tx.at = "write"
      /\ regs' = [regs EXCEPT !.st1 = TRUE]
      /\ output' = Len(fifo) /\ ctl' = "callback" /\ handed' = <<>>
      /\ tx' = [tx EXCEPT !.at = "wait"]
      /\ UNCHANGED <<exi, page, header, fifo, nic, pending, lock, waiters, game, unread, lapped>>
  BY DEF StartTransmit, bus
<1>3. tx' \in Senders /\ tx'.at = "wait" /\ tx'.frame = tx.frame
  BY <1>1, <1>2 DEF Senders
<1>4. /\ regs' \in Regs /\ regs'.st1 /\ regs'.ir = regs.ir /\ regs'.imr = regs.imr
      /\ regs'.rwp = regs.rwp /\ regs'.rrp = regs.rrp
  BY <1>1, <1>2 DEF Regs
<1>5. Whole(fifo, tx.frame) /\ Len(fifo) \in Nat
  BY <1>1, <1>2 DEF SendInv
<1>6. TypeInv'
  BY <1>1, <1>2, <1>3, <1>4, <1>5, EmptySeq DEF TypeInv
<1>7. RingInv' /\ RaisedInv'
  BY <1>1, <1>2, <1>4, RingSame, RaisedSame
<1>8. ChipInv'
  BY <1>1, <1>2 DEF ChipInv
<1>9. SendInv'
  BY <1>2, <1>3, <1>4, <1>5 DEF SendInv, Whole
<1> QED BY <1>6, <1>7, <1>8, <1>9 DEF IInv

LEMMA EndTransmitStep == ASSUME IInv, EndTransmit PROVE IInv'
<1>1. /\ TypeInv /\ RingInv /\ RaisedInv /\ ChipInv /\ SendInv
      /\ tx \in Senders
  BY DEF IInv, TypeInv
<1>2. /\ tx.at = "wait" /\ ~regs.st1
      /\ tx' = [at |-> "idle", frame |-> 1 - tx.frame]
      /\ UNCHANGED <<regs, exi, page, header, fifo, nic, pending, output, ctl, lock, waiters, game,
                     unread, lapped, handed>>
  BY DEF EndTransmit, driver, bus, past
<1>3. tx' \in Senders /\ tx'.at = "idle"
  BY <1>1, <1>2 DEF Senders
<1>4. TypeInv'
  BY <1>1, <1>2, <1>3 DEF TypeInv
<1>5. RingInv' /\ RaisedInv' /\ ChipInv'
  BY <1>1, <1>2, RingSame, RaisedSame, ChipSame
<1>6. SendInv'
  BY <1>1, <1>2, <1>3 DEF SendInv
<1> QED BY <1>4, <1>5, <1>6 DEF IInv

-----------------------------------------------------------------------------
(* The invariant, and what it implies *)

LEMMA NextIInv == IInv /\ [Next]_vars => IInv'
<1> SUFFICES ASSUME IInv, [Next]_vars PROVE IInv'
  OBVIOUS
<1>1. CASE \E n \in 1..MaxPages : Arrive(n)
  BY <1>1, ArriveStep
<1>2. CASE Interrupt
  BY <1>2, InterruptStep
<1>3. CASE Driver
  BY <1>3, LockBusyStep, LockTakenStep, FetchStep, EnableStep, OutputStep, UnlockStep DEF Driver
<1>4. CASE Handler
  BY <1>4, GameInterruptStep, MaskStep, ReadIRStep, AckIRStep, ReadHeaderStep, ReadFrameStep,
     WriteRRPStep, ClearISRStep, UnmaskStep DEF Handler
<1>5. CASE SetReceive \/ WriteFifo \/ StartTransmit \/ EndTransmit
  BY <1>5, SetReceiveStep, WriteFifoStep, StartTransmitStep, EndTransmitStep
<1>6. CASE \E u \in Users : UserLock(u) \/ UserUnlock(u)
  BY <1>6, UserLockStep, UserUnlockStep
<1>7. CASE UNCHANGED vars
  <2>1. UNCHANGED <<regs, exi, page, header, fifo, nic, pending, output, ctl, lock, waiters, game,
                    tx, unread, lapped, handed>>
    BY <1>7 DEF vars, driver, bus, past
  <2>2. TypeInv'
    BY <2>1 DEF IInv, TypeInv
  <2>3. RingInv' /\ RaisedInv' /\ SendInv' /\ ChipInv'
    BY <2>1, RingSame, RaisedSame, SendSame, ChipSame DEF IInv
  <2> QED BY <2>2, <2>3 DEF IInv
<1> QED BY <1>1, <1>2, <1>3, <1>4, <1>5, <1>6, <1>7 DEF Next

LEMMA SpecIInv == Spec => []IInv
  BY InitIInv, NextIInv, PTL DEF Spec

LEMMA InvIntact == IInv => FramesIntact
<1> SUFFICES ASSUME IInv, ~lapped
             PROVE  /\ game.at = "next" =>
                          /\ unread # <<>>
                          /\ game.got = [i \in 1..Head(unread) |-> i - 1]
                    /\ (regs.rrp = regs.rwp) <=> (unread = <<>>)
  BY DEF FramesIntact
<1>1. TypeInv /\ RingInv /\ unread \in Seq(1..MaxPages)
  BY DEF IInv, TypeInv
<1>2. unread # <<>> => Head(unread) = unread[1]
  BY <1>1, HeadTailProperties
<1>3. (regs.rrp = regs.rwp) <=> (unread = <<>>)
  BY <1>1, FrontOfRing
<1>4. game.at = "next" => unread # <<>> /\ game.got = [i \in 1..unread[1] |-> i - 1]
  BY <1>1 DEF RingInv
<1> QED BY <1>2, <1>3, <1>4

LEMMA InvStranded == IInv => NoFrameStranded
  BY DEF IInv, RaisedInv, ChipInv, NoFrameStranded

LEMMA InvSent == IInv => FrameSentOnce
  BY DEF IInv, SendInv, Whole, FrameSentOnce

(* In every ring that no frame has filled to the last page, the game reads *)
(* the frames whole, in the order they came in, and finds the ring empty   *)
(* exactly when it has read them all: eth_mac_receive never writes to a    *)
(* page the game has still to read (emulator_eth.c:60-101, 206-238).       *)
THEOREM FramesAreIntact == Spec => []FramesIntact
  BY SpecIInv, InvIntact, PTL

(* No delivery, arrival or frame to send is lost between a driver that is  *)
(* about to stop looking and one that has just looked                      *)
(* (emulator_eth.c:51-58, 206-227, enc28j60.c:148-205).                    *)
THEOREM NoFrameIsStranded == Spec => []NoFrameStranded
  BY SpecIInv, InvStranded, PTL

(* A frame the game finds sent was handed to the chip once and whole       *)
(* (emulator_eth.c:103-112, enc28j60.c:187-191).                           *)
THEOREM FrameIsSentOnce == Spec => []FrameSentOnce
  BY SpecIInv, InvSent, PTL
===============================================================================
