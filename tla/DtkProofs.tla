------------------------------ MODULE DtkProofs ------------------------------
(***************************************************************************)
(* Proofs about Dtk for every set of tracks, size of the FIFO and of its   *)
(* blocks, and for every block the driver may have at hand: the read that  *)
(* is outstanding is always the one the stream needs, and the emulation    *)
(* implements DtkStream.                                                   *)
(***************************************************************************)
EXTENDS Dtk, TLAPS, SequenceTheorems

-----------------------------------------------------------------------------
(* The inductive invariant, over the struct d and the outstanding read r,  *)
(* so that it can be said of the struct in the middle of a handler too.    *)

Decoder == Int \cup {Fresh}

Sample == [block : Nat, after : Decoder]

Struct ==
    [reading : BOOLEAN, flushing : BOOLEAN, playing : BOOLEAN, stopping : BOOLEAN,
     current : [position : Nat, start : Nat, length : Nat],
     next : [start : Nat, length : Nat], adpcm : Decoder,
     fifo : Seq(Sample)]

(* A track that is played stands at one of its blocks and is followed by a *)
(* track that has one; the decoder is in the state the block before left,  *)
(* or fresh.                                                               *)
TrackInv(d) ==
    /\ d \in Struct
    /\ Len(d.fifo) <= Capacity
    /\ d.playing =>
          /\ d.current.start <= d.current.position
          /\ d.current.position < d.current.start + d.current.length
          /\ d.next.length # 0
    /\ d.adpcm = IF d.playing /\ d.current.position # d.current.start
                 THEN d.current.position - 1 ELSE Fresh

HasRoom(d) == d.playing /\ Len(d.fifo) + BlockUnits <= Capacity

(* ReadIsCurrent, and only an outstanding read is to be dropped. *)
ReadInv(d, r) ==
    /\ r \in Nat \cup {None}
    /\ d.flushing => d.reading
    /\ r # None => d.reading /\ (~d.flushing => HasRoom(d) /\ r = d.current.position)

IInv == TrackInv(dtk) /\ ReadInv(dtk, inflight)

(* The stream of DtkStream the struct stands for. *)
StreamOf(d) == [on |-> d.playing, ending |-> d.stopping, cur |-> d.current,
                nxt |-> d.next, line |-> d.fifo]

-----------------------------------------------------------------------------
(* Lemmas about the helpers *)

LEMMA CapacityType == Capacity \in Nat /\ BlockUnits \in Nat \ {0} /\ BlockUnits <= Capacity
<1>1. BlockUnits \in Nat \ {0} /\ FifoBlocks \in Nat \ {0}
  BY DtkAssumption
<1>2. FifoBlocks * BlockUnits \in Nat /\ BlockUnits <= FifoBlocks * BlockUnits
  BY <1>1
<1> QED BY <1>1, <1>2 DEF Capacity

(* A block for which there is room goes into the FIFO whole. *)
LEMMA PushedWhole ==
    ASSUME NEW S, NEW fifo \in Seq(S), NEW units \in Seq(S),
           Len(units) = BlockUnits, Len(fifo) + BlockUnits <= Capacity
    PROVE  /\ Pushed(fifo, units) = fifo \o units
           /\ fifo \o units \in Seq(S)
           /\ Len(fifo \o units) = Len(fifo) + BlockUnits
  BY ConcatProperties, CapacityType DEF Pushed

(* Decoding the block the stream stands at, with room for it, is a Decode  *)
(* of the abstract stream.                                                 *)
LEMMA DecodedIsDecode ==
    ASSUME NEW d, TrackInv(d), HasRoom(d)
    PROVE  LET e == Decoded(d, d.current.position) IN
           /\ TrackInv(e)
           /\ e.reading = d.reading /\ e.flushing = d.flushing
           /\ Stream!Room(StreamOf(d))
           /\ StreamOf(e) = Stream!Decode(StreamOf(d))
<1> DEFINE p     == d.current.position
           units == [i \in 1..BlockUnits |-> [block |-> p, after |-> d.adpcm]]
           e     == [d EXCEPT !.fifo = Pushed(@, units), !.adpcm = p,
                              !.current.position = @ + 1]
           s     == StreamOf(d)
<1>1. d \in Struct /\ d.playing /\ p \in Nat /\ d.adpcm \in Decoder /\ d.fifo \in Seq(Sample)
      /\ d.next \in [start : Nat, length : Nat] /\ d.next.length # 0
      /\ d.current.start \in Nat /\ d.current.length \in Nat
      /\ d.current.start <= p /\ p < d.current.start + d.current.length
  BY DEF TrackInv, Struct, HasRoom
<1>2. units \in Seq(Sample) /\ Len(units) = BlockUnits
  BY <1>1, CapacityType DEF Sample
<1>3. /\ Pushed(d.fifo, units) = d.fifo \o units
      /\ d.fifo \o units \in Seq(Sample)
      /\ Len(d.fifo \o units) <= Capacity
  <2>1. Len(d.fifo) + BlockUnits <= Capacity
    BY DEF HasRoom
  <2> HIDE DEF units
  <2> QED BY <1>1, <1>2, <2>1, PushedWhole
<1>4. e \in Struct /\ e.fifo = d.fifo \o units /\ e.adpcm = p /\ e.current.position = p + 1
      /\ e.current.start = d.current.start /\ e.current.length = d.current.length
      /\ e.next = d.next /\ e.playing /\ e.stopping = d.stopping
      /\ e.reading = d.reading /\ e.flushing = d.flushing
  <2>1. p \in Decoder
    BY <1>1 DEF Decoder
  <2> HIDE DEF units
  <2>2. e = [d EXCEPT !.fifo = d.fifo \o units, !.adpcm = p, !.current = [@ EXCEPT !.position = p + 1]]
    BY <1>3
  <2>3. p + 1 \in Nat /\ d.current \in [position : Nat, start : Nat, length : Nat]
    BY <1>1 DEF Struct
  <2>4. [d.current EXCEPT !.position = p + 1] \in [position : Nat, start : Nat, length : Nat]
    BY <2>3
  <2> HIDE DEF e
  <2> QED BY <1>1, <1>3, <2>1, <2>2, <2>3, <2>4 DEF Struct
<1>5. Decoded(d, p) = IF e.current.position = e.current.start + e.current.length
                      THEN TrackEnd(e) ELSE e
  BY DEF Decoded
<1>6. Stream!Decode(s) =
        IF p + 1 < d.current.start + d.current.length
        THEN [s EXCEPT !.line = d.fifo \o units, !.cur.position = @ + 1]
        ELSE [s EXCEPT !.line = d.fifo \o units, !.cur = Stream!Begin(s.nxt),
                       !.on = ~s.ending, !.ending = FALSE]
  <2>1. d.adpcm = IF p = d.current.start THEN Fresh ELSE p - 1
    BY <1>1 DEF TrackInv
  <2>2. s.cur = d.current /\ s.line = d.fifo
    BY DEF StreamOf
  <2> QED BY <2>1, <2>2 DEF Stream!Decode
<1>7. Stream!Room(s)
  BY DEF HasRoom, Stream!Room, StreamOf
<1> HIDE DEF units, e
<1>8. CASE p + 1 < d.current.start + d.current.length
  <2>1. Decoded(d, p) = e
    BY <1>1, <1>4, <1>5, <1>8 DEF Struct
  <2>2. TrackInv(e)
    <3>1. e.adpcm = e.current.position - 1 /\ e.current.position # e.current.start
      BY <1>1, <1>4
    <3>2. Len(e.fifo) <= Capacity
      BY <1>3, <1>4
    <3> QED BY <1>1, <1>4, <1>8, <3>1, <3>2 DEF TrackInv
  <2>3. StreamOf(e) = Stream!Decode(s)
    <3>1. e.current = [d.current EXCEPT !.position = @ + 1]
      BY DEF e
    <3> QED BY <1>1, <1>4, <1>6, <1>8, <3>1 DEF StreamOf
  <2> QED BY <1>4, <1>7, <2>1, <2>2, <2>3
<1>9. CASE ~(p + 1 < d.current.start + d.current.length)
  <2>1. p + 1 = d.current.start + d.current.length
    BY <1>1, <1>9 DEF TrackInv, Struct
  <2>2. Decoded(d, p) = TrackEnd(e)
    BY <1>1, <1>4, <1>5, <2>1 DEF Struct
  <2>3. TrackInv(TrackEnd(e))
    <3> DEFINE t == TrackEnd(e)
    <3>1. t = [e EXCEPT !.current = [position |-> d.next.start, start |-> d.next.start,
                                     length |-> d.next.length],
                        !.playing = ~d.stopping, !.stopping = FALSE, !.adpcm = Fresh]
      BY <1>4 DEF TrackEnd
    <3>2. [position |-> d.next.start, start |-> d.next.start, length |-> d.next.length]
             \in [position : Nat, start : Nat, length : Nat]
      BY <1>1
    <3>3. Fresh \in Decoder /\ d.stopping \in BOOLEAN
      BY <1>1 DEF Decoder, Struct
    <3>4. t \in Struct /\ t.fifo = e.fifo /\ t.next = d.next /\ t.adpcm = Fresh
          /\ t.current.position = d.next.start /\ t.current.start = d.next.start
          /\ t.current.length = d.next.length
      <4> HIDE DEF t
      <4> QED BY <1>4, <3>1, <3>2, <3>3 DEF Struct
    <3>5. Len(t.fifo) <= Capacity
      BY <1>3, <1>4, <3>4
    <3> HIDE DEF t
    <3>6. TrackInv(t)
      BY <1>1, <3>4, <3>5 DEF TrackInv
    <3> QED BY <3>6 DEF t
  <2>4. StreamOf(TrackEnd(e)) = Stream!Decode(s)
    <3>1. StreamOf(TrackEnd(e)) =
            [on |-> ~d.stopping, ending |-> FALSE, nxt |-> d.next, line |-> d.fifo \o units,
             cur |-> [position |-> d.next.start, start |-> d.next.start,
                      length |-> d.next.length]]
      BY <1>4 DEF StreamOf, TrackEnd, Struct
    <3>2. Stream!Begin(s.nxt) = [position |-> d.next.start, start |-> d.next.start,
                                 length |-> d.next.length]
      BY DEF Stream!Begin, StreamOf
    <3> QED BY <1>6, <1>9, <3>1, <3>2 DEF StreamOf
  <2>5. TrackEnd(e).reading = d.reading /\ TrackEnd(e).flushing = d.flushing
    BY <1>4 DEF TrackEnd, Struct
  <2> QED BY <1>7, <2>2, <2>3, <2>4, <2>5
<1> QED BY <1>8, <1>9

(* What the abstract stream's updates make of its record. *)
LEMMA NewEnding ==
    ASSUME NEW on, NEW ending, NEW cur, NEW nxt, NEW line, NEW v
    PROVE  [[on |-> on, ending |-> ending, cur |-> cur, nxt |-> nxt, line |-> line]
              EXCEPT !.ending = v]
           = [on |-> on, ending |-> v, cur |-> cur, nxt |-> nxt, line |-> line]
  OBVIOUS

LEMMA NewLine ==
    ASSUME NEW on, NEW ending, NEW cur, NEW nxt, NEW line, NEW v
    PROVE  [[on |-> on, ending |-> ending, cur |-> cur, nxt |-> nxt, line |-> line]
              EXCEPT !.line = v]
           = [on |-> on, ending |-> ending, cur |-> cur, nxt |-> nxt, line |-> v]
  OBVIOUS

(* TrackInv and the stream say nothing of the read. *)
LEMMA ReadingApart ==
    ASSUME NEW d, TrackInv(d), NEW b \in BOOLEAN, NEW c \in BOOLEAN
    PROVE  LET e == [d EXCEPT !.reading = b, !.flushing = c] IN
           TrackInv(e) /\ StreamOf(e) = StreamOf(d) /\ (Wants(e) => HasRoom(e))
<1> DEFINE e == [d EXCEPT !.reading = b, !.flushing = c]
<1>1. d \in Struct
  BY DEF TrackInv
<1>2. e \in Struct /\ e.fifo = d.fifo /\ e.current = d.current /\ e.next = d.next
      /\ e.playing = d.playing /\ e.stopping = d.stopping /\ e.adpcm = d.adpcm
  BY <1>1 DEF Struct
<1>3. Len(e.fifo) \in Nat
  BY <1>2, LenProperties DEF Struct
<1> HIDE DEF e
<1>4. TrackInv(e) /\ StreamOf(e) = StreamOf(d)
  BY <1>1, <1>2 DEF TrackInv, StreamOf
<1>5. Wants(e) => HasRoom(e)
  BY <1>3, CapacityType DEF Wants, HasRoom
<1> QED BY <1>4, <1>5 DEF e

(* What a handler has made of the stream, d being the struct when the last *)
(* thing it does starts: nothing, or the decoding of one block.            *)
Goes(d) ==
    \/ StreamOf(dtk') = StreamOf(d)
    \/ Stream!Room(StreamOf(d)) /\ StreamOf(dtk') = Stream!Decode(StreamOf(d))

LEMMA FillStep ==
    ASSUME NEW d, TrackInv(d), ReadInv(d, inflight), Fill(d)
    PROVE  IInv' /\ Goes(d)
<1> DEFINE inside == Decoded(d, d.current.position)
<1>1. d \in Struct /\ d.reading \in BOOLEAN /\ d.flushing \in BOOLEAN
  BY DEF TrackInv, Struct
<1>2. Wants(d) => HasRoom(d) /\ ~d.reading /\ ~d.flushing /\ inflight = None
  <2>1. [d EXCEPT !.reading = d.reading, !.flushing = d.flushing] = d
    BY <1>1 DEF Struct
  <2>2. Wants([d EXCEPT !.reading = d.reading, !.flushing = d.flushing])
           => HasRoom([d EXCEPT !.reading = d.reading, !.flushing = d.flushing])
    BY <1>1, ReadingApart
  <2>3. Wants(d) => HasRoom(d)
    BY <2>1, <2>2
  <2> QED BY <1>1, <2>3 DEF Wants, ReadInv
<1>3. CASE ~Wants(d)
  BY <1>3 DEF Fill, IInv, Goes
<1>4. CASE Wants(d) /\ dtk' = [d EXCEPT !.reading = TRUE] /\ inflight' = d.current.position
  <2>1. dtk' = [d EXCEPT !.reading = TRUE, !.flushing = FALSE]
    BY <1>1, <1>2, <1>4 DEF Struct
  <2>2. TrackInv(dtk') /\ StreamOf(dtk') = StreamOf(d)
    BY <2>1, ReadingApart
  <2>3. dtk'.reading /\ ~dtk'.flushing /\ dtk'.current = d.current
        /\ dtk'.fifo = d.fifo /\ dtk'.playing = d.playing
    BY <1>1, <2>1 DEF Struct
  <2>4. d.current.position \in Nat
    BY <1>1 DEF Struct
  <2>5. ReadInv(dtk', inflight')
    BY <1>2, <1>4, <2>3, <2>4 DEF ReadInv, HasRoom
  <2> QED BY <2>2, <2>5 DEF IInv, Goes
<1>5. CASE /\ Wants(d) /\ dtk' = [inside EXCEPT !.reading = TRUE]
           /\ inflight' = IF Wants(inside) THEN inside.current.position ELSE inflight
  <2>1. /\ TrackInv(inside) /\ inside.reading = d.reading /\ inside.flushing = d.flushing
        /\ Stream!Room(StreamOf(d)) /\ StreamOf(inside) = Stream!Decode(StreamOf(d))
    BY <1>2, <1>5, DecodedIsDecode
  <2> HIDE DEF inside
  <2>2. inside \in Struct /\ inside.current.position \in Nat
    BY <2>1 DEF TrackInv, Struct
  <2>3. dtk' = [inside EXCEPT !.reading = TRUE, !.flushing = FALSE]
    BY <1>2, <1>5, <2>1, <2>2 DEF Struct
  <2>4. TrackInv(dtk') /\ StreamOf(dtk') = StreamOf(inside)
    BY <2>1, <2>3, ReadingApart
  <2>5. [inside EXCEPT !.reading = FALSE, !.flushing = FALSE] = inside
    BY <1>2, <1>5, <2>1, <2>2 DEF Struct
  <2>6. Wants(inside) => HasRoom(inside)
    BY <2>1, <2>5, ReadingApart
  <2>7. dtk'.reading /\ ~dtk'.flushing /\ dtk'.current = inside.current
        /\ dtk'.fifo = inside.fifo /\ dtk'.playing = inside.playing
    BY <2>2, <2>3 DEF Struct
  <2>8. ReadInv(dtk', inflight')
    BY <1>2, <1>5, <2>2, <2>6, <2>7 DEF ReadInv, HasRoom
  <2> QED BY <2>1, <2>4, <2>8 DEF IInv, Goes
<1> QED BY <1>3, <1>4, <1>5 DEF Fill

-----------------------------------------------------------------------------
(* The steps *)

(* A step of the emulation is one of the abstract stream, or none. *)
Step == \E s \in Stream!Asked \cup {StreamOf(dtk)} :
            \/ StreamOf(dtk') = s
            \/ Stream!Room(s) /\ StreamOf(dtk') = Stream!Decode(s)

LEMMA StructType ==
    ASSUME IInv
    PROVE  /\ TrackInv(dtk) /\ ReadInv(dtk, inflight) /\ dtk \in Struct
           /\ dtk.reading \in BOOLEAN /\ dtk.flushing \in BOOLEAN
           /\ dtk.playing \in BOOLEAN /\ dtk.stopping \in BOOLEAN
           /\ dtk.fifo \in Seq(Sample)
           /\ dtk = [dtk EXCEPT !.reading = dtk.reading, !.flushing = dtk.flushing]
  BY DEF IInv, TrackInv, Struct

LEMMA PlayStep ==
    ASSUME IInv, NEW s \in Starts, NEW n \in Lengths, Play(Track(s, n))
    PROVE  IInv' /\ Step
<1> DEFINE t == Track(s, n)
           d == [dtk EXCEPT !.next = t, !.playing = TRUE,
                            !.current = [position |-> t.start, start |-> t.start,
                                         length |-> t.length]]
<1>1. t \in [start : Nat, length : Nat] /\ t.start = s /\ t.length = n
      /\ n \in Nat \ {0} /\ s \in Nat
  BY DtkAssumption DEF Track
<1>2. Stream!StartTrack(Stream!Track(s, n)) \in Stream!Asked
  BY DEF Stream!Asked
<1>3. Stream!Track(s, n) = t
  BY DEF Track, Stream!Track
<1> HIDE DEF t
<1>4. CASE dtk.stopping /\ UNCHANGED <<dtk, inflight>>
  BY <1>4 DEF IInv, Step
<1>5. CASE ~dtk.stopping /\ dtk.playing /\ dtk' = [dtk EXCEPT !.next = t] /\ UNCHANGED inflight
  <2>1. dtk' \in Struct /\ dtk'.fifo = dtk.fifo /\ dtk'.current = dtk.current
        /\ dtk'.next = t /\ dtk'.playing = dtk.playing /\ dtk'.stopping = dtk.stopping
        /\ dtk'.adpcm = dtk.adpcm /\ dtk'.reading = dtk.reading
        /\ dtk'.flushing = dtk.flushing
    BY <1>1, <1>5, StructType DEF Struct
  <2>2. TrackInv(dtk')
    BY <1>1, <1>5, <2>1, StructType DEF TrackInv
  <2>3. ReadInv(dtk', inflight')
    BY <1>5, <2>1, StructType DEF ReadInv, HasRoom
  <2>4. StreamOf(dtk') = Stream!StartTrack(t)
    BY <1>5, <2>1 DEF StreamOf, Stream!StartTrack
  <2> QED BY <1>2, <1>3, <2>2, <2>3, <2>4 DEF IInv, Step
<1>6. CASE ~dtk.stopping /\ ~dtk.playing /\ Fill(d)
  <2>1. [position |-> t.start, start |-> t.start, length |-> t.length]
           \in [position : Nat, start : Nat, length : Nat]
    BY <1>1
  <2>2. d \in Struct /\ d.fifo = dtk.fifo /\ d.next = t /\ d.playing
        /\ d.current.position = s /\ d.current.start = s /\ d.current.length = n
        /\ d.stopping = dtk.stopping /\ d.adpcm = dtk.adpcm
        /\ d.reading = dtk.reading /\ d.flushing = dtk.flushing
    BY <1>1, <2>1, StructType DEF Struct
  <2>3. StreamOf(d) = Stream!StartTrack(t)
    <3>1. Stream!StartTrack(t) =
            [on |-> TRUE, ending |-> dtk.stopping, nxt |-> t, line |-> dtk.fifo,
             cur |-> [position |-> t.start, start |-> t.start, length |-> t.length]]
      BY <1>6 DEF Stream!StartTrack, Stream!Begin
    <3>2. d.playing = TRUE /\ d.current = [position |-> t.start, start |-> t.start,
                                          length |-> t.length]
      BY StructType DEF Struct
    <3> HIDE DEF d
    <3> QED BY <2>2, <3>1, <3>2 DEF StreamOf
  <2> HIDE DEF d
  <2>4. TrackInv(d)
    BY <1>1, <1>6, <2>2, StructType DEF TrackInv
  <2>5. ReadInv(d, inflight)
    BY <1>6, <2>2, StructType DEF ReadInv, HasRoom
  <2>6. IInv' /\ Goes(d)
    BY <1>6, <2>4, <2>5, FillStep
  <2> QED BY <1>2, <1>3, <2>3, <2>6 DEF Goes, Step
<1> QED BY <1>4, <1>5, <1>6 DEF Play, t

LEMMA StopAtEndStep ==
    ASSUME IInv, StopAtEnd
    PROVE  IInv' /\ Step
<1>1. dtk' \in Struct /\ dtk'.fifo = dtk.fifo /\ dtk'.current = dtk.current
      /\ dtk'.next = dtk.next /\ dtk'.playing = dtk.playing /\ dtk'.stopping = TRUE
      /\ dtk'.adpcm = dtk.adpcm /\ dtk'.reading = dtk.reading
      /\ dtk'.flushing = dtk.flushing /\ inflight' = inflight
  BY StructType DEF StopAtEnd, Struct
<1>2. TrackInv(dtk')
  BY <1>1, StructType DEF TrackInv
<1>3. ReadInv(dtk', inflight')
  BY <1>1, StructType DEF ReadInv, HasRoom
<1>4. StreamOf(dtk') = Stream!StopAtItsEnd
  <2>1. Stream!StopAtItsEnd = [on |-> dtk.playing, ending |-> TRUE, cur |-> dtk.current,
                               nxt |-> dtk.next, line |-> dtk.fifo]
    <3> DEFINE yes == TRUE
    <3> HIDE DEF yes
    <3>1. [[on |-> dtk.playing, ending |-> dtk.stopping, cur |-> dtk.current,
            nxt |-> dtk.next, line |-> dtk.fifo] EXCEPT !.ending = yes]
             = [on |-> dtk.playing, ending |-> yes, cur |-> dtk.current,
                nxt |-> dtk.next, line |-> dtk.fifo]
      BY NewEnding
    <3> QED BY <3>1, Zenon DEF yes, Stream!StopAtItsEnd
  <2> QED BY <1>1, <2>1 DEF StreamOf
<1> QED BY <1>2, <1>3, <1>4 DEF IInv, Step, Stream!Asked

LEMMA CancelStep ==
    ASSUME IInv, Cancel
    PROVE  IInv' /\ Step
<1>1. <<>> \in Seq(Sample) /\ Len(<<>>) = 0 /\ Fresh \in Decoder
  BY DEF Decoder
<1>2. dtk' \in Struct /\ dtk'.fifo = <<>> /\ dtk'.current = dtk.current
      /\ dtk'.next = dtk.next /\ dtk'.playing = FALSE /\ dtk'.stopping = FALSE
      /\ dtk'.adpcm = Fresh /\ dtk'.reading = dtk.reading
      /\ dtk'.flushing = dtk.reading /\ inflight' = inflight
  BY <1>1, StructType DEF Cancel, Struct
<1>3. TrackInv(dtk')
  BY <1>1, <1>2, CapacityType DEF TrackInv
<1>4. ReadInv(dtk', inflight')
  BY <1>2, StructType DEF ReadInv
<1>5. StreamOf(dtk') = Stream!CancelTrack
  <2>1. Stream!CancelTrack = [on |-> FALSE, ending |-> FALSE, cur |-> dtk.current,
                              nxt |-> dtk.next, line |-> <<>>]
    <3> DEFINE no == FALSE
               nothing == <<>>
               r0 == [on |-> dtk.playing, ending |-> dtk.stopping, cur |-> dtk.current,
                      nxt |-> dtk.next, line |-> dtk.fifo]
               r1 == [on |-> no, ending |-> dtk.stopping, cur |-> dtk.current,
                      nxt |-> dtk.next, line |-> dtk.fifo]
               r2 == [on |-> no, ending |-> no, cur |-> dtk.current,
                      nxt |-> dtk.next, line |-> dtk.fifo]
               r3 == [on |-> no, ending |-> no, cur |-> dtk.current,
                      nxt |-> dtk.next, line |-> nothing]
    <3> HIDE DEF no, nothing
    <3>1. [r0 EXCEPT !.on = no] = r1
      OBVIOUS
    <3>2. [r1 EXCEPT !.ending = no] = r2
      BY NewEnding
    <3>3. [r2 EXCEPT !.line = nothing] = r3
      BY NewLine
    <3>4. [r0 EXCEPT !.on = no, !.ending = no, !.line = nothing] = r3
      <4> HIDE DEF r0, r1, r2, r3
      <4> QED BY <3>1, <3>2, <3>3, Zenon
    <3> QED BY <3>4, Zenon DEF no, nothing, Stream!CancelTrack
  <2> QED BY <1>2, <2>1 DEF StreamOf
<1> QED BY <1>3, <1>4, <1>5 DEF IInv, Step, Stream!Asked

LEMMA MixStep ==
    ASSUME IInv, NEW n \in 0..Capacity, Mix(n)
    PROVE  IInv' /\ Step
<1> DEFINE d == [dtk EXCEPT !.fifo = SubSeq(@, n + 1, Len(@))]
<1>1. /\ SubSeq(dtk.fifo, n + 1, Len(dtk.fifo)) \in Seq(Sample)
      /\ Len(SubSeq(dtk.fifo, n + 1, Len(dtk.fifo))) <= Len(dtk.fifo)
      /\ Len(SubSeq(dtk.fifo, n + 1, Len(dtk.fifo))) \in Nat
      /\ n = 0 => SubSeq(dtk.fifo, n + 1, Len(dtk.fifo)) = dtk.fifo
      /\ Len(dtk.fifo) \in Nat
  BY StructType, CapacityType, SubSeqProperties, LenProperties
<1>2. d \in Struct /\ d.fifo = SubSeq(dtk.fifo, n + 1, Len(dtk.fifo))
      /\ d.current = dtk.current /\ d.next = dtk.next /\ d.playing = dtk.playing
      /\ d.stopping = dtk.stopping /\ d.adpcm = dtk.adpcm
      /\ d.reading = dtk.reading /\ d.flushing = dtk.flushing
  BY <1>1, StructType DEF Struct
<1> HIDE DEF d
<1>3. TrackInv(d)
  BY <1>1, <1>2, StructType, CapacityType DEF TrackInv
<1>4. ReadInv(d, inflight)
  BY <1>1, <1>2, StructType, CapacityType DEF ReadInv, HasRoom
<1>5. IInv' /\ Goes(d)
  BY <1>3, <1>4, FillStep DEF Mix, d
<1>6. StreamOf(d) \in Stream!Asked \cup {StreamOf(dtk)}
  <2>1. CASE n = 0
    BY <1>1, <1>2, <2>1 DEF StreamOf
  <2>2. CASE n # 0
    <3>1. n \in 1..Capacity
      BY <2>2, CapacityType
    <3>2. Stream!Hear(n) = [on |-> dtk.playing, ending |-> dtk.stopping, cur |-> dtk.current,
                            nxt |-> dtk.next, line |-> SubSeq(dtk.fifo, n + 1, Len(dtk.fifo))]
      <4> DEFINE stream == [on |-> dtk.playing, ending |-> dtk.stopping, cur |-> dtk.current,
                            nxt |-> dtk.next, line |-> dtk.fifo]
                 rest == SubSeq(dtk.fifo, n + 1, Len(dtk.fifo))
      <4>1. stream.line = dtk.fifo
        OBVIOUS
      <4> HIDE DEF rest
      <4>2. [stream EXCEPT !.line = rest]
               = [on |-> dtk.playing, ending |-> dtk.stopping, cur |-> dtk.current,
                  nxt |-> dtk.next, line |-> rest]
        BY NewLine
      <4>3. Stream!Hear(n)
               = [stream EXCEPT !.line = SubSeq(stream.line, n + 1, Len(stream.line))]
        BY Zenon DEF Stream!Hear
      <4> HIDE DEF stream
      <4>4. Stream!Hear(n) = [stream EXCEPT !.line = rest]
        BY <4>1, <4>3, Zenon DEF rest
      <4> QED BY <4>2, <4>4, Zenon DEF rest, stream
    <3>3. StreamOf(d) = Stream!Hear(n)
      BY <1>2, <3>2 DEF StreamOf
    <3> QED BY <3>1, <3>3 DEF Stream!Asked
  <2> QED BY <2>1, <2>2
<1> QED BY <1>5, <1>6 DEF Goes, Step

LEMMA CallbackStep ==
    ASSUME IInv, Callback
    PROVE  IInv' /\ Step
<1> DEFINE idle == [dtk EXCEPT !.reading = FALSE]
           d    == IF dtk.flushing THEN [dtk EXCEPT !.reading = FALSE, !.flushing = FALSE]
                   ELSE Decoded(idle, inflight)
<1>1. /\ inflight # None
      /\ IF Wants(d)
         THEN dtk' = [d EXCEPT !.reading = TRUE] /\ inflight' = d.current.position
         ELSE dtk' = d /\ inflight' = None
  BY DEF Callback
<1>2. /\ TrackInv(d) /\ ~d.reading /\ ~d.flushing
      /\ \/ StreamOf(d) = StreamOf(dtk)
         \/ Stream!Room(StreamOf(dtk)) /\ StreamOf(d) = Stream!Decode(StreamOf(dtk))
  <2>1. CASE dtk.flushing
    <3>1. d = [dtk EXCEPT !.reading = FALSE, !.flushing = FALSE]
      BY <2>1
    <3>2. [dtk EXCEPT !.reading = FALSE, !.flushing = FALSE].reading = FALSE
          /\ [dtk EXCEPT !.reading = FALSE, !.flushing = FALSE].flushing = FALSE
      BY StructType DEF Struct
    <3> HIDE DEF d
    <3>3. TrackInv(d) /\ StreamOf(d) = StreamOf(dtk)
      BY <3>1, StructType, ReadingApart
    <3> QED BY <3>1, <3>2, <3>3
  <2>2. CASE ~dtk.flushing
    <3>1. idle = [dtk EXCEPT !.reading = FALSE, !.flushing = FALSE]
      BY <2>2, StructType DEF Struct
    <3>2. TrackInv(idle) /\ StreamOf(idle) = StreamOf(dtk)
      BY <3>1, StructType, ReadingApart
    <3>3. HasRoom(idle) /\ inflight = idle.current.position
          /\ ~idle.reading /\ ~idle.flushing
      BY <1>1, <2>2, StructType DEF ReadInv, HasRoom, Struct
    <3>4. d = Decoded(idle, idle.current.position)
      BY <2>2, <3>3
    <3> HIDE DEF idle, d
    <3>5. LET e == Decoded(idle, idle.current.position) IN
          /\ TrackInv(e)
          /\ e.reading = idle.reading /\ e.flushing = idle.flushing
          /\ Stream!Room(StreamOf(idle))
          /\ StreamOf(e) = Stream!Decode(StreamOf(idle))
      BY <3>2, <3>3, DecodedIsDecode
    <3> QED BY <3>2, <3>3, <3>4, <3>5
  <2> QED BY <2>1, <2>2
<1> HIDE DEF d
<1>3. d \in Struct /\ d = [d EXCEPT !.reading = FALSE, !.flushing = FALSE]
      /\ d.current.position \in Nat
  BY <1>2 DEF TrackInv, Struct
<1>4. CASE Wants(d)
  <2>1. dtk' = [d EXCEPT !.reading = TRUE, !.flushing = FALSE] /\ inflight' = d.current.position
    BY <1>1, <1>2, <1>3, <1>4 DEF Struct
  <2>2. TrackInv(dtk') /\ StreamOf(dtk') = StreamOf(d)
    BY <1>2, <2>1, ReadingApart
  <2>3. HasRoom(d)
    BY <1>2, <1>3, <1>4, ReadingApart
  <2>4. dtk'.reading /\ ~dtk'.flushing /\ dtk'.current = d.current
        /\ dtk'.fifo = d.fifo /\ dtk'.playing = d.playing
    BY <1>3, <2>1 DEF Struct
  <2>5. ReadInv(dtk', inflight')
    BY <1>3, <2>1, <2>3, <2>4 DEF ReadInv, HasRoom
  <2> QED BY <1>2, <2>2, <2>5 DEF IInv, Step
<1>5. CASE ~Wants(d)
  BY <1>1, <1>2, <1>5 DEF IInv, ReadInv, Step
<1> QED BY <1>4, <1>5

-----------------------------------------------------------------------------
(* The theorems *)

LEMMA InitIInv == Init => IInv
<1> SUFFICES ASSUME Init PROVE IInv
  OBVIOUS
<1>1. <<>> \in Seq(Sample) /\ Len(<<>>) = 0 /\ Fresh \in Decoder
  BY DEF Decoder
<1>2. dtk \in Struct
  BY <1>1 DEF Init, Track, Struct
<1>3. TrackInv(dtk)
  BY <1>1, <1>2, CapacityType DEF Init, TrackInv
<1>4. ReadInv(dtk, inflight)
  BY DEF Init, ReadInv
<1> QED BY <1>3, <1>4 DEF IInv

LEMMA NextIInv ==
    ASSUME IInv, [Next]_vars
    PROVE  IInv' /\ Step
<1>1. ASSUME NEW s \in Starts, NEW n \in Lengths, Play(Track(s, n)) PROVE IInv' /\ Step
  BY <1>1, PlayStep
<1>2. CASE StopAtEnd
  BY <1>2, StopAtEndStep
<1>3. CASE Cancel
  BY <1>3, CancelStep
<1>4. ASSUME NEW n \in 0..Capacity, Mix(n) PROVE IInv' /\ Step
  BY <1>4, MixStep
<1>5. CASE Callback
  BY <1>5, CallbackStep
<1>6. CASE UNCHANGED vars
  BY <1>6 DEF vars, IInv, Step
<1> QED BY <1>1, <1>2, <1>3, <1>4, <1>5, <1>6 DEF Next

LEMMA SpecIInv == Spec => []IInv
<1> QED BY InitIInv, NextIInv, PTL DEF Spec

(* The decoder and the FIFO of the struct are those of a track that is     *)
(* played in order (emulator.c:526-592): a played track stands at one of   *)
(* its own blocks, the decoder is in the state the block before left, and  *)
(* the FIFO never holds more than its 7168 bytes, so push_sample never has *)
(* to drop a sample.                                                       *)
THEOREM TrackInOrder == Spec => []TrackInv(dtk)
<1>1. IInv => TrackInv(dtk)
  BY DEF IInv
<1> QED BY <1>1, SpecIInv, PTL

(* A read that is outstanding is known to be, and unless its track was     *)
(* cancelled it is for the block the stream stands at, which is played and *)
(* for which there is room (emulator.c:560-579, 729-769).                  *)
THEOREM ReadStaysCurrent == Spec => []ReadIsCurrent
<1>1. IInv => ReadIsCurrent
  BY DEF IInv, ReadInv, HasRoom, ReadIsCurrent
<1> QED BY <1>1, SpecIInv, PTL

(* The emulation implements the stream of DtkStream: it starts as that     *)
(* stream does, and each of its steps is a step of it or none.             *)
THEOREM EmulationIsStream == Spec => ImplementsStream
<1>1. Init => Stream!StreamInit
  BY DEF Init, Stream!StreamInit, Track, Stream!Track
<1>2. IInv /\ [Next]_vars
         => [Stream!StreamNext]_([on |-> dtk.playing, ending |-> dtk.stopping,
                                  cur |-> dtk.current, nxt |-> dtk.next, line |-> dtk.fifo])
  <2> SUFFICES ASSUME IInv, [Next]_vars
               PROVE  Stream!StreamNext
    OBVIOUS
  <2>1. Step
    BY NextIInv
  <2> QED BY <2>1 DEF Step, StreamOf, Stream!StreamNext
<1> QED BY <1>1, <1>2, SpecIInv, PTL DEF Spec, ImplementsStream, Stream!StreamSpec
=============================================================================
