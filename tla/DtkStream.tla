----------------------------- MODULE DtkStream -----------------------------
(***************************************************************************)
(* What the emulated disc drive promises a game that streams audio: the    *)
(* blocks of a track are decoded in order, each with the decoder in the    *)
(* state the block before it left, until the track ends or is cancelled;   *)
(* at its end the track asked for last follows, unless the game has asked  *)
(* to stop there; and the game hears what was decoded, in that order.      *)
(***************************************************************************)
EXTENDS Integers, Sequences

CONSTANTS
    Starts,       \* the blocks a track may start at
    Lengths,      \* the blocks a track may have
    BlockUnits,   \* the units of sound a block decodes to
    Capacity,     \* the units that can be decoded ahead of what is heard
    Fresh         \* the decoder's state at the start of a track

(* stream.on: a track is being played; ending: the game wants it to stop   *)
(* at its end; cur: where it stands, its first block and its length; nxt:  *)
(* the track that follows; line: what is decoded and not heard, a sequence *)
(* of [block, after], BlockUnits of each.                                  *)
VARIABLE stream

Track(s, n) == [start |-> s, length |-> n]
Begin(t)    == [position |-> t.start, start |-> t.start, length |-> t.length]

StreamInit ==
    stream = [on |-> FALSE, ending |-> FALSE, nxt |-> Track(0, 0),
              cur |-> [position |-> 0, start |-> 0, length |-> 0], line |-> <<>>]

StartTrack(t) ==
    IF stream.ending THEN stream
    ELSE [stream EXCEPT !.nxt = t, !.on = TRUE, !.cur = IF stream.on THEN @ ELSE Begin(t)]

StopAtItsEnd == [stream EXCEPT !.ending = TRUE]

CancelTrack == [stream EXCEPT !.on = FALSE, !.ending = FALSE, !.line = <<>>]

Hear(n) == [stream EXCEPT !.line = SubSeq(@, n + 1, Len(@))]

(* The next block can be decoded, all of it. *)
Room(s) == s.on /\ Len(s.line) + BlockUnits <= Capacity

Decode(s) ==
    LET line == s.line \o [i \in 1..BlockUnits |->
                   [block |-> s.cur.position,
                    after |-> IF s.cur.position = s.cur.start THEN Fresh ELSE s.cur.position - 1]]
    IN IF s.cur.position + 1 < s.cur.start + s.cur.length
       THEN [s EXCEPT !.line = line, !.cur.position = @ + 1]
       ELSE [s EXCEPT !.line = line, !.cur = Begin(s.nxt),
                      !.on = ~s.ending, !.ending = FALSE]

(* What the game asks for, and what it hears. *)
Asked ==
    {StartTrack(Track(s, n)) : s \in Starts, n \in Lengths}
        \cup {StopAtItsEnd, CancelTrack} \cup {Hear(n) : n \in 1..Capacity}

(* A block may be decoded at any time, or along with what made it possible. *)
StreamNext ==
    \E s \in Asked \cup {stream} : stream' = s \/ (Room(s) /\ stream' = Decode(s))

StreamSpec == StreamInit /\ [][StreamNext]_stream
=============================================================================
