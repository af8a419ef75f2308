-------------------------------- MODULE Dtk --------------------------------
(***************************************************************************)
(* The emulation of the drive's audio streaming (cube/patches/base/        *)
(* emulator.c built with DTK and ASYNC_READ): the commands of the game     *)
(* change the track, each DMA of the game's audio takes samples out of a   *)
(* FIFO, and blocks are read from the disc image to fill it.               *)
(*                                                                         *)
(* Handlers run with interrupts disabled, so a command, a DMA and the      *)
(* callback of a read are one step each.  Only one read is outstanding at  *)
(* a time; dtk.reading says so, and between the request and the callback   *)
(* the game may cancel, start and stop tracks at will.                     *)
(*                                                                         *)
(* The block driver is the one of the build (external here, SdQueue and    *)
(* the others model it): it accepts the request and calls back once, with  *)
(* the whole block, since tracks lie on whole sectors.  An idle driver     *)
(* that has the sector in its own buffer (mmc.last_sector, say, after a    *)
(* SEEK of the game to it) calls back before it returns: atonce are the    *)
(* blocks for which that may happen, one at most.                          *)
(***************************************************************************)
EXTENDS Integers, Sequences

CONSTANTS
    Starts,       \* the first blocks of the tracks, after DVDRoundDown32KB
    Lengths,      \* their lengths in blocks, after DVDRoundDown32KB, 0 excluded
    BlockUnits,   \* 448 samples, in units of the smallest DMA of the game
    FifoBlocks,   \* the blocks the FIFO holds: 7168 bytes are 4
    Cached,       \* the values of atonce: sets of one block, or none
    Fresh,        \* the decoder after adpcm_reset
    None          \* no read is outstanding

ASSUME DtkAssumption ==
    /\ Starts \subseteq Nat /\ Lengths \subseteq Nat \ {0}
    /\ BlockUnits \in Nat \ {0} /\ FifoBlocks \in Nat \ {0}
    /\ \A S \in Cached : S \subseteq Nat /\ \A a, b \in S : a = b
    /\ Fresh \notin Int /\ None \notin Int

Capacity == FifoBlocks * BlockUnits

VARIABLES
    dtk,        \* the struct dtk of emulator.c, the decoder and the FIFO included
    inflight,   \* the block the outstanding read was asked for, or None
    atonce      \* the blocks the driver has at hand, the same all the time

vars == <<dtk, inflight, atonce>>

Track(s, n) == [start |-> s, length |-> n]

Init ==
    /\ dtk = [reading |-> FALSE, flushing |-> FALSE, playing |-> FALSE, stopping |-> FALSE,
              current |-> [position |-> 0, start |-> 0, length |-> 0],
              next |-> Track(0, 0), adpcm |-> Fresh, fifo |-> <<>>]
    /\ inflight = None
    /\ atonce \in Cached

-----------------------------------------------------------------------------
(* push_sample: what the FIFO has no space for is dropped. *)
Pushed(fifo, units) ==
    LET both == fifo \o units IN IF Len(both) <= Capacity THEN both ELSE SubSeq(both, 1, Capacity)

(* fault: the decoder is not reset between tracks *)
TrackEndFault(d) ==
    [d EXCEPT !.current = [position |-> d.next.start, start |-> d.next.start,
                           length |-> d.next.length],
              !.playing = @ /\ ~d.stopping, !.stopping = FALSE]

(* The end of a track: the next one follows, or the stream stops. *)
TrackEnd(d) ==
    [d EXCEPT !.current = [position |-> d.next.start, start |-> d.next.start,
                           length |-> d.next.length],
              !.playing = @ /\ ~d.stopping, !.stopping = FALSE, !.adpcm = Fresh]

(* dtk_decode_buffer *)
Decoded(d, block) ==
    LET units == [i \in 1..BlockUnits |-> [block |-> block, after |-> d.adpcm]]
        e == [d EXCEPT !.fifo = Pushed(@, units), !.adpcm = block, !.current.position = @ + 1]
    IN IF e.current.position = e.current.start + e.current.length THEN TrackEnd(e) ELSE e

(* dtk_fill_buffer asks for a block. *)
Wants(d) == ~d.reading /\ d.playing /\ Capacity - Len(d.fifo) >= BlockUnits

(* dtk_fill_buffer as the last thing a handler does, d being the struct    *)
(* until then: the request is answered later, or at once by a driver that  *)
(* has the sector, in which case the callback decodes it and asks for the  *)
(* next block, which is not at hand, before dtk.reading is assigned.       *)
Fill(d) ==
    LET asked  == [d EXCEPT !.reading = TRUE]
        inside == Decoded(d, d.current.position)
    IN \/ ~Wants(d) /\ dtk' = d /\ UNCHANGED inflight
       \/ Wants(d) /\ dtk' = asked /\ inflight' = d.current.position
       \/ /\ Wants(d) /\ d.current.position \in atonce
          /\ dtk' = [inside EXCEPT !.reading = TRUE]
          /\ inflight' = IF Wants(inside) THEN inside.current.position ELSE inflight

-----------------------------------------------------------------------------
(* DI_CMD_AUDIO_STREAM: the game starts a track. *)
Play(t) ==
    \/ dtk.stopping /\ UNCHANGED <<dtk, inflight>>
    \/ ~dtk.stopping /\ dtk.playing /\ dtk' = [dtk EXCEPT !.next = t] /\ UNCHANGED inflight
    \/ /\ ~dtk.stopping /\ ~dtk.playing
       /\ Fill([dtk EXCEPT !.next = t, !.playing = TRUE,
                           !.current = [position |-> t.start, start |-> t.start,
                                        length |-> t.length]])

(* DI_CMD_AUDIO_STREAM with no length: the track shall be the last. *)
StopAtEnd == dtk' = [dtk EXCEPT !.stopping = TRUE] /\ UNCHANGED inflight

(* fault: the outstanding read is forgotten *)
CancelFault ==
    /\ dtk' = [dtk EXCEPT !.stopping = FALSE, !.playing = FALSE,
                          !.adpcm = Fresh, !.fifo = <<>>]
    /\ UNCHANGED inflight

(* DI_CMD_AUDIO_STREAM, subcommand 1: the outstanding read is to be dropped. *)
Cancel ==
    /\ dtk' = [dtk EXCEPT !.stopping = FALSE, !.playing = FALSE, !.flushing = dtk.reading,
                          !.adpcm = Fresh, !.fifo = <<>>]
    /\ UNCHANGED inflight

(* dsp_write starts a DMA of the game: mix_samples takes its samples out   *)
(* of the FIFO, none if the stream is paused (AICR).                       *)
Mix(n) == Fill([dtk EXCEPT !.fifo = SubSeq(@, n + 1, Len(@))])

(* fault: a block that is dropped leaves dtk.reading set *)
CallbackFault ==
    LET d == IF dtk.flushing THEN [dtk EXCEPT !.flushing = FALSE]
             ELSE Decoded([dtk EXCEPT !.reading = FALSE], inflight)
    IN /\ inflight # None
       /\ IF Wants(d)
          THEN dtk' = [d EXCEPT !.reading = TRUE] /\ inflight' = d.current.position
          ELSE dtk' = d /\ inflight' = None

(* read_callback: the block is decoded or dropped, and the next asked for. *)
Callback ==
    LET d == IF dtk.flushing THEN [dtk EXCEPT !.reading = FALSE, !.flushing = FALSE]
             ELSE Decoded([dtk EXCEPT !.reading = FALSE], inflight)
    IN /\ inflight # None
       /\ IF Wants(d)
          THEN dtk' = [d EXCEPT !.reading = TRUE] /\ inflight' = d.current.position
          ELSE dtk' = d /\ inflight' = None

Next ==
    /\ \/ \E s \in Starts, n \in Lengths : Play(Track(s, n))
       \/ StopAtEnd
       \/ Cancel
       \/ \E n \in 0..Capacity : Mix(n)
       \/ Callback
    /\ UNCHANGED atonce

Spec == Init /\ [][Next]_vars

(* The block driver answers every request (EveryTransferEnds), and the     *)
(* game's audio DMA goes on and takes samples of the stream.               *)
Listening == (\E n \in 1..Capacity : Mix(n)) /\ UNCHANGED atonce
FairSpec  == Spec /\ WF_vars(Callback /\ UNCHANGED atonce) /\ WF_vars(Listening)
-----------------------------------------------------------------------------
(* Properties *)

(* A read that is outstanding is known to be (dtk.reading), and unless its *)
(* track was cancelled (dtk.flushing) it is for the block the stream       *)
(* stands at, which is played and for which there is room: whatever the    *)
(* game did since it was asked for (emulator.c:560-579, 729-769).          *)
ReadIsCurrent ==
    inflight # None =>
        /\ dtk.reading
        /\ ~dtk.flushing =>
              /\ dtk.playing /\ inflight = dtk.current.position
              /\ Len(dtk.fifo) + BlockUnits <= Capacity

Stream == INSTANCE DtkStream WITH
    stream <- [on |-> dtk.playing, ending |-> dtk.stopping, cur |-> dtk.current,
               nxt |-> dtk.next, line |-> dtk.fifo]

(* The emulation implements the stream of DtkStream: no block is skipped,  *)
(* repeated, dropped for want of room, taken from a cancelled track, or    *)
(* decoded in the state another block left (emulator.c:526-592, 729-769).  *)
ImplementsStream == Stream!StreamSpec

(* The track that is played goes on from the block p, or stops there. *)
GoesOnFrom(p) ==
    (dtk.playing /\ dtk.current.position = p)
        ~> (~dtk.playing \/ dtk.current.position # p)

Blocks == UNION {s..s + n - 1 : s \in Starts, n \in Lengths}

(* While the game listens, a track goes on from each of its blocks until   *)
(* it stops, if the driver never answers at once.                          *)
TrackGoesOnLater == atonce = {} => \A p \in Blocks : GoesOnFrom(p)

(* While the game listens, a track goes on from each of its blocks until   *)
(* it stops: "a compressed audio track" is "played in the background"      *)
(* (cube/swiss/source/gui/settings.c:120).                                 *)
TrackGoesOn == \A p \in Blocks : GoesOnFrom(p)
=============================================================================
