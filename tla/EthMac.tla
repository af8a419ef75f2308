------------------------------- MODULE EthMac -------------------------------
(***************************************************************************)
(* The emulated broadband adapter, cube/patches/base/emulator_eth.c, on    *)
(* top of the ENC28J60 driver, cube/patches/bba/enc28j60.c: a game that    *)
(* drives a Nintendo adapter exchanges frames through another network chip.*)
(*                                                                         *)
(* Frames arrive in a ring of pages of the emulated chip while the game    *)
(* reads the ring; the chip's registers tell the game that there is        *)
(* something to read.  The driver may have to wait for the EXI bus, which  *)
(* the game's own drivers use, and serves the network chip's interrupt and *)
(* the frame the game sends when it gets it.                               *)
(*                                                                         *)
(* The game is external.  Its driver is taken to use the chip as           *)
(* cube/patches/bba/bba.c:213-296 does, but to acknowledge an interrupt    *)
(* before it reads the ring.                                               *)
(***************************************************************************)
EXTENDS Integers, Sequences, FiniteSets

CONSTANTS
    Users,        \* the game's drivers of other devices on the network chip's channel
    LastPage,     \* BBA_RHBP: the ring has the pages 1..LastPage, BBA_BP is 1
    MaxPages,     \* the pages of the longest frame, its header included
    ChipRoom,     \* frames the network chip holds
    FifoSize,     \* writes to the transmit fifo for the longest frame
    Masks,        \* the values of BBA_IMR games choose: sets of interrupts
    Eth,          \* the driver, as an owner of the bus lock
    None,         \* NULL, no owner, a page whose contents no longer matter
    Mixed         \* a page that two frames have been written to

Pages == 1..LastPage

ASSUME EthMacAssumption ==
    /\ LastPage \in Nat \ {0, 1} /\ MaxPages \in Nat \ {0}
    /\ ChipRoom \in Nat \ {0} /\ FifoSize \in Nat \ {0}
    /\ Masks \subseteq SUBSET {"RI", "TI"} /\ \A m \in Masks : "RI" \in m
    /\ Eth \notin Users /\ None \notin Users \cup {Eth, Mixed} \cup Int
    /\ Mixed \notin Int

VARIABLES
    regs,      \* BBA_NCRA (sr, st1), BBA_IMR, BBA_IR, BBA_RWP, BBA_RRP
    exi,       \* eth.exi.imr and isr, the bit 0x80 of each, and the EXI interrupt of the game
    page,      \* the ring: which piece of its frame a page holds, or None, Mixed
    header,    \* the header at the start of a frame's first page: next, pages
    fifo,      \* the transmit fifo, up to txfifocnt
    nic,       \* the network chip: frames it holds (their pages), INTIE, the latched
               \*   interrupt
    pending,   \* enc28j60.interrupt
    output,    \* enc28j60.output: the size, or None when there is no callback
    ctl,       \* the point exi_callback has reached, "idle" for none
    lock,      \* owner of the EXI channel
    waiters,   \* callbacks registered by a failed EXILock, in order
    game,      \* the game's interrupt handler: the point it has reached, the interrupts
               \*   it serves, the header and the pieces it has read
    tx,        \* the game's sender: its point, the frame it sends
    unread,    \* history: the frames delivered and not read, as their numbers of pages
    lapped,    \* history: a frame has filled the ring to the last page
    handed     \* history: what the chip was given since the game last asked

driver == <<pending, output, ctl>>
bus    == <<lock, waiters>>
past   == <<unread, lapped, handed>>
vars   == <<regs, exi, page, header, fifo, nic, driver, bus, game, tx, past>>

-----------------------------------------------------------------------------
Init ==
    /\ \E m \in Masks :
          regs = [sr |-> TRUE, st1 |-> FALSE, imr |-> m, ir |-> {}, rwp |-> 1, rrp |-> 1]
    /\ exi = [imr |-> TRUE, isr |-> FALSE, int |-> FALSE]
    /\ page = [p \in Pages |-> None] /\ header = [p \in Pages |-> None]
    /\ fifo = <<>>
    /\ nic = [held |-> <<>>, intie |-> TRUE, latch |-> FALSE]
    /\ pending = FALSE /\ output = None /\ ctl = "idle"
    /\ lock = None /\ waiters = <<>>
    /\ game = [at |-> "idle", ir |-> {}, head |-> None, got |-> <<>>]
    /\ tx = [at |-> "idle", frame |-> 0]
    /\ unread = <<>> /\ lapped = FALSE /\ handed = <<>>

(* eth_update_interrupts, with the interrupts ir asked for and the mask imr*)
(* and status isr of the command registers.                                *)
Updated(ir, imr, isr) ==
    LET s == isr \/ ir # {} IN
    [imr |-> imr, isr |-> s, int |-> exi.int \/ (s /\ imr)]

(* What an event e of the chip does to BBA_IR and the command registers.   *)
Raised(e) == IF e \in regs.imr THEN regs.ir \cup {e} ELSE regs.ir
Noticed(e) == IF e \in regs.imr THEN Updated(Raised(e), exi.imr, exi.isr) ELSE exi

-----------------------------------------------------------------------------
(* The ring.                                                               *)

(* The page k pages after p, from BBA_RHBP back to BBA_BP. *)
After(p, k) == ((p - 1 + k) % LastPage) + 1

(* fault: the pointers are compared one page too late *)
RoomFault == IF regs.rwp = regs.rrp THEN LastPage
             ELSE ((regs.rrp - regs.rwp) % LastPage) + 1

(* The pages eth_mac_receive fills before it meets the page the game reads *)
(* next; with equal pointers the ring is taken to be empty.                *)
Room == IF regs.rwp = regs.rrp THEN LastPage
        ELSE (regs.rrp - regs.rwp) % LastPage

(* eth_mac_receive of a frame of n pages: its pieces are copied as far as  *)
(* there is room; it counts when all of it fits.  (Once a frame has filled *)
(* the ring to the last page its contents are not followed.)               *)
Receive(n) ==
    LET fits  == n <= Room
        next  == After(regs.rwp, n)
        at(p) == (p - regs.rwp) % LastPage     \* the piece that goes to page p
        piece(p) == IF page[p] # None THEN Mixed ELSE IF fits THEN at(p) ELSE None
    IN
    IF regs.sr
    THEN /\ lapped' = (lapped \/ (fits /\ next = regs.rrp))
         /\ page' = [p \in Pages |-> IF lapped' THEN None
                                     ELSE IF at(p) < n /\ at(p) < Room THEN piece(p) ELSE page[p]]
         /\ header' = [p \in Pages |-> IF lapped' THEN None
                                       ELSE IF p # regs.rwp THEN header[p]
                                       ELSE IF fits THEN [next |-> next, pages |-> n] ELSE None]
         /\ IF fits
            THEN /\ regs' = [regs EXCEPT !.rwp = next, !.ir = Raised("RI")]
                 /\ exi' = Noticed("RI")
                 /\ unread' = IF lapped' THEN <<>> ELSE Append(unread, n)
            ELSE UNCHANGED <<regs, exi, unread>>
    ELSE UNCHANGED <<page, header, regs, exi, unread, lapped>>

-----------------------------------------------------------------------------
(* The network chip (external), as enc28j60.c uses it: it interrupts when  *)
(* it is allowed to (INTIE) and holds a frame, on the rising edge.         *)

Arrive(n) ==
    /\ Len(nic.held) < ChipRoom
    /\ nic' = [nic EXCEPT !.held = Append(@, n),
                          !.latch = @ \/ (nic.intie /\ nic.held = <<>>)]
    /\ UNCHANGED <<regs, exi, page, header, fifo, driver, bus, game, tx, past>>

-----------------------------------------------------------------------------
(* enc28j60.c                                                              *)

(* exi_interrupt_handler, up to exi_callback. *)
Interrupt ==
    /\ ctl = "idle" /\ nic.latch
    /\ nic' = [nic EXCEPT !.latch = FALSE]
    /\ pending' = TRUE
    /\ ctl' = "callback"
    /\ UNCHANGED <<regs, exi, page, header, fifo, output, bus, game, tx, past>>

(* exi_callback: EXILock fails and will call back, once. *)
LockBusy ==
    /\ ctl = "callback" /\ lock # None
    /\ waiters' = IF \E k \in 1..Len(waiters) : waiters[k] = Eth
                  THEN waiters ELSE Append(waiters, Eth)
    /\ ctl' = "idle"
    /\ UNCHANGED <<regs, exi, page, header, fifo, nic, pending, output, lock, game, tx, past>>

(* exi_callback with the bus; enc28j60_interrupt clears INTIE before it    *)
(* asks how many frames there are.                                         *)
LockTaken ==
    /\ ctl = "callback" /\ lock = None
    /\ lock' = Eth
    /\ IF pending
       THEN /\ nic' = [nic EXCEPT !.intie = FALSE]
            /\ ctl' = IF nic.held # <<>> THEN "fetch" ELSE "enable"
       ELSE UNCHANGED nic /\ ctl' = "output"
    /\ UNCHANGED <<regs, exi, page, header, fifo, pending, output, waiters, game, tx, past>>

(* enc28j60_interrupt: the oldest frame goes to the ring, and out of the   *)
(* chip.                                                                   *)
Fetch ==
    /\ ctl = "fetch"
    /\ Receive(Head(nic.held))
    /\ nic' = [nic EXCEPT !.held = Tail(@)]
    /\ ctl' = "enable"
    /\ UNCHANGED <<fifo, pending, output, bus, game, tx, handed>>

(* enc28j60_interrupt, its end: with a frame left the chip interrupts at   *)
(* once.                                                                   *)
Enable ==
    /\ ctl = "enable"
    /\ nic' = [nic EXCEPT !.intie = TRUE, !.latch = @ \/ nic.held # <<>>]
    /\ pending' = FALSE
    /\ ctl' = "output"
    /\ UNCHANGED <<regs, exi, page, header, fifo, output, bus, game, tx, past>>

(* fault: txfifocnt is not cleared *)
TransmittedFault ==
    /\ UNCHANGED fifo
    /\ regs' = [regs EXCEPT !.st1 = FALSE, !.ir = Raised("TI")]
    /\ exi' = Noticed("TI")

(* eth_mac_transmit, after bba_output has handed the frame to the chip. *)
Transmitted ==
    /\ fifo' = <<>>
    /\ regs' = [regs EXCEPT !.st1 = FALSE, !.ir = Raised("TI")]
    /\ exi' = Noticed("TI")

(* exi_callback: the frame the game sends, if there is one, is copied to    *)
(* the chip, which is told to send it; the game's register is cleared at    *)
(* once, while the chip may still be sending (enc28j60.c:212-228).          *)
Output ==
    /\ ctl = "output"
    /\ IF output # None
       THEN /\ handed' = Append(handed, SubSeq(fifo, 1, output))
            /\ Transmitted
            /\ output' = None
       ELSE UNCHANGED <<handed, fifo, regs, exi, output>>
    /\ ctl' = "unlock"
    /\ UNCHANGED <<page, header, nic, pending, bus, game, tx, unread, lapped>>

(* EXIUnlock: the first waiter is called back, which starts by taking the  *)
(* lock; exi_callback takes it itself.                                     *)
HandOver ==
    /\ lock' = IF waiters = <<>> \/ Head(waiters) = Eth THEN None ELSE Head(waiters)
    /\ waiters' = IF waiters = <<>> THEN <<>> ELSE Tail(waiters)
    /\ ctl' = IF waiters # <<>> /\ Head(waiters) = Eth THEN "callback" ELSE "idle"

Unlock ==
    /\ ctl = "unlock"
    /\ HandOver
    /\ UNCHANGED <<regs, exi, page, header, fifo, nic, pending, output, game, tx, past>>

-----------------------------------------------------------------------------
(* The game: the registers it writes are the emulation's, the order it     *)
(* writes them in is its own.                                              *)

Step(from, to) == ctl = "idle" /\ game.at = from /\ game' = [game EXCEPT !.at = to]

GameKeeps == UNCHANGED <<fifo, nic, driver, bus, tx, lapped, handed>>

RingKept == UNCHANGED <<page, header, unread>>

(* The system's interrupt handler clears the interrupt of the EXI channel. *)
GameInterrupt ==
    /\ exi.int /\ Step("idle", "mask")
    /\ exi' = [exi EXCEPT !.int = FALSE]
    /\ UNCHANGED regs /\ RingKept /\ GameKeeps

(* eth_exi_imm, command 0x42 with IRMASKALL. *)
Mask ==
    /\ Step("mask", "ir")
    /\ exi' = Updated(regs.ir, FALSE, exi.isr)
    /\ UNCHANGED regs /\ RingKept /\ GameKeeps

(* eth_exi_imm, command 0x03, and a read of BBA_IR. *)
ReadIR ==
    /\ ctl = "idle" /\ game.at = "ir"
    /\ game' = [game EXCEPT !.at = IF exi.isr THEN "ack" ELSE "clear",
                            !.ir = IF exi.isr THEN regs.ir ELSE {}]
    /\ UNCHANGED <<regs, exi>> /\ RingKept /\ GameKeeps

(* eth_mac_write, BBA_IR: the bits written as 1 are cleared. *)
AckIR ==
    /\ Step("ack", IF "RI" \in game.ir THEN "ring" ELSE "clear")
    /\ regs' = [regs EXCEPT !.ir = @ \ game.ir]
    /\ UNCHANGED exi /\ RingKept /\ GameKeeps

(* The pointers are compared; a frame's header is read.  What a game makes *)
(* of a ring that has been filled to the last page is not followed.        *)
ReadHeader ==
    /\ ctl = "idle" /\ game.at = "ring" /\ ~lapped
    /\ game' = IF regs.rrp = regs.rwp
               THEN [game EXCEPT !.at = "clear"]
               ELSE [game EXCEPT !.at = "data", !.head = header[regs.rrp]]
    /\ UNCHANGED <<regs, exi>> /\ RingKept /\ GameKeeps

(* eth_exi_dma: the pages of the frame are read. *)
ReadFrame ==
    /\ ctl = "idle" /\ game.at = "data"
    /\ game' = [game EXCEPT !.at = "next",
                   !.got = [i \in 1..game.head.pages |-> page[After(regs.rrp, i - 1)]]]
    /\ UNCHANGED <<regs, exi>> /\ RingKept /\ GameKeeps

(* eth_mac_write, BBA_RRP: the pages of the frame are free. *)
WriteRRP ==
    /\ ctl = "idle" /\ game.at = "next"
    /\ game' = [game EXCEPT !.at = "ring", !.head = None, !.got = <<>>]
    /\ regs' = [regs EXCEPT !.rrp = game.head.next]
    /\ page' = [p \in Pages |-> IF (p - regs.rrp) % LastPage < game.head.pages
                                THEN None ELSE page[p]]
    /\ header' = [header EXCEPT ![regs.rrp] = None]
    /\ unread' = IF unread = <<>> THEN <<>> ELSE Tail(unread)
    /\ UNCHANGED exi /\ GameKeeps

(* eth_exi_imm, command 0x43: the status is cleared and made again. *)
ClearISR ==
    /\ Step("clear", "unmask")
    /\ exi' = Updated(regs.ir, exi.imr, FALSE)
    /\ UNCHANGED regs /\ RingKept /\ GameKeeps

(* fault: a write of the mask does not make the interrupt again *)
UnmaskFault ==
    /\ ctl = "idle" /\ game.at = "unmask"
    /\ game' = [game EXCEPT !.at = "idle", !.ir = {}]
    /\ exi' = [exi EXCEPT !.imr = TRUE]
    /\ UNCHANGED regs /\ RingKept /\ GameKeeps

(* eth_exi_imm, command 0x42 with IRMASKNONE. *)
Unmask ==
    /\ ctl = "idle" /\ game.at = "unmask"
    /\ game' = [game EXCEPT !.at = "idle", !.ir = {}]
    /\ exi' = Updated(regs.ir, TRUE, exi.isr)
    /\ UNCHANGED regs /\ RingKept /\ GameKeeps

(* eth_mac_write, BBA_NCRA: the game stops or starts to receive. *)
SetReceive ==
    /\ ctl = "idle" /\ tx.at = "idle" /\ game.at = "idle"
    /\ regs' = [regs EXCEPT !.sr = ~@]
    /\ UNCHANGED <<exi, page, header, fifo, nic, driver, bus, game, tx, past>>

(* eth_mac_write or eth_exi_dma, BBA_WRTXFIFOD: a part of a frame to send. *)
WriteFifo ==
    /\ ctl = "idle" /\ tx.at \in {"idle", "write"} /\ Len(fifo) < FifoSize
    /\ fifo' = Append(fifo, tx.frame)
    /\ tx' = [tx EXCEPT !.at = "write"]
    /\ UNCHANGED <<regs, exi, page, header, nic, driver, bus, game, past>>

(* eth_mac_write, BBA_NCRA with ST1: bba_output_async. *)
StartTransmit ==
    /\ ctl = "idle" /\ tx.at = "write"
    /\ regs' = [regs EXCEPT !.st1 = TRUE]
    /\ output' = Len(fifo)
    /\ ctl' = "callback"
    /\ tx' = [tx EXCEPT !.at = "wait"]
    /\ handed' = <<>>
    /\ UNCHANGED <<exi, page, header, fifo, nic, pending, bus, game, unread, lapped>>

(* The game finds ST1 clear, by the interrupt or by looking. *)
EndTransmit ==
    /\ ctl = "idle" /\ tx.at = "wait" /\ ~regs.st1
    /\ tx' = [at |-> "idle", frame |-> 1 - tx.frame]
    /\ UNCHANGED <<regs, exi, page, header, fifo, nic, driver, bus, game, past>>

(* The game's drivers of other devices on the network chip's channel. *)
UserLock(u) ==
    /\ ctl = "idle" /\ lock # u
    /\ IF lock = None
       THEN lock' = u /\ UNCHANGED waiters
       ELSE /\ \A k \in 1..Len(waiters) : waiters[k] # u
            /\ waiters' = Append(waiters, u)
            /\ UNCHANGED lock
    /\ UNCHANGED <<regs, exi, page, header, fifo, nic, driver, game, tx, past>>

UserUnlock(u) ==
    /\ ctl = "idle" /\ lock = u
    /\ HandOver
    /\ UNCHANGED <<regs, exi, page, header, fifo, nic, pending, output, game, tx, past>>

-----------------------------------------------------------------------------
Driver ==
    \/ LockBusy
    \/ LockTaken
    \/ Fetch
    \/ Enable
    \/ Output
    \/ Unlock

Handler ==
    \/ GameInterrupt
    \/ Mask
    \/ ReadIR
    \/ AckIR
    \/ ReadHeader
    \/ ReadFrame
    \/ WriteRRP
    \/ ClearISR
    \/ Unmask

Next ==
    \/ \E n \in 1..MaxPages : Arrive(n)
    \/ Interrupt
    \/ Driver
    \/ Handler
    \/ SetReceive
    \/ WriteFifo
    \/ StartTransmit
    \/ EndTransmit
    \/ \E u \in Users : UserLock(u) \/ UserUnlock(u)

Spec == Init /\ [][Next]_vars
-----------------------------------------------------------------------------
(* Properties *)

(* What the game reads is the frame that was delivered first among those   *)
(* it has not read, all of its pieces in order, and the game takes the     *)
(* ring for empty exactly when nothing is left - as long as no frame has   *)
(* filled the ring to the very last page, which emulator_eth.c:78-94       *)
(* cannot tell from an empty ring.                                         *)
FramesIntact ==
    ~lapped =>
        /\ game.at = "next" => unread # <<>> /\ game.got = [i \in 1..Head(unread) |-> i - 1]
        /\ (regs.rrp = regs.rwp) <=> (unread = <<>>)

(* No frame is left where nobody will look for it: with frames in the ring *)
(* and no handler of the game running, the game's interrupt is raised;     *)
(* with frames in the network chip, or one to send, and no handler of the  *)
(* driver running, the chip interrupts or the driver waits for the bus     *)
(* (emulator_eth.c:51-58, 96-99, 206-227, enc28j60.c:148-205: deliveries   *)
(* race with the game's acknowledgements, arrivals with the driver's).     *)
NoFrameStranded ==
    /\ ~lapped /\ game.at = "idle" /\ unread # <<>> => exi.int
    /\ ctl = "idle" /\ nic.held # <<>> => nic.latch \/ pending
    /\ ctl = "idle" /\ (pending \/ output # None) => \E k \in 1..Len(waiters) : waiters[k] = Eth

(* When the game finds its frame sent, the frame was handed to the chip    *)
(* once, as the game had written it (emulator_eth.c:103-112,               *)
(* enc28j60.c:187-191).  Whether the chip has sent it is not said: nothing *)
(* waits for that, and the next frame resets the chip's transmitter.       *)
FrameSentOnce ==
    /\ tx.at = "wait" /\ ~regs.st1 =>
          Len(handed) = 1 /\ Len(handed[1]) > 0 /\ \A i \in 1..Len(handed[1]) : handed[1][i] = tx.frame
    /\ Len(handed) <= 1
=============================================================================
