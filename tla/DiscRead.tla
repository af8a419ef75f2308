------------------------------ MODULE DiscRead ------------------------------
(***************************************************************************)
(* How a read of the game's disc reaches files: the table of fragments the *)
(* launcher builds (getFragments in swiss/source/devices/deviceHandler.c,  *)
(* called by setupFile of deviceHandler-FAT.c), the search in it under the *)
(* game (patches/base/frag.c) and the reads of one command, piece by piece *)
(* (patches/base/blockdevice.c with ASYNC_READ).                           *)
(*                                                                         *)
(* Patched parts of a disc are files of their own, laid over the image: of *)
(* the fragments that hold an offset the first in the table counts, and a  *)
(* read must not run from the image into a patch.  Offsets are counted in  *)
(* units; Granule units are the 32 bytes OSRoundUp32B rounds to, modulo    *)
(* Word, as the unsigned arithmetic of the code.                           *)
(***************************************************************************)
EXTENDS Integers, Sequences, FiniteSetsExt, SequencesExt

CONSTANTS
    Setups,       \* the games a user may start: see Setup below
    Granule,      \* 32 bytes
    Sector,       \* 512 bytes
    Block,        \* 32768 bytes
    Word,         \* 2^32
    ApploaderAt,  \* 0x2440
    Lengths,      \* the lengths of the reads of the game, multiples of 32 bytes; 0 to seek
    None          \* no read, contents that belong to no file

Disc1 == 0
Disc2 == 1
Apploader == 3
Discs == {Disc1, Disc2}

(* The offsets in a file at which its runs end, and how long it is. *)
Sums(runs) ==
    LET sum[i \in 0..Len(runs)] == IF i = 0 THEN 0 ELSE sum[i - 1] + runs[i] IN sum

Total(runs) == Sums(runs)[Len(runs)]

(* Runs of clusters, of which every one but what the last is used of is a  *)
(* multiple of 32 bytes.                                                   *)
Runs        == Seq(Nat \ {0})
Whole(runs) == \A i \in 1..Len(runs) - 1 : runs[i] % Granule = 0

PatchedPart == [disc : Discs, offset : Nat, size : Nat, runs : Runs]
Setup ==
    [disc1 : Runs, disc2 : Runs, apploader : Runs, patches : Seq(PatchedPart),
     tgc : BOOLEAN, current : Discs]

(* A setup has the files of the discs and of the apploader image, as the   *)
(* lengths of their runs of clusters (no runs: there is no such file), and *)
(* the patched parts: the disc, where in it, how much, the runs of the     *)
(* patch file.  tgc says the game is a TGC file, current which disc is in. *)
ASSUME DiscReadAssumption ==
    /\ Granule \in Nat \ {0} /\ Word \in Nat \ {0} /\ Word % Granule = 0
    /\ Sector \in Nat \ {0} /\ Sector % Granule = 0
    /\ Block \in Nat \ {0} /\ Block % Sector = 0
    /\ \A n \in Lengths : n \in Nat /\ n % Granule = 0
    /\ ApploaderAt \in Nat /\ ApploaderAt % Granule = 0
    /\ Setups \subseteq Setup
    /\ \A s \in Setups :
          /\ s.disc1 # <<>> /\ (s.disc2 = <<>> => s.current = Disc1)
          /\ s.tgc => s.apploader # <<>>
          /\ \A runs \in {s.disc1, s.disc2, s.apploader} :
                Whole(runs) /\ Total(runs) < Word - Granule
          /\ \A i \in 1..Len(s.patches) :
                LET p == s.patches[i] IN
                Whole(p.runs) /\ p.size <= Total(p.runs) /\ p.size < Word - Granule

VARIABLES
    setup,     \* the game that runs
    frags,     \* VAR_FRAG_LIST: the table of its fragments
    flags,     \* VAR_DRIVE_FLAGS: two (bit 0), apploader (bit 1)
    disc,      \* VAR_CURRENT_DISC
    dvd,       \* the struct dvd, and disc, start and got: history of the last command, the
               \*   disc in the drive, its first offset and what was read so far
    piece      \* the read the block driver has: its offset, length, place; or None

vars == <<setup, frags, flags, disc, dvd, piece>>

-----------------------------------------------------------------------------
(* The table.                                                              *)

MinOf(a, b) == IF a <= b THEN a ELSE b

(* OSRoundUp32B *)
Round(x) == (((x + Granule - 1) % Word) \div Granule) * Granule

(* The offset in a file at which its run i starts. *)
RunStart(runs, i) == Sums(runs)[i - 1]

(* What getFragments is called for: a file by its name and runs, to lie    *)
(* from offset base on in file for size at most.                           *)
Part(name, runs, file, base, size) ==
    [name |-> name, runs |-> runs, file |-> file, base |-> base, size |-> size]

(* setupFile of deviceHandler-FAT.c: the patched parts in their order, the *)
(* discs, the apploader.                                                   *)
Parts(s) ==
    [i \in 1..Len(s.patches) |->
        Part(<<"patch", i>>, s.patches[i].runs, s.patches[i].disc,
             s.patches[i].offset, s.patches[i].size)]
    \o <<Part(<<"disc", Disc1>>, s.disc1, Disc1, 0, Word - 1),
         Part(<<"disc", Disc2>>, s.disc2, Disc2, 0, Word - 1),
         Part(<<"disc", Apploader>>, s.apploader, Apploader, ApploaderAt, Total(s.apploader))>>

(* getFragments: a fragment for each run until size is used up.  A place   *)
(* on the device is named by the file and the offset of the run in it.     *)
Fragments(p) ==
    [i \in {j \in 1..Len(p.runs) : RunStart(p.runs, j) < p.size} |->
        [file |-> p.file, offset |-> p.base + RunStart(p.runs, i),
         size |-> MinOf(p.runs[i], p.size - RunStart(p.runs, i)),
         data |-> [of |-> p.name, at |-> RunStart(p.runs, i)]]]

(* Each call adds its fragments to those of the calls before. *)
Table(s) ==
    LET laid[i \in 0..Len(Parts(s))] ==
            IF i = 0 THEN <<>> ELSE laid[i - 1] \o Fragments(Parts(s)[i])
    IN  laid[Len(Parts(s))]

-----------------------------------------------------------------------------
(* The search.                                                             *)

Holds(f, file, offset) == f.file = file /\ f.offset <= offset /\ offset < f.offset + f.size

(* The fragments of a file that hold an offset. *)
Found(file, offset) == {i \in 1..Len(frags) : Holds(frags[i], file, offset)}

(* fault: only the fragment that holds the offset limits the read *)
LimitsFault(file, offset, i) == {}

(* What the fragments before fragment i leave of a read: up to where they  *)
(* start, and for one that ends before the offset a number near 2^32.      *)
Limits(file, offset, i) ==
    {Round((frags[j].offset - offset) % Word) : j \in {k \in 1..i - 1 : frags[k].file = file}}

(* frag_get. *)
FragGet(file, offset, size) ==
    LET i == Min(Found(file, offset))
        f == frags[i]
        o == offset - f.offset IN
    [offset |-> o, data |-> f.data,
     size |-> Min({size, (Round(f.size) - o) % Word} \cup Limits(file, offset, i))]

-----------------------------------------------------------------------------
(* The command.                                                            *)

NoRead == [length |-> 0, offset |-> 0, read |-> FALSE, disc |-> None, start |-> 0, got |-> <<>>]

Init ==
    /\ setup \in Setups /\ frags = Table(setup)
    /\ flags = [two |-> setup.disc2 # <<>>, apploader |-> setup.tgc]
    /\ disc = setup.current
    /\ dvd = NoRead
    /\ piece = None

(* The part of a disc the game reads: the image, or the apploader.         *)
Image(file) ==
    IF file = Disc1 THEN 0..Total(setup.disc1) - 1
    ELSE IF file = Disc2 THEN 0..Total(setup.disc2) - 1
    ELSE ApploaderAt..ApploaderAt + Total(setup.apploader) - 1

(* fault: what is left of a sector is counted from the wrong end *)
TakenFault(p) == {MinOf(p.size, (0 - p.offset) % Sector)}

(* What a block driver takes of a piece: up to the end of the sector       *)
(* (sd.c, ata.c), of the block (wkf.c), or all of it (gcloader.c).         *)
ToSector(p) == MinOf(p.size, Sector - (p.offset % Sector))
ToBlock(p)  == MinOf(p.size, Block - (Round(p.offset) % Block))

Taken(p) == {p.size, ToSector(p), ToBlock(p)}

(* schedule_read, with a read to go on: frag_read_async. *)
Schedule(file, length, offset) ==
    \E n \in Taken(FragGet(file, offset, length)) :
        piece' = [FragGet(file, offset, length) EXCEPT !.size = n]

(* perform_read: the offset of the apploader is the sign to read its image.*)
Redirected(offset) == IF flags.apploader /\ offset = ApploaderAt THEN Apploader ELSE disc

PerformRead(length, offset) ==
    LET file   == Redirected(offset)
        reload == flags.apploader /\ offset = ApploaderAt IN
    /\ ~dvd.read
    /\ offset..offset + length - 1 \subseteq Image(file)
    /\ disc' = file
    /\ flags' = IF reload THEN [two |-> FALSE, apploader |-> FALSE] ELSE flags
    /\ dvd' = [length |-> length, offset |-> offset, read |-> TRUE,
               disc |-> IF reload THEN Apploader ELSE disc, start |-> offset, got |-> <<>>]
    /\ Schedule(file, length, offset)
    /\ UNCHANGED <<setup, frags>>

(* What lies at a place of the device: the file's, within the run.         *)
RunsOf(name) == IF name[1] = "patch" THEN setup.patches[name[2]].runs
                ELSE IF name[2] = Disc1 THEN setup.disc1
                ELSE IF name[2] = Disc2 THEN setup.disc2 ELSE setup.apploader

Contents(data, k) ==
    IF \E i \in 1..Len(RunsOf(data.of)) :
          RunStart(RunsOf(data.of), i) = data.at /\ k < RunsOf(data.of)[i]
    THEN [of |-> data.of, at |-> data.at + k]
    ELSE None

(* read_callback and schedule_read after it; at the end of the read        *)
(* di_complete_transfer, and what was read is the game's.                  *)
ReadCallback ==
    LET n == piece.size IN
    /\ piece # None
    /\ dvd' = [dvd EXCEPT !.length = @ - n, !.offset = @ + n, !.read = dvd.length # n,
                  !.got = @ \o [k \in 1..n |-> Contents(piece.data, piece.offset + k - 1)]]
    /\ IF dvd.length # n
       THEN Schedule(disc, dvd.length - n, dvd.offset + n)
       ELSE piece' = None
    /\ UNCHANGED <<setup, frags, flags, disc>>

(* change_disc, by a STOP_MOTOR command; commands come one at a time. *)
ChangeDisc ==
    /\ ~dvd.read
    /\ flags.two
    /\ disc' = 1 - disc
    /\ UNCHANGED <<setup, frags, flags, dvd, piece>>

Next ==
    \/ \E length \in Lengths : \E offset \in Image(disc) : PerformRead(length, offset)
    \/ ReadCallback
    \/ ChangeDisc

Spec == Init /\ [][Next]_vars

(* The block driver ends every read it takes. *)
FairSpec == Spec /\ WF_vars(ReadCallback)
-----------------------------------------------------------------------------
(* Properties *)

(* What a read of a disc means: the first patched part that holds the      *)
(* offset, or else the image.                                              *)
Meant(file, x) ==
    LET over == {i \in 1..Len(setup.patches) :
                    LET p == setup.patches[i] IN
                    p.disc = file /\ p.offset <= x /\ x < p.offset + p.size} IN
    IF over # {} THEN [of |-> <<"patch", Min(over)>>, at |-> x - setup.patches[Min(over)].offset]
    ELSE [of |-> <<"disc", file>>, at |-> IF file = Apploader THEN x - ApploaderAt ELSE x]

PatchesOf(file) == {p \in ToSet(setup.patches) : p.disc = file}

Edges(file) == UNION {{p.offset, p.offset + p.size} : p \in PatchesOf(file)}

(* The command, and every patched part of the disc, keep to 32 bytes. *)
Aligned ==
    /\ dvd.start % Granule = 0
    /\ \A p \in PatchesOf(dvd.disc) : p.offset % Granule = 0 /\ p.size % Granule = 0

(* Every unit the game gets is the one the disc in the drive has there,    *)
(* with the patched parts laid over it in their order.  When they or the   *)
(* command do not keep to 32 bytes, this may fail in the 32 bytes after an *)
(* end of a patched part, and nowhere else: by its rounding (frag.c:67 and *)
(* 72) a read may run over the end.                                        *)
ReadIsOverlay ==
    \A k \in 1..Len(dvd.got) :
        LET x == dvd.start + k - 1 IN
        \/ dvd.got[k] = Meant(dvd.disc, x)
        \/ ~Aligned /\ \E e \in Edges(dvd.disc) : e <= x /\ x < e + Granule

(* Every read of the disc ends: no piece is empty, none runs beyond what   *)
(* is asked for (frag.c:56-78, blockdevice.c:44-71).                       *)
EveryReadEnds == dvd.read ~> ~dvd.read
=============================================================================
