---------------------------- MODULE GcodeQueueMC ----------------------------
(* Instances of GcodeQueue for TLC: the builds of the Makefile.            *)
EXTENDS GcodeQueue

CONSTANTS carda, cardb, dtk

(* gcloader-v2.bin, .card.bin and .dtk.bin. *)
PlainBuild == [clients |-> {}, size |-> 2, delays |-> TRUE]
CardBuild(cards) == [clients |-> cards, size |-> 4, delays |-> FALSE]
DtkBuild == [clients |-> {dtk}, size |-> 3, delays |-> FALSE]

AllBuilds == {PlainBuild, CardBuild({carda, cardb}), DtkBuild}
LiveBuilds == {PlainBuild, CardBuild({carda})}

(* Part 2 of disc 0 is patched, by sector 0; disc 1 is not.  The apploader *)
(* is a file of its own, on sector 0 too.                                  *)
SmallLayout == [i \in Images |-> [p \in Parts |->
    IF i = Apploader \/ (i = 0 /\ p = 2) THEN 0 ELSE OnDisc]]

(* The image of card A is sector 1, that of card B sector 2. *)
OneSector == [c \in Cards |-> IF c = carda THEN {1} ELSE {2}]

(* Only card A is written. *)
OneWriter == [c \in Cards |-> IF c = carda THEN {3} ELSE {}]

(* Each card writes something of its own. *)
OnePayload == [c \in Cards |-> IF c = carda THEN {3} ELSE {4}]

(* Every sector starts with contents of its own. *)
Distinct == [s \in Sectors |-> s]
=============================================================================
