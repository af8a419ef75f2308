------------------------------ MODULE SdQueueMC ------------------------------
(* Instances of SdQueue for TLC: the builds of the Makefile.               *)
EXTENDS SdQueue

CONSTANTS dvd, dtk, carda

(* The .card build: disc images, and memory card images that are written.  *)
(* The disc lies on sectors 0..2, the card on the last one.                *)
CardRegion   == [c \in Clients |-> IF c = dvd THEN 0..2 ELSE {3}]
CardMaxCount == [c \in Clients |-> IF c = dvd THEN 3 ELSE 1]

(* The .dtk build: the disc is read and streamed from. *)
DtkRegion    == [c \in Clients |-> IF c = dvd THEN 0..2 ELSE 1..3]
DtkMaxCount  == [c \in Clients |-> IF c = dvd THEN 3 ELSE 1]

(* Every sector starts with contents of its own. *)
Distinct == [s \in 0..LastSector |-> s]
=============================================================================
