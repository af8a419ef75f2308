----------------------------- MODULE AtaQueueMC -----------------------------
(* An instance of AtaQueue for TLC, the .card build of the Makefile: the   *)
(* disc on the first sectors, the memory card on the last.                 *)
EXTENDS AtaQueue

CONSTANTS dvd, carda

CardRegion   == [c \in Clients |-> IF c = dvd THEN 0..LastSector - 1 ELSE {LastSector}]
CardMaxCount == [c \in Clients |-> IF c = dvd THEN 2 ELSE 1]

(* Every sector starts with contents of its own. *)
Distinct == [s \in 0..LastSector |-> s]
=============================================================================
