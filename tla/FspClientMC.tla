----------------------------- MODULE FspClientMC -----------------------------
(* Instances of FspClient for TLC. *)
EXTENDS FspClient

CONSTANTS dvd, dtk

(* The disc reader seeks and reads up to two packets; a block of audio is  *)
(* one packet.                                                             *)
DtkLength == [c \in Clients |-> IF c = dvd THEN {0, 2} ELSE {1}]
=============================================================================
