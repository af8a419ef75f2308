----------------------------- MODULE DiscReadMC -----------------------------
(* An instance of DiscRead for TLC: every game with two discs of ten units *)
(* in one run or two, and up to two patched parts of at least 32 bytes,    *)
(* with an apploader image or without; units are of 16 bytes, clusters of  *)
(* four units.                                                             *)
EXTENDS DiscRead

(* The runs a file of n units may lie in. *)
Layouts(n) == {<<n>>} \cup IF n > 4 THEN {<<4, n - 4>>} ELSE {}

Patches == {[disc |-> d, offset |-> o, size |-> n, runs |-> <<n>>] :
               d \in Discs, o \in {0, 2, 3, 5}, n \in {2, 3, 4}}
           \cup {[disc |-> Disc1, offset |-> o, size |-> 6, runs |-> <<4, 2>>] : o \in {0, 1, 4}}

Games ==
    {[disc1 |-> l, disc2 |-> <<>>, apploader |-> a, patches |-> p, tgc |-> a # <<>>,
      current |-> Disc1] :
        l \in Layouts(10), a \in {<<>>, <<4>>},
        p \in {q \in SeqOf(Patches, 2) : \A i \in 1..Len(q) : q[i].disc = Disc1}}
    \cup
    {[disc1 |-> <<10>>, disc2 |-> <<4, 4>>, apploader |-> <<>>, patches |-> p, tgc |-> FALSE,
      current |-> c] : c \in Discs, p \in SeqOf(Patches, 1)}
=============================================================================
