----------------------------- MODULE WkfReadMC -----------------------------
(* An instance of WkfRead for TLC: discs of twelve units of 8 bytes, in    *)
(* one run or two, with a patched part, also of lengths and at places that *)
(* are no multiples of 32 bytes, and the apploader of a TGC file; sectors  *)
(* of 32 bytes, blocks of 64.                                              *)
EXTENDS WkfRead

Patch(o, n) == [disc |-> Disc1, offset |-> o, size |-> n, runs |-> <<n>>]

Patches == {Patch(0, 5), Patch(3, 4), Patch(3, 7), Patch(6, 4), Patch(6, 5)}

Game(disc2, apploader, patches) ==
    [disc1 |-> <<8, 4>>, disc2 |-> disc2, apploader |-> apploader, patches |-> patches,
     tgc |-> apploader # <<>>, current |-> Disc1]

Games ==
    {Game(<<>>, <<>>, <<p>>) : p \in Patches}
    \cup {Game(<<8>>, <<>>, <<Patch(3, 4)>>), Game(<<>>, <<6>>, <<Patch(6, 5)>>)}
=============================================================================
