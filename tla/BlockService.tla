----------------------------- MODULE BlockService -----------------------------
(***************************************************************************)
(* What the block drivers promise their clients (do_read_write_async of    *)
(* frag.h): a request that is accepted is performed on the medium at one   *)
(* moment between the call and the callback, and is answered once, with    *)
(* the sector's contents at that moment.  A transfer of several sectors    *)
(* is a chain of requests, each made by the callback of the one before.    *)
(***************************************************************************)
EXTENDS Integers

CONSTANTS Clients, Sectors, Vals, Payloads, MaxCount, None, Error

VARIABLES
    store,   \* [Sectors -> Vals]: the medium
    pend     \* [Clients -> None, an asked request or a served one]

serviceVars == <<store, pend>>

Asked(s, n, d)    == [stage |-> "asked", sector |-> s, count |-> n, data |-> d]
Served(s, n, a)   == [stage |-> "served", sector |-> s, count |-> n, answer |-> a]

ServiceInit ==
    /\ store \in [Sectors -> Vals]
    /\ pend = [c \in Clients |-> None]

(* A client asks for a transfer of n sectors from s on, or writes d to s. *)
NewRequest(c) ==
    {Asked(s, n, d) : s \in Sectors, n \in 0..MaxCount[c], d \in Payloads \cup {None}}

Ask(c) ==
    /\ pend[c] = None
    /\ pend'[c] \in NewRequest(c) /\ pend' = [pend EXCEPT ![c] = pend'[c]]
    /\ UNCHANGED store

(* The request takes effect on the medium; a write may be rejected. *)
Serve(c) ==
    LET p == pend[c] IN
    /\ p # None /\ p.stage = "asked"
    /\ \/ /\ p.data = None
          /\ pend' = [pend EXCEPT ![c] = Served(p.sector, p.count, store[p.sector])]
          /\ UNCHANGED store
       \/ /\ p.data # None
          /\ pend' = [pend EXCEPT ![c] = Served(p.sector, p.count, p.data)]
          /\ store' = [store EXCEPT ![p.sector] = p.data]
       \/ /\ p.data # None
          /\ pend' = [pend EXCEPT ![c] = Served(p.sector, p.count, Error)]
          /\ UNCHANGED store

(* The callback: the answer, and the request for the next sector of the    *)
(* transfer if there is one; at its end the client may start another.      *)
Answer(c) ==
    LET p == pend[c] IN
    /\ p # None /\ p.stage = "served"
    /\ pend'[c] \in IF p.count > 1 THEN {Asked(p.sector + 1, p.count - 1, None)}
                    ELSE {None} \cup NewRequest(c)
    /\ pend' = [pend EXCEPT ![c] = pend'[c]]
    /\ UNCHANGED store

ServiceNext == \E c \in Clients : Ask(c) \/ Serve(c) \/ Answer(c)

ServiceSpec == ServiceInit /\ [][ServiceNext]_serviceVars
=============================================================================
