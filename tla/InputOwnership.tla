--------------------------- MODULE InputOwnership ---------------------------
(***************************************************************************)
(* What a receiver promises about input: it has one owner at a time, only  *)
(* the owner's keys are down, and an owner that leaves takes its keys      *)
(* along.                                                                  *)
(***************************************************************************)
CONSTANTS Drivers, Keys, None
VARIABLES owner, held

vars == <<owner, held>>

Init == owner = None /\ held = [d \in Drivers |-> {}]

Take(d) == owner = None /\ owner' = d /\ UNCHANGED held

Hold(d, ks) ==
    owner = d /\ held' = [held EXCEPT ![d] = ks] /\ UNCHANGED owner

Leave(d) ==
    owner = d /\ owner' = None /\ held' = [held EXCEPT ![d] = {}]

Next == \E d \in Drivers :
    Take(d) \/ Leave(d) \/ \E ks \in SUBSET Keys : Hold(d, ks)

Spec == Init /\ [][Next]_vars
=============================================================================
