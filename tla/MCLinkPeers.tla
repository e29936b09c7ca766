---------------------------- MODULE MCLinkPeers ----------------------------
(* What must not outlive the person's will: keys that a driven machine holds *)
(* (HeldKeys), and links between two identities of one machine while saves   *)
(* of the peer book fail (LinkLifecycle).  A behaviour takes the steps of    *)
(* one of them; the other stays where it began.                              *)
EXTENDS HeldKeys, MCLinkLifecycle

VARIABLE view

peersVars == <<view, heldVars, vars>>

PeersInit ==
    /\ view \in {"keys", "link"}
    /\ HeldInit /\ Init
    /\ view = "link" => driver = "topology"

PeersNext ==
    /\ UNCHANGED view
    /\ \/ view = "keys" /\ HeldNext /\ UNCHANGED vars
       \/ view = "link" /\ Next /\ UNCHANGED heldVars

PeersSpec == PeersInit /\ [][PeersNext]_peersVars

PeersSymmetry == Symmetry \cup Permutations(Targets)

PeersLive == IF view = "keys" THEN <<view, heldVars>> ELSE <<view, Live>>
============================================================================
