------------------------------ MODULE MCInput ------------------------------
(* From a person's input to the machine that takes it, module by module: the *)
(* screen a motion goes to (EdgeRouter, two screens in four arrangements)    *)
(* and the link it arrives on (LinkLifecycle, two streams of one peer).  A   *)
(* behaviour takes the steps of one of them; the other stays where it began. *)
EXTENDS EdgeRouter, LinkLifecycle, TLC

CONSTANTS me, you

MCScreens == {you}
MCSizes == {<<9, 2>>, <<8, 3>>}
Right == (me :> <<0, 0>>) @@ (you :> <<1, 0>>)
Top   == (me :> <<0, 0>>) @@ (you :> <<0, -1>>)
MCSetups ==
    {[grid |-> Right, mode |-> "single", style |-> "mirror"],
     [grid |-> Right, mode |-> "double", style |-> "mirror"],
     [grid |-> Right, mode |-> "double", style |-> "left"],
     [grid |-> Top, mode |-> "single", style |-> "mirror"]}
MCMotions == {<<-6, 0>>, <<-1, 0>>, <<1, 0>>, <<6, 0>>, <<0, -3>>, <<0, 3>>}
MCDrifts == {<<0, 0>>, <<-4, 0>>}

\* Every machine has one identity.
NoGhosts == [p \in Peers |-> {}]

VARIABLE view

inputVars == <<view, routerVars, vars>>

\* A router that has crossed: where it rests while the links move.
Crossed ==
    LET setup == CHOOSE s \in MCSetups : s.grid = Right
        size  == [s \in Screens |-> <<9, 2>>]
    IN  Handoff(Seed(NewRouter(setup, size), <<8, 0>>, FALSE), "right")

InputInit ==
    /\ Init
    /\ \/ view = "router" /\ RouterInit
       \/ view = "link" /\ router = Crossed /\ recent = {}

InputNext ==
    /\ UNCHANGED view
    /\ \/ view = "router" /\ RouterNext /\ UNCHANGED vars
       \/ view = "link" /\ Next /\ UNCHANGED routerVars

InputSpec == InputInit /\ [][InputNext]_inputVars

Symmetry == Permutations(Streams)

\* What a task has left behind in variables that are set anew before they are
\* read again does not make a state of its own.
At(x, phases, value) == IF phase[x] \in phases THEN value ELSE None
LinkLive ==
    <<trust, ended, leases, approved, graced, pending, consent, links, phase, todo,
      [x \in Tasks |-> At(x, (StreamPhases \cup CallerPhases) \ {"idle"}, <<peer[x], epoch[x]>>)],
      [t \in Streams |-> <<At(t, {"waiting", "deciding"}, answer[t]),
                           At(t, {"serving"}, hungUp[t]),
                           At(t, StreamPhases \ {"idle"}, revoked[t])>>]>>

Live == IF view = "router" THEN <<view, routerVars>> ELSE <<view, LinkLive>>
----------------------------------------------------------------------------
(* The dearer invariants of EdgeRouter, in the behaviours where it moves.     *)

\* CanComeHome (push_remote): a driven screen can always be left.
RouterCanComeHome == view = "router" => CanComeHome

\* HeldShoveStaysHome (restore_local_at_edge): the shove that came home stays home.
RouterHeldShoveStaysHome == view = "router" => HeldShoveStaysHome

\* EdgeOpens (push_local, fresh_edge_gate): an edge that held a push back opens again.
RouterEdgeOpens == view = "router" => EdgeOpens
=============================================================================
