-------------------------- MODULE MCLinkLifecycle --------------------------
(* Small instances of LinkLifecycle for TLC. *)
EXTENDS LinkLifecycle, TLC

\* Every machine has one identity.
NoGhosts == [p \in Peers |-> {}]

\* All peers are identities of one machine, which was set up again.
OneMachine == [p \in Peers |-> Peers \ {p}]

Symmetry == Permutations(Peers) \cup Permutations(Epochs)
            \cup Permutations(Streams) \cup Permutations(Callers)

\* What a task has left behind in variables that are set anew before they are
\* read again does not make a state of its own.
At(x, phases, value) == IF phase[x] \in phases THEN value ELSE None
Live == <<trust, ended, leases, approved, graced, pending,
          consent, links, phase, todo,
          [x \in Tasks |-> At(x, (StreamPhases \cup CallerPhases) \ {"idle"},
                              <<peer[x], epoch[x]>>)],
          [t \in Streams |-> <<At(t, {"waiting", "deciding"}, answer[t]),
                               At(t, {"serving"}, hungUp[t]),
                               At(t, StreamPhases \ {"idle"}, revoked[t])>>]>>
============================================================================
