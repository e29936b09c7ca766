-------------------------- MODULE MCReceiverDrive --------------------------
(* Small instances of ReceiverDrive for TLC. *)
EXTENDS ReceiverDrive, TLC

Symmetry == Permutations(Drivers \ Fixed) \cup Permutations(Keys)

\* Without the history of the handoffs, and with the numbers of a session only
\* while there is one.
Live == <<driver, network, rx, slot, held,
          [d \in Drivers |-> IF rx[d] = "open"
                             THEN <<idle[d], driving[d], lastMove[d]>> ELSE NoDriver]>>
============================================================================
