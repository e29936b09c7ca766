------------------------------- MODULE MCWire -------------------------------
(* Three views of one link's input path, each on a small instance of its    *)
(* own: the permit and the keys (ReceiverDrive), the bytes of a stream      *)
(* (EpisodeFrames), the motion datagrams (MotionDelivery).  A behaviour     *)
(* takes the steps of one of them; the others stay where they began.        *)
EXTENDS ReceiverDrive, EpisodeFrames, MotionDelivery, TLC

VARIABLE view

wireVars == <<view, driveVars, framesVars, motionVars>>

WireInit ==
    /\ view \in {"drive", "frames", "motion"}
    /\ DriveInit /\ FramesInit /\ MotionInit

WireNext ==
    /\ UNCHANGED view
    /\ \/ view = "drive" /\ DriveNext /\ UNCHANGED <<framesVars, motionVars>>
       \/ view = "frames" /\ FramesNext /\ UNCHANGED <<driveVars, motionVars>>
       \/ view = "motion" /\ MotionNext /\ UNCHANGED <<driveVars, framesVars>>

WireSpec == WireInit /\ [][WireNext]_wireVars

\* The drivers and the sessions are the same values: one permutation serves both.
Symmetry == Permutations(Epochs) \cup Permutations(Sessions)

\* Without the history of the handoffs, and with the numbers of a session only
\* while there is one.
DriveLive ==
    <<driver, network, rx, slot, held,
      [d \in Drivers |-> IF rx[d] = "open"
                         THEN <<idle[d], driving[d], lastMove[d]>> ELSE NoDriver]>>

\* What a session that is done remembers does not make a state of its own.
MotionLive ==
    <<dialer, listener, phase, wire, queue, applied, again,
      [s \in Sessions |-> IF phase[s] \in {"accepted", "open"}
                          THEN <<owner[s], seen[s], latest[s], s \in mixed>>
                          ELSE None]>>

Live == CASE view = "drive" -> <<view, DriveLive>>
          [] view = "frames" -> <<view, framesVars>>
          [] view = "motion" -> <<view, MotionLive>>
=============================================================================
