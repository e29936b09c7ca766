-------------------------- MODULE MCOldInput --------------------------------
(* TopologyDriver with a history for TLC: what the drive that a probe ends  *)
(* had heard from the peer.                                                *)
EXTENDS TopologyDriver

VARIABLES
    since,     \* input was heard since the drive began
    stray      \* the input seen ended a drive with none heard during it

watchVars == <<driverVars, since, stray>>

\* A drive begins with no input heard; a probe ends it for the input it sees, not
\* for what the capture backend diverts.
Watch ==
    /\ since' = (~(task = "opening" /\ session' # "none") /\ (since \/ PeerInput))
    /\ stray' = (stray \/ (Probe /\ session' = "none" /\ ~DivertBurst /\ ~since))

WatchSpec ==
    /\ DriverInit /\ since = FALSE /\ stray = FALSE
    /\ [][DriverNext /\ Watch]_watchVars

\* "Input the peer sent on an older drive can never end this crossing."
OldInputNeverYields == ~stray
=============================================================================
