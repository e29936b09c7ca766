------------------------------ MODULE MCLetGo ------------------------------
(* What a machine that was driven lets go of in the end: the keys of a       *)
(* driver (ReceiverDrive) and the session of a link that was hung up         *)
(* (LinkLifecycle).  A behaviour is one of either module, with its fairness; *)
(* the other stays where it began.                                           *)
EXTENDS LinkLifecycle, ReceiverDrive

VARIABLE view

\* Every machine has one identity.
NoGhosts == [p \in Peers |-> {}]

LetGoInit == view \in {"link", "drive"} /\ Init /\ DriveInit

LetGoNext ==
    /\ UNCHANGED view
    /\ \/ view = "link" /\ Next /\ UNCHANGED driveVars
       \/ view = "drive" /\ DriveNext /\ UNCHANGED vars

LetGoSpec ==
    /\ LetGoInit /\ [][LetGoNext]_<<view, vars, driveVars>>
    /\ \/ view = "link" /\ Fairness
       \/ view = "drive" /\ DriveFairness

\* LetsGo (ReceiverDrive), ReleaseAll and the end of handle_connection: a driver
\* that leaves, dies or returns lets go of every key it holds down.
DriverLetsGo == view = "drive" => LetsGo

\* HangUpLands (LinkLifecycle), teardown_link: a session that is hung up ends.
LinkHangUpLands == view = "link" => HangUpLands
=============================================================================
