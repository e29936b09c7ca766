--------------------------- MODULE ReceiverDrive ---------------------------
(***************************************************************************)
(* Who drives a receiver, and which keys it holds down for whom.  Each     *)
(* driver has one episode stream to the receiver; beside the ordered       *)
(* stream, pointer motion travels on a lane or over UDP and may come late  *)
(* or never.  A topology driver opens its stream ahead of time, hands the  *)
(* pointer off when its cursor crosses an edge, parks the stream when the  *)
(* cursor comes home and resumes it at the next crossing.  A fixed driver  *)
(* (capture, the boot peer of the service) drives from the start and never *)
(* hands off.  Keys stands for keys and mouse buttons.                     *)
(***************************************************************************)
EXTENDS Integers, Sequences, FiniteSets

CONSTANTS
    Drivers,
    Fixed,      \* those that drive without a handoff
    Keys,
    NoDriver,
    MaxDriveWire, \* bound of the frames in flight on a stream
    MaxMotion,  \* bound of the motions a driver sends beside its stream
    DriveFaults \* what goes wrong: "stall" a timed-out press or release,
                \* "sync" a timed-out reconciliation, "park" a timed-out
                \* ReleaseAll, "lost" the connection, "hang" the receiver
                \* ends the session, "inject" the injector fails

ASSUME DriveAssumption ==
    /\ NoDriver \notin Drivers
    /\ Fixed \subseteq Drivers
    /\ MaxDriveWire \in Nat /\ MaxMotion \in Nat
    /\ DriveFaults \subseteq {"stall", "sync", "park", "lost", "hang", "inject"}

VARIABLES
    drv,        \* the driver's side of its episode
    down,       \* keys each driver's person holds down
    motions,    \* motions each driver has sent: the last sequence number
    onWire,     \* frames on their way on the episode stream
    loose,      \* motions on their way on the lane and over UDP
    rx,         \* the receiver's session for each driver
    idle,       \* remote_idle
    driving,    \* the driving flag of the registry
    slot,       \* input_session_slot: the session that has the permit
    held,       \* keys each session's injector holds down
    lastMove,   \* MotionSequence::latest of each session
    since       \* history: motions sent before the last handoff received

driver  == <<drv, down, motions>>
network == <<onWire, loose>>
session == <<rx, idle, driving, slot, held, lastMove, since>>
driveVars == <<driver, network, session>>

Frame(type, keys, n) == [type |-> type, keys |-> keys, n |-> n]
Handoff(n)    == Frame("handoff", {}, n)
StateSync(ks) == Frame("sync", ks, 0)
Press(k)      == Frame("press", {k}, 0)
Release(k)    == Frame("release", {k}, 0)
Move(n)       == Frame("move", {}, n)
ReleaseAll    == Frame("releaseall", {}, 0)
Fin           == Frame("fin", {}, 0)    \* the stream ends, or breaks

Paths == {"lane", "udp"}

DriveInit ==
    /\ drv = [d \in Drivers |-> "off"]
    /\ down = [d \in Drivers |-> {}]
    /\ motions = [d \in Drivers |-> 0]
    /\ onWire = [d \in Drivers |-> <<>>]
    /\ loose = [d \in Drivers |-> {}]
    /\ rx = [d \in Drivers |-> "none"]
    /\ idle = [d \in Drivers |-> FALSE]
    /\ driving = [d \in Drivers |-> FALSE]
    /\ slot = NoDriver
    /\ held = [d \in Drivers |-> {}]
    /\ lastMove = [d \in Drivers |-> 0]
    /\ since = [d \in Drivers |-> 0]
----------------------------------------------------------------------------
(* The driver.                                                             *)

\* What is written to a stream whose session has ended goes nowhere.
Send(d, frames) ==
    /\ Len(onWire[d]) + Len(frames) <= MaxDriveWire
    /\ onWire' = [onWire EXCEPT ![d] = IF rx[d] = "open" THEN @ \o frames ELSE @]

\* A stream is opened and accepted, ahead of any crossing: the receiver's loop
\* starts with nothing held, no permit and not idle.
OpenDrive(d) ==
    /\ drv[d] = "off" /\ rx[d] = "none"
    /\ drv' = [drv EXCEPT ![d] = "linked"]
    /\ rx' = [rx EXCEPT ![d] = "open"]
    /\ idle' = [idle EXCEPT ![d] = FALSE]
    /\ driving' = [driving EXCEPT ![d] = FALSE]
    /\ lastMove' = [lastMove EXCEPT ![d] = 0]
    /\ since' = [since EXCEPT ![d] = motions[d]]
    /\ onWire' = [onWire EXCEPT ![d] = <<>>]
    /\ UNCHANGED <<down, motions, loose, slot, held>>

\* Mutant: the state goes out ahead of the handoff.
CrossSyncFirst(d) ==
    /\ d \notin Fixed
    /\ drv[d] \in {"linked", "parked"}
    /\ drv' = [drv EXCEPT ![d] = "driving"]
    /\ \/ /\ motions[d] < MaxMotion
          /\ motions' = [motions EXCEPT ![d] = @ + 1]
          /\ Send(d, <<StateSync(down[d]), Handoff(motions[d]), Move(motions'[d])>>)
       \/ /\ Send(d, <<StateSync(down[d]), Handoff(motions[d])>>)
          /\ UNCHANGED motions
    /\ UNCHANGED <<down, loose, session>>

\* The cursor crosses into the receiver's screen, first or again: handoff, the
\* keys held at this moment, and the motion left over, if any, on the ordered
\* stream.
Cross(d) ==
    /\ d \notin Fixed
    /\ drv[d] \in {"linked", "parked"}
    /\ drv' = [drv EXCEPT ![d] = "driving"]
    /\ \/ /\ motions[d] < MaxMotion
          /\ motions' = [motions EXCEPT ![d] = @ + 1]
          /\ Send(d, <<Handoff(motions[d]), StateSync(down[d]), Move(motions'[d])>>)
       \/ /\ Send(d, <<Handoff(motions[d]), StateSync(down[d])>>)
          /\ UNCHANGED motions
    /\ UNCHANGED <<down, loose, session>>

\* A fixed driver starts with its state and no handoff.
Capture(d) ==
    /\ d \in Fixed
    /\ drv[d] = "linked"
    /\ drv' = [drv EXCEPT ![d] = "driving"]
    /\ Send(d, <<StateSync(down[d])>>)
    /\ UNCHANGED <<down, motions, loose, session>>

\* A key goes down: forwarded while driving, and dropped if its write stalls.
PressKey(d, k) ==
    /\ k \notin down[d]
    /\ down' = [down EXCEPT ![d] = @ \cup {k}]
    /\ IF drv[d] = "driving"
       THEN Send(d, <<Press(k)>>) \/ ("stall" \in DriveFaults /\ UNCHANGED onWire)
       ELSE UNCHANGED onWire
    /\ UNCHANGED <<drv, motions, loose, session>>

\* Mutant: a release whose write stalls is dropped like a press.
ReleaseKeyDropped(d, k) ==
    /\ k \in down[d]
    /\ down' = [down EXCEPT ![d] = @ \ {k}]
    /\ IF drv[d] = "driving"
       THEN Send(d, <<Release(k)>>) \/ ("stall" \in DriveFaults /\ UNCHANGED onWire)
       ELSE UNCHANGED onWire
    /\ UNCHANGED <<drv, motions, loose, session>>

\* A key goes up.  A stalled write is reconciled with a state sync, whose own
\* stall only leaves a warning.
ReleaseKey(d, k) ==
    /\ k \in down[d]
    /\ down' = [down EXCEPT ![d] = @ \ {k}]
    /\ IF drv[d] = "driving"
       THEN \/ Send(d, <<Release(k)>>)
            \/ "stall" \in DriveFaults /\ Send(d, <<StateSync(down'[d])>>)
            \/ {"stall", "sync"} \subseteq DriveFaults /\ UNCHANGED onWire
       ELSE UNCHANGED onWire
    /\ UNCHANGED <<drv, motions, loose, session>>

\* Motion while driving, on the lane or over UDP.
MovePointer(d, path) ==
    /\ drv[d] = "driving"
    /\ motions[d] < MaxMotion
    /\ motions' = [motions EXCEPT ![d] = @ + 1]
    /\ loose' = [loose EXCEPT ![d] = IF path = "udp" \/ rx[d] = "open"
                                     THEN @ \cup {<<path, motions'[d]>>} ELSE @]
    /\ UNCHANGED <<drv, down, onWire, session>>

\* The cursor comes home, or the drive yields to the peer's own: ReleaseAll,
\* for 300 ms at most, and the stream is parked.
Park(d) ==
    /\ d \notin Fixed
    /\ drv[d] = "driving"
    /\ drv' = [drv EXCEPT ![d] = "parked"]
    /\ Send(d, <<ReleaseAll>>) \/ ("park" \in DriveFaults /\ UNCHANGED onWire)
    /\ UNCHANGED <<down, motions, loose, session>>

\* The episode is finished: ReleaseAll, for two seconds at most, and the end.
Finish(d) ==
    /\ drv[d] # "off"
    /\ drv' = [drv EXCEPT ![d] = "off"]
    /\ Send(d, <<ReleaseAll, Fin>>) \/ ("park" \in DriveFaults /\ Send(d, <<Fin>>))
    /\ UNCHANGED <<down, motions, loose, session>>

\* The driver's process or the network dies: the unread frames are lost.
Lose(d) ==
    /\ "lost" \in DriveFaults
    /\ drv[d] # "off" /\ rx[d] = "open"
    /\ drv' = [drv EXCEPT ![d] = "off"]
    /\ onWire' = [onWire EXCEPT ![d] = <<Fin>>]
    /\ UNCHANGED <<down, motions, loose, session>>

\* The driver finds its stream closed.
Closed(d) ==
    /\ drv[d] # "off" /\ rx[d] = "none"
    /\ drv' = [drv EXCEPT ![d] = "off"]
    /\ UNCHANGED <<down, motions, network, session>>
----------------------------------------------------------------------------
(* The receiver's session loop, one arm of its select at a time.           *)

Take(d, type) ==
    /\ rx[d] = "open"
    /\ onWire[d] # <<>> /\ Head(onWire[d]).type = type
    /\ onWire' = [onWire EXCEPT ![d] = Tail(@)]

\* Leave the loop.
Break(d) == rx' = [rx EXCEPT ![d] = "ending"]

\* Input that reaches the injector.  If that fails it is built anew, which lets
\* go of every key, or the session ends.
Inject(d, ks) ==
    \/ /\ held' = [held EXCEPT ![d] = ks]
       /\ UNCHANGED rx
    \/ /\ "inject" \in DriveFaults
       /\ held' = [held EXCEPT ![d] = ks \ @]
       /\ UNCHANGED rx
    \/ "inject" \in DriveFaults /\ Break(d) /\ UNCHANGED held

GetSync(d) ==
    /\ Take(d, "sync")
    /\ held' = [held EXCEPT ![d] = Head(onWire[d]).keys]
    /\ UNCHANGED <<driver, loose, rx, idle, driving, slot, lastMove, since>>

\* Keys from the stream ask for no permit and revive an idle session.
GetKey(d) ==
    /\ Take(d, "press") \/ Take(d, "release")
    /\ Inject(d, IF Head(onWire[d]).type = "press"
                 THEN held[d] \cup Head(onWire[d]).keys
                 ELSE held[d] \ Head(onWire[d]).keys)
    /\ idle' = [idle EXCEPT ![d] = FALSE]
    /\ UNCHANGED <<driver, loose, driving, slot, lastMove, since>>

\* Mutant: the distance of the sequence numbers is kept, not the number.
ApplyDistance(d, n) ==
    IF n # lastMove[d]
    THEN /\ lastMove' = [lastMove EXCEPT ![d] = @ - n]
         /\ UNCHANGED rx \/ Break(d)
    ELSE UNCHANGED <<lastMove, rx>>

\* Motion older than the newest applied is dropped; motion that pushes out of
\* the screen asks the driver to take over and ends the session.
Apply(d, n) ==
    IF n > lastMove[d]
    THEN /\ lastMove' = [lastMove EXCEPT ![d] = n]
         /\ UNCHANGED rx \/ Break(d)
    ELSE UNCHANGED <<lastMove, rx>>

GetMove(d) ==
    /\ Take(d, "move")
    /\ Apply(d, Head(onWire[d]).n)
    /\ idle' = [idle EXCEPT ![d] = FALSE]
    /\ UNCHANGED <<driver, loose, driving, slot, held, since>>

\* Mutant: the newest handoff gets the permit.
GetHandoffPreempts(d) ==
    /\ Take(d, "handoff")
    /\ idle' = [idle EXCEPT ![d] = FALSE]
    /\ since' = [since EXCEPT ![d] = Head(onWire[d]).n]
    /\ slot' = d
    /\ driving' = [driving EXCEPT ![d] = TRUE]
    /\ UNCHANGED <<driver, loose, rx, held, lastMove>>

\* A handoff revives the session and claims the permit; with the permit elsewhere
\* the session is rejected, and a handoff to a screen that is not ours ends it.
GetHandoff(d) ==
    /\ Take(d, "handoff")
    /\ idle' = [idle EXCEPT ![d] = FALSE]
    /\ since' = [since EXCEPT ![d] = Head(onWire[d]).n]
    /\ slot' = IF slot = NoDriver THEN d ELSE slot
    /\ IF slot' = d
       THEN \/ driving' = [driving EXCEPT ![d] = TRUE] /\ UNCHANGED rx
            \/ Break(d) /\ UNCHANGED driving
       ELSE Break(d) /\ UNCHANGED driving
    /\ UNCHANGED <<driver, loose, held, lastMove>>

\* Mutant: the keys stay down.
GetReleaseAllForgets(d) ==
    /\ Take(d, "releaseall")
    /\ idle' = [idle EXCEPT ![d] = TRUE]
    /\ slot' = IF slot = d THEN NoDriver ELSE slot
    /\ driving' = [driving EXCEPT ![d] = FALSE]
    /\ UNCHANGED <<driver, loose, rx, held, lastMove, since>>

GetReleaseAll(d) ==
    /\ Take(d, "releaseall")
    /\ held' = [held EXCEPT ![d] = {}]
    /\ idle' = [idle EXCEPT ![d] = TRUE]
    /\ slot' = IF slot = d THEN NoDriver ELSE slot
    /\ driving' = [driving EXCEPT ![d] = FALSE]
    /\ UNCHANGED <<driver, loose, rx, lastMove, since>>

\* The lane needs no permit, either.
GetLane(d, n) ==
    /\ rx[d] = "open"
    /\ <<"lane", n>> \in loose[d]
    /\ loose' = [loose EXCEPT ![d] = @ \ {<<"lane", n>>}]
    /\ IF idle[d] THEN UNCHANGED <<rx, lastMove>> ELSE Apply(d, n)
    /\ UNCHANGED <<driver, onWire, idle, driving, slot, held, since>>

\* Mutant: late motion of a parked drive claims the permit.
GetUdpUnfenced(d, n) ==
    /\ rx[d] = "open"
    /\ <<"udp", n>> \in loose[d]
    /\ loose' = [loose EXCEPT ![d] = @ \ {<<"udp", n>>}]
    /\ slot' = IF slot = NoDriver THEN d ELSE slot
    /\ IF slot' = d THEN Apply(d, n) ELSE UNCHANGED <<rx, lastMove>>
    /\ UNCHANGED <<driver, onWire, idle, driving, held, since>>

\* UDP motion claims the permit like a handoff, or is dropped.
GetUdp(d, n) ==
    /\ rx[d] = "open"
    /\ <<"udp", n>> \in loose[d]
    /\ loose' = [loose EXCEPT ![d] = @ \ {<<"udp", n>>}]
    /\ slot' = IF slot = NoDriver /\ ~idle[d] THEN d ELSE slot
    /\ IF slot' = d /\ ~idle[d] THEN Apply(d, n) ELSE UNCHANGED <<rx, lastMove>>
    /\ UNCHANGED <<driver, onWire, idle, driving, held, since>>

\* UDP motion without a session to take it, or lost on the way.
LoseUdp(d, n) ==
    /\ <<"udp", n>> \in loose[d]
    /\ loose' = [loose EXCEPT ![d] = @ \ {<<"udp", n>>}]
    /\ UNCHANGED <<driver, onWire, session>>

GetFin(d) ==
    /\ Take(d, "fin")
    /\ Break(d)
    /\ UNCHANGED <<driver, loose, idle, driving, slot, held, lastMove, since>>

\* The lease expires, the peer is revoked, or its link is hung up.
EndDrive(d) ==
    /\ "hang" \in DriveFaults
    /\ rx[d] = "open"
    /\ Break(d)
    /\ UNCHANGED <<driver, network, idle, driving, slot, held, lastMove, since>>

\* After the loop the row leaves the registry and every key is let go ...
LetGo(d) ==
    /\ rx[d] = "ending"
    /\ rx' = [rx EXCEPT ![d] = "released"]
    /\ held' = [held EXCEPT ![d] = {}]
    /\ driving' = [driving EXCEPT ![d] = FALSE]
    /\ UNCHANGED <<driver, network, idle, slot, lastMove, since>>

\* ... and only then are the permit and the two streams dropped.
Free(d) ==
    /\ rx[d] = "released"
    /\ rx' = [rx EXCEPT ![d] = "none"]
    /\ slot' = IF slot = d THEN NoDriver ELSE slot
    /\ onWire' = [onWire EXCEPT ![d] = <<>>]
    /\ loose' = [loose EXCEPT ![d] = {m \in @ : m[1] = "udp"}]
    /\ UNCHANGED <<driver, idle, driving, held, lastMove, since>>
----------------------------------------------------------------------------
DriverStep(d) ==
    \/ OpenDrive(d) \/ Cross(d) \/ Capture(d) \/ Park(d) \/ Finish(d)
    \/ \E k \in Keys : PressKey(d, k) \/ ReleaseKey(d, k)
    \/ \E path \in Paths : MovePointer(d, path)
    \/ Lose(d) \/ Closed(d)

ReceiverStep(d) ==
    \/ GetSync(d) \/ GetKey(d) \/ GetMove(d) \/ GetHandoff(d)
    \/ GetReleaseAll(d) \/ GetFin(d)
    \/ LetGo(d) \/ Free(d)

DriveNext == \E d \in Drivers :
    \/ DriverStep(d) \/ ReceiverStep(d) \/ EndDrive(d)
    \/ \E n \in 1..MaxMotion : GetLane(d, n) \/ GetUdp(d, n) \/ LoseUdp(d, n)

DriveSpec == DriveInit /\ [][DriveNext]_driveVars

\* QUIC delivers what was written to a live stream, and tokio runs the session's
\* task: a session with a frame to read, or out of its loop, goes on.
DriveFairness == \A d \in Drivers : WF_driveVars(ReceiverStep(d))
----------------------------------------------------------------------------
Frames == [type : {"handoff", "sync", "press", "release", "move", "releaseall",
                   "fin"},
           keys : SUBSET Keys, n : Nat]

DriveTypeOK ==
    /\ drv \in [Drivers -> {"off", "linked", "driving", "parked"}]
    /\ down \in [Drivers -> SUBSET Keys]
    /\ motions \in [Drivers -> Nat]
    /\ onWire \in [Drivers -> Seq(Frames)]
    /\ loose \in [Drivers -> SUBSET (Paths \X Nat)]
    /\ rx \in [Drivers -> {"none", "open", "ending", "released"}]
    /\ idle \in [Drivers -> BOOLEAN] /\ driving \in [Drivers -> BOOLEAN]
    /\ slot \in Drivers \cup {NoDriver}
    /\ held \in [Drivers -> SUBSET Keys]
    /\ lastMove \in [Drivers -> Nat] /\ since \in [Drivers -> Nat]

\* The permit belongs to a session that is there, and no session of a topology
\* driver holds a key down without it: from the handoff that claims it, through
\* parks, resumes, rejected rivals and every way a session ends, keys are let go
\* no later than the permit.
HeldNeedsPermit ==
    /\ slot # NoDriver => rx[slot] # "none"
    /\ \A d \in Drivers \ Fixed : held[d] # {} => slot = d

\* A parked session is silent: it holds no key, has no permit for a late motion
\* to keep, and does not count as driving.
IdleIsSilent ==
    \A d \in Drivers :
        rx[d] = "open" /\ idle[d] => held[d] = {} /\ slot # d /\ ~driving[d]

\* Once a driving stream has run dry, the receiver holds only keys that are down
\* at the driver: a stalled release is made good by its state sync ("the hold
\* terminates remotely even when this write dies"), as long as that sync gets out.
NoStuckKeys ==
    \A d \in Drivers :
        rx[d] = "open" /\ drv[d] = "driving" /\ onWire[d] = <<>>
            => held[d] \subseteq down[d]

\* A driver that leaves or dies lets go of every key it holds down, and so does one
\* whose ReleaseAll got out before it parked.
LetsGo ==
    \A d \in Drivers :
        (drv[d] = "off" \/ \E i \in DOMAIN onWire[d] : onWire[d][i] = ReleaseAll)
            ~> (held[d] = {} \/ drv[d] = "driving")

\* One owner at a time, and only the owner's keys are down (module
\* InputOwnership), as long as every driver hands off.
Ownership == INSTANCE InputOwnership WITH owner <- slot, None <- NoDriver
OwnershipSpec == Ownership!Spec
----------------------------------------------------------------------------
(* What the comments and the README promise and the code does not keep.    *)

\* "Each receiver admits one live input controller at a time."
SingleController ==
    \A d, e \in Drivers : held[d] # {} /\ held[e] # {} => d = e

\* "A datagram already in flight when the return happened must not move the
\* peer's cursor": motion sent before a return is never applied after it.
LateMotionFenced ==
    [][\A d \in Drivers :
          rx[d] = "open" /\ lastMove'[d] # lastMove[d] => lastMove'[d] > since[d]]_driveVars

\* "a verify handshake that never drives must not hold the single-driver slot":
\* no stream that was opened and never driven has the permit.
VerifyHoldsNoSlot ==
    slot # NoDriver /\ rx[slot] = "open" => drv[slot] # "linked"
=============================================================================
