------------------------------ MODULE HeldKeys ------------------------------
(***************************************************************************)
(* The keys and buttons a driving machine holds down on the machine it     *)
(* drives.  The capture thread records every transition and queues it; the *)
(* drive task takes the queue over to the peer, asserts the held state     *)
(* whenever a stream starts to drive, and lets go of it when one stops.    *)
(*                                                                         *)
(* Writes are bounded in time, so one may give up: a press that does is    *)
(* dropped, a release is followed by the whole state, and when that gives  *)
(* up too the drive goes on.  The bytes of an abandoned frame are the      *)
(* subject of EpisodeFrames: here it is not sent, and a stream cut short   *)
(* is one the peer ends.  A stream keeps its order and its reader has no   *)
(* choice, so a frame written counts as read.                              *)
(***************************************************************************)
EXTENDS Naturals, Sequences

CONSTANTS
    Keys,         \* keys and mouse buttons
    Ctrl,         \* the key a pinch holds down on a peer without gestures
    Targets,        \* machines this one may drive
    Drivers,      \* the drivers looked at: "topology", "console", "service"
    NoPeer,
    MaxEvents,    \* bound: captured events
    MaxFaults,    \* bound: writes that give up, streams and backends that end
    MaxDrives     \* bound: drives begun

ASSUME HeldKeysAssumption ==
    /\ Ctrl \in Keys /\ NoPeer \notin Targets
    /\ Drivers \subseteq {"topology", "console", "service"}
    /\ {MaxEvents, MaxFaults, MaxDrives} \subseteq Nat

VARIABLES
    driver,
    fingers,   \* what the user holds down
    gesture,   \* ... and whether two fingers pinch
    backend,   \* the capture backend works
    missed,    \* ghost: keys that moved while it did not
    keys,      \* CapturedState.keys and buttons
    lastId,    \* CapturedState.last_event_id
    captured,     \* the priority channel
    barrier,   \* discarded_event_barrier
    task,      \* the drive task: at rest, or amid a crossing
    session,   \* the one stream to a peer: none, driving or parked
    held,      \* what each peer holds down for us, all frames read
    gaveUp,    \* ghost: a release, and the state after it, were given up
    lost,      \* ghost: keys whose press was given up
    behind,    \* ghost: the drive began with transitions queued behind its barrier
    faults, drives

user == <<fingers, gesture, backend, missed>>
capture == <<keys, lastId, captured>>
ghosts == <<gaveUp, lost, behind>>
heldVars == <<driver, user, capture, barrier, task, session, held, ghosts, faults, drives>>

Down(k) == [kind |-> "press", key |-> k]
Up(k) == [kind |-> "release", key |-> k]
Pinch == [kind |-> "pinch", key |-> Ctrl]
PinchEnd == [kind |-> "pinchEnd", key |-> Ctrl]
Inputs == [kind : {"press", "release", "pinch", "pinchEnd"}, key : Keys]
\* InputEvent::is_release
IsRelease(e) == e.kind \in {"release", "pinchEnd"}

Sync(S) == [kind |-> "sync", keys |-> S]
ReleaseAll == Sync({})

Rest == [at |-> "rest", trigger |-> 0, snap |-> {}, target |-> NoPeer]
NoSession == [peer |-> NoPeer, phase |-> "none", barrier |-> 0, pinch |-> FALSE,
              ctrl |-> FALSE, deaf |-> FALSE]
Driving == session.phase = "driving"
----------------------------------------------------------------------------
(* The peer: one frame of the stream against what it holds.                *)

Apply(S, f) ==
    CASE f.kind = "press" -> S \cup {f.key}
      [] f.kind = "release" -> S \ {f.key}
      [] f.kind = "sync" -> f.keys

\* The peer ends the stream: it lets go, and reads no more of it.
PeerEnds ==
    /\ session.phase # "none" /\ ~session.deaf /\ faults < MaxFaults
    /\ faults' = faults + 1
    /\ session' = [session EXCEPT !.deaf = TRUE]
    /\ held' = [held EXCEPT ![session.peer] = {}]
    /\ UNCHANGED <<driver, user, capture, barrier, task, ghosts, drives>>
----------------------------------------------------------------------------
(* The capture thread.                                                     *)

\* CapturedState::record
Recorded(S, e) ==
    CASE e.kind = "press" -> S \cup {e.key}
      [] e.kind = "release" -> S \ {e.key}
      [] OTHER -> S

\* A release of a key never recorded down goes nowhere.  The service keeps
\* its state where it sends, and queues what its helper reports.
Enqueue(e) ==
    LET unheld == e.kind = "release" /\ driver # "service" /\ e.key \notin keys
    IN  IF unheld
        THEN UNCHANGED capture
        ELSE /\ keys' = IF driver = "service" THEN keys ELSE Recorded(keys, e)
             /\ lastId' = lastId + 1
             /\ captured' = Append(captured, [id |-> lastId', event |-> e])

\* A press of a key already down is a typematic repeat; record lets one
\* through every 33 ms.
Press(k) ==
    /\ lastId < MaxEvents
    /\ fingers' = fingers \cup {k}
    /\ IF backend
       THEN Enqueue(Down(k)) /\ missed' = missed \ {k}
       ELSE k \notin fingers /\ missed' = missed \cup {k} /\ UNCHANGED capture
    /\ UNCHANGED <<driver, gesture, backend, barrier, task, session, held, ghosts,
                   faults, drives>>

Release(k) ==
    /\ k \in fingers
    /\ lastId < MaxEvents
    /\ fingers' = fingers \ {k}
    /\ lost' = lost \ {k}
    /\ IF backend
       THEN Enqueue(Up(k)) /\ missed' = missed \ {k}
       ELSE missed' = missed \cup {k} /\ UNCHANGED capture
    /\ UNCHANGED <<driver, gesture, backend, barrier, task, session, held, gaveUp,
                   behind, faults, drives>>

PinchMoves(on) ==
    /\ backend /\ lastId < MaxEvents
    /\ on \/ gesture
    /\ gesture' = on
    /\ Enqueue(IF on THEN Pinch ELSE PinchEnd)
    /\ UNCHANGED <<driver, fingers, backend, missed, barrier, task, session, held,
                   ghosts, faults, drives>>

\* A backend that dies mid-pinch never reports the end of it: start_capture
\* does so itself.  The next backend starts with the recorded keys.
BackendFails ==
    /\ backend /\ lastId < MaxEvents /\ faults < MaxFaults
    /\ driver # "service"
    /\ faults' = faults + 1
    /\ backend' = FALSE
    /\ gesture' = FALSE
    /\ Enqueue(PinchEnd)
    /\ UNCHANGED <<driver, fingers, missed, barrier, task, session, held, ghosts,
                   drives>>

BackendRebuilt ==
    /\ ~backend
    /\ backend' = TRUE
    /\ UNCHANGED <<driver, fingers, gesture, missed, capture, barrier, task, session,
                   held, ghosts, faults, drives>>
----------------------------------------------------------------------------
(* The drive task: writes.                                                 *)

Write(f) == IF session.deaf THEN held ELSE [held EXCEPT ![session.peer] = Apply(@, f)]
\* TopologySession::finish, or the cleanup at the end of the other drivers.
Finished == IF session.phase = "none" THEN held ELSE [held EXCEPT ![session.peer] = {}]
CanStall(n) == faults + n <= MaxFaults

\* A frame that gets through.
Sent(f) ==
    /\ held' = Write(f)
    /\ lost' = CASE f.kind = "press" -> lost \ {f.key}
                 [] f.kind = "sync" -> {}
                 [] OTHER -> lost
    /\ gaveUp' = (gaveUp /\ f.kind # "sync")
    /\ UNCHANGED faults

\* send_input gives up: the press is dropped and the drive goes on.
PressGivenUp(f) ==
    /\ f.kind = "press" /\ CanStall(1)
    /\ faults' = faults + 1
    /\ lost' = lost \cup {f.key}
    /\ UNCHANGED <<held, gaveUp>>

\* Mutant: a release that gives up is dropped, as a press is.
ReleaseForgotten(f, S) ==
    /\ f.kind = "release" /\ CanStall(1)
    /\ faults' = faults + 1
    /\ UNCHANGED <<held, lost, gaveUp>>

\* send_release gives up: the whole state follows, or is given up as well.
\* The console driver takes releases for presses.
ReleaseGivenUp(f, S) ==
    /\ f.kind = "release" /\ CanStall(1)
    /\ \/ /\ driver # "console"
          /\ faults' = faults + 1
          /\ held' = Write(Sync(S))
          /\ lost' = {} /\ gaveUp' = FALSE
       \/ /\ IF driver = "console" THEN faults' = faults + 1
                                   ELSE CanStall(2) /\ faults' = faults + 2
          /\ gaveUp' = TRUE
          /\ UNCHANGED <<held, lost>>

SendFrame(f, S) == Sent(f) \/ PressGivenUp(f) \/ ReleaseGivenUp(f, S)
----------------------------------------------------------------------------
(* The drive task: one captured event.                                     *)

\* event_passes_barrier: what was captured before the drive stays behind,
\* except releases.
Passes(c) ==
    \/ IsRelease(c.event)
    \/ c.id > barrier /\ (Driving => c.id > session.barrier)

\* The event is behind the barrier, or is the local desktop's.  While the
\* service has no stream nobody takes the queue.
Dropped ==
    /\ driver # "service"
    /\ task = Rest /\ captured # << >>
    /\ ~(Driving /\ Passes(Head(captured)))
    /\ captured' = Tail(captured)
    /\ UNCHANGED <<driver, user, keys, lastId, barrier, task, session, held, ghosts,
                   faults, drives>>

\* pinch_expansion, for a peer without gestures: the first spread presses
\* Ctrl unless it is down, the end of the gesture releases ours.
Outgoing(e) ==
    CASE e.kind \in {"press", "release"} -> e
      [] e.kind = "pinch" -> Down(Ctrl)
      [] e.kind = "pinchEnd" -> Up(Ctrl)
\* The console driver has a shadow of its own of the physical Ctrl.
PhysicalCtrl == IF driver = "console" THEN session.ctrl ELSE Ctrl \in keys
SendsNothing(e) ==
    \/ e.kind = "pinch" /\ (session.pinch \/ PhysicalCtrl)
    \/ e.kind = "pinchEnd" /\ ~session.pinch
PinchAfter(e) ==
    CASE e.kind = "pinch" -> session.pinch \/ ~PhysicalCtrl
      [] e.kind = "pinchEnd" -> FALSE
      [] OTHER -> session.pinch

\* RoutedEvent::Forward, the priority arm of run_capture_stream, the capture
\* arm of run_windows_service_capture_stream.
Forwarded ==
    /\ task = Rest /\ captured # << >>
    /\ Driving /\ Passes(Head(captured))
    /\ captured' = Tail(captured)
    /\ LET e == Head(captured).event
           out == Outgoing(e)
           S == IF driver = "service" THEN Recorded(keys, out) ELSE keys
       IN  /\ session' = [session EXCEPT
                             !.pinch = PinchAfter(e),
                             !.ctrl = IF e.key = Ctrl /\ e.kind \in {"press", "release"}
                                      THEN e.kind = "press" ELSE @]
           /\ IF SendsNothing(e)
              THEN UNCHANGED <<keys, held, lost, gaveUp, faults>>
              ELSE keys' = S /\ SendFrame(out, S)
    /\ UNCHANGED <<driver, user, lastId, barrier, task, behind, drives>>
----------------------------------------------------------------------------
(* The drive task: streams.                                                *)

\* Mutant: the barrier is one event ahead of the clock.
PushAhead(p) ==
    /\ driver = "topology"
    /\ task = Rest /\ ~Driving /\ captured = << >>
    /\ drives < MaxDrives
    /\ drives' = drives + 1
    /\ task' = [at |-> "veto", trigger |-> lastId + 1, snap |-> {}, target |-> p]
    /\ UNCHANGED <<driver, user, capture, barrier, session, held, ghosts, faults>>

\* Motion over the edge: nothing was queued when the task took it.  Then it
\* asks where the pointer really is, and takes the state after that.
Push(p) ==
    /\ driver = "topology"
    /\ task = Rest /\ ~Driving /\ captured = << >>
    /\ drives < MaxDrives
    /\ drives' = drives + 1
    /\ task' = [at |-> "veto", trigger |-> lastId, snap |-> {}, target |-> p]
    /\ UNCHANGED <<driver, user, capture, barrier, session, held, ghosts, faults>>

Vetoed ==
    /\ task.at = "veto"
    /\ task' = Rest
    /\ UNCHANGED <<driver, user, capture, barrier, session, held, ghosts, faults, drives>>

\* The snapshot, then the park if it is this peer's; otherwise it is ended.
Snapshot ==
    /\ task.at = "veto"
    /\ task' = [task EXCEPT !.at = "opening", !.snap = keys]
    /\ session' = IF session.peer = task.target THEN session ELSE NoSession
    /\ held' = IF session.peer = task.target THEN held ELSE Finished
    /\ behind' = FALSE
    /\ UNCHANGED <<driver, user, capture, barrier, gaveUp, lost, faults, drives>>

\* Mutant: the barrier is what was captured last, not what pushed.
OpenedLate ==
    /\ task.at = "opening"
    /\ ~session.deaf
    /\ session' = [session EXCEPT !.peer = task.target, !.phase = "driving",
                                  !.barrier = lastId]
    /\ held' = [held EXCEPT ![task.target] = task.snap]
    /\ task' = Rest
    /\ lost' = {} /\ gaveUp' = FALSE
    /\ UNCHANGED <<driver, user, capture, barrier, behind, faults, drives>>

\* resume_parked_session, open_topology_session: the state goes first.  A
\* resumed stream keeps its pinch.
SessionOpened ==
    /\ task.at = "opening"
    /\ ~session.deaf
    /\ session' = [session EXCEPT !.peer = task.target, !.phase = "driving",
                                  !.barrier = task.trigger]
    /\ held' = [held EXCEPT ![task.target] = task.snap]
    /\ task' = Rest
    /\ lost' = {} /\ gaveUp' = FALSE
    /\ UNCHANGED <<driver, user, capture, barrier, behind, faults, drives>>

\* A park that does not answer is ended; the open that follows it may fail.
ParkStale ==
    /\ task.at = "opening" /\ session.phase = "parked"
    /\ session' = NoSession
    /\ held' = Finished
    /\ UNCHANGED <<driver, user, capture, barrier, task, ghosts, faults, drives>>

OpenFails ==
    /\ task.at = "opening" /\ session.phase = "none"
    /\ task' = Rest
    /\ UNCHANGED <<driver, user, capture, barrier, session, held, ghosts, faults, drives>>

\* Mutant: a park keeps what is held.
ReturnHolding ==
    /\ driver = "topology" /\ task = Rest /\ Driving
    /\ session' = [session EXCEPT !.phase = "parked"]
    /\ barrier' = lastId
    /\ UNCHANGED <<driver, user, capture, task, held, ghosts, faults, drives>>

\* ReturnHome: let go, bounded, then park; the yields do the same.
ReturnHome ==
    /\ driver = "topology" /\ task = Rest /\ Driving
    /\ session' = [session EXCEPT !.phase = "parked"]
    /\ barrier' = lastId
    /\ \/ Sent(ReleaseAll)
       \/ CanStall(1) /\ faults' = faults + 1 /\ gaveUp' = TRUE /\ UNCHANGED <<held, lost>>
    /\ UNCHANGED <<driver, user, capture, task, behind, drives>>

\* The peer's user crosses on to a third machine: the stream ends and one to
\* the next machine opens, from the state of this moment.
PeerHandsOn(p) ==
    /\ driver = "topology" /\ task = Rest /\ Driving
    /\ p # session.peer /\ ~session.deaf
    /\ held' = Finished
    /\ session' = NoSession
    /\ barrier' = lastId
    /\ task' = [at |-> "opening", trigger |-> lastId, snap |-> keys, target |-> p]
    /\ behind' = (captured # << >>)
    /\ UNCHANGED <<driver, user, capture, gaveUp, lost, faults, drives>>

\* A write error, the breaker, the end of the peer's stream, ScrollLock.
EpisodeEnds ==
    /\ task = Rest /\ session.phase # "none"
    /\ held' = Finished
    /\ session' = NoSession
    /\ barrier' = IF driver = "topology" /\ Driving THEN lastId ELSE barrier
    /\ UNCHANGED <<driver, user, capture, task, ghosts, faults, drives>>

\* capture, connect and the service: one drive, begun from the state.
Begin(p) ==
    /\ driver # "topology"
    /\ task = Rest /\ session = NoSession
    /\ drives < (IF driver = "console" THEN 1 ELSE MaxDrives)
    /\ drives' = drives + 1
    /\ session' = [NoSession EXCEPT !.peer = p, !.phase = "driving",
                                    !.barrier = IF driver = "console" THEN lastId ELSE 0]
    /\ held' = [held EXCEPT ![p] = keys]
    /\ lost' = {} /\ gaveUp' = FALSE
    /\ behind' = (driver = "console" /\ captured # << >>)
    /\ UNCHANGED <<driver, user, capture, barrier, task, faults>>
----------------------------------------------------------------------------
HeldInit ==
    /\ driver \in Drivers
    /\ fingers = {} /\ gesture = FALSE /\ backend = TRUE /\ missed = {}
    /\ keys = {} /\ lastId = 0 /\ captured = << >>
    /\ barrier = 0 /\ task = Rest /\ session = NoSession
    /\ held = [p \in Targets |-> {}]
    /\ gaveUp = FALSE /\ lost = {} /\ behind = FALSE
    /\ faults = 0 /\ drives = 0

HeldNext ==
    \/ \E k \in Keys : Press(k) \/ Release(k)
    \/ \E on \in BOOLEAN : PinchMoves(on)
    \/ BackendFails \/ BackendRebuilt
    \/ Dropped \/ Forwarded
    \/ \E p \in Targets : Push(p) \/ PeerHandsOn(p) \/ Begin(p)
    \/ PeerEnds \/ Vetoed \/ Snapshot \/ SessionOpened \/ ParkStale \/ OpenFails
    \/ ReturnHome \/ EpisodeEnds

HeldSpec == HeldInit /\ [][HeldNext]_heldVars
----------------------------------------------------------------------------
(* Properties.                                                             *)

HeldKeysTypeOK ==
    /\ driver \in Drivers
    /\ fingers \subseteq Keys /\ missed \subseteq Keys /\ keys \subseteq Keys /\ lost \subseteq Keys
    /\ {gesture, backend, gaveUp, behind} \subseteq BOOLEAN
    /\ lastId \in 0..MaxEvents /\ barrier \in 0..lastId
    /\ \A i \in DOMAIN captured : captured[i].id \in 1..lastId /\ captured[i].event \in Inputs
    /\ session.peer \in Targets \cup {NoPeer} /\ session.barrier \in 0..lastId
    /\ task.target \in Targets \cup {NoPeer} /\ task.snap \subseteq Keys
    /\ \A p \in Targets : held[p] \subseteq Keys

\* Nothing the user did waits for the drive task.
CaughtUp == captured = << >> /\ task = Rest

\* Whatever a peer ends up holding for us, the user still holds, or pinches
\* with: no order of crossings, hand-ons, parks and stalled writes leaves a
\* key down that nobody presses.  Excused are a release given up twice, a
\* key that moved while no backend looked, and the service's Ctrl (below).
NoStuckKey ==
    CaughtUp /\ Driving /\ ~gaveUp
        => held[session.peer] \subseteq
               fingers \cup missed
                   \cup (IF gesture \/ driver = "service" THEN {Ctrl} ELSE {})

\* A peer that is not driven holds nothing of ours.
ParkedIsReleased ==
    \A p \in Targets : task.at # "opening" /\ ~(Driving /\ session.peer = p) /\ ~gaveUp
        => held[p] = {}

\* What the user holds, the driven peer holds: a press that races a crossing
\* is in the state it starts from or follows it.
RemoteFollows ==
    CaughtUp /\ Driving /\ ~session.deaf /\ ~behind
        => fingers \ (missed \cup lost \cup {Ctrl}) \subseteq held[session.peer]

\* The comment in CapturedState::record: "the legacy synthetic Ctrl is
\* per-session send state, not capture state".
SyntheticCtrlIsNotState ==
    CaughtUp /\ ~gesture /\ Ctrl \notin fingers \cup missed => Ctrl \notin keys
=============================================================================
