--------------------------- MODULE TopologyDriver ---------------------------
(***************************************************************************)
(* The drive task of a linked child: it pushes over an edge into the peer, *)
(* opens, resumes, parks and ends the stream it drives over, and has the   *)
(* capture thread suppress local input for as long as it drives.  The      *)
(* geometry is EdgeRouter's: here an edge is pushed, or is not.            *)
(*                                                                         *)
(* The peer may drive this machine at the same time.  Its input then       *)
(* arrives where input is suppressed, which is noticed in two ways: the    *)
(* capture backend counts the events it diverts (where it can tell them    *)
(* from the user's), and a poller reads the receiver's totals into a cache.*)
(* At every tick the task compares both with what they were at the last    *)
(* one: what ends a drive is what has come since then.                    *)
(***************************************************************************)
EXTENDS Integers

CONSTANTS
    PingLimit,    \* unanswered keep-alives that prove the peer gone (12)
    Burst,        \* INBOUND_SETTLE_BURST: fresh input that ends a drive that opens (20)
    Hot,          \* INBOUND_HOT_DRIVE_BURST: ... while its own input flows (10)
    MinGrowth,    \* INBOUND_YIELD_MIN_GROWTH: ... otherwise, and of diverted events (5)
    MaxFaults     \* bound: streams that die, tasks that wedge, backends that fail,
                  \* readings that time out

ASSUME DriverAssumption ==
    /\ PingLimit \in Nat \ {0} /\ Burst \in Nat \ {0}
    /\ Hot \in Nat \ {0} /\ MinGrowth \in Nat \ {0}
    /\ MinGrowth <= Hot /\ Hot <= Burst
    /\ MaxFaults \in Nat

VARIABLES
    task,      \* connect_topology: "idle", "opening", "wedged", "exited"
    away,      \* the router drives a remote screen
    session,   \* the active stream: "none", "live", "dead" (no answer, no error)
    parked,    \* the stream kept after a return
    wanted,    \* suppression_requested, the task's belief
    asked,     \* the flag the capture thread reads
    held,      \* local input is suppressed
    pings,     \* unacked_pings
    windows,   \* "hold" (debounce, yield cooldown), "failed", "tail" and "settle" (a
               \* drive is younger than DIVERT_SETTLE, INBOUND_SETTLE_MS), "hot"
    diverted,  \* events diverted since divert_baseline, the start of the drive
    tick,      \* ... since divert_seen, the last tick of a drive
    unread,    \* input heard from the peer that the poller has not read
    cache,     \* ... that it has read, past the probe's baseline
    claims,    \* the snapshot says the peer took the cursor and moved recently
    blank,     \* the snapshot names no session of the peer (a reading timed out)
    fresh,     \* inbound_baselines_fresh, and the peer is in that baseline
    peerDrives, \* the peer has taken this machine's cursor (the driving flag)
    faults

driverVars == <<task, away, session, parked, wanted, asked, held, pings, windows, diverted, tick,
          unread, cache, claims, blank, fresh, peerDrives, faults>>

streams == <<session, parked, pings>>
capture == <<wanted, asked, held>>
snapshot == <<unread, cache, claims, blank>>
inbound == <<diverted, tick, snapshot, fresh, peerDrives>>

Capped(k, limit) == IF k > limit THEN limit ELSE k
----------------------------------------------------------------------------
(* The capture side.                                                       *)

\* release_suppression, set_exclusive: the thread follows at its next event.
Suppress(on) ==
    /\ asked' = on
    /\ wanted' = on
    /\ UNCHANGED held

CaptureApplies ==
    /\ held # asked
    /\ held' = asked
    /\ UNCHANGED <<task, away, streams, wanted, asked, windows, inbound, faults>>

\* The backend fails and its grab with it; the next one starts without.
CaptureFails ==
    /\ held /\ faults < MaxFaults
    /\ held' = FALSE
    /\ faults' = faults + 1
    /\ UNCHANGED <<task, away, streams, wanted, asked, windows, inbound>>

\* watchdog_release_if_task_wedged: no heartbeat for seconds.
WatchdogReleases ==
    /\ task = "wedged" /\ asked
    /\ held' = FALSE
    /\ asked' = FALSE
    /\ UNCHANGED <<task, away, streams, wanted, windows, inbound, faults>>
----------------------------------------------------------------------------
(* How a drive begins and ends.                                            *)

\* The baselines of a fresh drive; the watermark of the ticks stays where it is.
Baselined ==
    /\ diverted' = 0
    /\ fresh' = FALSE
    /\ UNCHANGED <<tick, snapshot, peerDrives>>

Established ==
    /\ session' = "live"
    /\ pings' = 0
    /\ task' = "idle"
    /\ windows' = windows \cup {"hold", "tail", "settle"}
    /\ Suppress(TRUE)
    /\ Baselined
    /\ UNCHANGED <<away, faults>>

\* Mutant: the release is left to the reaper.
HomecomingHolding(kept, park, opened) ==
    /\ UNCHANGED <<capture, pings>>
    /\ away' = FALSE
    /\ session' = "none"
    /\ parked' = IF kept THEN session ELSE park
    /\ windows' = windows \cup opened
    /\ task' = "idle"

\* Home again: the stream is kept, or given up (with the park, when the
\* association itself is suspect).
Homecoming(kept, park, opened) ==
    /\ Suppress(FALSE)
    /\ away' = FALSE
    /\ session' = "none"
    /\ parked' = IF kept THEN session ELSE park
    /\ windows' = windows \cup opened
    /\ task' = "idle"
    /\ UNCHANGED pings

\* The router hands off; the task awaits a stream, and nothing else meanwhile.
Cross ==
    /\ task = "idle" /\ ~away
    /\ "hold" \notin windows
    /\ task' = "opening"
    /\ away' = TRUE
    /\ UNCHANGED <<streams, capture, windows, inbound, faults>>

\* take_parked_for finds it answering, resume_parked_session.
Resume ==
    /\ task = "opening" /\ parked = "live"
    /\ parked' = "none"
    /\ Established

\* open_topology_session, warm or cold.
OpenStream ==
    /\ task = "opening" /\ parked # "live" /\ "failed" \notin windows
    /\ parked' = "none"
    /\ Established

\* Refused in the cooldown, or the peer does not answer in COLD_OPEN_TIMEOUT.
OpenFails ==
    /\ task = "opening" /\ parked # "live"
    /\ Homecoming(FALSE, "none", {"failed"})
    /\ UNCHANGED <<inbound, faults>>

\* The peer ended the epoch, or the user stops the child: its guard lets go.
Exit ==
    /\ task \in {"idle", "opening"}
    /\ task' = "exited"
    /\ away' = FALSE
    /\ session' = "none"
    /\ parked' = "none"
    /\ asked' = FALSE
    /\ held' = FALSE
    /\ wanted' = FALSE
    /\ UNCHANGED <<pings, windows, inbound, faults>>

Driving == task = "idle" /\ session # "none"

\* Past the facing edge.
ReturnHome ==
    /\ Driving
    /\ Homecoming(TRUE, "none", {"hold"})
    /\ UNCHANGED <<inbound, faults>>

\* The stream ends; scroll lock; a send fails or stalls for seconds.
EpisodeEnds ==
    /\ Driving
    /\ \/ Homecoming(FALSE, parked, {})
       \/ \E opened \in {{}, {"failed"}} : Homecoming(FALSE, "none", opened)
    /\ UNCHANGED <<inbound, faults>>

\* The driven machine's own edge names the next screen: none that is known here
\* (the router is not told), this one, or one that is driven from now on.
PeerHandsOff ==
    /\ Driving
    /\ \/ /\ session' = "none"
          /\ Suppress(FALSE)
          /\ UNCHANGED <<task, away, parked, pings, windows>>
       \/ Homecoming(FALSE, parked, {})
       \/ /\ session' = "live"
          /\ parked' = "none"
          /\ pings' = 0
          /\ Suppress(TRUE)
          /\ UNCHANGED <<task, away, windows>>
    /\ UNCHANGED <<inbound, faults>>

\* Mutant: any motion for a remote screen that arrives with the task at rest.
HealEagerly ==
    /\ task = "idle" /\ away
    /\ away' = FALSE
    /\ UNCHANGED <<task, streams, capture, windows, inbound, faults>>

\* A motion for a remote screen that has no stream: the router is brought home.
Heal ==
    /\ task = "idle" /\ away /\ session = "none"
    /\ away' = FALSE
    /\ UNCHANGED <<task, streams, capture, windows, inbound, faults>>
----------------------------------------------------------------------------
(* Two drives at once.                                                     *)

\* yield_drive_to_inbound.
Yield == Homecoming(TRUE, "none", {"hold"})

\* An event of the user here, for which no rate can be told: what was diverted since
\* the drive began is looked at first.
Forward ==
    /\ Driving
    /\ IF diverted >= MinGrowth /\ "tail" \notin windows THEN Yield
       ELSE /\ windows' = windows \cup {"hot"}
            /\ UNCHANGED <<task, away, streams, capture>>
    /\ UNCHANGED <<inbound, faults>>

\* An event of the peer's, which the receiver counts as it injects it: of a user
\* there who drives, or an echo of this drive.  The backend may know it for injected
\* and divert it; under an X11 core grab it never does, on Windows not for motion.
PeerInput ==
    /\ unread' = Capped(unread + 1, Burst)
    /\ \/ held /\ diverted' = Capped(diverted + 1, MinGrowth) /\ tick' = Capped(tick + 1, MinGrowth)
       \/ UNCHANGED <<diverted, tick>>
    /\ UNCHANGED <<task, away, streams, capture, windows, cache, claims, blank, fresh, peerDrives, faults>>

\* Its handoff here, or its ReleaseAll.
PeerTurns ==
    /\ peerDrives' = ~peerDrives
    /\ UNCHANGED <<task, away, streams, capture, windows, diverted, tick, snapshot, fresh, faults>>

\* spawn_inbound_poller, every 300 ms: the totals, and the driving flag while the
\* newest input is no older than PEER_DRIVE_FRESH_MS, which outlasts the tick that
\* sees it (without growth nobody asks).
Poll ==
    /\ cache' = Capped(cache + unread, Burst)
    /\ unread' = 0
    /\ blank' = FALSE
    /\ claims' = (peerDrives /\ unread + cache > 0)
    /\ UNCHANGED <<task, away, streams, capture, windows, diverted, tick, fresh, peerDrives, faults>>

\* Its reading times out: an empty snapshot.
PollTimesOut ==
    /\ ~blank /\ faults < MaxFaults
    /\ blank' = TRUE
    /\ claims' = FALSE
    /\ faults' = faults + 1
    /\ UNCHANGED <<task, away, streams, capture, windows, diverted, tick, unread, cache,
                   fresh, peerDrives>>

\* divert_burst_fires.
DivertBurst == tick >= MinGrowth /\ "tail" \notin windows

\* inbound_inputs_growth: nothing at the first probe of a drive, nor at the first
\* sight of the peer.
Growth == IF fresh /\ ~blank THEN cache ELSE 0

\* inbound_absorb_threshold.
Threshold ==
    IF "settle" \in windows THEN Burst
    ELSE IF "hot" \in windows THEN Hot ELSE 0

\* Mutant: only a run of input counts.
InboundFiresLate ==
    /\ Growth >= Threshold
    /\ Growth >= MinGrowth

\* inbound_yield_fires: a run of input, or any from a peer that took the cursor.
InboundFires ==
    /\ Growth >= Threshold
    /\ Growth >= MinGrowth \/ (Growth > 0 /\ claims)

Yields == DivertBurst \/ InboundFires

\* What a tick takes note of: the diverted count and, unless that is enough, the
\* snapshot.  What is absorbed is in the baseline from then on.
TakesNote ==
    /\ tick' = 0
    /\ IF DivertBurst THEN UNCHANGED <<cache, fresh>>
       ELSE /\ fresh' = (fresh \/ ~blank)
            /\ cache' = IF fresh /\ blank THEN cache ELSE 0
    /\ UNCHANGED <<diverted, unread, claims, blank, peerDrives>>

\* The 300 ms tick, probe_inbound_yield.
Probe ==
    /\ Driving
    /\ TakesNote
    /\ IF Yields THEN Yield
       ELSE UNCHANGED <<task, away, streams, capture, windows>>
    /\ UNCHANGED faults
----------------------------------------------------------------------------
(* Keep-alives, and what can go wrong.                                     *)

\* A live peer answers before the next ping; a dead one's silence is counted.
Ping ==
    IF session = "live" \/ pings + 1 < PingLimit
    THEN /\ pings' = IF session = "live" THEN 0 ELSE pings + 1
         /\ UNCHANGED <<task, away, session, parked, capture, windows>>
    ELSE Homecoming(FALSE, "none", {})

\* Mutant: a ping that was written counts as answered.
KeepAliveTrusting ==
    /\ Driving
    /\ TakesNote
    /\ IF Yields THEN Yield
       ELSE /\ pings' = 0
            /\ UNCHANGED <<task, away, session, parked, capture, windows>>
    /\ UNCHANGED faults

\* The 5 s tick: the probe's look once more, then the ping of what is still driven.
KeepAlive ==
    /\ Driving
    /\ TakesNote
    /\ IF Yields THEN Yield ELSE Ping
    /\ UNCHANGED faults

\* With nothing driven, a park is pinged and any suppression let go.
Reap ==
    /\ task = "idle" /\ session = "none"
    /\ parked = "dead" \/ wanted \/ asked
    /\ parked' = IF parked = "dead" THEN "none" ELSE parked
    /\ Suppress(FALSE)
    /\ UNCHANGED <<task, away, session, pings, windows, inbound, faults>>

ParkCloses ==
    /\ task = "idle" /\ session = "none" /\ parked # "none"
    /\ parked' = "none"
    /\ UNCHANGED <<task, away, session, pings, capture, windows, inbound, faults>>

StreamDies ==
    /\ faults < MaxFaults
    /\ \/ session = "live" /\ session' = "dead" /\ UNCHANGED parked
       \/ parked = "live" /\ parked' = "dead" /\ UNCHANGED session
    /\ faults' = faults + 1
    /\ UNCHANGED <<task, away, pings, capture, windows, inbound>>

\* An unbounded write (send_clipboard_change) on a stream that does not move.
Wedge ==
    /\ Driving /\ faults < MaxFaults
    /\ task' = "wedged"
    /\ faults' = faults + 1
    /\ UNCHANGED <<away, streams, capture, windows, inbound>>

\* It moves again, or the association has failed.
Unwedge ==
    /\ task = "wedged"
    /\ \/ /\ task' = "idle"
          /\ UNCHANGED <<away, streams, capture, windows>>
       \/ Homecoming(FALSE, "none", {"failed"})
    /\ UNCHANGED <<inbound, faults>>

\* The clock; a drive is 600 ms old before it is 1 s old.
WindowEnds(w) ==
    /\ w \in windows
    /\ w = "settle" => "tail" \notin windows
    /\ windows' = windows \ {w}
    /\ UNCHANGED <<task, away, streams, capture, inbound, faults>>
----------------------------------------------------------------------------
\* A prewarmed park, or none.
DriverInit ==
    /\ task = "idle" /\ session = "none" /\ parked \in {"none", "live"}
    /\ away = FALSE /\ wanted = FALSE /\ asked = FALSE /\ held = FALSE
    /\ pings = 0 /\ windows = {} /\ diverted = 0 /\ tick = 0
    /\ unread = 0 /\ cache = 0 /\ claims = FALSE /\ blank = TRUE
    /\ fresh = FALSE
    /\ peerDrives \in BOOLEAN /\ faults = 0

DriverNext ==
    \/ CaptureApplies \/ CaptureFails \/ WatchdogReleases
    \/ Cross \/ Resume \/ OpenStream \/ OpenFails \/ Exit
    \/ ReturnHome \/ EpisodeEnds \/ PeerHandsOff \/ Heal
    \/ Forward \/ PeerInput \/ PeerTurns \/ Poll \/ PollTimesOut \/ Probe
    \/ KeepAlive \/ Reap \/ ParkCloses
    \/ StreamDies \/ Wedge \/ Unwedge
    \/ \E w \in windows : WindowEnds(w)

\* The timers of the task tick (its select is biased towards signals and input,
\* which run dry), the poller, the capture thread and the clock run.  What the users
\* and the network do next is not fair.
DriverFairness ==
    /\ WF_driverVars(Poll) /\ WF_driverVars(Probe) /\ WF_driverVars(KeepAlive) /\ WF_driverVars(Reap)
    /\ WF_driverVars(CaptureApplies) /\ WF_driverVars(WatchdogReleases)
    /\ \A w \in {"tail", "settle", "hot"} : WF_driverVars(WindowEnds(w))

DriverSpec == DriverInit /\ [][DriverNext]_driverVars

DriverFairSpec == DriverSpec /\ DriverFairness
----------------------------------------------------------------------------
DriverTypeOK ==
    /\ task \in {"idle", "opening", "wedged", "exited"}
    /\ session \in {"none", "live", "dead"} /\ parked \in {"none", "live", "dead"}
    /\ away \in BOOLEAN /\ wanted \in BOOLEAN /\ asked \in BOOLEAN /\ held \in BOOLEAN
    /\ claims \in BOOLEAN /\ blank \in BOOLEAN /\ fresh \in BOOLEAN
    /\ peerDrives \in BOOLEAN
    /\ pings \in 0..(PingLimit - 1)
    /\ windows \subseteq {"hold", "failed", "tail", "settle", "hot"}
    /\ diverted \in 0..MinGrowth /\ tick \in 0..MinGrowth
    /\ unread \in 0..Burst /\ cache \in 0..Burst
    /\ faults \in 0..MaxFaults

\* Local input is suppressed for a stream that is driven over and for nothing
\* else, however the last drive ended; what the capture thread is asked for may
\* be less (the watchdog), never more.
SuppressedOnlyToDrive ==
    /\ wanted <=> session # "none"
    /\ asked => wanted

\* The router drives a screen whenever a stream is active, so a second handoff,
\* which ends the child, is never routed.
NoSecondDrive ==
    /\ session # "none" => away
    /\ task = "opening" => session = "none" /\ ~asked

\* Local input held for a dead stream or a wedged task comes back, unless the
\* task and its stream do.
Serving == session = "live" /\ task = "idle"
FreezeEnds == (held /\ ~Serving) ~> (~held \/ Serving)

\* Two machines that drive each other do not hold each other's input for good.  A
\* peer that took the cursor and keeps pushing ends the drive here: with a hand on
\* this machine's own mouse it takes a run of input between two readings, with none
\* any input does.
Mutual == session # "none" /\ held /\ peerDrives

PushedHard == []<>(unread >= Hot)

PushedAtRest == []<>(unread > 0) /\ <>[]("hot" \notin windows)

MutualDriveEnds == PushedHard \/ PushedAtRest => (Mutual ~> ~Mutual)
=============================================================================
