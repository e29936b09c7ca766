------------------------- MODULE Suppression_proofs -------------------------
(***************************************************************************)
(* Keeping this machine's input from its own applications.                 *)
(*                                                                         *)
(* The drive task (TopologyDriver): its types, and that it asks for local  *)
(* input to be suppressed for a stream that is driven over and for nothing *)
(* else, whatever fails.                                                   *)
(*                                                                         *)
(* The Windows capture backend (WinCapture), for any number of hook threads, *)
(* queued messages and faults: the process-wide statics belong to the backend *)
(* that runs, and what was last asked of it is what its layers come to do. *)
(* The inductive invariant says what the one thread that may start or has  *)
(* started still owes to the wish (SoleOwns, SoleReaches).  Every other thread *)
(* was told to quit and holds no statics.                                  *)
(***************************************************************************)
EXTENDS TopologyDriver, WinCapture, SequenceTheorems, TLAPS

\* What Capped counts stays in its range.
LEMMA CappedTyped ==
    \A n, limit \in Nat : Capped(n, limit) \in 0..limit
BY DEF Capped

\* The two halves of the type invariant: the flags, and the rest.
Flags ==
    /\ away \in BOOLEAN /\ wanted \in BOOLEAN /\ asked \in BOOLEAN /\ held \in BOOLEAN
    /\ claims \in BOOLEAN /\ blank \in BOOLEAN /\ fresh \in BOOLEAN /\ peerDrives \in BOOLEAN

Values ==
    /\ task \in {"idle", "opening", "wedged", "exited"}
    /\ session \in {"none", "live", "dead"} /\ parked \in {"none", "live", "dead"}
    /\ pings \in 0..(PingLimit - 1)
    /\ windows \subseteq {"hold", "failed", "tail", "settle", "hot"}
    /\ diverted \in 0..MinGrowth /\ tick \in 0..MinGrowth
    /\ unread \in 0..Burst /\ cache \in 0..Burst
    /\ faults \in 0..MaxFaults

LEMMA Halves == DriverTypeOK <=> Flags /\ Values
BY DEF DriverTypeOK, Flags, Values

LEMMA InitTyped == DriverInit => DriverTypeOK
<1>1. DriverInit => Flags
  BY DEF DriverInit, Flags
<1>2. DriverInit => Values
  BY DriverAssumption DEF DriverAssumption, DriverInit, Values
<1>3. QED
  BY <1>1, <1>2, Halves

LEMMA FlagsKept ==
    ASSUME Flags, [DriverNext]_driverVars
    PROVE  Flags'
<1> USE DEF Flags
<1>1. CASE UNCHANGED driverVars
  BY <1>1 DEF driverVars
<1>2. CASE CaptureApplies
  BY <1>2 DEF CaptureApplies, inbound, snapshot
<1>3. CASE CaptureFails
  BY <1>3 DEF CaptureFails, inbound, snapshot
<1>4. CASE WatchdogReleases
  BY <1>4 DEF WatchdogReleases, inbound, snapshot
<1>5. CASE Cross
  BY <1>5 DEF Cross, capture, inbound, snapshot
<1>6. CASE Resume \/ OpenStream
  <2>1. /\ UNCHANGED <<away, held, claims, blank, peerDrives>>
        /\ wanted' = TRUE /\ asked' = TRUE /\ fresh' = FALSE
    BY <1>6 DEF Resume, OpenStream, Established, Baselined, Suppress, snapshot
  <2>2. QED
    BY <2>1
<1>7. CASE Exit
  BY <1>7 DEF Exit, inbound, snapshot
<1>8. CASE Heal
  BY <1>8 DEF Heal, capture, inbound, snapshot
<1>9. CASE OpenFails \/ ReturnHome \/ EpisodeEnds \/ PeerHandsOff \/ Forward \/ Unwedge
  <2>1. UNCHANGED <<claims, blank, fresh, peerDrives>>
    BY <1>9 DEF OpenFails, ReturnHome, EpisodeEnds, PeerHandsOff, Forward, Unwedge, inbound, snapshot
  <2>2. /\ held' = held
        /\ away' = away \/ away' = FALSE
        /\ wanted' = wanted \/ wanted' = FALSE \/ wanted' = TRUE
        /\ asked' = asked \/ asked' = FALSE \/ asked' = TRUE
    BY <1>9 DEF OpenFails, ReturnHome, EpisodeEnds, PeerHandsOff, Forward, Unwedge,
                Yield, Homecoming, Suppress, capture
  <2>3. QED
    BY <2>1, <2>2
<1>10. CASE Probe \/ KeepAlive
  <2>1. fresh' \in BOOLEAN /\ UNCHANGED <<claims, blank, peerDrives, held>>
    BY <1>10 DEF Probe, KeepAlive, Ping, TakesNote, Yield, Homecoming, Suppress, capture
  <2>2. /\ away' = away \/ away' = FALSE
        /\ wanted' = wanted \/ wanted' = FALSE
        /\ asked' = asked \/ asked' = FALSE
    BY <1>10 DEF Probe, KeepAlive, Ping, Yield, Homecoming, Suppress, capture
  <2>3. QED
    BY <2>1, <2>2
<1>11. CASE PeerInput
  BY <1>11 DEF PeerInput, capture
<1>12. CASE PeerTurns
  BY <1>12 DEF PeerTurns, capture, snapshot
<1>13. CASE Poll \/ PollTimesOut
  BY <1>13 DEF Poll, PollTimesOut, capture
<1>14. CASE Reap
  BY <1>14 DEF Reap, Suppress, inbound, snapshot
<1>15. CASE ParkCloses \/ StreamDies \/ Wedge
  BY <1>15 DEF ParkCloses, StreamDies, Wedge, capture, inbound, snapshot
<1>16. CASE \E w \in windows : WindowEnds(w)
  BY <1>16 DEF WindowEnds, capture, inbound, snapshot
<1>17. QED
  BY <1>1, <1>2, <1>3, <1>4, <1>5, <1>6, <1>7, <1>8, <1>9, <1>10, <1>11, <1>12, <1>13, <1>14,
     <1>15, <1>16 DEF DriverNext

LEMMA ValuesKept ==
    ASSUME Values, [DriverNext]_driverVars
    PROVE  Values'
<1> USE DriverAssumption DEF DriverAssumption, Values
<1>1. CASE UNCHANGED driverVars
  BY <1>1 DEF driverVars
<1>2. CASE CaptureApplies
  BY <1>2 DEF CaptureApplies, streams, inbound, snapshot
<1>3. CASE CaptureFails
  BY <1>3 DEF CaptureFails, streams, inbound, snapshot
<1>4. CASE WatchdogReleases
  BY <1>4 DEF WatchdogReleases, streams, inbound, snapshot
<1>5. CASE Cross
  BY <1>5 DEF Cross, streams, inbound, snapshot
<1>6. CASE Resume \/ OpenStream
  <2>1. /\ UNCHANGED <<tick, unread, cache, faults>>
        /\ diverted' = 0 /\ pings' = 0 /\ task' = "idle" /\ session' = "live" /\ parked' = "none"
        /\ windows' = windows \cup {"hold", "tail", "settle"}
    BY <1>6 DEF Resume, OpenStream, Established, Baselined, snapshot
  <2>2. QED
    BY <2>1
<1>7. CASE Exit
  BY <1>7 DEF Exit, inbound, snapshot
<1>8. CASE Heal
  BY <1>8 DEF Heal, streams, inbound, snapshot
<1>9. CASE OpenFails \/ ReturnHome \/ EpisodeEnds \/ PeerHandsOff \/ Forward \/ KeepAlive \/ Unwedge
            \/ Probe
  <2>1. /\ UNCHANGED <<diverted, unread, faults>> /\ cache' \in 0..Burst /\ tick' \in 0..MinGrowth
    <3>1. /\ UNCHANGED <<diverted, unread, faults>>
          /\ (cache' = cache \/ cache' = 0) /\ (tick' = tick \/ tick' = 0)
      BY <1>9 DEF OpenFails, ReturnHome, EpisodeEnds, PeerHandsOff, Forward, KeepAlive, Unwedge,
                   Probe, TakesNote, inbound, snapshot
    <3>2. QED
      BY <3>1
  <2>2. /\ task' \in {"idle", "opening", "wedged", "exited"}
        /\ session' \in {"none", "live", "dead"} /\ parked' \in {"none", "live", "dead"}
    BY <1>9 DEF OpenFails, ReturnHome, EpisodeEnds, PeerHandsOff, Forward, KeepAlive, Ping, Unwedge,
                 Probe, Yield, Homecoming, streams
  <2>3. pings' \in 0..(PingLimit - 1)
    <3>1. pings' = pings \/ pings' = 0 \/ (pings + 1 < PingLimit /\ pings' = pings + 1)
      BY <1>9 DEF OpenFails, ReturnHome, EpisodeEnds, PeerHandsOff, Forward, KeepAlive, Ping, Unwedge,
                   Probe, Yield, Homecoming, streams
    <3>2. QED
      BY <3>1
  <2>4. windows' \subseteq {"hold", "failed", "tail", "settle", "hot"}
    BY <1>9 DEF OpenFails, ReturnHome, EpisodeEnds, PeerHandsOff, Forward, KeepAlive, Ping, Unwedge,
                 Probe, Yield, Homecoming
  <2>5. QED
    BY <2>1, <2>2, <2>3, <2>4
<1>10. CASE PeerInput
  <2>1. /\ unread + 1 \in Nat /\ diverted + 1 \in Nat /\ tick + 1 \in Nat
        /\ Burst \in Nat /\ MinGrowth \in Nat
    OBVIOUS
  <2>2. /\ Capped(unread + 1, Burst) \in 0..Burst
        /\ Capped(diverted + 1, MinGrowth) \in 0..MinGrowth
        /\ Capped(tick + 1, MinGrowth) \in 0..MinGrowth
    BY <2>1, CappedTyped
  <2>3. UNCHANGED <<task, session, parked, pings, windows, cache, faults>>
        /\ unread' \in 0..Burst /\ diverted' \in 0..MinGrowth /\ tick' \in 0..MinGrowth
    BY <1>10, <2>2 DEF PeerInput, streams
  <2>4. QED
    BY <2>3
<1>11. CASE PeerTurns
  BY <1>11 DEF PeerTurns, streams, snapshot
<1>12. CASE Poll \/ PollTimesOut
  <2>1. cache + unread \in Nat /\ Burst \in Nat
    OBVIOUS
  <2>2. Capped(cache + unread, Burst) \in 0..Burst
    BY <2>1, CappedTyped
  <2>3. /\ UNCHANGED <<task, session, parked, pings, windows, diverted, tick>>
        /\ cache' \in 0..Burst /\ unread' \in 0..Burst /\ faults' \in 0..MaxFaults
    BY <1>12, <2>2 DEF Poll, PollTimesOut, streams
  <2>4. QED
    BY <2>3
<1>13. CASE Reap
  BY <1>13 DEF Reap, inbound, snapshot
<1>14. CASE ParkCloses
  BY <1>14 DEF ParkCloses, inbound, snapshot
<1>15. CASE StreamDies
  BY <1>15 DEF StreamDies, inbound, snapshot
<1>16. CASE Wedge
  BY <1>16 DEF Wedge, streams, inbound, snapshot
<1>17. CASE \E w \in windows : WindowEnds(w)
  BY <1>17 DEF WindowEnds, streams, inbound, snapshot
<1>18. QED
  BY <1>1, <1>2, <1>3, <1>4, <1>5, <1>6, <1>7, <1>8, <1>9, <1>10, <1>11, <1>12, <1>13,
     <1>14, <1>15, <1>16, <1>17 DEF DriverNext

LEMMA NextTyped == DriverTypeOK /\ [DriverNext]_driverVars => DriverTypeOK'
<1> SUFFICES ASSUME DriverTypeOK, [DriverNext]_driverVars PROVE DriverTypeOK'
  OBVIOUS
<1>1. Flags' /\ Values'
  BY Halves, FlagsKept, ValuesKept
<1>2. (Flags /\ Values)' => DriverTypeOK'
  BY DEF DriverTypeOK, Flags, Values
<1>3. QED
  BY <1>1, <1>2

\* Every reachable state of the drive task is well typed, for any limits.
THEOREM DriverTyped == DriverSpec => []DriverTypeOK
BY InitTyped, NextTyped, PTL DEF DriverSpec
----------------------------------------------------------------------------
\* What is suppressed, what is driven and where the task stands: an opening task
\* has no stream yet and the router away, and only a task at rest or wedged has one.
DriverInv ==
    /\ SuppressedOnlyToDrive
    /\ NoSecondDrive
    /\ session # "none" => task \in {"idle", "wedged"}
    /\ task = "opening" => away

LEMMA InitInv == DriverInit => DriverInv
BY DEF DriverInit, DriverInv, SuppressedOnlyToDrive, NoSecondDrive

LEMMA NextInv == DriverInv /\ [DriverNext]_driverVars => DriverInv'
<1> SUFFICES ASSUME DriverInv, [DriverNext]_driverVars PROVE DriverInv'
  OBVIOUS
<1> USE DEF DriverInv, SuppressedOnlyToDrive, NoSecondDrive
<1>1. CASE UNCHANGED driverVars
  BY <1>1 DEF driverVars
<1>2. CASE CaptureApplies \/ CaptureFails \/ WatchdogReleases
  BY <1>2 DEF CaptureApplies, CaptureFails, WatchdogReleases, streams
<1>3. CASE Cross
  BY <1>3 DEF Cross, streams, capture
<1>4. CASE Resume \/ OpenStream
  <2>1. /\ task' = "idle" /\ session' = "live" /\ away' = away /\ task = "opening"
        /\ wanted' = TRUE
    BY <1>4 DEF Resume, OpenStream, Established, Suppress
  <2>2. QED
    BY <2>1
<1>5. CASE Exit
  BY <1>5 DEF Exit
<1>6. CASE Heal
  BY <1>6 DEF Heal, streams, capture
<1>7. CASE OpenFails \/ ReturnHome \/ EpisodeEnds
  BY <1>7 DEF OpenFails, ReturnHome, EpisodeEnds, Homecoming, Suppress
<1>8. CASE PeerHandsOff
  <2>1. task = "idle" /\ session # "none" /\ task' = "idle"
    BY <1>8 DEF PeerHandsOff, Driving, Homecoming
  <2>2. \/ session' = "none" /\ wanted' = FALSE /\ asked' = FALSE
        \/ session' = "live" /\ wanted' = TRUE /\ away' = away
    BY <1>8 DEF PeerHandsOff, Homecoming, Suppress
  <2>3. QED
    BY <2>1, <2>2
<1>9. CASE Forward
  BY <1>9 DEF Forward, Yield, Homecoming, Suppress, streams, capture
<1>10. CASE Probe
  BY <1>10 DEF Probe, Yield, Homecoming, Suppress, streams, capture
<1>11. CASE KeepAlive
  BY <1>11 DEF KeepAlive, Ping, Yield, Homecoming, Suppress, capture
<1>12. CASE Unwedge
  BY <1>12 DEF Unwedge, Homecoming, Suppress, streams, capture
<1>13. CASE PeerInput \/ PeerTurns \/ Poll \/ PollTimesOut
  BY <1>13 DEF PeerInput, PeerTurns, Poll, PollTimesOut, streams, capture
<1>14. CASE Reap
  BY <1>14 DEF Reap, Suppress
<1>15. CASE ParkCloses \/ StreamDies
  BY <1>15 DEF ParkCloses, StreamDies, capture
<1>16. CASE Wedge
  BY <1>16 DEF Wedge, Driving, streams, capture
<1>17. CASE \E w \in windows : WindowEnds(w)
  BY <1>17 DEF WindowEnds, streams, capture
<1>18. QED
  BY <1>1, <1>2, <1>3, <1>4, <1>5, <1>6, <1>7, <1>8, <1>9, <1>10, <1>11, <1>12, <1>13, <1>14,
     <1>15, <1>16, <1>17 DEF DriverNext

LEMMA InvHolds == DriverSpec => []DriverInv
BY InitInv, NextInv, PTL DEF DriverSpec

\* Local input is suppressed exactly for a stream that is driven over, however drives
\* end, streams die, tasks wedge and watchdogs step in.
THEOREM SuppressionIsOwed == DriverSpec => []SuppressedOnlyToDrive
<1>1. DriverInv => SuppressedOnlyToDrive
  BY DEF DriverInv
<1>2. QED
  BY <1>1, InvHolds, PTL

\* The router stays away as long as a stream is active, so no crossing is routed on top
\* of a drive.
THEOREM OneDriveAtATime == DriverSpec => []NoSecondDrive
<1>1. DriverInv => NoSecondDrive
  BY DEF DriverInv
<1>2. QED
  BY <1>1, InvHolds, PTL

-----------------------------------------------------------------------------
\* Where a hook thread and the capture thread may be.
Starting == {"send", "register", "publish", "apply"}
Ending == {"quit", "unregister", "unsend", "gone"}
Stages == {"none", "loop"} \cup Starting \cup Ending
Places == {"outer", "create", "build", "load", "store", "recv", "dropping", "sending", "freeing",
           "freeingSend", "ends", "closing", "opening", "over"}

\* The types of the statics, the threads and their messages.
WinTypeOK ==
    /\ block \in BOOLEAN /\ rawActive \in BOOLEAN /\ armed \in BOOLEAN
    /\ seen \in BOOLEAN /\ asks \in BOOLEAN
    /\ tid \in Gens \cup {0} /\ rawWindow \in Gens \cup {0} /\ pixel \in Gens \cup {0}
    /\ sender \in Gens \cup {0} /\ own \in Gens \cup {0} /\ last \in Gens
    /\ flag \in [Usages -> BOOLEAN] /\ reg \in [Usages -> {"none", "sink", "nolegacy"}]
    /\ hook \in [Gens -> Stages] /\ posts \in [Gens -> Seq({"hold", "lift", "quit"})]
    /\ window \subseteq Gens /\ setting \in [Setters -> {"hold", "lift", "no"}]
    /\ thr \in Places

\* A static that names a thread names one that can still undo it.
Owners ==
    /\ tid # 0 => hook[tid] \in {"apply", "loop", "quit"}
    /\ pixel # 0 => hook[pixel] \in {"loop", "quit"}
    /\ \A g \in window : hook[g] \notin {"none", "send", "register"}
    /\ \A g \in Gens : posts[g] # <<>> => hook[g] \in {"apply", "loop", "quit"}

\* The thread that the capture thread has, or waits for.  Any other has been told
\* to quit, or came up too late and stays.
Ours(g) == g = own \/ (thr = "create" /\ g = last)

\* A backend has come up, and is there wherever its events are read.
Backed ==
    /\ \A g \in Gens : g > last => hook[g] = "none"
    /\ own # 0 => hook[own] \in {"loop"} \cup Ending
    /\ thr \in {"load", "store", "recv", "freeing"} => own # 0
    /\ thr \in {"create", "over", "build"} => own = 0

\* A caller of set_exclusive has stored FALSE and not yet posted the toggle.
Lifting == \E s \in Setters : setting[s] = "lift"

\* Without a backend, or with one that is going, nothing but a toggle changes
\* BLOCK_LOCAL.
WishKept == (own = 0 \/ thr \in {"dropping", "closing"}) /\ armed => block \/ Lifting

\* The channel is g's and every other thread is gone: none has torn anything
\* down since g started.
Sole(g) == Ours(g) /\ sender = g /\ \A h \in Gens \ {g} : hook[h] \in {"none", "gone"}

\* The layers of thread g are up.
Up(g) == pixel = g /\ ("mouse" \notin Refused => reg["mouse"] = "nolegacy")

\* Then the statics are its own as soon as it has published them ...
SoleOwns(g) ==
    /\ hook[g] \in {"apply", "loop"} => tid = g
    /\ g \in window /\ hook[g] \in {"publish", "apply", "loop"} => rawActive /\ reg["mouse"] # "none"
    /\ g \in window /\ hook[g] = "loop" =>
         /\ rawWindow = g
         /\ flag["mouse"] /\ "mouse" \notin Refused => reg["mouse"] = "nolegacy"

\* ... and its layers are up, or what brings them up is still before it.
SoleReaches(g) ==
    armed =>
      /\ hook[g] \in {"register", "publish"} \/ (hook[g] = "apply" /\ posts[g] = <<>>)
           => block \/ Lifting
      /\ hook[g] = "apply" /\ posts[g] # <<>> => Last(posts[g]) = "hold"
      /\ hook[g] = "loop" /\ g \in window =>
           IF posts[g] = <<>> THEN Up(g) \/ Lifting
           ELSE Last(posts[g]) = "hold" \/ \E i \in DOMAIN posts[g] : posts[g][i] = "quit"

\* The inductive invariant.
WinInv ==
    /\ WinTypeOK /\ Owners /\ Backed /\ WishKept
    /\ \A g \in Gens : Sole(g) => SoleOwns(g) /\ SoleReaches(g)
-----------------------------------------------------------------------------
\* The order of the steps in which a thread starts and ends.
LEMMA Stepping ==
    /\ Follows(StartOrder, "send") = "register" /\ Follows(StartOrder, "register") = "publish"
    /\ Follows(StartOrder, "publish") = "apply" /\ Follows(StartOrder, "apply") = "loop"
    /\ Follows(TeardownOrder, "quit") = "unregister"
    /\ Follows(TeardownOrder, "unregister") = "unsend"
    /\ Follows(TeardownOrder, "unsend") = "gone" /\ Head(TeardownOrder) = "quit"
<1>1. Len(StartOrder) = 5 /\ Len(TeardownOrder) = 4 /\ Head(TeardownOrder) = "quit"
  BY DEF StartOrder, TeardownOrder
<1>2. /\ StartOrder[1] = "send" /\ StartOrder[2] = "register" /\ StartOrder[3] = "publish"
      /\ StartOrder[4] = "apply" /\ StartOrder[5] = "loop"
  BY DEF StartOrder
<1>3. /\ TeardownOrder[1] = "quit" /\ TeardownOrder[2] = "unregister"
      /\ TeardownOrder[3] = "unsend" /\ TeardownOrder[4] = "gone"
  BY DEF TeardownOrder
<1>4. \A i \in 2 .. 5 : i = 2 \/ i = 3 \/ i = 4 \/ i = 5
  OBVIOUS
<1>5. \A i \in 2 .. 4 : i = 2 \/ i = 3 \/ i = 4
  OBVIOUS
<1>6. /\ (CHOOSE i \in 2 .. 5 : StartOrder[i - 1] = "send") = 2
      /\ (CHOOSE i \in 2 .. 5 : StartOrder[i - 1] = "register") = 3
      /\ (CHOOSE i \in 2 .. 5 : StartOrder[i - 1] = "publish") = 4
      /\ (CHOOSE i \in 2 .. 5 : StartOrder[i - 1] = "apply") = 5
  BY <1>2, <1>4
<1>7. /\ (CHOOSE i \in 2 .. 4 : TeardownOrder[i - 1] = "quit") = 2
      /\ (CHOOSE i \in 2 .. 4 : TeardownOrder[i - 1] = "unregister") = 3
      /\ (CHOOSE i \in 2 .. 4 : TeardownOrder[i - 1] = "unsend") = 4
  BY <1>3, <1>5
<1> QED
  BY <1>1, <1>2, <1>3, <1>6, <1>7 DEF Follows

\* What an application leaves behind: the pixel is the applier's unless one was
\* up, and the flag of the mouse says that its registration is without legacy.
LEMMA Applied ==
    ASSUME NEW g \in Gens, NEW hold \in BOOLEAN, NEW flags \in [Usages -> BOOLEAN],
           NEW target \in Gens \cup {0}, WinTypeOK, Applies(g, hold, flags, target)
    PROVE  /\ pixel' \in Gens \cup {0} /\ pixel' \in {0, pixel, g}
           /\ flag' \in [Usages -> BOOLEAN]
           /\ reg' \in [Usages -> {"none", "sink", "nolegacy"}]
           /\ hold /\ pixel \in {0, g} => pixel' = g
           /\ rawActive /\ target # 0 =>
                /\ reg["mouse"] # "none" => reg'["mouse"] # "none"
                /\ flag'["mouse"] => \/ flags["mouse"] /\ reg'["mouse"] = reg["mouse"]
                                     \/ reg'["mouse"] = "nolegacy"
                /\ hold /\ "mouse" \notin Refused => flag'["mouse"]
<1> DEFINE changed == {u \in Usages : flags[u] # hold}
           registers == {u \in changed : hold => u \notin Refused}
<1>1. pixel' = IF ~hold THEN 0 ELSE IF pixel # 0 THEN pixel ELSE g
  BY DEF Applies
<1>2. /\ pixel' \in Gens \cup {0} /\ pixel' \in {0, pixel, g}
      /\ hold /\ pixel \in {0, g} => pixel' = g
  BY <1>1 DEF WinTypeOK, Gens
<1>3. \/ /\ flag' = [u \in Usages |-> hold /\ (u \notin changed \/ u \in registers)]
         /\ reg' = [u \in Usages |-> IF u \notin registers THEN reg[u]
                                     ELSE IF hold THEN "nolegacy" ELSE "sink"]
      \/ /\ flag' = [u \in Usages |-> FALSE] /\ reg' = reg
         /\ ~(rawActive /\ (target # 0 \/ changed = {}))
  BY DEF Applies
<1> HIDE DEF changed, registers
<1>4. flag' \in [Usages -> BOOLEAN]
  <2>1. CASE flag' = [u \in Usages |-> hold /\ (u \notin changed \/ u \in registers)]
    <3>1. \A u \in Usages : (hold /\ (u \notin changed \/ u \in registers)) \in BOOLEAN
      OBVIOUS
    <3> QED
      BY <2>1, <3>1, Zenon
  <2>2. CASE flag' = [u \in Usages |-> FALSE]
    BY <2>2
  <2> QED
    BY <1>3, <2>1, <2>2
<1>5. reg' \in [Usages -> {"none", "sink", "nolegacy"}]
  BY <1>3 DEF WinTypeOK
<1>6. ASSUME rawActive, target # 0
      PROVE  /\ reg["mouse"] # "none" => reg'["mouse"] # "none"
             /\ flag'["mouse"] => \/ flags["mouse"] /\ reg'["mouse"] = reg["mouse"]
                                  \/ reg'["mouse"] = "nolegacy"
             /\ hold /\ "mouse" \notin Refused => flag'["mouse"]
  <2>1. /\ flag'["mouse"] <=> (hold /\ ("mouse" \notin changed \/ "mouse" \in registers))
        /\ reg'["mouse"] = IF "mouse" \notin registers THEN reg["mouse"]
                           ELSE IF hold THEN "nolegacy" ELSE "sink"
    BY <1>3, <1>6, WinCaptureAssumption
  <2>2. /\ "mouse" \in changed <=> flags["mouse"] # hold
        /\ "mouse" \in registers <=> ("mouse" \in changed /\ (hold => "mouse" \notin Refused))
    BY WinCaptureAssumption DEF changed, registers
  <2> QED
    BY <2>1, <2>2
<1> QED
  BY <1>2, <1>4, <1>5, <1>6

\* What appending and taking do to a thread's messages.
LEMMA Queued ==
    ASSUME NEW q \in Seq({"hold", "lift", "quit"})
    PROVE  /\ \A x \in {"hold", "lift", "quit"} :
                /\ Append(q, x) \in Seq({"hold", "lift", "quit"}) /\ Append(q, x) # <<>>
                /\ Last(Append(q, x)) = x
                /\ \E i \in DOMAIN Append(q, x) : Append(q, x)[i] = x
           /\ q # <<>> =>
                /\ Tail(q) \in Seq({"hold", "lift", "quit"})
                /\ Head(q) \in {"hold", "lift", "quit"}
                /\ Tail(q) = <<>> => Last(q) = Head(q) /\ \A i \in DOMAIN q : q[i] = Head(q)
                /\ Tail(q) # <<>> =>
                     /\ Last(Tail(q)) = Last(q)
                     /\ Head(q) # "quit" /\ (\E i \in DOMAIN q : q[i] = "quit") =>
                          \E i \in DOMAIN Tail(q) : Tail(q)[i] = "quit"
<1>1. ASSUME NEW x \in {"hold", "lift", "quit"}
      PROVE  /\ Append(q, x) \in Seq({"hold", "lift", "quit"}) /\ Append(q, x) # <<>>
             /\ Last(Append(q, x)) = x
             /\ \E i \in DOMAIN Append(q, x) : Append(q, x)[i] = x
  <2>1. /\ Append(q, x) \in Seq({"hold", "lift", "quit"}) /\ Len(Append(q, x)) = Len(q) + 1
        /\ Append(q, x)[Len(q) + 1] = x /\ Len(q) \in Nat
    OBVIOUS
  <2>2. Len(q) + 1 \in DOMAIN Append(q, x)
    BY <2>1
  <2> QED
    BY <2>1, <2>2 DEF Last
<1>2. ASSUME q # <<>>
      PROVE  /\ Tail(q) \in Seq({"hold", "lift", "quit"})
             /\ Head(q) \in {"hold", "lift", "quit"}
             /\ Tail(q) = <<>> => Last(q) = Head(q) /\ \A i \in DOMAIN q : q[i] = Head(q)
             /\ Tail(q) # <<>> =>
                  /\ Last(Tail(q)) = Last(q)
                  /\ Head(q) # "quit" /\ (\E i \in DOMAIN q : q[i] = "quit") =>
                       \E i \in DOMAIN Tail(q) : Tail(q)[i] = "quit"
  <2>1. /\ Tail(q) \in Seq({"hold", "lift", "quit"}) /\ Len(Tail(q)) = Len(q) - 1
        /\ Len(q) \in Nat /\ Len(q) >= 1 /\ DOMAIN q = 1 .. Len(q) /\ Head(q) = q[1]
        /\ DOMAIN Tail(q) = 1 .. Len(q) - 1
        /\ \A i \in 1 .. Len(q) - 1 : Tail(q)[i] = q[i + 1]
    BY <1>2
  <2>2. Head(q) \in {"hold", "lift", "quit"}
    BY <2>1
  <2>3. ASSUME Tail(q) = <<>> PROVE Last(q) = Head(q) /\ \A i \in DOMAIN q : q[i] = Head(q)
    <3>1. Len(Tail(q)) = 0 /\ Len(q) = 1
      <4>1. Len(Tail(q)) = 0
        BY <2>3, EmptySeq
      <4>2. \A n, t \in Int : t = n - 1 /\ t = 0 => n = 1
        OBVIOUS
      <4>3. Len(q) \in Int /\ Len(Tail(q)) \in Int
        BY <2>1, <4>1
      <4> QED
        BY <2>1, <4>1, <4>2, <4>3
    <3> QED
      BY <2>1, <3>1 DEF Last
  <2>4. ASSUME Tail(q) # <<>> PROVE Last(Tail(q)) = Last(q)
    <3>1. Len(q) - 1 >= 1
      BY <2>1, <2>4
    <3> QED
      BY <2>1, <3>1 DEF Last
  <2>5. ASSUME Head(q) # "quit", NEW i \in DOMAIN q, q[i] = "quit"
        PROVE  \E j \in DOMAIN Tail(q) : Tail(q)[j] = "quit"
    <3>1. i # 1 /\ i - 1 \in 1 .. Len(q) - 1
      BY <2>1, <2>5
    <3>2. Tail(q)[i - 1] = q[i]
      BY <2>1, <3>1
    <3> QED
      BY <2>1, <2>5, <3>1, <3>2
  <2> QED
    BY <2>1, <2>2, <2>3, <2>4, <2>5
<1> QED
  BY <1>1, <1>2
-----------------------------------------------------------------------------
SoleInv == \A g \in Gens : Sole(g) => SoleOwns(g) /\ SoleReaches(g)

\* A step that moves no hook thread and no static.
LEMMA Still ==
    ASSUME WinInv, Alone, last' = last, Backed', WishKept', thr' \in Places,
           \A g \in Gens : Ours(g)' => Ours(g),
           own' \in Gens \cup {0}, seen' \in BOOLEAN, asks' \in BOOLEAN
    PROVE  WinInv'
<1>1. WinTypeOK' /\ Owners'
  BY DEF WinInv, WinTypeOK, Owners, Alone, statics, threads
<1>2. SoleInv'
  BY DEF WinInv, SoleInv, Sole, SoleOwns, SoleReaches, Up, Lifting, Alone, statics, threads
<1> QED
  BY <1>1, <1>2 DEF WinInv, SoleInv

\* The steps of the capture thread and of the driver's side that touch neither
\* the statics nor a hook thread.
LEMMA AloneSteps ==
    ASSUME WinInv,
           \/ Created \/ GivesUp \/ EntersNext \/ LoadsWish \/ TimesOut \/ Hand \/ SendsOn
           \/ SendStops \/ ThenWish \/ StopsThread \/ CreateTimesOut \/ Opened \/ Halts \/ TakesEvent \/ Wedges
    PROVE  WinInv'
<1>1. Alone /\ last' = last
  BY DEF Created, GivesUp, EntersNext, LoadsWish, TimesOut, Hand, SendsOn, SendStops, ThenWish,
     StopsThread, CreateTimesOut, Opened, Halts, TakesEvent, Wedges, driverSide, captureThread
<1>2. WinTypeOK /\ Backed /\ WishKept
  BY DEF WinInv
<1>3. /\ thr' \in Places /\ own' \in Gens \cup {0} /\ seen' \in BOOLEAN /\ asks' \in BOOLEAN
  BY <1>2 DEF WinTypeOK, Places, Created, GivesUp, EntersNext, LoadsWish, TimesOut, Hand, SendsOn,
     SendStops, ThenWish, StopsThread, CreateTimesOut, Opened, Halts, TakesEvent, Wedges, Goes, driverSide,
     captureThread
<1>4. /\ \A g \in Gens : Ours(g)' => Ours(g)
      /\ own' # 0 => hook[own'] \in {"loop"} \cup Ending
      /\ thr' \in {"load", "store", "recv", "freeing"} => own' # 0
      /\ thr' \in {"create", "over", "build"} => own' = 0
      /\ own' = 0 \/ thr' \in {"dropping", "closing"} => own = 0 \/ thr \in {"dropping", "closing"}
  <2>1. CASE Created
    <3>1. thr = "create" /\ own = 0 /\ last \in Gens
      BY <1>2, <2>1 DEF Created, Backed, WinTypeOK
    <3>2. thr' \in {"over", "outer"} /\ (thr' = "over" => own' = 0) /\ own' \in {0, last}
      BY <2>1 DEF Created
    <3>3. own' # 0 => hook[own'] = "loop"
      BY <2>1 DEF Created
    <3>4. 0 \notin Gens
      BY DEF Gens
    <3> QED
      BY <1>1, <3>1, <3>2, <3>3, <3>4 DEF Ours
  <2>2. CASE CreateTimesOut \/ Opened
    <3>1. own' = own /\ thr' \in {"outer", "over"} /\ (thr' = "over" => thr = "create")
      BY <2>2 DEF CreateTimesOut, Opened, Goes
    <3> QED
      BY <1>1, <1>2, <3>1 DEF Backed, Ours
  <2>3. CASE Halts \/ TakesEvent \/ Wedges
    BY <1>1, <1>2, <2>3 DEF Backed, WishKept, Ours, Halts, TakesEvent, Wedges, captureThread
  <2> QED
    BY <1>1, <1>2, <2>1, <2>2, <2>3 DEF Backed, Ours, GivesUp, EntersNext, LoadsWish, TimesOut,
       Hand, SendsOn, SendStops, ThenWish, StopsThread, Goes
<1>5. hook' = hook /\ block' = block /\ armed' = armed /\ setting' = setting
  BY <1>1 DEF Alone, statics, threads
<1>6. Backed' /\ WishKept'
  BY <1>1, <1>2, <1>4, <1>5 DEF Backed, WishKept, Lifting
<1> QED
  BY <1>1, <1>3, <1>4, <1>6, Still

\* The first half of set_exclusive leaves a toggle to post.
LEMMA Begun ==
    ASSUME WinInv, NEW t \in Setters, NEW b \in BOOLEAN, Begins(t, b),
           UNCHANGED <<OtherStatics, threads, armed, last>>, thr' \in Places,
           own' \in Gens \cup {0}, seen' \in BOOLEAN, asks' \in BOOLEAN, Backed',
           \A g \in Gens : Ours(g)' => Ours(g),
           own' = 0 \/ thr' \in {"dropping", "closing"} =>
              \/ own = 0 \/ thr \in {"dropping", "closing"}
              \/ ~b
    PROVE  WinInv'
<1>1. /\ block' = b /\ setting' \in [Setters -> {"hold", "lift", "no"}]
      /\ Lifting => Lifting'
      /\ ~b => Lifting'
  BY DEF WinInv, WinTypeOK, Begins, Lifting
<1>2. (block \/ Lifting) => (block' \/ Lifting')
  BY <1>1
<1>3. WinTypeOK' /\ Owners'
  BY <1>1 DEF WinInv, WinTypeOK, Owners, OtherStatics, threads
<1>4. SoleInv'
  BY <1>1, <1>2 DEF WinInv, SoleInv, Sole, SoleOwns, SoleReaches, Up, OtherStatics, threads
<1>5. WishKept'
  BY <1>1, <1>2 DEF WinInv, WishKept
<1> QED
  BY <1>3, <1>4, <1>5 DEF WinInv, SoleInv

\* The steps of the capture thread and its callers that begin a set_exclusive.
LEMMA BeginSteps ==
    ASSUME WinInv,
           \/ Disconnected \/ FreesFirst \/ OpensFree \/ DropsGuard \/ WatchdogFires
           \/ \E b \in BOOLEAN : SetsExclusive(b)
           \/ Ends /\ own # 0
    PROVE  WinInv'
<1>1. WinTypeOK /\ Backed
  BY DEF WinInv
<1>2. ASSUME hook' = hook, last' = last, own' = own, thr' = thr
      PROVE  Backed' /\ \A g \in Gens : Ours(g)' => Ours(g)
  BY <1>1, <1>2 DEF Backed, Ours
<1>3. CASE DropsGuard \/ WatchdogFires \/ \E b \in BOOLEAN : SetsExclusive(b)
  <2>1. PICK t \in {"driver", "watchdog"}, b \in BOOLEAN : Begins(t, b)
    BY <1>3 DEF DropsGuard, WatchdogFires, SetsExclusive
  <2>2. /\ UNCHANGED <<OtherStatics, threads, captureThread, armed>> /\ asks' \in BOOLEAN
    BY <1>1, <1>3 DEF DropsGuard, WatchdogFires, SetsExclusive, WinTypeOK, driverSide
  <2>3. t \in Setters
    BY DEF Setters
  <2>4. Backed' /\ \A g \in Gens : Ours(g)' => Ours(g)
    BY <1>2, <2>2 DEF captureThread, threads
  <2> QED
    BY <1>1, <2>1, <2>2, <2>3, <2>4, Begun DEF captureThread, WinTypeOK
<1>4. CASE Disconnected \/ FreesFirst \/ (Ends /\ own # 0)
  <2>1. /\ Begins("capture", FALSE)
        /\ UNCHANGED <<OtherStatics, threads, own, last, seen, room, driverSide, armed>>
        /\ thr' \in {"dropping", "freeing", "freeingSend", "closing"} /\ thr # "create"
        /\ own # 0
    BY <1>1, <1>4 DEF Disconnected, FreesFirst, Ends, Goes, Backed
  <2>2. Backed' /\ \A g \in Gens : Ours(g)' => Ours(g)
    BY <1>1, <2>1 DEF Backed, Ours, threads
  <2>3. "capture" \in Setters /\ thr' \in Places
    BY <2>1 DEF Setters, Places
  <2> QED
    BY <1>1, <2>1, <2>2, <2>3, Begun DEF WinTypeOK, driverSide
<1>5. CASE OpensFree
  <2>1. /\ Begins("capture", FALSE)
        /\ UNCHANGED <<OtherStatics, threads, last, seen, room, driverSide, armed>>
        /\ thr = "create" /\ thr' = "opening" /\ own' = last /\ hook[last] = "loop"
    BY <1>5 DEF OpensFree, Goes
  <2>2. last \in Gens /\ last # 0
    BY <1>1 DEF WinTypeOK, Gens
  <2>3. Backed' /\ \A g \in Gens : Ours(g)' => Ours(g)
    BY <1>1, <2>1, <2>2 DEF Backed, Ours, threads
  <2>4. "capture" \in Setters /\ thr' \in Places
    BY <2>1 DEF Setters, Places
  <2> QED
    BY <1>1, <2>1, <2>2, <2>3, <2>4, Begun DEF WinTypeOK, driverSide
<1> QED
  BY <1>3, <1>4, <1>5

\* The wish is stored only while a backend runs, so no thread that is waited for
\* starts meanwhile.
LEMMA StoreStep ==
    ASSUME WinInv, StoresWish PROVE WinInv'
<1>1. /\ WinTypeOK /\ Backed /\ Owners /\ SoleInv /\ block' = seen /\ seen' = FALSE
      /\ UNCHANGED <<OtherStatics, threads, setting, own, last, armed, asks>>
      /\ thr = "store" /\ thr' \in {"ends", "recv"} /\ own # 0
  BY DEF WinInv, Backed, StoresWish, Follow, Goes, driverSide, SoleInv
<1>2. WinTypeOK' /\ Owners'
  <2>1. block' \in BOOLEAN /\ seen' \in BOOLEAN /\ thr' \in Places
    BY <1>1 DEF WinTypeOK, Places
  <2>2. Owners'
    BY <1>1 DEF Owners, OtherStatics, threads
  <2> QED
    BY <1>1, <2>1, <2>2 DEF WinTypeOK, OtherStatics, threads
<1>3. Backed' /\ WishKept'
  BY <1>1 DEF Backed, WishKept, threads
<1>4. ASSUME NEW g \in Gens, Sole(g)' PROVE SoleOwns(g)' /\ SoleReaches(g)'
  <2>1. g = own /\ hook[g] \in {"loop"} \cup Ending /\ Sole(g)
    BY <1>1, <1>4 DEF Backed, Sole, Ours, OtherStatics, threads
  <2> QED
    BY <1>1, <2>1 DEF SoleInv, SoleOwns, SoleReaches, Up, Lifting, OtherStatics, threads, Ending
<1> QED
  BY <1>2, <1>3, <1>4 DEF WinInv

\* Nothing to close.
LEMMA EndsIdle ==
    ASSUME WinInv, Ends, own = 0 PROVE WinInv'
<1>1. /\ WinTypeOK /\ Backed /\ WishKept /\ thr = "ends" /\ thr' = "over"
      /\ UNCHANGED <<block, setting, OtherStatics, threads, own, last, seen, room, driverSide, armed>>
  BY DEF WinInv, Ends, Goes
<1>2. Alone /\ last' = last /\ own' = own /\ seen' = seen /\ asks' = asks
  BY <1>1 DEF Alone, statics, OtherStatics, driverSide
<1>3. Backed' /\ WishKept' /\ thr' \in Places /\ \A g \in Gens : Ours(g)' => Ours(g)
  BY <1>1, <1>2 DEF Backed, WishKept, Lifting, Ours, threads, Places
<1> QED
  BY <1>1, <1>2, <1>3, Still DEF WinTypeOK
-----------------------------------------------------------------------------
\* The toggle is posted to the thread that the static names.
LEMMA PostStep ==
    ASSUME WinInv, NEW t \in Setters, PostToggle(t) PROVE WinInv'
<1>1. /\ WinTypeOK /\ Backed /\ Owners /\ SoleInv
      /\ setting[t] \in {"hold", "lift"}
      /\ posts' = IF tid = 0 THEN posts ELSE [posts EXCEPT ![tid] = Append(@, setting[t])]
      /\ armed' \in BOOLEAN
      /\ armed' => setting[t] = "hold" /\ block
      /\ setting' = [setting EXCEPT ![t] = "no"]
      /\ UNCHANGED <<statics, hook, window, captureThread, driverSide>>
  <2>1. (setting[t] = "hold" /\ block) \in BOOLEAN
    OBVIOUS
  <2> QED
    BY <2>1 DEF WinInv, WinTypeOK, SoleInv, PostToggle
<1>2. tid # 0 => tid \in Gens /\ hook[tid] \in {"apply", "loop", "quit"}
  BY <1>1 DEF WinTypeOK, Owners
<1>3. /\ posts' \in [Gens -> Seq({"hold", "lift", "quit"})]
      /\ \A g \in Gens : /\ g = tid => posts'[g] = Append(posts[g], setting[t])
                         /\ g # tid => posts'[g] = posts[g]
  <2>1. CASE tid = 0
    <3>1. 0 \notin Gens
      BY DEF Gens
    <3> QED
      BY <1>1, <2>1, <3>1 DEF WinTypeOK
  <2>2. CASE tid # 0
    BY <1>1, <1>2, <2>2, Queued DEF WinTypeOK
  <2> QED
    BY <2>1, <2>2
<1>4. WinTypeOK'
  BY <1>1, <1>3 DEF WinTypeOK, statics, captureThread, driverSide
<1>5. Owners'
  BY <1>1, <1>2, <1>3 DEF Owners, statics
<1>6. Backed' /\ WishKept'
  BY <1>1 DEF Backed, WishKept, statics, captureThread
<1>7. ASSUME NEW g \in Gens, Sole(g)' PROVE SoleOwns(g)' /\ SoleReaches(g)'
  <2>1. SoleOwns(g) /\ SoleOwns(g)'
    BY <1>1, <1>7 DEF SoleInv, Sole, Ours, SoleOwns, statics, captureThread
  <2>2. ASSUME armed', hook[g] \in {"apply", "loop"}
        PROVE  posts'[g] # <<>> /\ Last(posts'[g]) = "hold"
    <3>1. tid = g /\ setting[t] = "hold"
      BY <1>1, <2>1, <2>2 DEF SoleOwns
    <3>2. posts[g] \in Seq({"hold", "lift", "quit"}) /\ posts'[g] = Append(posts[g], "hold")
      BY <1>1, <1>3, <3>1 DEF WinTypeOK
    <3> QED
      BY <3>2, Queued
  <2> QED
    BY <1>1, <2>1, <2>2 DEF SoleReaches, statics
<1> QED
  BY <1>4, <1>5, <1>6, <1>7 DEF WinInv

\* WM_QUIT reaches the queue of a thread that still reads it.
LEMMA QuitStep ==
    ASSUME WinInv, Dropped \/ Closes PROVE WinInv'
<1>1. /\ WinTypeOK /\ Backed /\ Owners /\ WishKept /\ SoleInv
      /\ thr \in {"dropping", "closing"} /\ thr' \in {"sending", "over"}
      /\ Quit(own) /\ own' = 0
      /\ UNCHANGED <<statics, hook, window, setting, last, seen, room, driverSide, armed>>
  BY DEF WinInv, Dropped, Closes, Goes, SoleInv
<1>2. own # 0 => own \in Gens /\ hook[own] \in {"loop"} \cup Ending
  BY <1>1 DEF Backed, WinTypeOK
<1>3. /\ posts' \in [Gens -> Seq({"hold", "lift", "quit"})]
      /\ \A g \in Gens : \/ posts'[g] = posts[g]
                         \/ hook[g] = "loop" /\ posts'[g] = Append(posts[g], "quit")
  <2>1. CASE own = 0 \/ hook[own] \in Ending
    <3>1. posts' = posts
      <4>1. 0 \notin Gens
        BY DEF Gens
      <4>2. own = 0 => [posts EXCEPT ![own] = Append(@, "quit")] = posts
        BY <1>1, <4>1 DEF WinTypeOK
      <4> QED
        BY <1>1, <2>1, <4>2 DEF Quit, Ending
    <3> QED
      BY <1>1, <3>1 DEF WinTypeOK
  <2>2. CASE own # 0 /\ hook[own] = "loop"
    <3>1. posts' = [posts EXCEPT ![own] = Append(@, "quit")]
      BY <1>1, <2>2 DEF Quit
    <3> QED
      BY <1>1, <1>2, <2>2, <3>1, Queued DEF WinTypeOK
  <2> QED
    BY <1>2, <2>1, <2>2
<1>4. WinTypeOK'
  BY <1>1, <1>3 DEF WinTypeOK, statics, driverSide, Places
<1>5. Owners'
  BY <1>1, <1>3 DEF Owners, statics
<1>6. Backed' /\ WishKept'
  BY <1>1 DEF Backed, WishKept, Lifting, statics
<1>7. ASSUME NEW g \in Gens, Sole(g)' PROVE SoleOwns(g)' /\ SoleReaches(g)'
  <2>1. SoleOwns(g) /\ SoleReaches(g) /\ SoleOwns(g)'
    <3>1. g # 0
      BY DEF Gens
    <3> QED
      BY <1>1, <1>7, <3>1 DEF SoleInv, Sole, Ours, SoleOwns, statics
  <2>2. CASE posts'[g] = posts[g]
    BY <1>1, <2>1, <2>2 DEF SoleReaches, Up, Lifting, statics
  <2>3. CASE hook[g] = "loop" /\ posts'[g] = Append(posts[g], "quit")
    <3>1. posts'[g] # <<>> /\ \E i \in DOMAIN posts'[g] : posts'[g][i] = "quit"
      <4>1. posts[g] \in Seq({"hold", "lift", "quit"})
        BY <1>1 DEF WinTypeOK
      <4>2. /\ Append(posts[g], "quit") # <<>>
            /\ \E i \in DOMAIN Append(posts[g], "quit") : Append(posts[g], "quit")[i] = "quit"
        BY <4>1, Queued
      <4> QED
        BY <2>3, <4>2
    <3> QED
      BY <1>1, <2>1, <2>3, <3>1 DEF SoleReaches
  <2> QED
    BY <1>3, <2>1, <2>2, <2>3
<1> QED
  BY <1>4, <1>5, <1>6, <1>7 DEF WinInv
-----------------------------------------------------------------------------
(* The hook threads.                                                       *)

\* A new thread starts.
LEMMA CreateStep ==
    ASSUME WinInv, Rebuilds \/ Restarts PROVE WinInv'
<1>1. /\ WinTypeOK /\ Backed /\ Owners /\ WishKept /\ SoleInv
      /\ own = 0 /\ thr \in {"outer", "build", "over"} /\ thr' = "create"
      /\ last < MaxGen /\ last' = last + 1 /\ hook' = [hook EXCEPT ![last'] = "send"]
      /\ UNCHANGED <<statics, posts, window, setting, own, seen, asks, armed>>
  BY DEF WinInv, Rebuilds, Restarts, Goes, Backed, SoleInv, driverSide
<1>2. /\ last' \in Gens /\ last \in Nat /\ last' > last
      /\ \A g \in Gens : g > last' => g > last
  BY <1>1, WinCaptureAssumption DEF WinTypeOK, Gens
<1>3. /\ hook[last'] = "none" /\ hook'[last'] = "send"
      /\ \A g \in Gens : g # last' => hook'[g] = hook[g]
      /\ hook' \in [Gens -> Stages]
  BY <1>1, <1>2 DEF Backed, WinTypeOK, Stages, Starting
<1>4. WinTypeOK'
  BY <1>1, <1>2, <1>3 DEF WinTypeOK, statics, Places
<1>5. Owners'
  BY <1>1, <1>3 DEF Owners, WinTypeOK, statics
<1>6. Backed'
  <2>1. \A g \in Gens : g > last' => g # last' /\ hook[g] = "none"
    BY <1>1, <1>2 DEF Backed, Gens
  <2> QED
    BY <1>1, <1>3, <2>1 DEF Backed
<1>7. WishKept'
  BY <1>1 DEF WishKept, Lifting, statics
<1>8. ASSUME NEW g \in Gens, Sole(g)' PROVE SoleOwns(g)' /\ SoleReaches(g)'
  <2>1. g = last'
    BY <1>1, <1>2, <1>3, <1>8 DEF Sole
  <2> QED
    BY <1>3, <2>1 DEF SoleOwns, SoleReaches
<1> QED
  BY <1>4, <1>5, <1>6, <1>7, <1>8 DEF WinInv

\* A thread that leaves no longer has the channel.
LEMMA LeaveStep ==
    ASSUME WinInv, NEW g \in Gens,
           StartFails(g) \/ LoopFails(g) \/ TearsDown(g)
    PROVE  WinInv'
<1>1. /\ WinTypeOK /\ Backed /\ Owners /\ WishKept /\ SoleInv
      /\ UNCHANGED <<block, setting, captureThread, driverSide, armed>>
  BY DEF WinInv, StartFails, LoopFails, TearsDown, SoleInv, statics
<1>2. PICK stage \in Ending : hook' = [hook EXCEPT ![g] = stage]
  BY Stepping DEF StartFails, LoopFails, TearsDown, Ending
<1>3. /\ hook'[g] = stage /\ \A h \in Gens : h # g => hook'[h] = hook[h]
      /\ hook' \in [Gens -> Stages]
  BY <1>1, <1>2 DEF WinTypeOK, Stages
<1>4. /\ StartFails(g) => hook[g] = "register" /\ stage = "gone"
      /\ LoopFails(g) => hook[g] = "loop" /\ stage = "quit"
      /\ TearsDown(g) => \/ hook[g] = "quit" /\ stage = "unregister"
                         \/ hook[g] = "unregister" /\ stage = "unsend"
                         \/ hook[g] = "unsend" /\ stage = "gone"
  BY <1>1, <1>2, Stepping DEF WinTypeOK, StartFails, LoopFails, TearsDown
<1>5. WinTypeOK'
  <2>1. CASE StartFails(g) \/ LoopFails(g)
    BY <1>1, <1>3, <2>1 DEF StartFails, LoopFails, statics, WinTypeOK, captureThread, driverSide
  <2>2. CASE TearsDown(g)
    <3>1. flag' \in [Usages -> BOOLEAN] /\ reg' \in [Usages -> {"none", "sink", "nolegacy"}]
      BY <1>1, <2>2 DEF TearsDown, WinTypeOK
    <3>2. posts' \in [Gens -> Seq({"hold", "lift", "quit"})]
      <4>1. <<>> \in Seq({"hold", "lift", "quit"})
        BY EmptySeq
      <4> QED
        BY <1>1, <2>2, <4>1 DEF TearsDown, WinTypeOK
    <3>3. /\ pixel' \in Gens \cup {0} /\ rawWindow' \in Gens \cup {0} /\ tid' \in Gens \cup {0}
          /\ sender' \in Gens \cup {0} /\ window' \subseteq Gens /\ rawActive' \in BOOLEAN
      BY <1>1, <2>2 DEF TearsDown, WinTypeOK
    <3> QED
      BY <1>1, <1>3, <3>1, <3>2, <3>3 DEF WinTypeOK, captureThread, driverSide
  <2> QED
    BY <2>1, <2>2
<1>6. Owners'
  <2>1. CASE StartFails(g) \/ LoopFails(g)
    BY <1>1, <1>3, <1>4, <2>1 DEF StartFails, LoopFails, statics, Owners, WinTypeOK
  <2>2. CASE TearsDown(g)
    <3>1. /\ tid' = 0 \/ (tid' = tid /\ hook[g] # "quit")
          /\ pixel' = 0 \/ (pixel' = pixel /\ hook[g] # "quit")
      BY <2>2 DEF TearsDown
    <3>2. \A h \in Gens : posts'[h] # <<>> => h # g /\ posts'[h] = posts[h]
      BY <1>1, <2>2 DEF TearsDown, WinTypeOK
    <3>3. window' \subseteq window
      BY <2>2 DEF TearsDown
    <3>4. tid' # 0 => hook'[tid'] \in {"apply", "loop", "quit"}
      BY <1>1, <1>3, <1>4, <2>2, <3>1 DEF Owners, WinTypeOK
    <3>5. pixel' # 0 => hook'[pixel'] \in {"loop", "quit"}
      BY <1>1, <1>3, <1>4, <2>2, <3>1 DEF Owners, WinTypeOK
    <3>6. \A h \in window' : hook'[h] \notin {"none", "send", "register"}
      BY <1>1, <1>3, <1>4, <2>2, <3>3 DEF Owners, WinTypeOK
    <3>7. \A h \in Gens : posts'[h] # <<>> => hook'[h] \in {"apply", "loop", "quit"}
      BY <1>1, <1>3, <3>2 DEF Owners
    <3> QED
      BY <3>4, <3>5, <3>6, <3>7 DEF Owners
  <2> QED
    BY <2>1, <2>2
<1>7. Backed'
  <2>1. hook[g] # "none"
    BY <1>4
  <2> QED
    BY <1>1, <1>2, <1>3, <2>1 DEF Backed, WinTypeOK, captureThread, Ending, Starting
<1>8. WishKept'
  BY <1>1 DEF WishKept, Lifting, captureThread
<1>9. ASSUME NEW f \in Gens, Sole(f)' PROVE SoleOwns(f)' /\ SoleReaches(f)'
  <2>1. 0 \notin Gens
    BY DEF Gens
  <2>2. CASE stage = "gone"
    <3>1. sender' = 0
      BY <1>4, <2>2 DEF StartFails, LoopFails, TearsDown
    <3> QED
      BY <1>9, <2>1, <3>1 DEF Sole
  <2>3. CASE f = g
    BY <1>2, <1>3, <2>3 DEF SoleOwns, SoleReaches, Ending
  <2>4. CASE f # g /\ stage # "gone"
    BY <1>2, <1>3, <1>9, <2>4 DEF Sole, Ending
  <2> QED
    BY <2>2, <2>3, <2>4
<1> QED
  BY <1>5, <1>6, <1>7, <1>8, <1>9 DEF WinInv

\* A thread on its way up: install, register, publish, apply.
LEMMA StartStep ==
    ASSUME WinInv, NEW g \in Gens, Starts(g) PROVE WinInv'
<1>1. /\ WinTypeOK /\ Backed /\ Owners /\ WishKept /\ SoleInv
      /\ UNCHANGED <<block, posts, setting, captureThread, driverSide, armed>>
  BY DEF WinInv, Starts, SoleInv
<1>2. hook[g] \in Starting /\ hook' = [hook EXCEPT ![g] = Follows(StartOrder, @)]
  BY DEF Starts, Starting
<1>3. PICK stage \in {"register", "publish", "apply", "loop"} :
        /\ hook' = [hook EXCEPT ![g] = stage]
        /\ hook[g] = "send" <=> stage = "register"
        /\ hook[g] = "register" <=> stage = "publish"
        /\ hook[g] = "publish" <=> stage = "apply"
        /\ hook[g] = "apply" <=> stage = "loop"
  BY <1>1, <1>2, Stepping DEF Starting, WinTypeOK
<1>4. /\ hook'[g] = stage /\ \A h \in Gens : h # g => hook'[h] = hook[h]
      /\ hook' \in [Gens -> Stages]
  BY <1>1, <1>3 DEF WinTypeOK, Stages, Starting
<1>5. /\ stage = "register" => sender' = g
      /\ stage # "register" => sender' = sender
      /\ stage = "publish" =>
            \/ rawActive' = TRUE /\ reg' = [u \in Usages |-> "sink"] /\ window' = window \cup {g}
            \/ UNCHANGED <<rawActive, reg, window>>
      /\ stage # "publish" => UNCHANGED <<rawActive, window>>
      /\ stage = "apply" => tid' = g
      /\ stage # "apply" => tid' = tid
      /\ stage = "loop" => /\ rawWindow' = IF g \in window THEN g ELSE rawWindow
                           /\ Applies(g, block, PreReset, rawWindow')
      /\ stage # "loop" => UNCHANGED <<rawWindow, flag, pixel>>
      /\ stage \notin {"publish", "loop"} => UNCHANGED reg
  BY <1>3 DEF Starts, Registers
<1>6. /\ Ours(g)' <=> Ours(g)
      /\ Ours(g) => g = last /\ thr = "create" /\ own = 0
  <2>1. own # g
    BY <1>1, <1>2 DEF Backed, Starting, Ending, Gens
  <2> QED
    BY <1>1, <2>1 DEF Backed, Ours, captureThread
<1>7. ASSUME stage = "loop"
      PROVE  /\ rawWindow' \in Gens \cup {0}
             /\ pixel' \in Gens \cup {0} /\ pixel' \in {0, pixel, g}
             /\ flag' \in [Usages -> BOOLEAN]
             /\ reg' \in [Usages -> {"none", "sink", "nolegacy"}]
             /\ block /\ pixel \in {0, g} => pixel' = g
             /\ rawActive /\ g \in window /\ reg["mouse"] # "none" =>
                  /\ rawWindow' = g /\ reg'["mouse"] # "none"
                  /\ flag'["mouse"] => reg'["mouse"] = "nolegacy"
                  /\ block /\ "mouse" \notin Refused => reg'["mouse"] = "nolegacy"
  <2>1. /\ rawWindow' \in Gens \cup {0} /\ block \in BOOLEAN
        /\ g \in window => rawWindow' = g /\ rawWindow' # 0
        /\ Applies(g, block, PreReset, rawWindow')
    BY <1>1, <1>5, <1>7 DEF WinTypeOK, Gens
  <2>2. PreReset \in [Usages -> BOOLEAN]
    <3>1. (~block) \in BOOLEAN /\ flag \in [Usages -> BOOLEAN]
      BY <1>1 DEF WinTypeOK
    <3> QED
      BY <3>1, Zenon DEF PreReset
  <2>3. PreReset["mouse"] <=> ~block
    BY WinCaptureAssumption DEF PreReset
  <2>4. /\ pixel' \in Gens \cup {0} /\ pixel' \in {0, pixel, g}
        /\ flag' \in [Usages -> BOOLEAN]
        /\ reg' \in [Usages -> {"none", "sink", "nolegacy"}]
        /\ block /\ pixel \in {0, g} => pixel' = g
        /\ rawActive /\ rawWindow' # 0 =>
             /\ reg["mouse"] # "none" => reg'["mouse"] # "none"
             /\ flag'["mouse"] => \/ PreReset["mouse"] /\ reg'["mouse"] = reg["mouse"]
                                  \/ reg'["mouse"] = "nolegacy"
             /\ block /\ "mouse" \notin Refused => flag'["mouse"]
             /\ flag'["mouse"] => block
    <3>1. rawActive /\ rawWindow' # 0 => (flag'["mouse"] => block)
      BY <2>1, WinCaptureAssumption DEF Applies
    <3> QED
      BY <1>1, <2>1, <2>2, <3>1, Applied
  <2> QED
    BY <2>1, <2>3, <2>4
<1>8. WinTypeOK'
  <2>1. CASE stage = "loop"
    BY <1>1, <1>4, <1>5, <1>7, <2>1 DEF WinTypeOK, captureThread, driverSide
  <2>2. CASE stage # "loop"
    <3>1. reg' \in [Usages -> {"none", "sink", "nolegacy"}] /\ rawActive' \in BOOLEAN
          /\ window' \subseteq Gens
      BY <1>1, <1>5, <2>2 DEF WinTypeOK
    <3> QED
      BY <1>1, <1>4, <1>5, <2>2, <3>1 DEF WinTypeOK, captureThread, driverSide
  <2> QED
    BY <2>1, <2>2
<1>9. Owners'
  <2>1. tid' # 0 => hook'[tid'] \in {"apply", "loop", "quit"}
    <3>1. tid' = g => hook'[tid'] \in {"apply", "loop", "quit"}
      BY <1>1, <1>3, <1>4, <1>5 DEF Owners, Gens
    <3>2. tid' # g => tid' = tid
      BY <1>5
    <3> QED
      BY <1>1, <1>4, <3>1, <3>2 DEF Owners, WinTypeOK
  <2>2. pixel' # 0 => hook'[pixel'] \in {"loop", "quit"}
    <3>1. pixel' = pixel \/ pixel' = 0 \/ (pixel' = g /\ stage = "loop")
      BY <1>5, <1>7
    <3>2. pixel = g /\ pixel # 0 => FALSE
      BY <1>1, <1>2 DEF Owners, Starting
    <3> QED
      BY <1>1, <1>4, <3>1, <3>2 DEF Owners, WinTypeOK
  <2>3. \A h \in window' : hook'[h] \notin {"none", "send", "register"}
    <3>1. \A h \in window' : h \in window \/ (h = g /\ stage = "publish")
      BY <1>5
    <3>2. stage = "register" => g \notin window
      BY <1>1, <1>3 DEF Owners
    <3> QED
      BY <1>1, <1>4, <3>1, <3>2 DEF Owners, WinTypeOK
  <2>4. \A h \in Gens : posts'[h] # <<>> => hook'[h] \in {"apply", "loop", "quit"}
    BY <1>1, <1>2, <1>3, <1>4 DEF Owners, Starting
  <2> QED
    BY <2>1, <2>2, <2>3, <2>4 DEF Owners
<1>10. Backed' /\ WishKept'
  BY <1>1, <1>2, <1>4 DEF Backed, WishKept, Lifting, captureThread, Starting, Ending, Gens
<1>11. ASSUME NEW f \in Gens, Sole(f)' PROVE SoleOwns(f)' /\ SoleReaches(f)'
  <2>1. f = g
    BY <1>3, <1>4, <1>11 DEF Sole
  <2>2. Ours(g) /\ \A h \in Gens \ {g} : hook[h] \in {"none", "gone"}
    BY <1>4, <1>6, <1>11, <2>1 DEF Sole
  <2>3. CASE stage = "register"
    <3>1. armed => block \/ Lifting
      BY <1>1, <1>6, <2>2 DEF WishKept
    <3> QED
      BY <1>1, <1>4, <2>1, <2>3, <3>1 DEF SoleOwns, SoleReaches, Lifting
  <2>4. CASE stage # "register"
    <3>1. SoleOwns(g) /\ SoleReaches(g)
      BY <1>1, <1>5, <1>11, <2>1, <2>2, <2>4 DEF SoleInv, Sole
    <3>2. CASE stage = "publish"
      <4>1. g \notin window
        BY <1>1, <1>3, <3>2 DEF Owners
      <4>2. g \in window' => rawActive' /\ reg'["mouse"] # "none"
        BY <1>5, <3>2, <4>1, WinCaptureAssumption
      <4>3. armed => block \/ Lifting
        BY <1>3, <3>1, <3>2 DEF SoleReaches
      <4> QED
        BY <1>1, <1>4, <2>1, <3>2, <4>2, <4>3 DEF SoleOwns, SoleReaches, Lifting
    <3>3. CASE stage = "apply"
      <4>1. posts[g] = <<>>
        BY <1>1, <1>3, <3>3 DEF Owners
      <4>2. armed => block \/ Lifting
        BY <1>3, <3>1, <3>3 DEF SoleReaches
      <4>3. g \in window => rawActive /\ reg["mouse"] # "none"
        BY <1>3, <3>1, <3>3 DEF SoleOwns
      <4> QED
        BY <1>1, <1>4, <1>5, <2>1, <3>3, <4>1, <4>2, <4>3 DEF SoleOwns, SoleReaches, Lifting
    <3>4. CASE stage = "loop"
      <4>1. g \in window => rawActive /\ reg["mouse"] # "none"
        BY <1>3, <3>1, <3>4 DEF SoleOwns
      <4>2. tid = g
        BY <1>3, <3>1, <3>4 DEF SoleOwns
      <4>3. pixel \in {0, g}
        BY <1>1, <2>2 DEF Owners, WinTypeOK
      <4>4. window' = window /\ rawActive' = rawActive /\ tid' = tid
        BY <1>5, <3>4
      <4>5. SoleOwns(g)'
        BY <1>4, <1>7, <3>4, <4>1, <4>2, <4>4 DEF SoleOwns
      <4>6. block /\ g \in window => Up(g)'
        BY <1>7, <3>4, <4>1, <4>3 DEF Up
      <4>7. SoleReaches(g)'
        <5>1. Lifting' <=> Lifting
          BY <1>1 DEF Lifting
        <5> QED
          BY <1>1, <1>3, <1>4, <3>1, <3>4, <4>4, <4>6, <5>1 DEF SoleReaches
      <4> QED
        BY <2>1, <4>5, <4>7
    <3> QED
      BY <2>4, <3>2, <3>3, <3>4
  <2> QED
    BY <2>3, <2>4
<1> QED
  BY <1>8, <1>9, <1>10, <1>11 DEF WinInv

\* The thread handles a toggle, or WM_QUIT.
LEMMA HandleStep ==
    ASSUME WinInv, NEW g \in Gens, HandlesPost(g) PROVE WinInv'
<1>1. /\ WinTypeOK /\ Backed /\ Owners /\ WishKept /\ SoleInv
      /\ hook[g] = "loop" /\ posts[g] # <<>> /\ posts' = [posts EXCEPT ![g] = Tail(@)]
      /\ UNCHANGED <<block, tid, rawActive, rawWindow, sender, window, setting,
                     captureThread, driverSide, armed>>
  BY DEF WinInv, HandlesPost, SoleInv
<1> DEFINE q == posts[g]
<1>2. /\ q \in Seq({"hold", "lift", "quit"}) /\ q # <<>>
      /\ posts'[g] = Tail(q) /\ \A h \in Gens : h # g => posts'[h] = posts[h]
  BY <1>1 DEF WinTypeOK
<1>3. /\ Tail(q) \in Seq({"hold", "lift", "quit"}) /\ Head(q) \in {"hold", "lift", "quit"}
      /\ Tail(q) = <<>> => Last(q) = Head(q) /\ \A i \in DOMAIN q : q[i] = Head(q)
      /\ Tail(q) # <<>> =>
           /\ Last(Tail(q)) = Last(q)
           /\ Head(q) # "quit" /\ (\E i \in DOMAIN q : q[i] = "quit") =>
                \E i \in DOMAIN Tail(q) : Tail(q)[i] = "quit"
  BY <1>2, Queued
<1>4. posts' \in [Gens -> Seq({"hold", "lift", "quit"})]
  BY <1>1, <1>3 DEF WinTypeOK
<1>5. CASE Head(q) = "quit"
  <2>1. hook' = [hook EXCEPT ![g] = "quit"] /\ UNCHANGED <<flag, pixel, reg>>
    BY <1>5, Stepping DEF HandlesPost
  <2>2. /\ hook'[g] = "quit" /\ \A h \in Gens : h # g => hook'[h] = hook[h]
        /\ hook' \in [Gens -> Stages]
    BY <1>1, <2>1 DEF WinTypeOK, Stages, Ending
  <2>3. WinTypeOK'
    BY <1>1, <1>4, <2>1, <2>2 DEF WinTypeOK, captureThread, driverSide
  <2>4. Owners'
    BY <1>1, <1>2, <2>1, <2>2 DEF Owners, WinTypeOK
  <2>5. Backed'
    BY <1>1, <2>2 DEF Backed, WinTypeOK, captureThread, Ending, Starting
  <2>6. WishKept'
    BY <1>1 DEF WishKept, Lifting, captureThread
  <2>7. ASSUME NEW f \in Gens, Sole(f)' PROVE SoleOwns(f)' /\ SoleReaches(f)'
    <3>1. f = g
      BY <2>2, <2>7 DEF Sole
    <3> QED
      BY <2>2, <3>1 DEF SoleOwns, SoleReaches
  <2> QED
    BY <2>3, <2>4, <2>5, <2>6, <2>7 DEF WinInv
<1>6. CASE Head(q) # "quit"
  <2> DEFINE hold == Head(q) = "hold"
  <2>1. Applies(g, hold, flag, rawWindow) /\ hook' = hook
    BY <1>6 DEF HandlesPost
  <2>2. hold \in BOOLEAN /\ flag \in [Usages -> BOOLEAN] /\ rawWindow \in Gens \cup {0}
    BY <1>1 DEF WinTypeOK
  <2> HIDE DEF q
  <2>3. /\ pixel' \in Gens \cup {0} /\ pixel' \in {0, pixel, g}
        /\ flag' \in [Usages -> BOOLEAN]
        /\ reg' \in [Usages -> {"none", "sink", "nolegacy"}]
        /\ hold /\ pixel \in {0, g} => pixel' = g
        /\ rawActive /\ rawWindow # 0 =>
             /\ reg["mouse"] # "none" => reg'["mouse"] # "none"
             /\ flag'["mouse"] => \/ flag["mouse"] /\ reg'["mouse"] = reg["mouse"]
                                  \/ reg'["mouse"] = "nolegacy"
             /\ hold /\ "mouse" \notin Refused => flag'["mouse"]
    <3> HIDE DEF hold
    <3> QED
      BY <1>1, <2>1, <2>2, Applied
  <2>4. WinTypeOK'
    BY <1>1, <1>4, <2>1, <2>3 DEF WinTypeOK, captureThread, driverSide
  <2>5. Owners'
    <3>1. pixel' # 0 => hook'[pixel'] \in {"loop", "quit"}
      BY <1>1, <2>1, <2>3 DEF Owners
    <3> QED
      BY <1>1, <1>2, <2>1, <3>1 DEF Owners
  <2>6. Backed' /\ WishKept'
    BY <1>1, <2>1 DEF Backed, WishKept, Lifting, captureThread
  <2>7. ASSUME NEW f \in Gens, Sole(f)' PROVE SoleOwns(f)' /\ SoleReaches(f)'
    <3>1. f = g /\ \A h \in Gens \ {g} : hook[h] \in {"none", "gone"}
      BY <1>1, <2>1, <2>7 DEF Sole
    <3>2. SoleOwns(g) /\ SoleReaches(g)
      BY <1>1, <2>1, <2>7, <3>1 DEF SoleInv, Sole, Ours, captureThread
    <3>3. g \in window => rawActive /\ reg["mouse"] # "none" /\ rawWindow = g /\ rawWindow # 0
                          /\ (flag["mouse"] /\ "mouse" \notin Refused => reg["mouse"] = "nolegacy")
      BY <1>1, <3>2 DEF SoleOwns, Gens
    <3>4. g \in window => /\ reg'["mouse"] # "none"
                          /\ flag'["mouse"] /\ "mouse" \notin Refused => reg'["mouse"] = "nolegacy"
      BY <2>3, <3>3
    <3>5. SoleOwns(g)'
      BY <1>1, <2>1, <3>2, <3>3, <3>4 DEF SoleOwns
    <3>6. ASSUME g \in window, Head(q) = "hold" PROVE Up(g)'
      <4>1. pixel \in {0, g}
        BY <1>1, <3>1 DEF Owners, WinTypeOK
      <4> QED
        BY <2>3, <3>3, <3>4, <3>6, <4>1 DEF Up
    <3>7. SoleReaches(g)'
      <4> SUFFICES ASSUME armed, g \in window
                   PROVE  IF posts'[g] = <<>> THEN Up(g)' \/ Lifting'
                          ELSE \/ Last(posts'[g]) = "hold"
                               \/ \E i \in DOMAIN posts'[g] : posts'[g][i] = "quit"
        BY <1>1, <2>1 DEF SoleReaches
      <4>1. Last(q) = "hold" \/ \E i \in DOMAIN q : q[i] = "quit"
        BY <1>1, <1>2, <3>2 DEF SoleReaches, q
      <4>2. CASE Tail(q) = <<>>
        BY <1>2, <1>3, <1>6, <3>6, <4>1, <4>2
      <4>3. CASE Tail(q) # <<>>
        BY <1>2, <1>3, <1>6, <4>1, <4>3
      <4> QED
        BY <4>2, <4>3
    <3> QED
      BY <3>1, <3>5, <3>7
  <2> QED
    BY <2>4, <2>5, <2>6, <2>7 DEF WinInv
<1> QED
  BY <1>5, <1>6
-----------------------------------------------------------------------------
\* The invariant holds at the start, after every step, and so always.
LEMMA WinInvInit == WinCaptureInit => WinInv
<1> SUFFICES ASSUME WinCaptureInit PROVE WinInv
  OBVIOUS
<1>1. 1 \in Gens /\ 1 # 0
  BY WinCaptureAssumption DEF Gens
<1>2. /\ hook = [g \in Gens |-> IF g = 1 THEN "loop" ELSE "none"] /\ hook[1] = "loop"
      /\ posts = [g \in Gens |-> <<>>] /\ own = 1 /\ last = 1 /\ thr = "outer" /\ window = {1}
      /\ tid = 1 /\ pixel = 0 /\ ~armed
  BY <1>1 DEF WinCaptureInit
<1>3. WinTypeOK
  <2>1. <<>> \in Seq({"hold", "lift", "quit"})
    BY EmptySeq
  <2> QED
    BY <1>1, <2>1 DEF WinCaptureInit, WinTypeOK, Stages, Places
<1>4. Owners /\ WishKept
  BY <1>1, <1>2 DEF Owners, WishKept
<1>5. Backed
  BY <1>1, <1>2 DEF Backed, Starting, Gens
<1>6. ASSUME NEW g \in Gens, Sole(g) PROVE SoleOwns(g) /\ SoleReaches(g)
  <2>1. g = 1
    BY <1>6 DEF Sole, WinCaptureInit
  <2>2. rawActive /\ rawWindow = 1 /\ reg["mouse"] = "sink" /\ ~flag["mouse"]
    BY WinCaptureAssumption DEF WinCaptureInit
  <2> QED
    BY <1>2, <2>1, <2>2 DEF SoleOwns, SoleReaches
<1> QED
  BY <1>3, <1>4, <1>5, <1>6 DEF WinInv

LEMMA WinInvStep == WinInv /\ [WinCaptureNext]_winCaptureVars => WinInv'
<1> SUFFICES ASSUME WinInv, [WinCaptureNext]_winCaptureVars PROVE WinInv'
  OBVIOUS
<1>1. CASE HookThreads
  BY <1>1, StartStep, HandleStep, LeaveStep DEF HookThreads
<1>2. CASE \E g \in Gens : StartFails(g) \/ LoopFails(g)
  BY <1>2, LeaveStep
<1>3. CASE Sets
  BY <1>3, PostStep DEF Sets
<1>4. CASE CaptureThread
  BY <1>4, AloneSteps, BeginSteps, StoreStep, QuitStep, CreateStep, EndsIdle DEF CaptureThread
<1>5. CASE \E b \in BOOLEAN : SetsExclusive(b)
  BY <1>5, BeginSteps
<1>6. CASE Restarts
  BY <1>6, CreateStep
<1>7. CASE DropsGuard \/ WatchdogFires
  BY <1>7, BeginSteps
<1>8. CASE CreateTimesOut \/ Halts \/ TakesEvent \/ Wedges \/ Hand
  BY <1>8, AloneSteps
<1>9. CASE UNCHANGED winCaptureVars
  <2>1. /\ Alone /\ UNCHANGED <<captureThread, driverSide>>
    BY <1>9 DEF winCaptureVars, Alone
  <2>2. WinTypeOK /\ Backed /\ WishKept
    BY DEF WinInv
  <2>3. Backed' /\ WishKept' /\ \A g \in Gens : Ours(g)' => Ours(g)
    BY <2>1, <2>2 DEF Backed, WishKept, Lifting, Ours, Alone, statics, threads, captureThread
  <2> QED
    BY <2>1, <2>2, <2>3, Still DEF WinTypeOK, captureThread, driverSide
<1> QED
  BY <1>1, <1>2, <1>3, <1>4, <1>5, <1>6, <1>7, <1>8, <1>9 DEF WinCaptureNext

LEMMA WinInvAlways == WinCaptureSpec => []WinInv
BY WinInvInit, WinInvStep, PTL DEF WinCaptureSpec

\* At rest, the backend's thread is the one that the invariant is about.
LEMMA RestIsSole ==
    ASSUME WinInv, AtRest
    PROVE  own \in Gens /\ SoleOwns(own) /\ SoleReaches(own) /\ ~Lifting
<1>1. own \in Gens
  BY DEF WinInv, WinTypeOK, AtRest
<1>2. Sole(own)
  BY DEF AtRest, Sole, Ours
<1> QED
  BY <1>1, <1>2 DEF WinInv, AtRest, Lifting

\* A hook thread that ends late resets statics a newer thread may own; the
\* capture thread does not stay with a backend this happened to (hook_thread,
\* next_event).
THEOREM BackendOwnsStatics == WinCaptureSpec => []StaticsOwned
<1>1. WinInv => StaticsOwned
  BY RestIsSole DEF StaticsOwned, SoleOwns, AtRest
<1> QED
  BY <1>1, WinInvAlways, PTL

\* A wish to suppress raises the layers, also when it is stored before there is
\* a hook thread to post it to (set_exclusive, hook_thread).
THEOREM WishReachesLayers == WinCaptureSpec => []EngageReaches
<1>1. WinInv => EngageReaches
  BY RestIsSole DEF EngageReaches, SoleReaches, Up, AtRest
<1> QED
  BY <1>1, WinInvAlways, PTL
=============================================================================
