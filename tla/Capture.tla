------------------------------ MODULE Capture ------------------------------
(***************************************************************************)
(* The capture thread of a Linux computer (start_capture and CaptureGuard  *)
(* in kvm-daemon service.rs): it owns one of two backends, rebuilds it     *)
(* when it fails, records what it returns and hands it to the driver       *)
(* through a bounded channel.  The driver asks for the local input to be   *)
(* suppressed, and may wedge or go away while it is.                       *)
(***************************************************************************)
EXTENDS EvdevCapture, X11Capture

CONSTANTS
    Room,       \* bound: events in the channel to the driver (256 in the code)
    Limit,      \* bound: failures in a row (20 in the code)
    Typematic   \* whether evdev nodes repeat a held key (the X server may always)

ASSUME CaptureAssumption == MaxX \in Nat /\ Room \in Nat /\ Limit \in Nat /\ Typematic \in BOOLEAN

VARIABLES
    be,         \* the backend: "evdev", "x11" or "none"
    cap,        \* the thread: "outer", in "next_event", "sending", "over"
    chan,       \* events in the channel
    fails,      \* failures
    out,        \* CapturedState::keys: the keys the driver is told are down
    \* the driver's side
    want,       \* requested_exclusive
    rel,        \* release
    stop,       \* stop: the guard was dropped
    wedged,     \* the driver has not run for four seconds
    missed      \* history: keys whose release was lost on the way

captureVars == <<be, cap, chan, fails, out, want, rel, stop, wedged, missed>>
vars == <<down, plugged, evdevVars, x11Vars, captureVars>>

\* The type invariant.  A backend that is not in use has no node open and holds
\* no grab.
CaptureTypeOK ==
    /\ down \in [Devs -> SUBSET Keys] /\ plugged \subseteq Devs
    /\ stale \subseteq nodes /\ gone \subseteq nodes /\ grabbed \subseteq nodes
    /\ keys \subseteq Keys /\ out \subseteq Keys /\ missed \subseteq Keys
    /\ \A d \in Devs : pressed[d] \subseteq (IF d \in nodes THEN Keys ELSE {})
    /\ be # "evdev" => nodes = {}
    /\ be # "x11" => sgrab = {} /\ gk = "none" /\ xheld = {}
    /\ gk \in {"none", "xi", "core"} /\ xpc \in {"top", "rested", "follow", "poll"}
    /\ be \in {"none", "evdev", "x11"} /\ cap \in {"outer", "next_event", "sending", "over"}
    /\ chan \in 0 .. Room /\ fails \in 0 .. Limit + 1

Init ==
    /\ down = [d \in Devs |-> {}] /\ plugged = Devs
    /\ \/ Closed /\ be = "x11"
       \/ be = "evdev" /\ nodes = Devs /\ stale = {} /\ grabbed = {} /\ gone = {}
          /\ buf = [d \in Devs |-> <<>>] /\ queue = [d \in Devs |-> <<>>]
          /\ pressed = [d \in Devs |-> {}] /\ keys = {} /\ pending = <<>>
          /\ excl = FALSE /\ scan = 0 /\ polled = {} /\ removed = {} /\ overtaken = {}
    /\ XClosed
    /\ cap = "outer" /\ chan = 0 /\ fails = 0 /\ out = {}
    /\ want = FALSE /\ rel = FALSE /\ stop = FALSE /\ wedged = FALSE /\ missed = {}
----------------------------------------------------------------------------
(* The hand, the driver and the world.                                     *)

Hand(d, k, kind) ==
    /\ IF be = "evdev" THEN Deliver(d, k, kind) ELSE UNCHANGED buf
    /\ IF be = "x11" THEN XDeliver(k, IF kind = "repeat" THEN "down" ELSE kind) ELSE UNCHANGED xq
    /\ UNCHANGED <<plugged, captureVars, nodes, stale, grabbed, excl, ledgers, round, sgrab, dead, gk, xheld, xexcl, trying, xpc>>

Press(d, k) == d \in plugged /\ k \notin down[d] /\ down' = [down EXCEPT ![d] = @ \cup {k}] /\ Hand(d, k, "down")
Lift(d, k) == k \in down[d] /\ down' = [down EXCEPT ![d] = @ \ {k}] /\ Hand(d, k, "up")
Holds(d, k) == (be = "evdev" => Typematic) /\ k \in down[d] /\ UNCHANGED down /\ Hand(d, k, "repeat")

\* Some keys, one after the other in any order.
Orders(ks, n) == {s \in [1 .. n -> ks] : ks = {s[i] : i \in 1 .. n} /\ \A i, j \in 1 .. n : s[i] = s[j] => i = j}

\* A device is pulled.  The X server releases its keys for us.
Unplug(d) ==
    /\ d \in plugged
    /\ plugged' = plugged \ {d} /\ down' = [down EXCEPT ![d] = {}]
    /\ Vanish(d)
    /\ IF be = "x11" /\ ~dead /\ down[d] # {}
       THEN \E n \in 1 .. MaxX - Len(xq) : \E s \in Orders(down[d], n) :
              xq' = xq \o [i \in 1 .. n |-> [key |-> s[i], kind |-> "up", core |-> "coreKeyboard" \in sgrab]]
       ELSE UNCHANGED xq
    /\ UNCHANGED <<captureVars, nodes, grabbed, excl, ledgers, round, sgrab, dead, gk, xheld, xexcl, trying, xpc>>

Plug(d) ==
    /\ d \notin plugged
    /\ plugged' = plugged \cup {d}
    /\ UNCHANGED <<down, evdevVars, x11Vars, captureVars>>

ServerGone ==
    /\ be = "x11" /\ ConnectionDies
    /\ UNCHANGED <<down, plugged, evdevVars, captureVars>>

\* CaptureGuard::set_exclusive
SetExclusive(b) ==
    /\ ~stop /\ ~wedged /\ want # b
    /\ want' = b
    /\ UNCHANGED <<down, plugged, evdevVars, x11Vars, be, cap, chan, fails, out, rel, stop, wedged, missed>>

\* CaptureGuard::release_capture, for an event that stays local
ReleaseCapture ==
    /\ ~stop /\ ~wedged /\ ~rel /\ ~want
    /\ rel' = TRUE
    /\ UNCHANGED <<down, plugged, evdevVars, x11Vars, be, cap, chan, fails, out, want, stop, wedged, missed>>

\* The driver reads an event.
Take ==
    /\ ~stop /\ ~wedged /\ chan > 0
    /\ chan' = chan - 1
    /\ UNCHANGED <<down, plugged, evdevVars, x11Vars, be, cap, fails, out, want, rel, stop, wedged, missed>>

Wedge ==
    /\ ~stop /\ wedged' = ~wedged
    /\ UNCHANGED <<down, plugged, evdevVars, x11Vars, be, cap, chan, fails, out, want, rel, stop, missed>>

\* Mutant: the guard only asks the thread to stop.
OnlyStops == stop' = TRUE /\ UNCHANGED <<want, rel>>

\* Drop of CaptureGuard, which then waits for the thread.
Drops == want' = FALSE /\ rel' = TRUE /\ stop' = TRUE

DropGuard ==
    /\ ~stop /\ ~wedged /\ Drops
    /\ UNCHANGED <<down, plugged, evdevVars, x11Vars, be, cap, chan, fails, out, wedged, missed>>
----------------------------------------------------------------------------
(* The capture thread.                                                     *)

Driver == <<down, plugged, chan, want, rel, stop, wedged>>

\* The thread looks at `stop` here.
Checks == (be = "evdev" => scan = 0) /\ (be = "x11" => Top)

\* The backend is dropped with the thread.
Ends == Close /\ XClose /\ be' = "none" /\ cap' = "over"

\* next_event returns an error.  An evdev read may fail at any time.
Broken ==
    /\ cap = "next_event"
    /\ (be = "evdev" /\ scan \in nodes) \/ (be = "x11" /\ XFails(rel, want))

Stops ==
    /\ stop
    /\ cap = "outer" \/ (cap = "next_event" /\ Checks) \/ Broken
    /\ Ends
    /\ UNCHANGED <<Driver, fails, out, missed>>

Due == wedged /\ want

\* Mutant: the watchdog takes the wish back but leaves the backend alone.
TakesWishBack == UNCHANGED <<evdevVars, x11Vars>>

\* The release in watchdog_release_if_task_wedged; its errors are ignored.
FreesBackend ==
    /\ IF be = "evdev" THEN grabbed' = {} /\ excl' = FALSE ELSE UNCHANGED <<grabbed, excl>>
    /\ IF be = "x11" /\ xexcl THEN XUngrab ELSE UNCHANGED <<gk, sgrab, xexcl>>
    /\ UNCHANGED <<nodes, stale, buf, ledgers, round, xq, dead, xheld, trying, xpc>>

\* Between two calls of next_event, and while the channel is full.
Watchdog ==
    /\ Due
    /\ cap = "outer" \/ (cap = "sending" /\ chan = Room)
    /\ ~stop
    /\ want' = FALSE
    /\ FreesBackend
    /\ UNCHANGED <<down, plugged, chan, rel, stop, wedged, be, cap, fails, out, missed>>

\* create_capture after a failure: X11 if there is a server, else evdev.
Rebuild ==
    /\ cap = "outer" /\ ~stop /\ ~Due /\ be = "none"
    /\ \/ be' = "x11" /\ UNCHANGED <<evdevVars, x11Vars, cap, fails>>
       \/ be' = "evdev" /\ Open /\ UNCHANGED <<x11Vars, cap, fails>>
       \/ /\ be' = "none" /\ fails' = fails + 1
          /\ cap' = IF fails' > Limit THEN "over" ELSE "outer"
          /\ UNCHANGED <<evdevVars, x11Vars>>
    /\ UNCHANGED <<Driver, out, missed>>

Enter ==
    /\ cap = "outer" /\ ~stop /\ ~Due /\ be # "none"
    /\ cap' = "next_event"
    /\ UNCHANGED <<Driver, evdevVars, x11Vars, be, fails, out, missed>>

\* Mutant: a release the state does not know is passed on as well.
PassesAll(e) == TRUE

\* CapturedState::record: a release of an unknown key is dropped; a repeat may
\* be throttled.
Recorded(e) == e.kind = "up" => e.key \in out

\* next_event has returned e.
Returns(e) ==
    /\ fails' = 0
    /\ out' = IF e.kind = "up" THEN out \ {e.key} ELSE out \cup {e.key}
    /\ missed' = IF e.kind = "repeat" THEN missed ELSE missed \ {e.key}
    /\ \/ cap' = "sending" /\ Recorded(e)
       \/ cap' = "outer" /\ (~Recorded(e) \/ (e.kind # "up" /\ e.key \in out))
    /\ UNCHANGED <<Driver, be>>

Events == {Event(k, kind) : k \in Keys, kind \in {"down", "up", "repeat"}}

\* With the wish loaded just before, an evdev node is grabbed as it should be.
Followed == want \/ ~excl

EvdevStep ==
    /\ be = "evdev" /\ cap = "next_event"
    /\ \/ /\ Followed /\ ~stop
          /\ \E e \in Events : Emits(e) /\ Returns(e)
       \/ /\ \/ \E refuse \in SUBSET Shy : Reload(refuse) \/ Follow(want, refuse)
             \/ Followed /\ ~stop /\ Poll
             \/ ReadNode \/ LastRead \/ RemoveNode \/ EndRound
             \/ \E k \in Orphans : ReleaseOrphan(k)
          /\ UNCHANGED <<Driver, be, cap, fails, out, missed>>
    /\ UNCHANGED x11Vars

X11Step ==
    /\ be = "x11" /\ cap = "next_event" /\ ~(stop /\ Checks)
    /\ \/ \E e \in Events : (XRepeats(e) \/ XEmits(e)) /\ Returns(e)
       \/ XTakesFlag(rel) /\ rel' = FALSE
          /\ UNCHANGED <<down, plugged, chan, want, stop, wedged, be, cap, fails, out, missed>>
       \/ XFollow(want) /\ UNCHANGED <<Driver, be, cap, fails, out, missed>>
       \/ XSkips /\ missed' = missed \cup Torn /\ UNCHANGED <<Driver, be, cap, fails, out>>
    /\ UNCHANGED evdevVars

\* After an error the backend is dropped, and with it what it knew of held
\* keys; only a pinch is ended.
Fails ==
    /\ Broken /\ ~stop
    /\ Close /\ XClose /\ be' = "none"
    /\ fails' = fails + 1 /\ cap' = "sending"
    /\ missed' = missed \cup out
    /\ rel' = (rel /\ ~(be = "x11" /\ Top))
    /\ UNCHANGED <<down, plugged, chan, want, stop, wedged, out>>

\* Mutant: the channel takes an event more than it has room for.
OneTooMany == chan <= Room

HasRoom == chan < Room

\* capture_send_bounded
Sends ==
    /\ cap = "sending" /\ HasRoom
    /\ chan' = chan + 1
    /\ IF fails > Limit THEN Ends ELSE cap' = "outer" /\ UNCHANGED <<evdevVars, x11Vars, be>>
    /\ UNCHANGED <<down, plugged, want, rel, stop, wedged, fails, out, missed>>

\* Mutant: a full channel is waited for whatever happens.
NeverGivesUp == FALSE

\* The receiver is gone, or the guard asks the thread to stop.
GivesUpSend == stop

SendAborted ==
    /\ cap = "sending" /\ GivesUpSend
    /\ Ends
    /\ UNCHANGED <<Driver, fails, out, missed>>

Thread ==
    \/ Stops \/ Watchdog \/ Rebuild \/ Enter \/ EvdevStep \/ X11Step \/ Fails \/ Sends \/ SendAborted

World ==
    \/ \E d \in Devs, k \in Keys : Press(d, k) \/ Lift(d, k) \/ Holds(d, k)
    \/ \E d \in Loose : Unplug(d) \/ Plug(d)
    \/ \E b \in BOOLEAN : SetExclusive(b)
    \/ ServerGone \/ ReleaseCapture \/ Take \/ Wedge \/ DropGuard

Next == Thread \/ World

Spec == Init /\ [][Next]_vars
\* A hand is slower than the reads: again and again the keyboard that is being
\* read has nothing more, and the read that finds so is made.
ReadsDrain == []<>(scan \in nodes => buf[scan] = <<>>) /\ SF_vars(EvdevStep /\ scan' # scan)

FairSpec == Spec /\ WF_vars(Thread) /\ WF_vars(Take) /\ ReadsDrain
----------------------------------------------------------------------------
(* Properties.                                                             *)

\* Everything the hand did has reached the driver's record.
Quiet ==
    /\ cap = "next_event"
    /\ be = "evdev" => Drained
    /\ be = "x11" => xq = <<>> /\ ~dead

\* Once everything is read, no key is held for the peer that no hand holds,
\* whatever was plugged, pulled, grabbed or ungrabbed meanwhile; except for a
\* key whose release a dropped backend or a switch of the X11 grab has lost, or
\* of which the events came out in another order than they were read.
NoGhost == Quiet => out \ (missed \cup overtaken) \subseteq UNION {down[d] : d \in Devs}

\* A key stays down for the driver while any open keyboard reports it down,
\* with the same exception: the multi-device guard of accept_event and
\* remove_devices.
HeldStays ==
    (Quiet /\ be = "evdev") => (UNION {pressed[d] : d \in nodes}) \ overtaken \subseteq out

\* remove_devices (evdev_capture.rs:674-677) keeps what a pulled keyboard had
\* queued and releases what it held, for "without this, a pulled keyboard or
\* mouse can leave remote state pressed".  It puts both ahead of what still
\* waits in other keyboards' queues, repeats of the same key among them.
PulledKeyboardLetsGo == Quiet => out \ missed \subseteq UNION {down[d] : d \in Devs}

\* And a release that waits in another keyboard's queue then comes after a press
\* that was read later.
SurvivorsHold == (Quiet /\ be = "evdev") => UNION {pressed[d] : d \in nodes} \subseteq out

\* The X server holds exactly the grab the backend has on record, and none at
\* all once the backend is dropped.
GrabsAreKnown ==
    CASE gk = "none" -> sgrab = {}
      [] gk = "xi"   -> dead \/ sgrab \in XiGrabs
      [] gk = "core" -> dead \/ sgrab = CoreGrab

Free == sgrab = {} /\ grabbed = {}

\* Input that is no longer to be suppressed comes back to the local desktop,
\* for a driver that runs: whatever grab was refused, half taken or lost.
LocalReturns == <>[](~want /\ ~wedged) => <>[]Free

\* A driver that hangs with the channel full, while it wants the input
\* suppressed, does not keep the local desktop frozen.
StallFrees == (wedged /\ want /\ cap = "sending" /\ chan = Room) ~> (Free \/ ~wedged)

\* Dropping the guard does not wait for ever for the thread it joins.
JoinReturns == stop ~> (cap = "over" /\ Free)
============================================================================
