---------------------------- MODULE X11Capture ----------------------------
(***************************************************************************)
(* The X11 capture backend (kvm-platform x11_capture.rs).  It listens to   *)
(* the raw XInput2 events of the server, and takes the local input away    *)
(* with one of three grabs: an XInput2 grab of all devices, of the two     *)
(* master devices, or the core pointer and keyboard.  Under the core grab  *)
(* the raw events stop and the core events take their place.               *)
(***************************************************************************)
EXTENDS Naturals, Sequences

CONSTANTS
    MaxX        \* bound: events on their way from the server

VARIABLES
    sgrab,      \* what the server has granted to this connection
    xq,         \* events of the server not yet read
    dead,       \* the connection is broken
    \* X11Capture
    gk,         \* grab_kind
    xheld,      \* held_keys
    xexcl,      \* exclusive
    trying,     \* grab_retry_since is set
    xpc         \* next_event: "top" of the loop (or "rested"),
                \* "follow" the wish, "poll" the server

x11Vars == <<sgrab, xq, dead, gk, xheld, xexcl, trying, xpc>>

XiGrabs == {{"all"}, {"pointer", "keyboard"}}
CoreGrab == {"corePointer", "coreKeyboard"}

XClosed ==
    /\ sgrab = {} /\ xq = <<>> /\ dead = FALSE
    /\ gk = "none" /\ xheld = {} /\ xexcl = FALSE /\ trying = FALSE /\ xpc = "top"

\* The backend is dropped: its connection closes, and the server takes back
\* whatever it had granted.
XClose ==
    /\ sgrab' = {} /\ xq' = <<>> /\ dead' = FALSE
    /\ gk' = "none" /\ xheld' = {} /\ xexcl' = FALSE /\ trying' = FALSE /\ xpc' = "top"
----------------------------------------------------------------------------
(* The server.                                                             *)

\* It reports a key: raw, or as a core event under the core grab.
XDeliver(k, kind) ==
    IF dead THEN UNCHANGED xq
    ELSE /\ Len(xq) < MaxX
         /\ xq' = Append(xq, [key |-> k, kind |-> kind, core |-> "coreKeyboard" \in sgrab])

ConnectionDies ==
    /\ ~dead
    /\ dead' = TRUE /\ sgrab' = {} /\ xq' = <<>>
    /\ UNCHANGED <<gk, xheld, xexcl, trying, xpc>>
----------------------------------------------------------------------------
(* The grabs.  The server may refuse any of them, another client may hold  *)
(* the devices; each request is answered before the next is made.          *)

\* Mutant: a sweep that got one master device only keeps it.
KeepsHalf(got) == got

\* xi_grab_sweep, refused: what it did get is given back.
SweepFailed(got) == {}

\* Mutant: the pointer stays grabbed when the keyboard is refused.
KeepsPointer(got) == got

\* core_grab, refused: the pointer is given back.
CoreFailed(got) == {}

\* set_exclusive(true) as the server sees it, with the kind it ends in; "none"
\* when every grab was refused.
Engage(held, kind) ==
    \/ \E g \in XiGrabs : held = g /\ kind = "xi"
    \/ \E half \in {{}, {"pointer"}, {"keyboard"}} :
         LET left == SweepFailed(half) IN
         \/ held = left \cup CoreGrab /\ kind = "core"
         \/ \E got \in {{}, {"corePointer"}} : held = left \cup CoreFailed(got) /\ kind = "none"

\* Mutant: the hold is released by what the backend wants, not by what it has.
ReleasesXi(kind) == IF kind = "none" THEN {} ELSE {"all", "pointer", "keyboard"}

\* set_exclusive(false): the hold of the recorded kind.
Releases(kind) ==
    CASE kind = "xi"   -> {"all", "pointer", "keyboard"}
      [] kind = "core" -> CoreGrab
      [] OTHER         -> {}
----------------------------------------------------------------------------
(* One call of next_event.                                                 *)

Top == xpc \in {"top", "rested"}

\* A held key that the server does not repeat is repeated here, but not twice
\* without a pass through the loop: it is due again after 33 ms.
XRepeats(e) ==
    /\ xpc = "top"
    /\ \E k \in xheld : e = [key |-> k, kind |-> "repeat"]
    /\ xpc' = "rested"
    /\ UNCHANGED <<sgrab, xq, dead, gk, xheld, xexcl, trying>>

\* set_exclusive(false).  The record of the hold is cleared before the server
\* answers; on a broken connection the call fails after that.
XUngrab ==
    /\ gk' = "none"
    /\ sgrab' = sgrab \ Releases(gk)
    /\ xexcl' = (xexcl /\ dead)

\* The release flag is taken.
XTakesFlag(flagged) ==
    /\ Top /\ ~(flagged /\ xexcl /\ dead)
    /\ IF flagged /\ xexcl THEN XUngrab ELSE UNCHANGED <<gk, sgrab, xexcl>>
    /\ xpc' = "follow"
    /\ UNCHANGED <<xq, dead, xheld, trying>>

\* The wish is followed.  While a grab is refused the loop starts again
\* without reading an event.
XFollow(want) ==
    /\ xpc = "follow"
    /\ \/ want = xexcl /\ xpc' = "poll" /\ UNCHANGED <<sgrab, gk, xexcl, trying>>
       \/ ~want /\ xexcl /\ ~dead /\ XUngrab /\ trying' = FALSE /\ xpc' = "poll"
       \/ want /\ ~xexcl /\ dead /\ trying' = TRUE /\ xpc' = "top" /\ UNCHANGED <<sgrab, gk, xexcl>>
       \/ /\ want /\ ~xexcl /\ ~dead
          /\ \E kind \in {"xi", "core", "none"} :
               /\ gk' = kind
               /\ Engage(sgrab', kind)
               /\ xexcl' = (kind # "none") /\ trying' = (kind = "none")
               /\ xpc' = IF kind = "none" THEN "top" ELSE "poll"
    /\ UNCHANGED <<xq, dead, xheld>>

\* Mutant: what was queued before a switch of the grab is read as well.
ReadsBoth(e) == TRUE

\* translate: under the core grab only core events count, else only raw ones.
Heard(e) == e.core = (gk = "core")

\* One event of the server is read and returned.
XEmits(e) ==
    /\ xpc = "poll" /\ ~dead /\ xq # <<>>
    /\ Heard(Head(xq))
    /\ e = [key |-> Head(xq).key, kind |-> Head(xq).kind]
    /\ xheld' = IF e.kind = "down" THEN xheld \cup {e.key} ELSE xheld \ {e.key}
    /\ xq' = Tail(xq) /\ xpc' = "top"
    /\ UNCHANGED <<sgrab, dead, gk, xexcl, trying>>

\* ... or dropped, or there was none.
XSkips ==
    /\ xpc = "poll" /\ ~dead
    /\ xq # <<>> => ~Heard(Head(xq))
    /\ xq' = IF xq = <<>> THEN xq ELSE Tail(xq)
    /\ xpc' = "top"
    /\ UNCHANGED <<sgrab, dead, gk, xheld, xexcl, trying>>

\* The releases a skipped event takes with it.
Torn == IF xq # <<>> /\ Head(xq).kind = "up" THEN {Head(xq).key} ELSE {}

\* next_event returns an error: on a broken connection, or after two seconds of
\* refused grabs.
XFails(flagged, want) ==
    \/ dead /\ Top /\ flagged /\ xexcl
    \/ dead /\ xpc = "follow" /\ ~want /\ xexcl
    \/ dead /\ xpc = "poll"
    \/ trying /\ xpc = "follow" /\ want /\ ~xexcl
============================================================================
