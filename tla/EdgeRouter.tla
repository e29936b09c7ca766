----------------------------- MODULE EdgeRouter -----------------------------
(***************************************************************************)
(* The edge router of the machine whose keyboard and mouse are in use: a   *)
(* virtual cursor that it integrates from raw motion, and the rules by     *)
(* which pushing past an edge hands control to the screen arranged there   *)
(* and pushing past an edge of that screen brings it home.                 *)
(*                                                                         *)
(* The router is one record, as in the code, and its methods are operators *)
(* on it; an action is a handler of the daemon, which may call several.    *)
(* Pixels are scaled down with their order kept.                           *)
(***************************************************************************)
EXTENDS Integers, FiniteSets

CONSTANTS
    Local, PeerScreens,   \* screen ids; each peer's screen carries its fingerprint
    NoScreen,
    Setups,         \* records of grid, mode and style that may be configured
    Sizes,          \* screen sizes, <<width, height>>
    Motions,        \* relative motions, <<dx, dy>>
    Drifts,         \* how far the system's pointer may be off the virtual one
    EdgePush, PhantomGuard, SettleDepth, ReturnPush, ReturnEdge,
    EntryInset, ReturnInset, ReturnClear, Diverge, Slide, Park

Screens == PeerScreens \cup {Local}
Thresholds == {EdgePush, PhantomGuard, SettleDepth, ReturnPush, ReturnEdge,
               EntryInset, ReturnInset, ReturnClear, Diverge, Slide, Park}
Edges == {"left", "right", "top", "bottom"}

\* An EdgeMode, a DoubleEdgeStyle and a Layout.
Setup == [grid : [Screens -> Int \X Int], mode : {"single", "double"},
          style : Edges \cup {"mirror"}]
\* An EdgeHandoff, and NoScreen in its place when there is none.
Hop == [target : Screens, edge : Edges, at : [{1, 2} -> Int]]

ASSUME RouterAssumption ==
    /\ Local \notin PeerScreens /\ NoScreen \notin Screens \cup Edges \cup Hop
    /\ IsFiniteSet(PeerScreens) /\ PeerScreens # {}
    /\ Sizes \subseteq (Nat \ {0}) \X (Nat \ {0})
    /\ Setups \subseteq Setup
    /\ Motions \subseteq Int \X Int /\ Drifts \subseteq Int \X Int
    /\ Thresholds \subseteq Nat \ {0}
    /\ Diverge < EdgePush /\ Slide < EdgePush
    /\ EdgePush + Slide <= PhantomGuard

VARIABLES
    router,     \* the EdgeRouter
    recent      \* windows still open: "return" (POST_RETURN_HOLD_MS), "handoff" (grace)

routerVars == <<router, recent>>
----------------------------------------------------------------------------
(* Geometry.                                                               *)

Horizontal == {"left", "right"}

Opposite == [left |-> "right", right |-> "left", top |-> "bottom", bottom |-> "top"]

Axis(e) == IF e \in Horizontal THEN 1 ELSE 2

Least(a, b) == IF a < b THEN a ELSE b
Most(a, b) == IF a > b THEN a ELSE b
Size(a) == IF a < 0 THEN -a ELSE a

\* Pixels from the edge, inwards; past the edge, less than none.
Distance(e, p, sz) ==
    IF e \in {"left", "top"} THEN p[Axis(e)] ELSE sz[Axis(e)] - 1 - p[Axis(e)]

\* The edge that a position is past, the horizontal ones first.
Beyond(p, sz) ==
    LET out == {e \in Edges : Distance(e, p, sz) < 0} IN
    IF out = {} THEN NoScreen
    ELSE CHOOSE e \in out : e \in Horizontal \/ out \cap Horizontal = {}

Clamp(p, sz) == [i \in {1, 2} |-> Most(0, Least(p[i], sz[i] - 1))]

MapCoordinate(v, from, to) ==
    IF from <= 1 \/ to <= 1 THEN 0
    ELSE (Least(v, from - 1) * (to - 1)) \div (from - 1)

\* A position of the screen, k pixels inside edge e.
Inside(e, k, along, sz) ==
    [i \in {1, 2} |->
        IF i # Axis(e) THEN along
        ELSE IF e \in {"left", "top"} THEN Least(k, sz[i] - 1) ELSE Most(0, sz[i] - 1 - k)]

\* Mutant: crossing the long way round.
MapBySource(e, p, from, to) ==
    LET i == 3 - Axis(e) IN MapCoordinate(p[i], from[i], from[i])

\* The place along the edge, in proportion.
MapAlong(e, p, from, to) ==
    LET i == 3 - Axis(e) IN MapCoordinate(p[i], from[i], to[i])

StepTo == [left |-> <<-1, 0>>, right |-> <<1, 0>>, top |-> <<0, -1>>, bottom |-> <<0, 1>>]
Plus(p, d) == <<p[1] + d[1], p[2] + d[2]>>

Neighbor(r, s, e) ==
    LET there == {t \in Screens : r.grid[t] = Plus(r.grid[s], StepTo[e])}
    IN  IF there = {} THEN NoScreen ELSE CHOOSE t \in there : TRUE

SinglePeer == Cardinality(PeerScreens) = 1

\* The arranged neighbour, or the lone peer behind both outer sides.
CrossingTarget(r, s, e) ==
    IF Neighbor(r, s, e) # NoScreen THEN Neighbor(r, s, e)
    ELSE IF r.mode = "double" /\ e \in Horizontal /\ SinglePeer /\ s = Local
         THEN CHOOSE t \in PeerScreens : TRUE ELSE NoScreen

\* DoubleEdgeStyle.
EntryForExit(style, e) ==
    IF style = "mirror" THEN Opposite[e] ELSE style
----------------------------------------------------------------------------
(* The router's methods.                                                   *)

Cursor(r) == r.at
Extent(r) == r.size[r.screen]
AtHome(r) == r.active = NoScreen

NearCrossingEdge(r, margin) ==
    /\ r.active = NoScreen /\ r.screen = Local /\ ~r.locked
    /\ \E e \in Edges : /\ Distance(e, r.at, r.size[Local]) <= margin
                        /\ CrossingTarget(r, Local, e) # NoScreen

NewRouter(setup, size) ==
    [at |-> [i \in {1, 2} |-> size[Local][i] \div 2],
     home |-> [i \in {1, 2} |-> size[Local][i] \div 2],
     screen |-> Local, active |-> NoScreen, entry |-> NoScreen, armed |-> FALSE,
     escape |-> 0, runEdge |-> NoScreen, run |-> 0, pushEdge |-> NoScreen, push |-> 0,
     gate |-> FALSE, refractory |-> NoScreen, locked |-> FALSE,
     mode |-> setup.mode, style |-> setup.style, grid |-> setup.grid, size |-> size]

\* seed_position; the gate is for seeds at an edge that crosses.
Seed(r, p, gated) ==
    LET at == Clamp(p, r.size[Local]) IN
    [r EXCEPT !.at = at, !.home = at, !.pushEdge = NoScreen, !.push = 0,
              !.refractory = NoScreen,
              !.gate = gated /\ \E e \in Edges :
                          /\ CrossingTarget(r, Local, e) # NoScreen
                          /\ Distance(e, at, r.size[Local]) < EdgePush]

\* Mutant: a pin keeps the run, however far it moves the cursor.
ResyncKeepsRun(r, truth) ==
    LET at == Clamp(truth, r.size[Local]) IN
    IF r.active # NoScreen \/ r.screen # Local THEN r
    ELSE [r EXCEPT !.at = at, !.home = at]

\* resync_if_local: a pin that moves the cursor takes back what it moved inwards.
ResyncIfLocal(r, truth) ==
    LET sz    == r.size[Local]
        at    == Clamp(truth, sz)
        moved == Most(Size(at[1] - r.at[1]), Size(at[2] - r.at[2]))
        owed  == IF r.pushEdge = NoScreen THEN 0
                 ELSE Most(0, Distance(r.pushEdge, at, sz) - Distance(r.pushEdge, r.at, sz))
        left  == IF moved > Diverge THEN r.push - owed ELSE r.push
    IN  IF r.active # NoScreen \/ r.screen # Local THEN r
        ELSE [r EXCEPT !.at = at, !.home = at,
                       !.push = Most(0, left),
                       !.pushEdge = IF left <= 0 THEN NoScreen ELSE @]

AdoptLocalSize(r, sz) ==
    [r EXCEPT !.size[Local] = sz, !.at = Clamp(@, sz), !.home = Clamp(@, sz),
              !.pushEdge = NoScreen, !.push = 0]

AdoptPeerSize(r, s, sz) ==
    [r EXCEPT !.size[s] = sz,
              !.at = IF r.screen = s THEN Clamp(@, sz) ELSE @,
              !.pushEdge = NoScreen, !.push = 0, !.escape = 0, !.runEdge = NoScreen, !.run = 0]

\* set_layout: refused while a screen is driven; measured sizes stay.
SetLayout(r, grid) ==
    [r EXCEPT !.grid = grid, !.screen = Local,
              !.at = Clamp(@, r.size[Local]), !.home = Clamp(r.at, r.size[Local]),
              !.entry = NoScreen, !.armed = FALSE, !.escape = 0, !.runEdge = NoScreen, !.run = 0,
              !.pushEdge = NoScreen, !.push = 0, !.refractory = NoScreen]

\* What every way home resets.
HomeAt(r, at, refractory) ==
    [r EXCEPT !.screen = Local, !.active = NoScreen, !.at = at, !.home = at,
              !.entry = NoScreen, !.armed = FALSE, !.pushEdge = NoScreen, !.push = 0,
              !.runEdge = NoScreen, !.run = 0, !.refractory = refractory]

\* restore_local: to the pixel it left by, at the height it roamed to.
RestoreLocal(r) ==
    HomeAt(r, Clamp(<<r.home[1], MapAlong("left", r.at, Extent(r), r.size[Local])>>,
                    r.size[Local]), NoScreen)

\* Mutant: the held shove is refused on the edge of the screen it left.
HomeRefusingRemoteEdge(r, e) ==
    LET landing == IF r.mode = "double" /\ r.style = "mirror" /\ e \in Horizontal
                   THEN Opposite[e] ELSE e
        along   == MapAlong(e, r.at, Extent(r), r.size[Local])
    IN  HomeAt(r, Clamp(Inside(landing, ReturnInset, along, r.size[Local]), r.size[Local]),
               Opposite[landing])

\* restore_local_at_edge.
RestoreLocalAtEdge(r, e) ==
    LET landing == IF r.mode = "double" /\ r.style = "mirror" /\ e \in Horizontal
                   THEN Opposite[e] ELSE e
        along   == MapAlong(e, r.at, Extent(r), r.size[Local])
    IN  HomeAt(r, Clamp(Inside(landing, ReturnInset, along, r.size[Local]), r.size[Local]),
               landing)
----------------------------------------------------------------------------
(* route, while a remote screen is driven.                                 *)

\* Inside, or sliding along the border: runs end once the cursor is away from
\* it, and the return is armed once the cursor has settled.
RoamRemote(r, p) ==
    LET e    == IF r.runEdge # NoScreen THEN r.runEdge ELSE r.entry
        away == e = NoScreen \/ Distance(e, p, Extent(r)) > Slide
    IN  [r EXCEPT !.at = p,
                  !.escape = IF away THEN 0 ELSE @,
                  !.runEdge = IF away THEN NoScreen ELSE @,
                  !.run = IF away THEN 0 ELSE @,
                  !.armed = @ \/ /\ r.entry # NoScreen
                                 /\ Distance(r.entry, p, Extent(r)) >= SettleDepth]

FacesHome(r, e) ==
    IF r.style # "mirror" THEN e = r.style
    ELSE \/ Neighbor(r, r.screen, e) = Local
         \/ r.mode = "double" /\ e \in Horizontal /\ r.screen # Local /\ SinglePeer

Saved(n) == Least(n, ReturnPush)     \* bound: only compared with the thresholds

\* Mutant: the disarmed entry edge clamps and saves nothing up.
PushRemoteNoEscape(r, p, e, grace) ==
    LET over == -Distance(e, p, Extent(r))
        run  == Saved((IF r.runEdge = e THEN r.run ELSE 0)
                      + IF r.armed THEN over ELSE Least(over, ReturnPush - 1))
        pin  == [r EXCEPT !.at = Clamp(p, Extent(r))]
        opens == run >= IF r.armed THEN ReturnEdge ELSE ReturnPush
    IN  IF FacesHome(r, e) /\ (r.armed \/ r.entry # e)
        THEN IF opens /\ ~grace THEN RestoreLocalAtEdge(r, e)
             ELSE [pin EXCEPT !.runEdge = e, !.run = run]
        ELSE [pin EXCEPT !.escape = 0, !.runEdge = NoScreen, !.run = 0]

\* Past an edge: home from one that faces home, after enough pressure; through
\* the entry edge before the cursor settled only by the deeper escape.
PushRemote(r, p, e, grace) ==
    LET over == -Distance(e, p, Extent(r))
        run  == Saved((IF r.runEdge = e THEN r.run ELSE 0)
                      + IF r.armed THEN over ELSE Least(over, ReturnPush - 1))
        escape == Saved(r.escape + over)
        opens == run >= IF r.armed THEN ReturnEdge ELSE ReturnPush
        pin  == [r EXCEPT !.at = Clamp(p, Extent(r))]
    IN  IF ~FacesHome(r, e)
        THEN [pin EXCEPT !.escape = 0, !.runEdge = NoScreen, !.run = 0]
        ELSE IF r.armed \/ r.entry # e
             THEN IF opens /\ ~grace THEN RestoreLocalAtEdge(r, e)
                  ELSE [pin EXCEPT !.runEdge = e, !.run = run]
             ELSE IF escape = ReturnPush /\ ~grace
                  THEN RestoreLocalAtEdge([r EXCEPT !.escape = escape], e)
                  ELSE [pin EXCEPT !.escape = escape]
----------------------------------------------------------------------------
(* route, at home.                                                         *)

\* Mutant: nothing lifts the gate of a fresh start.
RoamLocalGated(r, p) ==
    [r EXCEPT !.at = p, !.home = p, !.pushEdge = NoScreen, !.push = 0, !.refractory = NoScreen]

RoamLocal(r, p) ==
    LET sz   == r.size[Local]
        away == r.pushEdge = NoScreen \/ Distance(r.pushEdge, p, sz) > Slide
        moved == [r EXCEPT !.at = p, !.home = p,
                           !.pushEdge = IF away THEN NoScreen ELSE @,
                           !.push = IF away THEN 0 ELSE @,
                           !.refractory = IF @ # NoScreen /\ Distance(@, p, sz) >= ReturnClear
                                          THEN NoScreen ELSE @]
    IN  [moved EXCEPT !.gate = @ /\ NearCrossingEdge(moved, EdgePush)]

Held(r, p) ==
    [r EXCEPT !.at = Clamp(p, r.size[Local]), !.home = Clamp(p, r.size[Local]),
              !.pushEdge = NoScreen, !.push = 0]

\* Where a crossing of edge e lands, from position p of screen s.
Landing(r, s, p, e) ==
    LET target == CrossingTarget(r, s, e) IN
    Inside(EntryForExit(r.style, e), EntryInset,
           MapAlong(e, p, r.size[s], r.size[target]), r.size[target])

Handoff(r, e) ==
    LET target == CrossingTarget(r, Local, e) IN
    [r EXCEPT !.home = r.at, !.at = Landing(r, Local, r.at, e),
              !.screen = target, !.active = target,
              !.entry = EntryForExit(r.style, e), !.armed = FALSE, !.escape = 0,
              !.runEdge = NoScreen, !.run = 0, !.pushEdge = NoScreen, !.push = 0,
              !.refractory = NoScreen]

\* Mutant: a fling counts in full wherever it starts.
CreditInFull(r, over, e) == over

\* A run that starts away from the edge cannot cross with one event.
Credit(r, over, e) ==
    IF Distance(e, r.at, r.size[Local]) <= PhantomGuard THEN over
    ELSE Least(over, EdgePush - 1)

\* Past an edge: held back by the lock, a missing neighbour, the gate of a fresh
\* start or the window after a return; else pushed until the run is long enough.
PushLocal(r, p, e, returned) ==
    LET over == -Distance(e, p, r.size[Local])
        push == (IF r.pushEdge = e THEN r.push ELSE 0) + Credit(r, over, e)
    IN  IF \/ r.locked \/ CrossingTarget(r, Local, e) = NoScreen \/ r.gate
           \/ r.refractory = e /\ returned
        THEN Held(r, p)
        ELSE IF push < EdgePush
             THEN [Held(r, p) EXCEPT !.pushEdge = e, !.push = push]
             ELSE Handoff(r, e)

Route(r, d, windows) ==
    LET p == Plus(r.at, d)
        e == Beyond(p, Extent(r))
    IN  IF r.active # NoScreen
        THEN IF e = NoScreen THEN RoamRemote(r, p) ELSE PushRemote(r, p, e, "handoff" \in windows)
        ELSE IF e = NoScreen THEN RoamLocal(r, p) ELSE PushLocal(r, p, e, "return" \in windows)

\* handoff_for_motion: the stateless form, for the screen s of a machine that is
\* driven, on the layout of its stream; the code works a crossing out a second time.
HandoffForMotion(lay, s, at, d) ==
    LET from == lay.size[s]
        x    == Least(at[1], from[1] - 1)
        y    == Least(at[2], from[2] - 1)
        edge == IF x + d[1] < 0 THEN "left" ELSE IF x + d[1] >= from[1] THEN "right"
                ELSE IF y + d[2] < 0 THEN "top" ELSE IF y + d[2] >= from[2] THEN "bottom"
                ELSE NoScreen
        target == CrossingTarget(lay, s, edge)
        to     == lay.size[target]
        mapped == IF edge \in Horizontal THEN MapCoordinate(y, from[2], to[2])
                  ELSE MapCoordinate(x, from[1], to[1])
    IN  IF edge = NoScreen \/ target = NoScreen THEN NoScreen
        ELSE [target |-> target, edge |-> edge,
              at |-> Inside(EntryForExit(lay.style, edge), EntryInset, mapped, to)]
----------------------------------------------------------------------------
(* The daemon's handlers.                                                  *)

Pointer(r) == {Plus(r.at, v) : v \in Drifts}

\* The windows that a change of the router opens.
Opened(old, new) ==
    LET home == old.active # NoScreen /\ new.active = NoScreen /\ new.refractory # NoScreen
        away == old.active = NoScreen /\ new.active # NoScreen
    IN  (recent \ (IF away THEN {"return"} ELSE {}))
            \cup (IF home THEN {"return"} ELSE {}) \cup (IF away THEN {"handoff"} ELSE {})

\* handle_topology_event: at home, the pointer is asked for and the screen may
\* have changed; then the motion is routed.
Motion(d) ==
    \E pinned \in {router} \cup (IF AtHome(router)
                     THEN {ResyncIfLocal(router, p) : p \in Pointer(router)}
                             \cup {AdoptLocalSize(router, sz) : sz \in Sizes}
                     ELSE {}) :
        /\ router' = Route(pinned, d, recent)
        /\ recent' = Opened(pinned, router')

\* A drive ends for another reason: its stream is gone, the crossing is vetoed.
ComeBack ==
    /\ ~AtHome(router)
    /\ \E p \in Pointer(RestoreLocal(router)) :
          router' = ResyncIfLocal(RestoreLocal(router), p)
    /\ UNCHANGED recent

\* The peer drives back: the cursor must come inside before it crosses again.
YieldDrive ==
    /\ ~AtHome(router)
    /\ LET back == RestoreLocal(router) IN router' = Seed(back, back.at, TRUE)
    /\ UNCHANGED recent

\* park_inside, after a handoff that was refused.
ParkInside(e) ==
    /\ ~AtHome(router)
    /\ LET back == RestoreLocal(router)
           k    == IF e \in {"left", "top"} THEN Park ELSE -Park
       IN  router' = Seed(back, [back.at EXCEPT ![Axis(e)] = Most(0, @ + k)], FALSE)
    /\ UNCHANGED recent

\* Scroll lock comes home first.
ToggleLock ==
    /\ router' = IF router.locked THEN [router EXCEPT !.locked = FALSE]
                 ELSE [(IF AtHome(router) THEN router ELSE RestoreLocal(router))
                           EXCEPT !.locked = TRUE]
    /\ UNCHANGED recent

\* apply_live_topology_config: mode and style at once, the grid when at home.
Configure(setup) ==
    /\ AtHome(router) \/ setup.grid = router.grid
    /\ LET set == [router EXCEPT !.mode = setup.mode, !.style = setup.style]
       IN  router' = IF setup.grid = router.grid THEN set ELSE SetLayout(set, setup.grid)
    /\ UNCHANGED recent

\* The peer's Hello tells its size.
AdoptPeer(s, sz) ==
    /\ router.active = s
    /\ router' = AdoptPeerSize(router, s, sz)
    /\ UNCHANGED recent

RecentEnds(w) ==
    /\ w \in recent
    /\ recent' = recent \ {w}
    /\ UNCHANGED router
----------------------------------------------------------------------------
\* The geometry is measured, the cursor seeded from the system's.
RouterInit ==
    /\ \E setup \in Setups, size \in [Screens -> Sizes] :
          \E x \in 0..(size[Local][1] - 1), y \in 0..(size[Local][2] - 1) :
              router = Seed(NewRouter(setup, size), <<x, y>>, TRUE)
    /\ recent = {}

RouterNext ==
    \/ \E d \in Motions : Motion(d)
    \/ ComeBack \/ YieldDrive \/ ToggleLock
    \/ \E e \in Edges : ParkInside(e)
    \/ \E setup \in Setups : Configure(setup)
    \/ \E s \in PeerScreens, sz \in Sizes : AdoptPeer(s, sz)
    \/ \E w \in recent : RecentEnds(w)

RouterSpec == RouterInit /\ [][RouterNext]_routerVars
----------------------------------------------------------------------------
OnScreen(p, sz) == p[1] \in 0..(sz[1] - 1) /\ p[2] \in 0..(sz[2] - 1)

\* The cursor is on the screen it is said to be on, and so is the place to come
\* home to, whatever sizes the screens turn out to have; runs stay below the
\* thresholds that end them.
RouterTypeOK ==
    /\ router.size \in [Screens -> Sizes]
    /\ router.active \in PeerScreens \cup {NoScreen}
    /\ router.screen = IF AtHome(router) THEN Local ELSE router.active
    /\ OnScreen(router.at, Extent(router)) /\ OnScreen(router.home, router.size[Local])
    /\ {router.entry, router.runEdge, router.pushEdge, router.refractory} \subseteq Edges \cup {NoScreen}
    /\ router.push \in 0..(EdgePush - 1) /\ (router.push = 0 <=> router.pushEdge = NoScreen)
    /\ router.run \in 0..ReturnPush /\ router.escape \in 0..ReturnPush
    /\ {router.armed, router.gate, router.locked} \subseteq BOOLEAN
    /\ recent \subseteq {"return", "handoff"}

\* A fling never crosses in one event from the middle of the screen, wherever the
\* system's pointer was found to be before: credit, run and re-pin together.
PhantomRefused ==
    AtHome(router) =>
        \A pinned \in {ResyncIfLocal(router, Plus(router.at, v)) : v \in Drifts \cup Motions} :
            \A d \in Motions :
                \/ LET e == Beyond(Plus(pinned.at, d), Extent(pinned))
                   IN  Distance(e, pinned.at, Extent(pinned)) <= PhantomGuard
                \/ AtHome(Route(pinned, d, recent))

\* The layouts that the streams of this machine may hold, each with the sizes of
\* the other screens as that stream last heard them.
Views(r) ==
    {[grid |-> r.grid, mode |-> r.mode, style |-> r.style, size |-> size] :
        size \in {z \in [Screens -> Sizes] : z[Local] = r.size[Local]}}

\* The code has a crossing twice: in route, for the machine's own mouse, and in
\* handoff_for_motion, for the mouse of whoever drives it.  What the first does
\* with a motion that crosses, the second asks for, on whatever sizes its stream
\* believes in: the same screen, the same edges, and the same pixel when both believe
\* the same of that screen; in any case a pixel of it, as long as no fixed entry edge
\* turns the corner (see SidewaysLanding).
HopAgrees ==
    \A d \in Motions, lay \in Views(router) :
        LET next == Route(router, d, recent)
            hop  == HandoffForMotion(lay, Local, router.at, d)
        IN  AtHome(router) /\ ~AtHome(next) =>
                /\ hop # NoScreen /\ hop.target = next.active
                /\ EntryForExit(lay.style, hop.edge) = next.entry
                /\ (hop.edge \in Horizontal <=> next.entry \in Horizontal)
                        => OnScreen(hop.at, lay.size[hop.target])
                /\ lay.size[hop.target] = next.size[hop.target] => hop.at = next.at

\* One shove of n events towards e, with the windows given.
Shove(r, e, n, windows) ==
    LET d == [i \in {1, 2} |-> IF i = Axis(e) THEN StepTo[e][i] * (EdgePush + 1) ELSE 0]
        f[k \in 0..n] == IF k = 0 THEN r ELSE Route(f[k - 1], d, windows)
    IN  f

Patience(r) == 2 * ReturnPush + (Most(Extent(r)[1], Extent(r)[2]) \div EdgePush)

\* A driven screen can always be left: shoving on at an edge that faces home comes
\* home, settled or not, and one of its edges does.
CanComeHome ==
    ~AtHome(router) =>
        /\ \E e \in Edges : FacesHome(router, e)
        /\ \A e \in Edges : FacesHome(router, e)
              => LET f == Shove(router, e, Patience(router), {})
                 IN  \E k \in DOMAIN f : AtHome(f[k])

\* The shove that came home stays home for as long as it is held and the window
\* is open, short of crossing the whole screen.
HeldShoveStaysHome ==
    \A e \in Edges :
        LET n == (Extent(router)[1] \div (EdgePush + 1)) - 1
            f == Shove(router, e, n, {"return"})
        IN  \A k \in 1..n : ~AtHome(f[k - 1]) /\ AtHome(f[k]) /\ ~AtHome(router)
                => \A j \in k..Least(n, k + 2) : AtHome(f[j])

Crosses(f) == \E k \in DOMAIN f : ~AtHome(f[k])

Centre(r) == [i \in {1, 2} |-> r.size[Local][i] \div 2]

\* The screen has a place that is not near any edge.
Roomy(r) ==
    \A e \in Edges : CrossingTarget(r, Local, e) # NoScreen
                        => Distance(e, Centre(r), r.size[Local]) > EdgePush

\* An edge with a screen behind it that held a push back opens again, unless the
\* screen is locked: to a shove that goes on when the window after a return is over,
\* and after a start or a yield to whoever comes inside and pushes.  No gate,
\* refractory edge or spent run keeps it shut.
EdgeOpens ==
    AtHome(router) /\ ~router.locked =>
        LET inside == Route(router, Plus(Centre(router), <<-router.at[1], -router.at[2]>>), recent)
        IN  \A e \in Edges : CrossingTarget(router, Local, e) # NoScreen =>
                /\ ~router.gate => Crosses(Shove(router, e, Patience(router), {}))
                /\ Roomy(router) => Crosses(Shove(inside, e, Patience(router), recent))
----------------------------------------------------------------------------
(* What the comments promise, and the code does not keep.                   *)

\* The place along the edge maps in proportion (comment of entry_target_coords), so a
\* landing is a pixel of the screen: a fixed entry edge is entered from a top or bottom
\* edge too (entry_for_exit), and then a place along a width is used as a height.
SidewaysLanding == ~AtHome(router) => OnScreen(router.at, Extent(router))
=============================================================================
