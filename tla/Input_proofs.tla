---------------------------- MODULE Input_proofs ----------------------------
(***************************************************************************)
(* From this machine's input to the machine that is driven.                *)
(*                                                                         *)
(* The edge router (EdgeRouter), for every arrangement, size and set of    *)
(* motions and for every choice of the thresholds that RouterAssumption    *)
(* admits.  The inductive invariant says that a run of pushes is only ever *)
(* owed at the edge it was made against: while the router holds a push, the *)
(* cursor is at home and no further than Slide from that edge.  The pin to *)
(* the system's pointer may move the cursor off that edge, and takes from  *)
(* the run what it moved, so what is left of it never reaches further than *)
(* PhantomGuard.  A crossing from further inside would need the whole run  *)
(* from one event, which the credit rule refuses.                          *)
(*                                                                         *)
(* The keys (HeldKeys), for any keys, targets, bounds and faults: no key   *)
(* stays down on a driven machine that nobody presses.  What the peer holds *)
(* is pressed here, or its release is still in the queue that the drive task *)
(* takes over to the peer.                                                 *)
(***************************************************************************)
EXTENDS EdgeRouter, HeldKeys, SequenceTheorems, TLAPS

Points == [{1, 2} -> Int]
EdgeOrNone == Edges \cup {NoScreen}

Fields == {"at", "home", "screen", "active", "entry", "armed", "escape", "runEdge", "run",
           "pushEdge", "push", "gate", "refractory", "locked", "mode", "style", "grid", "size"}

IsRouter(r) ==
    /\ DOMAIN r = Fields
    /\ r.at \in Points /\ r.home \in Points
    /\ r.screen \in Screens /\ r.active \in PeerScreens \cup {NoScreen}
    /\ {r.entry, r.runEdge, r.pushEdge, r.refractory} \subseteq EdgeOrNone
    /\ r.escape \in Int /\ r.run \in Int /\ r.push \in Int
    /\ r.armed \in BOOLEAN /\ r.gate \in BOOLEAN /\ r.locked \in BOOLEAN
    /\ r.mode \in {"single", "double"} /\ r.style \in Edges \cup {"mirror"}
    /\ r.grid \in [Screens -> Int \X Int] /\ r.size \in [Screens -> Sizes]

\* The cursor's screen is the driven one, and at home the cursor is on it.
Placed(r) ==
    /\ r.screen = IF AtHome(r) THEN Local ELSE r.active
    /\ OnScreen(r.home, r.size[Local])
    /\ AtHome(r) => OnScreen(r.at, r.size[Local])

\* A run is short of a crossing, and made at home against an edge.
RunHeld(r) ==
    /\ 0 <= r.push /\ r.push < EdgePush
    /\ r.push = 0 <=> r.pushEdge = NoScreen
    /\ r.pushEdge # NoScreen => AtHome(r)

\* The cursor is within k pixels of the edge that the run is made against.
Near(r, k) == r.pushEdge # NoScreen => Distance(r.pushEdge, r.at, r.size[Local]) <= k

Base(r) == IsRouter(r) /\ Placed(r) /\ RunHeld(r)
Good(r) == Base(r) /\ Near(r, Slide)

RouterInv == Good(router)
----------------------------------------------------------------------------
(* Constants, points and edges.                                            *)

LEMMA Constants ==
    /\ EdgePush \in Nat \ {0} /\ PhantomGuard \in Nat \ {0} /\ Slide \in Nat \ {0}
    /\ ReturnPush \in Nat \ {0} /\ Park \in Nat \ {0} /\ Diverge \in Nat \ {0}
    /\ EntryInset \in Nat \ {0} /\ ReturnInset \in Nat \ {0}
    /\ ReturnEdge \in Nat \ {0} /\ ReturnClear \in Nat \ {0} /\ SettleDepth \in Nat \ {0}
    /\ Diverge < EdgePush /\ Slide < EdgePush /\ EdgePush + Slide <= PhantomGuard
    /\ Local \in Screens /\ Local \notin PeerScreens
    /\ NoScreen \notin Screens /\ NoScreen \notin Edges
BY RouterAssumption DEF RouterAssumption, Thresholds, Screens

LEMMA SizeType ==
    ASSUME NEW sz \in Sizes
    PROVE  sz[1] \in Nat \ {0} /\ sz[2] \in Nat \ {0}
BY RouterAssumption DEF RouterAssumption

LEMMA PlusType ==
    ASSUME NEW p, NEW d, p[1] \in Int, p[2] \in Int, d[1] \in Int, d[2] \in Int
    PROVE  Plus(p, d) \in Points
BY DEF Plus, Points

LEMMA PointType ==
    ASSUME NEW p \in Points
    PROVE  p[1] \in Int /\ p[2] \in Int
BY DEF Points

LEMMA MotionType ==
    ASSUME NEW d \in Motions \cup Drifts
    PROVE  d[1] \in Int /\ d[2] \in Int
BY RouterAssumption DEF RouterAssumption

LEMMA ClampInside ==
    ASSUME NEW p \in Points, NEW sz \in Sizes
    PROVE  /\ Clamp(p, sz) \in Points
           /\ OnScreen(Clamp(p, sz), sz)
<1>1. sz[1] \in Nat \ {0} /\ sz[2] \in Nat \ {0}
    BY SizeType
<1> QED
    BY <1>1 DEF Clamp, Points, OnScreen, Most, Least

\* A position on the screen is its own clamp.
LEMMA ClampStays ==
    ASSUME NEW p \in Points, NEW sz \in Sizes, OnScreen(p, sz)
    PROVE  Clamp(p, sz)[1] = p[1] /\ Clamp(p, sz)[2] = p[2]
<1>1. sz[1] \in Nat \ {0} /\ sz[2] \in Nat \ {0}
    BY SizeType
<1> QED
    BY <1>1 DEF Clamp, Points, OnScreen, Most, Least

LEMMA AxisType ==
    ASSUME NEW e \in Edges
    PROVE  Axis(e) \in {1, 2}
BY DEF Axis, Edges, Horizontal

LEMMA DistanceType ==
    ASSUME NEW e \in Edges, NEW p \in Points, NEW sz \in Sizes
    PROVE  Distance(e, p, sz) \in Int
<1>1. sz[1] \in Nat \ {0} /\ sz[2] \in Nat \ {0}
    BY SizeType
<1> QED
    BY <1>1, AxisType DEF Distance, Points

LEMMA BeyondType ==
    ASSUME NEW p \in Points, NEW sz \in Sizes
    PROVE  \/ Beyond(p, sz) = NoScreen
           \/ Beyond(p, sz) \in Edges /\ Distance(Beyond(p, sz), p, sz) < 0
<1> DEFINE out == {e \in Edges : Distance(e, p, sz) < 0}
<1>1. CASE out = {}
    BY <1>1 DEF Beyond
<1>2. CASE out # {}
    <2>1. \E e \in out : e \in Horizontal \/ out \cap Horizontal = {}
        BY <1>2
    <2>2. (CHOOSE e \in out : e \in Horizontal \/ out \cap Horizontal = {}) \in out
        BY <2>1
    <2> QED
        BY <1>2, <2>2 DEF Beyond
<1> QED
    BY <1>1, <1>2

\* A position past an edge is clamped onto it.
LEMMA ClampTouches ==
    ASSUME NEW e \in Edges, NEW p \in Points, NEW sz \in Sizes, Distance(e, p, sz) < 0
    PROVE  Distance(e, Clamp(p, sz), sz) = 0
<1>1. sz[1] \in Nat \ {0} /\ sz[2] \in Nat \ {0}
    BY SizeType
<1> QED
    BY <1>1, AxisType DEF Distance, Points, Clamp, Most, Least, Axis, Edges, Horizontal

LEMMA MapCoordinateType ==
    ASSUME NEW v \in Int, NEW from \in Nat \ {0}, NEW to \in Nat \ {0}
    PROVE  MapCoordinate(v, from, to) \in Int
<1>1. CASE from <= 1 \/ to <= 1
    BY <1>1 DEF MapCoordinate
<1>2. CASE ~(from <= 1 \/ to <= 1)
    <2> DEFINE a == Least(v, from - 1) * (to - 1)
               b == from - 1
    <2>1. a \in Int /\ b \in Nat \ {0}
        BY <1>2 DEF Least
    <2>2. a \div b \in Int
        <3> HIDE DEF a, b
        <3> QED BY <2>1
    <2> QED
        BY <1>2, <2>2 DEF MapCoordinate
<1> QED
    BY <1>1, <1>2

LEMMA MapAlongType ==
    ASSUME NEW e \in Edges, NEW p \in Points, NEW from \in Sizes, NEW to \in Sizes
    PROVE  MapAlong(e, p, from, to) \in Int
<1> DEFINE i == 3 - Axis(e)
<1>1. i \in {1, 2}
    BY AxisType
<1>2. p[i] \in Int /\ from[i] \in Nat \ {0} /\ to[i] \in Nat \ {0}
    BY <1>1, SizeType DEF Points
<1> HIDE DEF i
<1>3. MapCoordinate(p[i], from[i], to[i]) \in Int
    BY <1>2, MapCoordinateType
<1> QED
    BY <1>3 DEF MapAlong, i

LEMMA InsideType ==
    ASSUME NEW e \in Edges, NEW k \in Int, NEW along \in Int, NEW sz \in Sizes
    PROVE  Inside(e, k, along, sz) \in Points
<1>1. sz[1] \in Nat \ {0} /\ sz[2] \in Nat \ {0}
    BY SizeType
<1> QED
    BY <1>1 DEF Inside, Points, Least, Most
----------------------------------------------------------------------------
(* The arrangement.                                                        *)

\* There is never a screen next to itself.
LEMMA NeighborType ==
    ASSUME NEW r, IsRouter(r), NEW s \in Screens, NEW e \in Edges
    PROVE  \/ Neighbor(r, s, e) = NoScreen
           \/ Neighbor(r, s, e) \in Screens \ {s}
<1> DEFINE there == {t \in Screens : r.grid[t] = Plus(r.grid[s], StepTo[e])}
<1>1. r.grid[s] \in Int \X Int
    BY DEF IsRouter
<1>2. Plus(r.grid[s], StepTo[e]) # r.grid[s]
    BY <1>1 DEF Plus, StepTo, Edges
<1>3. s \notin there
    BY <1>2
<1>4. there # {} => (CHOOSE t \in there : TRUE) \in there
    OBVIOUS
<1> QED
    BY <1>3, <1>4 DEF Neighbor

LEMMA CrossingTargetType ==
    ASSUME NEW r, IsRouter(r), NEW e \in Edges
    PROVE  \/ CrossingTarget(r, Local, e) = NoScreen
           \/ CrossingTarget(r, Local, e) \in PeerScreens
<1>1. Local \in Screens
    BY Constants
<1>2. Neighbor(r, Local, e) = NoScreen \/ Neighbor(r, Local, e) \in PeerScreens
    BY <1>1, NeighborType, Constants DEF Screens
<1>3. (CHOOSE t \in PeerScreens : TRUE) \in PeerScreens
    BY RouterAssumption DEF RouterAssumption
<1> QED
    BY <1>2, <1>3 DEF CrossingTarget

LEMMA EntryType ==
    ASSUME NEW r, IsRouter(r), NEW e \in Edges
    PROVE  EntryForExit(r.style, e) \in Edges
<1>1. r.style \in Edges \cup {"mirror"}
    BY DEF IsRouter
<1> QED
    BY <1>1 DEF EntryForExit, Opposite, Edges

LEMMA LandingType ==
    ASSUME NEW r, IsRouter(r), NEW p \in Points, NEW e \in Edges,
           CrossingTarget(r, Local, e) # NoScreen
    PROVE  Landing(r, Local, p, e) \in Points
<1> DEFINE target == CrossingTarget(r, Local, e)
<1>1. target \in Screens /\ Local \in Screens
    BY CrossingTargetType, Constants DEF Screens
<1>2. r.size[target] \in Sizes /\ r.size[Local] \in Sizes
    BY <1>1 DEF IsRouter
<1> HIDE DEF target
<1>3. MapAlong(e, p, r.size[Local], r.size[target]) \in Int
    BY <1>2, MapAlongType
<1>4. EntryInset \in Int
    BY Constants
<1> QED
    BY <1>2, <1>3, <1>4, EntryType, InsideType DEF Landing, target

LEMMA HomeSize ==
    ASSUME NEW r, IsRouter(r)
    PROVE  r.size[Local] \in Sizes /\ r.at \in Points /\ r.home \in Points
BY Constants DEF IsRouter

LEMMA ExtentType ==
    ASSUME NEW r, IsRouter(r)
    PROVE  Extent(r) \in Sizes
BY DEF IsRouter, Extent
----------------------------------------------------------------------------
(* Starting, and coming home.                                              *)

LEMMA SeedGood ==
    ASSUME NEW r, IsRouter(r), NEW p \in Points, NEW g \in BOOLEAN,
           r.screen = Local, r.active = NoScreen
    PROVE  Good(Seed(r, p, g))
<1> DEFINE at == Clamp(p, r.size[Local])
           near == \E e \in Edges : /\ CrossingTarget(r, Local, e) # NoScreen
                                    /\ Distance(e, at, r.size[Local]) < EdgePush
           n == Seed(r, p, g)
<1>1. at \in Points /\ OnScreen(at, r.size[Local])
    BY HomeSize, ClampInside
<1>2. near \in BOOLEAN
    OBVIOUS
<1>3. n = [r EXCEPT !.at = at, !.home = at, !.pushEdge = NoScreen, !.push = 0,
                    !.refractory = NoScreen, !.gate = g /\ near]
    BY DEF Seed
<1> HIDE DEF at, near, n
<1>6. NoScreen \in EdgeOrNone /\ (g /\ near) \in BOOLEAN
    BY DEF EdgeOrNone
<1>4. IsRouter(n)
    BY <1>1, <1>6, <1>3, SMTT(30) DEF IsRouter
<1>5. /\ n.screen = Local /\ n.active = NoScreen /\ n.at = at /\ n.home = at
      /\ n.size = r.size /\ n.push = 0 /\ n.pushEdge = NoScreen
    BY <1>3 DEF IsRouter
<1> QED
    BY <1>1, <1>4, <1>5, Constants DEF Good, Base, Placed, RunHeld, Near, AtHome, n

LEMMA HomeAtGood ==
    ASSUME NEW r, IsRouter(r), NEW p \in Points, NEW e \in EdgeOrNone,
           OnScreen(p, r.size[Local])
    PROVE  /\ Good(HomeAt(r, p, e)) /\ AtHome(HomeAt(r, p, e))
           /\ HomeAt(r, p, e).screen = Local /\ HomeAt(r, p, e).pushEdge = NoScreen
<1> DEFINE n == HomeAt(r, p, e)
<1>1. n = [r EXCEPT !.screen = Local, !.active = NoScreen, !.at = p, !.home = p,
              !.entry = NoScreen, !.armed = FALSE, !.pushEdge = NoScreen, !.push = 0,
              !.runEdge = NoScreen, !.run = 0, !.refractory = e]
    BY DEF HomeAt
<1> HIDE DEF n
<1>4. NoScreen \in EdgeOrNone /\ Local \in Screens
    BY Constants DEF EdgeOrNone
<1>3. /\ n.screen = Local /\ n.active = NoScreen /\ n.at = p /\ n.home = p
      /\ n.size = r.size /\ n.push = 0 /\ n.pushEdge = NoScreen
    BY <1>1 DEF IsRouter, Fields
<1>5. /\ n.entry = NoScreen /\ n.runEdge = NoScreen /\ n.run = 0 /\ n.refractory = e
      /\ n.escape = r.escape /\ n.gate = r.gate /\ n.locked = r.locked
      /\ n.mode = r.mode /\ n.style = r.style /\ n.grid = r.grid
    BY <1>1 DEF IsRouter, Fields
<1>6. DOMAIN n = Fields /\ n.armed = FALSE
    BY <1>1 DEF IsRouter, Fields
<1>2. IsRouter(n)
    <2>1. {n.entry, n.runEdge, n.pushEdge, n.refractory} \subseteq EdgeOrNone
        BY <1>3, <1>4, <1>5
    <2>2. n.at \in Points /\ n.home \in Points /\ n.screen \in Screens
          /\ n.active \in PeerScreens \cup {NoScreen}
        BY <1>3, <1>4
    <2>3. n.escape \in Int /\ n.run \in Int /\ n.push \in Int
        BY <1>3, <1>5 DEF IsRouter
    <2>5. n.armed \in BOOLEAN /\ n.gate \in BOOLEAN /\ n.locked \in BOOLEAN
        BY <1>5, <1>6, Zenon DEF IsRouter
    <2>4. n.mode \in {"single", "double"} /\ n.style \in Edges \cup {"mirror"}
          /\ n.grid \in [Screens -> Int \X Int] /\ n.size \in [Screens -> Sizes]
        BY <1>3, <1>5 DEF IsRouter
    <2> QED
        BY <1>6, <2>1, <2>2, <2>3, <2>4, <2>5 DEF IsRouter
<1> QED
    BY <1>2, <1>3, Constants DEF Good, Base, Placed, RunHeld, Near, AtHome, n

LEMMA RestoreGood ==
    ASSUME NEW r, IsRouter(r)
    PROVE  /\ Good(RestoreLocal(r)) /\ AtHome(RestoreLocal(r))
           /\ RestoreLocal(r).screen = Local /\ RestoreLocal(r).pushEdge = NoScreen
<1> DEFINE y == MapAlong("left", r.at, Extent(r), r.size[Local])
           p == <<r.home[1], y>>
<1>1. y \in Int /\ r.home[1] \in Int
    BY HomeSize, ExtentType, MapAlongType, PointType DEF Edges
<1>2. p \in Points
    BY <1>1 DEF Points
<1> HIDE DEF p
<1>3. Clamp(p, r.size[Local]) \in Points /\ OnScreen(Clamp(p, r.size[Local]), r.size[Local])
    BY <1>2, HomeSize, ClampInside
<1> QED
    BY <1>3, HomeAtGood DEF RestoreLocal, EdgeOrNone, p

LEMMA RestoreAtEdgeGood ==
    ASSUME NEW r, IsRouter(r), NEW e \in Edges
    PROVE  Good(RestoreLocalAtEdge(r, e)) /\ AtHome(RestoreLocalAtEdge(r, e))
<1> DEFINE landing == IF r.mode = "double" /\ r.style = "mirror" /\ e \in Horizontal
                      THEN Opposite[e] ELSE e
           along == MapAlong(e, r.at, Extent(r), r.size[Local])
           p == Inside(landing, ReturnInset, along, r.size[Local])
<1>1. landing \in Edges
    BY DEF Opposite, Edges
<1>2. along \in Int /\ ReturnInset \in Int
    BY HomeSize, ExtentType, MapAlongType, Constants
<1> HIDE DEF landing, along
<1>3. p \in Points
    BY <1>1, <1>2, HomeSize, InsideType
<1> HIDE DEF p
<1>4. Clamp(p, r.size[Local]) \in Points /\ OnScreen(Clamp(p, r.size[Local]), r.size[Local])
    BY <1>3, HomeSize, ClampInside
<1> QED
    BY <1>1, <1>4, HomeAtGood DEF RestoreLocalAtEdge, EdgeOrNone, p, landing, along
----------------------------------------------------------------------------
(* The pin to the system's pointer.                                        *)

\* What the pin moves off the edge it takes from the run: the rest reaches no
\* further than PhantomGuard.
LEMMA ResyncBase ==
    ASSUME NEW r, Good(r), NEW truth \in Points
    PROVE  /\ Base(ResyncIfLocal(r, truth))
           /\ Near(ResyncIfLocal(r, truth), PhantomGuard)
           /\ AtHome(ResyncIfLocal(r, truth)) <=> AtHome(r)
           /\ r.pushEdge = NoScreen => Good(ResyncIfLocal(r, truth))
<1> DEFINE sz    == r.size[Local]
           at    == Clamp(truth, sz)
           moved == Most(Size(at[1] - r.at[1]), Size(at[2] - r.at[2]))
           owed  == IF r.pushEdge = NoScreen THEN 0
                    ELSE Most(0, Distance(r.pushEdge, at, sz) - Distance(r.pushEdge, r.at, sz))
           left  == IF moved > Diverge THEN r.push - owed ELSE r.push
           push  == Most(0, left)
           edge  == IF left <= 0 THEN NoScreen ELSE r.pushEdge
           n     == ResyncIfLocal(r, truth)
<1>0. IsRouter(r) /\ Placed(r) /\ RunHeld(r) /\ Near(r, Slide)
    BY DEF Good, Base
<1>1. CASE r.active # NoScreen \/ r.screen # Local
    <2>1. n = r
        BY <1>1 DEF ResyncIfLocal
    <2>2. Slide <= PhantomGuard /\ Slide \in Int /\ PhantomGuard \in Int
        BY Constants
    <2>3. r.pushEdge = NoScreen
        BY <1>0, <1>1 DEF Placed, RunHeld, AtHome
    <2>4. Near(r, PhantomGuard)
        BY <2>3 DEF Near
    <2> HIDE DEF n
    <2> QED
        BY <2>1, <2>4 DEF Good, n
<1>2. CASE ~(r.active # NoScreen \/ r.screen # Local)
    <2>1. n = [r EXCEPT !.at = at, !.home = at, !.push = push, !.pushEdge = edge]
        BY <1>2 DEF ResyncIfLocal
    <2>2. /\ sz \in Sizes /\ r.at \in Points /\ at \in Points /\ OnScreen(at, sz)
        BY <1>0, HomeSize, ClampInside
    <2>3. /\ r.at[1] \in Int /\ r.at[2] \in Int /\ at[1] \in Int /\ at[2] \in Int
        BY <2>2, PointType
    <2>4. r.pushEdge \in EdgeOrNone /\ r.push \in Int
        BY <1>0 DEF IsRouter
    <2> HIDE DEF at, sz
    <2>5. moved \in Int /\ owed \in Int
        <3>1. moved \in Int
            BY <2>3 DEF Most, Size
        <3>2. CASE r.pushEdge = NoScreen
            <4>1. owed = 0
                BY <3>2
            <4> QED
                BY <3>1, <4>1
        <3>3. CASE r.pushEdge # NoScreen
            <4>1. r.pushEdge \in Edges
                BY <2>4, <3>3 DEF EdgeOrNone
            <4>2. Distance(r.pushEdge, at, sz) \in Int /\ Distance(r.pushEdge, r.at, sz) \in Int
                BY <2>2, <4>1, DistanceType
            <4>3. owed \in Int
                BY <3>3, <4>2 DEF Most
            <4> QED
                BY <3>1, <4>3
        <3> QED
            BY <3>1, <3>2, <3>3
    <2>6. owed >= 0
        <3>1. CASE r.pushEdge = NoScreen
            BY <3>1
        <3>2. CASE r.pushEdge # NoScreen
            <4>1. r.pushEdge \in Edges
                BY <2>4, <3>2 DEF EdgeOrNone
            <4>2. Distance(r.pushEdge, at, sz) \in Int /\ Distance(r.pushEdge, r.at, sz) \in Int
                BY <2>2, <4>1, DistanceType
            <4> QED
                BY <3>2, <4>2 DEF Most
        <3> QED
            BY <3>1, <3>2
    <2>7. /\ push \in Int /\ 0 <= push /\ push <= r.push
          /\ push = 0 <=> edge = NoScreen
          /\ edge \in EdgeOrNone /\ (edge # NoScreen => edge = r.pushEdge)
        <3> HIDE DEF moved, owed
        <3>1. left \in Int /\ left <= r.push
            BY <2>4, <2>5, <2>6
        <3>2. 0 <= r.push /\ (r.push = 0 <=> r.pushEdge = NoScreen)
            BY <1>0 DEF RunHeld
        <3> HIDE DEF left
        <3>3. push \in Int /\ 0 <= push /\ push <= r.push
            BY <2>4, <3>1, <3>2 DEF Most
        <3>4. left <= 0 => push = 0
            BY <3>1 DEF Most
        <3>5. ~(left <= 0) => push > 0 /\ r.pushEdge # NoScreen
            BY <2>4, <3>1, <3>2 DEF Most
        <3>6. NoScreen \in EdgeOrNone
            BY DEF EdgeOrNone
        <3> QED
            BY <2>4, <3>3, <3>4, <3>5, <3>6
    <2>8. edge # NoScreen => Distance(edge, at, sz) <= PhantomGuard
        <3> SUFFICES ASSUME edge # NoScreen
                     PROVE  Distance(edge, at, sz) <= PhantomGuard
            OBVIOUS
        <3>1. edge = r.pushEdge /\ r.pushEdge \in Edges /\ left > 0
            BY <2>4, <2>5, <2>7 DEF EdgeOrNone
        <3> DEFINE far == Distance(r.pushEdge, at, sz)
                   old == Distance(r.pushEdge, r.at, sz)
        <3>2. far \in Int /\ old \in Int
            BY <2>2, <3>1, DistanceType
        <3>3. old <= Slide
            BY <1>0, <2>7, <3>1 DEF Near, sz
        <3>4. r.push < EdgePush
            BY <1>0 DEF RunHeld
        <3>5. CASE moved > Diverge
            <4>1. owed = Most(0, far - old)
                BY <2>7, <3>1
            <4>2. r.push - owed > 0
                BY <3>1, <3>5
            <4> HIDE DEF far, old, moved, owed, left
            <4>3. far - old <= owed
                BY <3>2, <4>1 DEF Most
            <4>4. far <= PhantomGuard
                BY <2>4, <2>5, <3>2, <3>3, <3>4, <4>2, <4>3, Constants
            <4> QED
                BY <3>1, <4>4 DEF far
        <3>6. CASE ~(moved > Diverge)
            <4>1. far - old <= moved
                <5>1. far - old <= Size(at[Axis(r.pushEdge)] - r.at[Axis(r.pushEdge)])
                    BY <2>2, <2>3, <3>1, AxisType, SizeType DEF Distance, Size
                <5>2. Axis(r.pushEdge) \in {1, 2}
                    BY <3>1, AxisType
                <5>3. Size(at[Axis(r.pushEdge)] - r.at[Axis(r.pushEdge)]) <= moved
                    BY <2>3, <5>2 DEF Most, Size
                <5>4. Size(at[Axis(r.pushEdge)] - r.at[Axis(r.pushEdge)]) \in Int
                    BY <2>3, <5>2 DEF Size
                <5> HIDE DEF far, old, moved
                <5> QED
                    BY <2>5, <3>2, <5>1, <5>3, <5>4
            <4> HIDE DEF far, old, moved
            <4>2. far <= PhantomGuard
                BY <2>5, <3>2, <3>3, <3>6, <4>1, Constants
            <4> QED
                BY <3>1, <4>2 DEF far
        <3> QED
            BY <3>5, <3>6
    <2> HIDE DEF push, edge, n
    <2>9. IsRouter(n)
        BY <1>0, <2>1, <2>2, <2>7 DEF IsRouter
    <2>10. /\ n.screen = Local /\ n.active = NoScreen /\ n.at = at /\ n.home = at
           /\ n.size = r.size /\ n.push = push /\ n.pushEdge = edge
        BY <1>0, <1>2, <2>1 DEF IsRouter, Fields
    <2>11. n.push < EdgePush
        BY <1>0, <2>4, <2>7, <2>10, Constants DEF RunHeld
    <2>12. Base(n)
        BY <2>2, <2>7, <2>9, <2>10, <2>11 DEF Base, Placed, RunHeld, AtHome, sz
    <2>13. Near(n, PhantomGuard)
        BY <2>8, <2>10 DEF Near, sz
    <2>14. AtHome(n) /\ AtHome(r)
        BY <1>2, <2>10 DEF AtHome
    <2>15. r.pushEdge = NoScreen => n.pushEdge = NoScreen
        BY <2>7, <2>10
    <2> QED
        BY <2>12, <2>13, <2>14, <2>15 DEF Good, Near, n
<1> QED
    BY <1>1, <1>2
----------------------------------------------------------------------------
(* Routing a motion.                                                       *)

LEMMA RoamRemoteGood ==
    ASSUME NEW r, Base(r), ~AtHome(r), NEW p \in Points
    PROVE  Good(RoamRemote(r, p))
<1> DEFINE e    == IF r.runEdge # NoScreen THEN r.runEdge ELSE r.entry
           away == e = NoScreen \/ Distance(e, p, Extent(r)) > Slide
           escape == IF away THEN 0 ELSE r.escape
           runEdge == IF away THEN NoScreen ELSE r.runEdge
           run == IF away THEN 0 ELSE r.run
           armed == r.armed \/ (/\ r.entry # NoScreen
                                /\ Distance(r.entry, p, Extent(r)) >= SettleDepth)
           n == RoamRemote(r, p)
<1>1. n = [r EXCEPT !.at = p, !.escape = escape, !.runEdge = runEdge, !.run = run,
                    !.armed = armed]
    BY DEF RoamRemote
<1>2. IsRouter(r) /\ Placed(r) /\ RunHeld(r)
    BY DEF Base
<1>3. escape \in Int /\ runEdge \in EdgeOrNone /\ run \in Int
    BY <1>2 DEF IsRouter, EdgeOrNone
<1>4. armed \in BOOLEAN
    BY <1>2 DEF IsRouter
<1> HIDE DEF escape, runEdge, run, armed, n
<1>5. IsRouter(n)
    BY <1>1, <1>2, <1>3, <1>4 DEF IsRouter
<1>6. /\ n.screen = r.screen /\ n.active = r.active /\ n.home = r.home
      /\ n.size = r.size /\ n.push = r.push /\ n.pushEdge = r.pushEdge
    BY <1>1, <1>2 DEF IsRouter, Fields
<1> QED
    BY <1>2, <1>5, <1>6 DEF Good, Base, Placed, RunHeld, Near, AtHome, n

\* A change of what the router keeps of a drive leaves it well formed.
LEMMA PinGood ==
    ASSUME NEW r, Base(r), ~AtHome(r), NEW n, IsRouter(n),
           n.screen = r.screen, n.active = r.active, n.home = r.home, n.size = r.size,
           n.push = r.push, n.pushEdge = r.pushEdge
    PROVE  Good(n)
BY DEF Good, Base, Placed, RunHeld, Near, AtHome

LEMMA PushRemoteGood ==
    ASSUME NEW r, Base(r), ~AtHome(r), NEW p \in Points, NEW e \in Edges, NEW grace \in BOOLEAN
    PROVE  Good(PushRemote(r, p, e, grace))
<1> DEFINE over == -Distance(e, p, Extent(r))
           run  == Saved((IF r.runEdge = e THEN r.run ELSE 0)
                      + IF r.armed THEN over ELSE Least(over, ReturnPush - 1))
           escape == Saved(r.escape + over)
           opens == run >= IF r.armed THEN ReturnEdge ELSE ReturnPush
           at == Clamp(p, Extent(r))
           pin  == [r EXCEPT !.at = at]
<1>1. IsRouter(r) /\ r.escape \in Int /\ r.run \in Int /\ r.entry \in EdgeOrNone
    BY DEF Base, IsRouter
<1>2. at \in Points
    BY <1>1, ExtentType, ClampInside
<1>3. over \in Int
    BY <1>1, ExtentType, DistanceType
<1> HIDE DEF over, at
<1>4. run \in Int /\ escape \in Int
    BY <1>1, <1>3, Constants DEF Saved, Least
<1>5. IsRouter(pin)
    BY <1>1, <1>2 DEF IsRouter
<1>6. e \in EdgeOrNone /\ NoScreen \in EdgeOrNone
    BY DEF EdgeOrNone
<1>7. IsRouter([r EXCEPT !.escape = escape])
    BY <1>1, <1>4 DEF IsRouter
<1> DEFINE stop == [pin EXCEPT !.escape = 0, !.runEdge = NoScreen, !.run = 0]
           more == [pin EXCEPT !.runEdge = e, !.run = run]
           deeper == [pin EXCEPT !.escape = escape]
<1>8. \/ PushRemote(r, p, e, grace) \in {stop, more, deeper}
      \/ PushRemote(r, p, e, grace) = RestoreLocalAtEdge(r, e)
      \/ PushRemote(r, p, e, grace) = RestoreLocalAtEdge([r EXCEPT !.escape = escape], e)
    BY DEF PushRemote, over, at
<1> HIDE DEF run, escape
<1>9. Good(stop)
    <2>1. IsRouter(stop)
        BY <1>1, <1>2, <1>6 DEF IsRouter
    <2>2. /\ stop.screen = r.screen /\ stop.active = r.active /\ stop.home = r.home
          /\ stop.size = r.size /\ stop.push = r.push /\ stop.pushEdge = r.pushEdge
        BY <1>1 DEF IsRouter, Fields
    <2> HIDE DEF stop
    <2> QED
        BY <2>1, <2>2, PinGood
<1>10. Good(more)
    <2>1. IsRouter(more)
        BY <1>1, <1>2, <1>4, <1>6 DEF IsRouter
    <2>2. /\ more.screen = r.screen /\ more.active = r.active /\ more.home = r.home
          /\ more.size = r.size /\ more.push = r.push /\ more.pushEdge = r.pushEdge
        BY <1>1 DEF IsRouter, Fields
    <2> HIDE DEF more
    <2> QED
        BY <2>1, <2>2, PinGood
<1>11. Good(deeper)
    <2>1. IsRouter(deeper)
        BY <1>1, <1>2, <1>4 DEF IsRouter
    <2>2. /\ deeper.screen = r.screen /\ deeper.active = r.active /\ deeper.home = r.home
          /\ deeper.size = r.size /\ deeper.push = r.push /\ deeper.pushEdge = r.pushEdge
        BY <1>1 DEF IsRouter, Fields
    <2> HIDE DEF deeper
    <2> QED
        BY <2>1, <2>2, PinGood
<1> HIDE DEF stop, more, deeper
<1> QED
    BY <1>1, <1>7, <1>8, <1>9, <1>10, <1>11, RestoreAtEdgeGood

LEMMA RoamLocalGood ==
    ASSUME NEW r, Base(r), AtHome(r), NEW p \in Points, OnScreen(p, r.size[Local])
    PROVE  Good(RoamLocal(r, p)) /\ AtHome(RoamLocal(r, p))
<1> DEFINE sz   == r.size[Local]
           away == r.pushEdge = NoScreen \/ Distance(r.pushEdge, p, sz) > Slide
           edge == IF away THEN NoScreen ELSE r.pushEdge
           push == IF away THEN 0 ELSE r.push
           spent == IF r.refractory # NoScreen /\ Distance(r.refractory, p, sz) >= ReturnClear
                    THEN NoScreen ELSE r.refractory
           moved == [r EXCEPT !.at = p, !.home = p, !.pushEdge = edge, !.push = push,
                              !.refractory = spent]
           gate == moved.gate /\ NearCrossingEdge(moved, EdgePush)
           n == RoamLocal(r, p)
<1>1. n = [moved EXCEPT !.gate = gate]
    BY DEF RoamLocal
<1>2. IsRouter(r) /\ Placed(r) /\ RunHeld(r)
    BY DEF Base
<1>3. edge \in EdgeOrNone /\ push \in Int /\ spent \in EdgeOrNone
    BY <1>2 DEF IsRouter, EdgeOrNone
<1>4. gate \in BOOLEAN
    BY DEF NearCrossingEdge
<1>5. edge # NoScreen => edge = r.pushEdge /\ push = r.push /\ Distance(edge, p, sz) <= Slide
    <2>1. SUFFICES ASSUME ~away PROVE Distance(r.pushEdge, p, sz) <= Slide
        OBVIOUS
    <2>2. r.pushEdge \in Edges
        BY <1>2, <2>1 DEF IsRouter, EdgeOrNone
    <2>3. Distance(r.pushEdge, p, sz) \in Int
        BY <1>2, <2>2, HomeSize, DistanceType
    <2> QED
        BY <2>1, <2>3, Constants
<1>6. edge = NoScreen => push = 0
    BY <1>2 DEF RunHeld
<1> HIDE DEF edge, push, spent
<1>7. IsRouter(moved)
    BY <1>2, <1>3 DEF IsRouter
<1>8. /\ moved.screen = r.screen /\ moved.active = r.active /\ moved.at = p /\ moved.home = p
      /\ moved.size = r.size /\ moved.push = push /\ moved.pushEdge = edge
    BY <1>2 DEF IsRouter, Fields
<1> HIDE DEF moved, gate, n
<1>9. IsRouter(n)
    BY <1>1, <1>4, <1>7 DEF IsRouter
<1>10. /\ n.screen = r.screen /\ n.active = r.active /\ n.at = p /\ n.home = p
       /\ n.size = r.size /\ n.push = push /\ n.pushEdge = edge
    BY <1>1, <1>7, <1>8 DEF IsRouter, Fields
<1>11. Placed(n) /\ AtHome(n)
    BY <1>2, <1>10 DEF Placed, AtHome
<1>12. RunHeld(n)
    BY <1>2, <1>5, <1>6, <1>10, <1>11, Constants DEF RunHeld
<1>13. Near(n, Slide)
    BY <1>5, <1>10 DEF Near
<1> QED
    BY <1>9, <1>11, <1>12, <1>13 DEF Good, Base, n

LEMMA HeldGood ==
    ASSUME NEW r, Base(r), AtHome(r), NEW p \in Points
    PROVE  /\ Good(Held(r, p)) /\ AtHome(Held(r, p)) /\ IsRouter(Held(r, p))
           /\ Held(r, p).at = Clamp(p, r.size[Local]) /\ Held(r, p).size = r.size
<1> DEFINE at == Clamp(p, r.size[Local])
           n == Held(r, p)
<1>1. n = [r EXCEPT !.at = at, !.home = at, !.pushEdge = NoScreen, !.push = 0]
    BY DEF Held
<1>2. IsRouter(r) /\ Placed(r) /\ RunHeld(r)
    BY DEF Base
<1>3. at \in Points /\ OnScreen(at, r.size[Local])
    BY <1>2, HomeSize, ClampInside
<1>4. NoScreen \in EdgeOrNone
    BY DEF EdgeOrNone
<1> HIDE DEF at, n
<1>5. IsRouter(n)
    BY <1>1, <1>2, <1>3, <1>4 DEF IsRouter
<1>6. /\ n.screen = r.screen /\ n.active = r.active /\ n.at = at /\ n.home = at
      /\ n.size = r.size /\ n.push = 0 /\ n.pushEdge = NoScreen
    BY <1>1, <1>2 DEF IsRouter, Fields
<1> QED
    BY <1>2, <1>3, <1>5, <1>6, Constants DEF Good, Base, Placed, RunHeld, Near, AtHome, n, at

LEMMA HandoffGood ==
    ASSUME NEW r, Base(r), AtHome(r), NEW e \in Edges,
           CrossingTarget(r, Local, e) # NoScreen
    PROVE  /\ Good(Handoff(r, e)) /\ ~AtHome(Handoff(r, e))
           /\ Handoff(r, e).active = CrossingTarget(r, Local, e)
           /\ Handoff(r, e).at = Landing(r, Local, r.at, e)
<1> DEFINE target == CrossingTarget(r, Local, e)
           at == Landing(r, Local, r.at, e)
           entry == EntryForExit(r.style, e)
           n == Handoff(r, e)
<1>1. n = [r EXCEPT !.home = r.at, !.at = at, !.screen = target, !.active = target,
              !.entry = entry, !.armed = FALSE, !.escape = 0,
              !.runEdge = NoScreen, !.run = 0, !.pushEdge = NoScreen, !.push = 0,
              !.refractory = NoScreen]
    BY DEF Handoff
<1>2. IsRouter(r) /\ Placed(r) /\ RunHeld(r) /\ r.at \in Points
    BY HomeSize DEF Base
<1>3. target \in PeerScreens /\ target \in Screens
    BY <1>2, CrossingTargetType DEF Screens
<1>4. at \in Points
    BY <1>2, LandingType
<1>5. entry \in EdgeOrNone /\ NoScreen \in EdgeOrNone
    BY <1>2, EntryType DEF EdgeOrNone
<1> HIDE DEF target, at, entry, n
<1>6. /\ n.screen = target /\ n.active = target /\ n.at = at /\ n.home = r.at
      /\ n.size = r.size /\ n.push = 0 /\ n.pushEdge = NoScreen
    BY <1>1, <1>2 DEF IsRouter, Fields
<1>7. /\ n.entry = entry /\ n.runEdge = NoScreen /\ n.run = 0 /\ n.refractory = NoScreen
      /\ n.escape = 0 /\ n.gate = r.gate /\ n.locked = r.locked
      /\ n.mode = r.mode /\ n.style = r.style /\ n.grid = r.grid
    BY <1>1, <1>2 DEF IsRouter, Fields
<1>8. DOMAIN n = Fields /\ n.armed = FALSE
    BY <1>1, <1>2 DEF IsRouter, Fields
<1>9. IsRouter(n)
    <2>1. {n.entry, n.runEdge, n.pushEdge, n.refractory} \subseteq EdgeOrNone
        BY <1>5, <1>6, <1>7
    <2>2. n.at \in Points /\ n.home \in Points /\ n.screen \in Screens
          /\ n.active \in PeerScreens \cup {NoScreen}
        BY <1>2, <1>3, <1>4, <1>6
    <2>3. n.escape \in Int /\ n.run \in Int /\ n.push \in Int
        BY <1>6, <1>7
    <2>4. n.mode \in {"single", "double"} /\ n.style \in Edges \cup {"mirror"}
          /\ n.grid \in [Screens -> Int \X Int] /\ n.size \in [Screens -> Sizes]
        BY <1>2, <1>6, <1>7 DEF IsRouter
    <2>5. n.armed \in BOOLEAN /\ n.gate \in BOOLEAN /\ n.locked \in BOOLEAN
        BY <1>2, <1>7, <1>8, Zenon DEF IsRouter
    <2> QED
        BY <1>8, <2>1, <2>2, <2>3, <2>4, <2>5 DEF IsRouter
<1>10. target # NoScreen
    BY <1>3, Constants
<1>11. OnScreen(n.home, n.size[Local])
    BY <1>2, <1>6 DEF Placed
<1>12. ~AtHome(n)
    BY <1>6, <1>10 DEF AtHome
<1> QED
    BY <1>6, <1>9, <1>11, <1>12, Constants
    DEF Good, Base, Placed, RunHeld, Near, n, at, target

\* At home, past an edge: a held motion stays, a crossing has its whole run.
LEMMA PushLocalGood ==
    ASSUME NEW r, Base(r), AtHome(r), NEW p \in Points, NEW e \in Edges,
           NEW returned \in BOOLEAN, Distance(e, p, r.size[Local]) < 0
    PROVE  /\ Good(PushLocal(r, p, e, returned))
           /\ ~AtHome(PushLocal(r, p, e, returned))
                => /\ PushLocal(r, p, e, returned) = Handoff(r, e)
                   /\ CrossingTarget(r, Local, e) # NoScreen
                   /\ (IF r.pushEdge = e THEN r.push ELSE 0)
                        + Credit(r, -Distance(e, p, r.size[Local]), e) >= EdgePush
<1> DEFINE over == -Distance(e, p, r.size[Local])
           push == (IF r.pushEdge = e THEN r.push ELSE 0) + Credit(r, over, e)
           shut == \/ r.locked \/ CrossingTarget(r, Local, e) = NoScreen \/ r.gate
                   \/ r.refractory = e /\ returned
           more == [Held(r, p) EXCEPT !.pushEdge = e, !.push = push]
           n == PushLocal(r, p, e, returned)
<1>1. IsRouter(r) /\ Placed(r) /\ RunHeld(r) /\ r.push \in Int /\ r.size[Local] \in Sizes
    BY HomeSize DEF Base, IsRouter
<1>2. over \in Int /\ over > 0
    BY <1>1, DistanceType
<1>3. Credit(r, over, e) \in Int /\ Credit(r, over, e) >= 0
    <2> HIDE DEF over
    <2> QED
        BY <1>2, Constants DEF Credit, Least
<1>4. Distance(e, r.at, r.size[Local]) \in Int
    BY <1>1, HomeSize, DistanceType
<1>5. push \in Int /\ push >= 0
    BY <1>1, <1>3 DEF RunHeld
<1>6. n = IF shut THEN Held(r, p) ELSE IF push < EdgePush THEN more ELSE Handoff(r, e)
    BY DEF PushLocal
<1>7. CASE shut
    <2>1. n = Held(r, p)
        BY <1>6, <1>7
    <2> HIDE DEF n
    <2> QED
        BY <2>1, HeldGood DEF n
<1>8. CASE ~shut /\ push < EdgePush
    <2>1. n = more
        BY <1>6, <1>8
    <2>2. Credit(r, over, e) > 0
        <3> HIDE DEF over
        <3> QED
            BY <1>2, Constants DEF Credit, Least
    <2>3. push > 0
        BY <1>1, <1>3, <2>2 DEF RunHeld
    <2>4. push < EdgePush
        BY <1>8
    <2> HIDE DEF push, shut, n
    <2>5. /\ IsRouter(Held(r, p)) /\ Good(Held(r, p)) /\ AtHome(Held(r, p))
          /\ Held(r, p).at = Clamp(p, r.size[Local]) /\ Held(r, p).size = r.size
        BY HeldGood
    <2> DEFINE h == Held(r, p)
    <2>6. e \in EdgeOrNone /\ e # NoScreen
        BY Constants DEF EdgeOrNone
    <2> HIDE DEF h
    <2>7. n = [h EXCEPT !.pushEdge = e, !.push = push]
        BY <2>1 DEF h
    <2>8. IsRouter(n)
        BY <1>5, <2>5, <2>6, <2>7 DEF IsRouter, h
    <2>9. /\ n.screen = h.screen /\ n.active = h.active /\ n.at = h.at /\ n.home = h.home
          /\ n.size = h.size /\ n.push = push /\ n.pushEdge = e
        BY <2>5, <2>7 DEF IsRouter, Fields, h
    <2>10. Placed(n) /\ AtHome(n)
        BY <2>5, <2>9 DEF Good, Base, Placed, AtHome, h
    <2>11. RunHeld(n)
        BY <1>5, <2>3, <2>4, <2>6, <2>9, <2>10 DEF RunHeld
    <2>12. Distance(e, n.at, n.size[Local]) = 0
        BY <1>1, <2>5, <2>9, ClampTouches DEF h
    <2>13. Near(n, Slide)
        BY <2>9, <2>12, Constants DEF Near
    <2> QED
        BY <2>8, <2>10, <2>11, <2>13 DEF Good, Base, n
<1>9. CASE ~shut /\ ~(push < EdgePush)
    <2>1. n = Handoff(r, e) /\ CrossingTarget(r, Local, e) # NoScreen
        BY <1>6, <1>9
    <2>2. push >= EdgePush
        BY <1>5, <1>9, Constants
    <2> HIDE DEF n
    <2> QED
        BY <2>1, <2>2, HandoffGood DEF n
<1> QED
    BY <1>7, <1>8, <1>9

LEMMA RouteGood ==
    ASSUME NEW r, Base(r), NEW d \in Motions, NEW windows
    PROVE  Good(Route(r, d, windows))
<1> DEFINE p == Plus(r.at, d)
           e == Beyond(p, Extent(r))
<1>1. IsRouter(r) /\ Placed(r) /\ r.at \in Points /\ Extent(r) \in Sizes
    BY HomeSize, ExtentType DEF Base
<1>2. p \in Points
    BY <1>1, PlusType, PointType, MotionType
<1> HIDE DEF p
<1>3. e = NoScreen \/ (e \in Edges /\ Distance(e, p, Extent(r)) < 0)
    BY <1>1, <1>2, BeyondType
<1>4. CASE ~AtHome(r)
    <2>1. ("handoff" \in windows) \in BOOLEAN
        OBVIOUS
    <2>2. Route(r, d, windows) = IF e = NoScreen THEN RoamRemote(r, p)
                                 ELSE PushRemote(r, p, e, "handoff" \in windows)
        BY <1>4 DEF Route, AtHome, p
    <2> HIDE DEF e
    <2> QED
        BY <1>2, <1>3, <1>4, <2>1, <2>2, RoamRemoteGood, PushRemoteGood
<1>5. CASE AtHome(r)
    <2>1. Extent(r) = r.size[Local]
        BY <1>1, <1>5 DEF Placed, Extent
    <2>2. ("return" \in windows) \in BOOLEAN
        OBVIOUS
    <2>3. Route(r, d, windows) = IF e = NoScreen THEN RoamLocal(r, p)
                                 ELSE PushLocal(r, p, e, "return" \in windows)
        BY <1>5 DEF Route, AtHome, p
    <2>4. e = NoScreen => OnScreen(p, r.size[Local])
        <3> SUFFICES ASSUME e = NoScreen PROVE OnScreen(p, r.size[Local])
            OBVIOUS
        <3>1. \A x \in Edges : ~(Distance(x, p, Extent(r)) < 0)
            <4> DEFINE out == {x \in Edges : Distance(x, p, Extent(r)) < 0}
            <4>1. SUFFICES ASSUME out # {} PROVE FALSE
                OBVIOUS
            <4>2. \E x \in out : x \in Horizontal \/ out \cap Horizontal = {}
                BY <4>1
            <4>3. (CHOOSE x \in out : x \in Horizontal \/ out \cap Horizontal = {}) \in out
                BY <4>2
            <4>4. e \in Edges
                BY <4>1, <4>3 DEF Beyond
            <4> QED
                BY <4>4, Constants
        <3>2. r.size[Local][1] \in Nat \ {0} /\ r.size[Local][2] \in Nat \ {0}
            BY <1>1, <2>1, SizeType
        <3>3. p[1] \in Int /\ p[2] \in Int
            BY <1>2, PointType
        <3> QED
            BY <2>1, <3>1, <3>2, <3>3 DEF OnScreen, Distance, Edges, Axis, Horizontal
    <2> HIDE DEF e
    <2> QED
        BY <1>2, <1>3, <1>5, <2>1, <2>2, <2>3, <2>4, RoamLocalGood, PushLocalGood
<1> QED
    BY <1>4, <1>5

\* From home, only a handoff leaves, past the edge that the motion goes beyond.
LEMMA Leaves ==
    ASSUME NEW r, Base(r), AtHome(r), NEW d \in Motions, NEW windows,
           ~AtHome(Route(r, d, windows))
    PROVE  LET p == Plus(r.at, d)
               e == Beyond(p, r.size[Local])
           IN  /\ p \in Points
               /\ e \in Edges /\ CrossingTarget(r, Local, e) # NoScreen
               /\ Route(r, d, windows) = Handoff(r, e)
               /\ (IF r.pushEdge = e THEN r.push ELSE 0)
                        + Credit(r, -Distance(e, p, r.size[Local]), e) >= EdgePush
<1> DEFINE p == Plus(r.at, d)
           e == Beyond(p, r.size[Local])
<1>1. IsRouter(r) /\ Placed(r) /\ r.at \in Points /\ r.size[Local] \in Sizes
    BY HomeSize DEF Base
<1>2. p \in Points
    BY <1>1, PlusType, PointType, MotionType
<1>3. Extent(r) = r.size[Local]
    BY <1>1 DEF Placed, Extent
<1> HIDE DEF p
<1>4. e = NoScreen \/ (e \in Edges /\ Distance(e, p, r.size[Local]) < 0)
    BY <1>1, <1>2, BeyondType
<1>5. Route(r, d, windows) = IF e = NoScreen THEN RoamLocal(r, p)
                             ELSE PushLocal(r, p, e, "return" \in windows)
    BY <1>3 DEF Route, AtHome, p
<1> HIDE DEF e
<1>6. e # NoScreen
    <2> SUFFICES ASSUME e = NoScreen PROVE FALSE
        OBVIOUS
    <2>1. Route(r, d, windows).active = r.active
        <3>1. Route(r, d, windows) = RoamLocal(r, p)
            BY <1>5
        <3>2. RoamLocal(r, p).active = r.active
            BY <1>1 DEF RoamLocal, IsRouter, Fields
        <3> QED
            BY <3>1, <3>2
    <2> QED
        BY <2>1 DEF AtHome
<1>7. Route(r, d, windows) = PushLocal(r, p, e, "return" \in windows)
    BY <1>5, <1>6
<1>8. ("return" \in windows) \in BOOLEAN
    OBVIOUS
<1>9. /\ PushLocal(r, p, e, "return" \in windows) = Handoff(r, e)
      /\ CrossingTarget(r, Local, e) # NoScreen
      /\ (IF r.pushEdge = e THEN r.push ELSE 0)
              + Credit(r, -Distance(e, p, r.size[Local]), e) >= EdgePush
    BY <1>2, <1>4, <1>6, <1>7, <1>8, PushLocalGood
<1> QED
    BY <1>2, <1>4, <1>6, <1>7, <1>9 DEF p, e

\* The credit rule: a run short of a crossing and near its edge is needed.
LEMMA NoFling ==
    ASSUME NEW r, Base(r), AtHome(r), Near(r, PhantomGuard), NEW d \in Motions, NEW windows,
           ~AtHome(Route(r, d, windows))
    PROVE  Distance(Beyond(Plus(r.at, d), Extent(r)), r.at, Extent(r)) <= PhantomGuard
<1> DEFINE p == Plus(r.at, d)
           e == Beyond(p, r.size[Local])
           over == -Distance(e, p, r.size[Local])
           k == Distance(e, r.at, r.size[Local])
<1>1. /\ IsRouter(r) /\ r.at \in Points /\ r.size[Local] \in Sizes
      /\ r.push \in Int /\ r.push < EdgePush
    BY HomeSize DEF Base, IsRouter, RunHeld
<1>2. Extent(r) = r.size[Local]
    BY DEF Base, Placed, Extent
<1>3. p \in Points /\ e \in Edges
      /\ (IF r.pushEdge = e THEN r.push ELSE 0) + Credit(r, over, e) >= EdgePush
    BY Leaves
<1>4. over \in Int /\ k \in Int
    BY <1>1, <1>3, DistanceType
<1>5. e # NoScreen
    BY <1>3, Constants
<1> HIDE DEF p, e, over
<1>6. ASSUME r.pushEdge = e PROVE k <= PhantomGuard
    BY <1>5, <1>6 DEF Near
<1>7. ASSUME r.pushEdge # e PROVE k <= PhantomGuard
    <2>1. Credit(r, over, e) >= EdgePush
        <3>1. Credit(r, over, e) \in Int
            BY <1>4, Constants DEF Credit, Least
        <3> QED
            BY <1>3, <1>7, <3>1
    <2> SUFFICES ASSUME ~(k <= PhantomGuard) PROVE FALSE
        OBVIOUS
    <2>2. Credit(r, over, e) = Least(over, EdgePush - 1)
        BY DEF Credit
    <2> HIDE DEF k
    <2> QED
        BY <1>4, <2>1, <2>2, Constants DEF Least
<1>8. k <= PhantomGuard
    BY <1>6, <1>7
<1> QED
    BY <1>2, <1>8 DEF p, e
----------------------------------------------------------------------------
(* Measured sizes and settings.                                            *)

LEMMA AdoptLocalGood ==
    ASSUME NEW r, Good(r), AtHome(r), NEW sz \in Sizes
    PROVE  Good(AdoptLocalSize(r, sz)) /\ AtHome(AdoptLocalSize(r, sz))
<1> DEFINE at == Clamp(r.at, sz)
           home == Clamp(r.home, sz)
           n == AdoptLocalSize(r, sz)
<1>1. n = [r EXCEPT !.size[Local] = sz, !.at = at, !.home = home,
              !.pushEdge = NoScreen, !.push = 0]
    BY DEF AdoptLocalSize
<1>2. IsRouter(r) /\ Placed(r)
    BY DEF Good, Base
<1>3. at \in Points /\ home \in Points /\ OnScreen(at, sz) /\ OnScreen(home, sz)
    BY <1>2, HomeSize, ClampInside
<1>4. NoScreen \in EdgeOrNone /\ Local \in Screens
    BY Constants DEF EdgeOrNone
<1> HIDE DEF at, home, n
<1>5. IsRouter(n)
    BY <1>1, <1>2, <1>3, <1>4 DEF IsRouter
<1>6. /\ n.screen = r.screen /\ n.active = r.active /\ n.at = at /\ n.home = home
      /\ n.size[Local] = sz /\ n.push = 0 /\ n.pushEdge = NoScreen
    BY <1>1, <1>2, <1>4 DEF IsRouter, Fields
<1> QED
    BY <1>2, <1>3, <1>5, <1>6, Constants DEF Good, Base, Placed, RunHeld, Near, AtHome, n

LEMMA AdoptPeerGood ==
    ASSUME NEW r, Good(r), NEW s \in PeerScreens, NEW sz \in Sizes, r.active = s
    PROVE  Good(AdoptPeerSize(r, s, sz))
<1> DEFINE at == IF r.screen = s THEN Clamp(r.at, sz) ELSE r.at
           n == AdoptPeerSize(r, s, sz)
<1>1. n = [r EXCEPT !.size[s] = sz, !.at = at, !.pushEdge = NoScreen, !.push = 0,
              !.escape = 0, !.runEdge = NoScreen, !.run = 0]
    BY DEF AdoptPeerSize
<1>2. IsRouter(r) /\ Placed(r)
    BY DEF Good, Base
<1>3. at \in Points
    BY <1>2, HomeSize, ClampInside
<1>4. NoScreen \in EdgeOrNone /\ s \in Screens /\ s # Local /\ Local \in Screens
      /\ s # NoScreen
    BY Constants DEF EdgeOrNone, Screens
<1> HIDE DEF at, n
<1>5. /\ n.screen = r.screen /\ n.active = r.active /\ n.at = at /\ n.home = r.home
      /\ n.size = [r.size EXCEPT ![s] = sz] /\ n.push = 0 /\ n.pushEdge = NoScreen
    BY <1>1, <1>2, <1>4 DEF IsRouter, Fields
<1>6. /\ n.entry = r.entry /\ n.runEdge = NoScreen /\ n.run = 0
      /\ n.refractory = r.refractory /\ n.escape = 0 /\ n.gate = r.gate
      /\ n.locked = r.locked /\ n.mode = r.mode /\ n.style = r.style /\ n.grid = r.grid
    BY <1>1, <1>2 DEF IsRouter, Fields
<1>7. DOMAIN n = Fields /\ n.armed = r.armed
    BY <1>1, <1>2 DEF IsRouter, Fields
<1>8. IsRouter(n)
    <2>1. {n.entry, n.runEdge, n.pushEdge, n.refractory} \subseteq EdgeOrNone
        BY <1>2, <1>4, <1>5, <1>6 DEF IsRouter
    <2>2. n.at \in Points /\ n.home \in Points /\ n.screen \in Screens
          /\ n.active \in PeerScreens \cup {NoScreen}
        BY <1>2, <1>3, <1>5 DEF IsRouter
    <2>3. n.escape \in Int /\ n.run \in Int /\ n.push \in Int
        BY <1>5, <1>6
    <2>4. n.mode \in {"single", "double"} /\ n.style \in Edges \cup {"mirror"}
          /\ n.grid \in [Screens -> Int \X Int] /\ n.size \in [Screens -> Sizes]
        BY <1>2, <1>4, <1>5, <1>6 DEF IsRouter
    <2>5. n.armed \in BOOLEAN /\ n.gate \in BOOLEAN /\ n.locked \in BOOLEAN
        BY <1>2, <1>6, <1>7, Zenon DEF IsRouter
    <2> QED
        BY <1>7, <2>1, <2>2, <2>3, <2>4, <2>5 DEF IsRouter
<1>9. n.size[Local] = r.size[Local]
    BY <1>2, <1>4, <1>5 DEF IsRouter
<1>10. Placed(n) /\ ~AtHome(n)
    BY <1>2, <1>4, <1>5, <1>9 DEF Placed, AtHome
<1> QED
    BY <1>5, <1>8, <1>10, Constants DEF Good, Base, RunHeld, Near, n

LEMMA SetLayoutGood ==
    ASSUME NEW r, Good(r), AtHome(r), NEW grid \in [Screens -> Int \X Int]
    PROVE  Good(SetLayout(r, grid))
<1> DEFINE at == Clamp(r.at, r.size[Local])
           n == SetLayout(r, grid)
<1>1. n = [r EXCEPT !.grid = grid, !.screen = Local, !.at = at, !.home = at,
              !.entry = NoScreen, !.armed = FALSE, !.escape = 0, !.runEdge = NoScreen,
              !.run = 0, !.pushEdge = NoScreen, !.push = 0, !.refractory = NoScreen]
    BY DEF SetLayout
<1>2. IsRouter(r) /\ Placed(r)
    BY DEF Good, Base
<1>3. at \in Points /\ OnScreen(at, r.size[Local])
    BY <1>2, HomeSize, ClampInside
<1>4. NoScreen \in EdgeOrNone /\ Local \in Screens
    BY Constants DEF EdgeOrNone
<1> HIDE DEF at, n
<1>5. /\ n.screen = Local /\ n.active = r.active /\ n.at = at /\ n.home = at
      /\ n.size = r.size /\ n.push = 0 /\ n.pushEdge = NoScreen
    BY <1>1, <1>2 DEF IsRouter, Fields
<1>6. /\ n.entry = NoScreen /\ n.runEdge = NoScreen /\ n.run = 0
      /\ n.refractory = NoScreen /\ n.escape = 0 /\ n.gate = r.gate
      /\ n.locked = r.locked /\ n.mode = r.mode /\ n.style = r.style /\ n.grid = grid
    BY <1>1, <1>2 DEF IsRouter, Fields
<1>7. DOMAIN n = Fields /\ n.armed = FALSE
    BY <1>1, <1>2 DEF IsRouter, Fields
<1>8. IsRouter(n)
    <2>1. {n.entry, n.runEdge, n.pushEdge, n.refractory} \subseteq EdgeOrNone
        BY <1>4, <1>5, <1>6
    <2>2. n.at \in Points /\ n.home \in Points /\ n.screen \in Screens
          /\ n.active \in PeerScreens \cup {NoScreen}
        BY <1>2, <1>3, <1>4, <1>5 DEF IsRouter
    <2>3. n.escape \in Int /\ n.run \in Int /\ n.push \in Int
        BY <1>5, <1>6
    <2>4. n.mode \in {"single", "double"} /\ n.style \in Edges \cup {"mirror"}
          /\ n.grid \in [Screens -> Int \X Int] /\ n.size \in [Screens -> Sizes]
        BY <1>2, <1>5, <1>6 DEF IsRouter
    <2>5. n.armed \in BOOLEAN /\ n.gate \in BOOLEAN /\ n.locked \in BOOLEAN
        BY <1>2, <1>6, <1>7, Zenon DEF IsRouter
    <2> QED
        BY <1>7, <2>1, <2>2, <2>3, <2>4, <2>5 DEF IsRouter
<1> QED
    BY <1>3, <1>5, <1>8, Constants DEF Good, Base, Placed, RunHeld, Near, AtHome, n

\* Settings that the invariant does not look at.
LEMMA SettingsGood ==
    ASSUME NEW r, Good(r), NEW n, IsRouter(n),
           n.screen = r.screen, n.active = r.active, n.at = r.at, n.home = r.home,
           n.size = r.size, n.push = r.push, n.pushEdge = r.pushEdge
    PROVE  Good(n)
BY DEF Good, Base, Placed, RunHeld, Near, AtHome

LEMMA LockGood ==
    ASSUME NEW r, Good(r), NEW b \in BOOLEAN
    PROVE  Good([r EXCEPT !.locked = b])
<1> DEFINE n == [r EXCEPT !.locked = b]
<1>1. IsRouter(r)
    BY DEF Good, Base
<1>2. IsRouter(n)
    BY <1>1 DEF IsRouter
<1>3. /\ n.screen = r.screen /\ n.active = r.active /\ n.at = r.at /\ n.home = r.home
      /\ n.size = r.size /\ n.push = r.push /\ n.pushEdge = r.pushEdge
    BY <1>1 DEF IsRouter, Fields
<1> HIDE DEF n
<1>4. Good(n)
    BY <1>2, <1>3, SettingsGood
<1> QED
    BY <1>4 DEF n
----------------------------------------------------------------------------
(* The handlers.                                                           *)

LEMMA InitGood == RouterInit => RouterInv
<1> SUFFICES ASSUME NEW setup \in Setups, NEW size \in [Screens -> Sizes],
                    NEW x \in 0..(size[Local][1] - 1), NEW y \in 0..(size[Local][2] - 1),
                    router = Seed(NewRouter(setup, size), <<x, y>>, TRUE)
             PROVE  RouterInv
    BY DEF RouterInit
<1> DEFINE n == NewRouter(setup, size)
           at == [i \in {1, 2} |-> size[Local][i] \div 2]
<1>1. /\ setup.grid \in [Screens -> Int \X Int] /\ setup.mode \in {"single", "double"}
      /\ setup.style \in Edges \cup {"mirror"}
    BY RouterAssumption DEF RouterAssumption, Setup
<1>2. size[Local] \in Sizes /\ Local \in Screens
    BY Constants
<1>3. size[Local][1] \in Nat \ {0} /\ size[Local][2] \in Nat \ {0}
    BY <1>2, SizeType
<1>4. at \in Points
    BY <1>3 DEF Points
<1>5. NoScreen \in EdgeOrNone
    BY DEF EdgeOrNone
<1>6. n = [at |-> at, home |-> at, screen |-> Local, active |-> NoScreen, entry |-> NoScreen,
           armed |-> FALSE, escape |-> 0, runEdge |-> NoScreen, run |-> 0,
           pushEdge |-> NoScreen, push |-> 0, gate |-> FALSE, refractory |-> NoScreen,
           locked |-> FALSE, mode |-> setup.mode, style |-> setup.style,
           grid |-> setup.grid, size |-> size]
    BY DEF NewRouter
<1> HIDE DEF at, n
<1>7. IsRouter(n) /\ n.screen = Local /\ n.active = NoScreen
    BY <1>1, <1>2, <1>4, <1>5, <1>6 DEF IsRouter, Fields
<1>8. <<x, y>> \in Points
    BY <1>3 DEF Points
<1> QED
    BY <1>7, <1>8, SeedGood DEF RouterInv, n

LEMMA PointerType ==
    ASSUME NEW r, IsRouter(r), NEW p \in Pointer(r)
    PROVE  p \in Points
BY HomeSize, PlusType, PointType, MotionType DEF Pointer

LEMMA MotionGood ==
    ASSUME RouterInv, NEW d \in Motions, Motion(d)
    PROVE  RouterInv'
<1>1. Good(router) /\ IsRouter(router)
    BY DEF RouterInv, Good, Base
<1>2. PICK pinned \in {router} \cup (IF AtHome(router)
                     THEN {ResyncIfLocal(router, p) : p \in Pointer(router)}
                             \cup {AdoptLocalSize(router, sz) : sz \in Sizes}
                     ELSE {}) : router' = Route(pinned, d, recent)
    BY DEF Motion
<1>3. Base(pinned)
    <2>1. CASE pinned = router
        BY <1>1, <2>1 DEF Good
    <2>2. CASE \E p \in Pointer(router) : pinned = ResyncIfLocal(router, p)
        BY <1>1, <2>2, PointerType, ResyncBase
    <2>3. CASE AtHome(router) /\ \E sz \in Sizes : pinned = AdoptLocalSize(router, sz)
        BY <1>1, <2>3, AdoptLocalGood DEF Good
    <2> QED
        BY <1>2, <2>1, <2>2, <2>3
<1> QED
    BY <1>2, <1>3, RouteGood DEF RouterInv

LEMMA ConfigureGood ==
    ASSUME RouterInv, NEW setup \in Setups, Configure(setup)
    PROVE  RouterInv'
<1> DEFINE set == [router EXCEPT !.mode = setup.mode, !.style = setup.style]
<1>1. Good(router) /\ IsRouter(router)
    BY DEF RouterInv, Good, Base
<1>2. /\ setup.grid \in [Screens -> Int \X Int] /\ setup.mode \in {"single", "double"}
      /\ setup.style \in Edges \cup {"mirror"}
    BY RouterAssumption DEF RouterAssumption, Setup
<1>3. IsRouter(set)
    BY <1>1, <1>2 DEF IsRouter
<1>4. /\ set.screen = router.screen /\ set.active = router.active /\ set.at = router.at
      /\ set.home = router.home /\ set.size = router.size /\ set.push = router.push
      /\ set.pushEdge = router.pushEdge
    BY <1>1 DEF IsRouter, Fields
<1>5. /\ AtHome(router) \/ setup.grid = router.grid
      /\ router' = IF setup.grid = router.grid THEN set ELSE SetLayout(set, setup.grid)
    BY DEF Configure
<1> HIDE DEF set
<1>6. Good(set)
    BY <1>1, <1>3, <1>4, SettingsGood
<1>7. AtHome(set) <=> AtHome(router)
    BY <1>4 DEF AtHome
<1> QED
    BY <1>2, <1>5, <1>6, <1>7, SetLayoutGood DEF RouterInv

LEMMA NextGood == RouterInv /\ [RouterNext]_routerVars => RouterInv'
<1> SUFFICES ASSUME RouterInv, [RouterNext]_routerVars
             PROVE  RouterInv'
    OBVIOUS
<1> DEFINE back == RestoreLocal(router)
<1>1. Good(router) /\ IsRouter(router)
    BY DEF RouterInv, Good, Base
<1>2. /\ Good(back) /\ IsRouter(back) /\ back.screen = Local /\ back.active = NoScreen
      /\ back.pushEdge = NoScreen /\ back.at \in Points
    BY <1>1, RestoreGood, HomeSize DEF Good, Base, AtHome
<1> HIDE DEF back
<1>3. ASSUME NEW d \in Motions, Motion(d) PROVE RouterInv'
    BY <1>3, MotionGood
<1>4. CASE ComeBack
    <2>1. PICK p \in Pointer(back) : router' = ResyncIfLocal(back, p)
        BY <1>4 DEF ComeBack, back
    <2> QED
        BY <1>2, <2>1, PointerType, ResyncBase DEF RouterInv
<1>5. CASE YieldDrive
    <2>1. router' = Seed(back, back.at, TRUE)
        BY <1>5 DEF YieldDrive, back
    <2> QED
        BY <1>2, <2>1, SeedGood DEF RouterInv
<1>6. ASSUME NEW e \in Edges, ParkInside(e) PROVE RouterInv'
    <2> DEFINE k == IF e \in {"left", "top"} THEN Park ELSE -Park
               p == [back.at EXCEPT ![Axis(e)] = Most(0, back.at[Axis(e)] + k)]
    <2>1. router' = Seed(back, p, FALSE)
        BY <1>6 DEF ParkInside, back
    <2>2. k \in Int
        BY Constants
    <2> HIDE DEF k
    <2>3. p \in Points
        BY <1>2, <2>2, AxisType DEF Points, Most
    <2> HIDE DEF p
    <2> QED
        BY <1>2, <2>1, <2>3, SeedGood DEF RouterInv
<1>7. CASE ToggleLock
    <2>1. \/ router' = [router EXCEPT !.locked = FALSE]
          \/ router' = [router EXCEPT !.locked = TRUE]
          \/ router' = [back EXCEPT !.locked = TRUE]
        BY <1>7 DEF ToggleLock, back
    <2> QED
        BY <1>1, <1>2, <2>1, LockGood DEF RouterInv
<1>8. ASSUME NEW setup \in Setups, Configure(setup) PROVE RouterInv'
    BY <1>8, ConfigureGood
<1>9. ASSUME NEW s \in PeerScreens, NEW sz \in Sizes, AdoptPeer(s, sz) PROVE RouterInv'
    BY <1>1, <1>9, AdoptPeerGood DEF AdoptPeer, RouterInv
<1>10. ASSUME NEW w \in recent, RecentEnds(w) PROVE RouterInv'
    BY <1>1, <1>10 DEF RecentEnds, RouterInv
<1>11. CASE UNCHANGED routerVars
    BY <1>1, <1>11 DEF routerVars, RouterInv
<1> QED
    BY <1>3, <1>4, <1>5, <1>6, <1>7, <1>8, <1>9, <1>10, <1>11 DEF RouterNext
----------------------------------------------------------------------------
(* What the router promises.                                               *)

\* The cursor at home is on its screen, and a run of pushes is short of a crossing
\* and kept only while the cursor is within Slide of the edge it pushes against
\* (EdgeRouter::route, resync_if_local).
THEOREM RunsStayAtTheirEdge == RouterSpec => []RouterInv
<1> QED
    BY InitGood, NextGood, PTL DEF RouterSpec

LEMMA InvRefuses == RouterInv => PhantomRefused
<1> SUFFICES ASSUME RouterInv, AtHome(router), NEW v \in Drifts \cup Motions,
                    NEW d \in Motions
             PROVE  LET pinned == ResyncIfLocal(router, Plus(router.at, v))
                    IN  \/ AtHome(Route(pinned, d, recent))
                        \/ LET e == Beyond(Plus(pinned.at, d), Extent(pinned))
                           IN  Distance(e, pinned.at, Extent(pinned)) <= PhantomGuard
    BY DEF PhantomRefused
<1>1. Good(router) /\ IsRouter(router)
    BY DEF RouterInv, Good, Base
<1>2. Plus(router.at, v) \in Points
    BY <1>1, HomeSize, PlusType, PointType, MotionType
<1> DEFINE pinned == ResyncIfLocal(router, Plus(router.at, v))
<1>3. Base(pinned) /\ Near(pinned, PhantomGuard) /\ AtHome(pinned)
    BY <1>1, <1>2, ResyncBase
<1> HIDE DEF pinned
<1>4. \/ AtHome(Route(pinned, d, recent))
      \/ Distance(Beyond(Plus(pinned.at, d), Extent(pinned)), pinned.at, Extent(pinned))
            <= PhantomGuard
    BY <1>3, NoFling
<1> QED
    BY <1>4 DEF pinned

\* No fling crosses in one event from further inside than the guard, whatever the
\* motion and wherever the pointer was found (note_pointer, push_credit).
THEOREM FlingsAreRefused == RouterSpec => []PhantomRefused
<1> QED
    BY RunsStayAtTheirEdge, InvRefuses, PTL

\* The edge past which a motion goes, told one coordinate at a time.
LEMMA BeyondCases ==
    ASSUME NEW p \in Points, NEW sz \in Sizes
    PROVE  Beyond(p, sz) = IF p[1] < 0 THEN "left" ELSE IF p[1] >= sz[1] THEN "right"
                           ELSE IF p[2] < 0 THEN "top" ELSE IF p[2] >= sz[2] THEN "bottom"
                           ELSE NoScreen
<1> DEFINE out == {e \in Edges : Distance(e, p, sz) < 0}
           chosen(e) == e \in out /\ (e \in Horizontal \/ out \cap Horizontal = {})
<1>1. sz[1] \in Nat \ {0} /\ sz[2] \in Nat \ {0} /\ p[1] \in Int /\ p[2] \in Int
    BY SizeType DEF Points
<1>2. /\ "left" \in out <=> p[1] < 0
      /\ "right" \in out <=> p[1] >= sz[1]
      /\ "top" \in out <=> p[2] < 0
      /\ "bottom" \in out <=> p[2] >= sz[2]
    BY <1>1 DEF Distance, Axis, Horizontal, Edges
<1>3. \A e \in out : e \in {"left", "right", "top", "bottom"}
    BY DEF Edges
<1>4. Beyond(p, sz) = IF out = {} THEN NoScreen ELSE CHOOSE e \in out : e \in Horizontal \/ out \cap Horizontal = {}
    BY DEF Beyond
<1> HIDE DEF out
<1>5. CASE p[1] < 0
    <2>1. \A e : chosen(e) <=> e = "left"
        BY <1>1, <1>2, <1>3, <1>5 DEF Horizontal
    <2> QED
        BY <1>2, <1>4, <1>5, <2>1
<1>6. CASE ~(p[1] < 0) /\ p[1] >= sz[1]
    <2>1. \A e : chosen(e) <=> e = "right"
        BY <1>1, <1>2, <1>3, <1>6 DEF Horizontal
    <2> QED
        BY <1>2, <1>4, <1>6, <2>1
<1>7. CASE ~(p[1] < 0) /\ ~(p[1] >= sz[1]) /\ p[2] < 0
    <2>1. \A e : chosen(e) <=> e = "top"
        BY <1>1, <1>2, <1>3, <1>7 DEF Horizontal
    <2> QED
        BY <1>2, <1>4, <1>7, <2>1
<1>8. CASE ~(p[1] < 0) /\ ~(p[1] >= sz[1]) /\ ~(p[2] < 0) /\ p[2] >= sz[2]
    <2>1. \A e : chosen(e) <=> e = "bottom"
        BY <1>1, <1>2, <1>3, <1>8 DEF Horizontal
    <2> QED
        BY <1>2, <1>4, <1>8, <2>1
<1>9. CASE ~(p[1] < 0) /\ ~(p[1] >= sz[1]) /\ ~(p[2] < 0) /\ ~(p[2] >= sz[2])
    <2>1. out = {}
        BY <1>2, <1>3, <1>9
    <2> QED
        BY <1>4, <1>9, <2>1
<1> QED
    BY <1>5, <1>6, <1>7, <1>8, <1>9

\* A place along an edge is a place along the edge it is mapped to.
LEMMA MapCoordinateIn ==
    ASSUME NEW v \in Nat, NEW from \in Nat \ {0}, NEW to \in Nat \ {0}
    PROVE  MapCoordinate(v, from, to) \in 0 .. (to - 1)
<1>1. CASE from <= 1 \/ to <= 1
    BY <1>1 DEF MapCoordinate
<1>2. CASE ~(from <= 1 \/ to <= 1)
    <2> DEFINE u == Least(v, from - 1)
               b == from - 1
               t == to - 1
    <2>1. u \in 0 .. b /\ b \in Nat \ {0} /\ t \in Nat
        BY <1>2 DEF Least
    <2>2. MapCoordinate(v, from, to) = (u * t) \div b
        BY <1>2 DEF MapCoordinate
    <2> HIDE DEF u, b, t
    <2>3. u * t \in Nat /\ u * t <= b * t
        BY <2>1
    <2>4. (u * t) \div b \in Nat /\ b * ((u * t) \div b) <= u * t
        <3> DEFINE a == u * t
        <3>1. a \in Nat
            BY <2>3
        <3> HIDE DEF a
        <3>2. a \div b \in Nat /\ b * (a \div b) <= a
            BY <2>1, <3>1
        <3> QED
            BY <3>2 DEF a
    <2>5. ASSUME NEW q \in Nat, b * q <= b * t PROVE q <= t
        BY <2>1, <2>5
    <2>6. b * ((u * t) \div b) <= b * t
        <3> DEFINE q == (u * t) \div b
        <3> HIDE DEF q
        <3>1. b * q \in Int /\ b * t \in Int /\ q \in Nat
            BY <2>1, <2>4 DEF q
        <3>2. b * q <= u * t
            BY <2>4 DEF q
        <3> QED
            BY <2>3, <3>1, <3>2 DEF q
    <2>7. (u * t) \div b <= t
        BY <2>4, <2>5, <2>6
    <2> QED
        BY <2>1, <2>2, <2>4, <2>7 DEF t
<1> QED
    BY <1>1, <1>2

\* The hop of the driven machine, whatever sizes its stream believes in.
LEMMA InvAgrees == RouterInv => HopAgrees
<1> SUFFICES ASSUME RouterInv, NEW d \in Motions, NEW lay \in Views(router), AtHome(router),
                    ~AtHome(Route(router, d, recent))
             PROVE  LET next == Route(router, d, recent)
                        hop  == HandoffForMotion(lay, Local, router.at, d)
                    IN  /\ hop # NoScreen /\ hop.target = next.active
                        /\ EntryForExit(lay.style, hop.edge) = next.entry
                        /\ (hop.edge \in Horizontal <=> next.entry \in Horizontal)
                                => OnScreen(hop.at, lay.size[hop.target])
                        /\ lay.size[hop.target] = next.size[hop.target] => hop.at = next.at
    BY DEF HopAgrees
<1> DEFINE from == router.size[Local]
           p == router.at
           q == Plus(p, d)
           e == Beyond(q, from)
           target == CrossingTarget(router, Local, e)
           to == lay.size[target]
           mapped == IF e \in Horizontal THEN MapCoordinate(p[2], from[2], to[2])
                     ELSE MapCoordinate(p[1], from[1], to[1])
           entry == EntryForExit(router.style, e)
           hop == HandoffForMotion(lay, Local, p, d)
           next == Route(router, d, recent)
<1>1. Base(router) /\ IsRouter(router) /\ Placed(router)
    BY DEF RouterInv, Good, Base
<1>2. from \in Sizes /\ p \in Points /\ OnScreen(p, from) /\ Local \in Screens
    BY <1>1, HomeSize, Constants DEF Placed
<1>3. /\ from[1] \in Nat \ {0} /\ from[2] \in Nat \ {0} /\ d[1] \in Int /\ d[2] \in Int
      /\ p[1] \in 0 .. (from[1] - 1) /\ p[2] \in 0 .. (from[2] - 1)
    BY <1>2, SizeType, MotionType DEF OnScreen
<1>4. /\ lay.grid = router.grid /\ lay.mode = router.mode /\ lay.style = router.style
      /\ lay.size \in [Screens -> Sizes] /\ lay.size[Local] = from
    BY DEF Views
<1>5. e \in Edges /\ target # NoScreen /\ next = Handoff(router, e)
    BY <1>1, Leaves
<1>6. q \in Points /\ q[1] = p[1] + d[1] /\ q[2] = p[2] + d[2]
    BY <1>3, PlusType DEF Plus
<1>7. target \in PeerScreens /\ target \in Screens /\ entry \in Edges
    BY <1>1, <1>5, CrossingTargetType, EntryType DEF Screens
<1>8. to \in Sizes /\ to[1] \in Nat \ {0} /\ to[2] \in Nat \ {0}
    BY <1>4, <1>7, SizeType
<1>9. /\ mapped \in Nat
      /\ e \in Horizontal => mapped < to[2]
      /\ e \notin Horizontal => mapped < to[1]
    <2>1. ASSUME NEW i \in {1, 2} PROVE MapCoordinate(p[i], from[i], to[i]) \in 0 .. (to[i] - 1)
        <3>1. p[i] \in Nat /\ from[i] \in Nat \ {0} /\ to[i] \in Nat \ {0}
            BY <1>3, <1>8
        <3> HIDE DEF p, from, to
        <3> QED
            BY <3>1, MapCoordinateIn
    <2>2. /\ MapCoordinate(p[2], from[2], to[2]) \in 0 .. (to[2] - 1)
          /\ MapCoordinate(p[1], from[1], to[1]) \in 0 .. (to[1] - 1)
        BY <2>1
    <2> HIDE DEF p, from, to, e
    <2> QED
        BY <1>8, <2>2
\* The two ways of telling the edge, and the neighbour, are one.
<1>10. hop = [target |-> target, edge |-> e, at |-> Inside(entry, EntryInset, mapped, to)]
    <2> DEFINE x == Least(p[1], from[1] - 1)
               y == Least(p[2], from[2] - 1)
               f == IF x + d[1] < 0 THEN "left" ELSE IF x + d[1] >= from[1] THEN "right"
                    ELSE IF y + d[2] < 0 THEN "top" ELSE IF y + d[2] >= from[2] THEN "bottom"
                    ELSE NoScreen
    <2>1. x = p[1] /\ y = p[2]
        BY <1>3 DEF Least
    <2>2. f = e
        BY <1>2, <1>6, <2>1, BeyondCases
    <2>3. CrossingTarget(lay, Local, e) = target
        BY <1>4 DEF CrossingTarget, Neighbor
    <2>4. e # NoScreen
        BY <1>5, Constants
    <2> HIDE DEF e, f, x, y, target
    <2>5. CrossingTarget(lay, Local, f) = target /\ f # NoScreen /\ target # NoScreen
        BY <1>5, <2>2, <2>3, <2>4
    <2>6. hop = [target |-> CrossingTarget(lay, Local, f), edge |-> f,
                 at |-> Inside(EntryForExit(lay.style, f), EntryInset,
                               IF f \in Horizontal
                               THEN MapCoordinate(y, from[2], lay.size[CrossingTarget(lay, Local, f)][2])
                               ELSE MapCoordinate(x, from[1], lay.size[CrossingTarget(lay, Local, f)][1]),
                               lay.size[CrossingTarget(lay, Local, f)])]
        BY <1>4, <2>5 DEF HandoffForMotion, f, x, y
    <2> QED
        BY <1>4, <2>1, <2>2, <2>5, <2>6
<1> HIDE DEF hop, next
<1>11. hop.target = target /\ hop.edge = e /\ hop.at = Inside(entry, EntryInset, mapped, to)
    BY <1>10
<1>12. hop # NoScreen
    <2>1. Inside(entry, EntryInset, mapped, to) \in [{1, 2} -> Int]
        <3> HIDE DEF entry, mapped, to
        <3> QED
            BY <1>7, <1>8, <1>9, Constants, InsideType DEF Points
    <2> HIDE DEF target, entry, mapped, to, e
    <2>2. hop \in Hop
        BY <1>5, <1>7, <1>10, <2>1 DEF Hop
    <2> QED
        BY <2>2, RouterAssumption DEF RouterAssumption
<1>13. /\ next.active = target /\ next.entry = entry /\ next.size = router.size
       /\ next.at = Landing(router, Local, p, e)
    <2>1. next = [router EXCEPT !.home = router.at, !.at = Landing(router, Local, p, e),
                    !.screen = target, !.active = target, !.entry = entry, !.armed = FALSE,
                    !.escape = 0, !.runEdge = NoScreen, !.run = 0, !.pushEdge = NoScreen,
                    !.push = 0, !.refractory = NoScreen]
        BY <1>5 DEF Handoff
    <2> HIDE DEF target, entry, e
    <2> QED
        BY <1>1, <2>1 DEF IsRouter, Fields
<1>14. (e \in Horizontal <=> entry \in Horizontal) => OnScreen(hop.at, to)
    <2> HIDE DEF entry, mapped, to, e
    <2> SUFFICES ASSUME e \in Horizontal <=> entry \in Horizontal
                 PROVE  OnScreen(Inside(entry, EntryInset, mapped, to), to)
        BY <1>11
    <2>1. EntryInset \in Nat
        BY Constants
    <2> QED
        BY <1>7, <1>8, <1>9, <2>1 DEF OnScreen, Inside, Axis, Horizontal, Least, Most
<1>15. to = router.size[target] => hop.at = next.at
    <2> SUFFICES ASSUME to = router.size[target]
                 PROVE  Inside(entry, EntryInset, mapped, to) = Landing(router, Local, p, e)
        BY <1>11, <1>13
    <2>1. mapped = MapAlong(e, p, from, to)
        <3>1. CASE e \in Horizontal
            BY <3>1 DEF MapAlong, Axis
        <3>2. CASE e \notin Horizontal
            BY <3>2 DEF MapAlong, Axis
        <3> QED
            BY <3>1, <3>2
    <2> HIDE DEF mapped
    <2> QED
        BY <2>1 DEF Landing
<1>16. lay.size[hop.target] = to /\ next.size[hop.target] = router.size[target]
    BY <1>11, <1>13
<1>17. EntryForExit(lay.style, hop.edge) = next.entry
    BY <1>4, <1>11, <1>13
<1> QED
    BY <1>11, <1>12, <1>13, <1>14, <1>15, <1>16, <1>17 DEF hop, next

\* What route does with a motion that crosses at home, handoff_for_motion asks for when
\* the machine is driven, on any sizes that its stream believes in.
THEOREM CrossingsAgree == RouterSpec => []HopAgrees
<1> QED
    BY RunsStayAtTheirEdge, InvAgrees, PTL

-----------------------------------------------------------------------------
\* What the capture thread queues.
Events == {Down(k) : k \in Keys} \cup {Up(k) : k \in Keys} \cup {Pinch, PinchEnd}
Entries == [id : Nat, event : Events]
Sessions == [peer : Targets \cup {NoPeer}, phase : {"none", "driving", "parked"},
             barrier : Nat, pinch : BOOLEAN, ctrl : BOOLEAN, deaf : BOOLEAN]
Tasks == [at : {"rest", "veto", "opening"}, trigger : Nat, snap : SUBSET Keys,
          target : Targets \cup {NoPeer}]

\* Types, and the peer of a stream and of a crossing.
Shape ==
    /\ fingers \in SUBSET Keys /\ keys \in SUBSET Keys
    /\ lastId \in Nat
    /\ captured \in Seq(Entries)
    /\ session \in Sessions
    /\ session.phase # "none" => session.peer \in Targets
    /\ task \in Tasks
    /\ task.at # "rest" => task.target \in Targets
    /\ held \in [Targets -> SUBSET Keys]

\* e is on its way to the drive task.
Queued(q, e) == \E i \in 1..Len(q) : q[i].event = e

\* Every e in the queue has an f behind it.
Followed(q, e, f) ==
    \A i \in 1..Len(q) : q[i].event = e => \E j \in (i + 1)..Len(q) : q[j].event = f

\* Recorded down: by the capture thread, or, for the service, by its helper alone.
Pressed(k) == IF driver = "service" THEN k \in fingers ELSE k \in keys

\* Ctrl may be held for a pinch that goes on, or whose end is queued.
Pinched(k) ==
    /\ k = Ctrl
    /\ \/ driver = "service"
       \/ session.pinch /\ (gesture \/ Queued(captured, PinchEnd))

\* A press or a pinch that is over has its end behind it in the queue.
Paired ==
    /\ \A k \in Keys : Pressed(k) \/ Followed(captured, Down(k), Up(k))
    /\ gesture \/ Followed(captured, Pinch, PinchEnd)

\* What is down, will be asserted, or would be asserted, is pressed or will be let go.
Owed ==
    /\ Driving /\ ~gaveUp =>
          \A k \in held[session.peer] : Pressed(k) \/ Queued(captured, Up(k)) \/ Pinched(k)
    /\ task.at = "opening" =>
          \A k \in task.snap : Pressed(k) \/ Queued(captured, Up(k))
    /\ driver = "service" =>
          \A k \in keys : Pressed(k) \/ Queued(captured, Up(k)) \/ k = Ctrl

\* Who records and drives what.
Roles ==
    /\ driver \in Drivers
    /\ driver # "service" => keys \subseteq fingers \cup missed
    /\ driver = "service" => backend
    /\ task.at # "rest" => driver = "topology"
    /\ task.at = "rest" <=> task = Rest
    /\ session.phase # "none" /\ session.deaf => held[session.peer] = {}

KeysInv == Shape /\ Paired /\ Owed /\ Roles
----------------------------------------------------------------------------
(* The queue.                                                              *)

\* The events are told apart by kind and key.
LEMMA EventsDiffer ==
    /\ \A j, k : (Down(j) = Down(k) => j = k) /\ (Up(j) = Up(k) => j = k)
    /\ \A j, k : Down(j) # Up(k) /\ Down(j) # Pinch /\ Down(j) # PinchEnd
    /\ \A k : Up(k) # Pinch /\ Up(k) # PinchEnd
    /\ Pinch # PinchEnd
BY DEF Down, Up, Pinch, PinchEnd

\* What is queued stays queued behind a new entry, which is queued itself.
LEMMA QueuedAppend ==
    ASSUME NEW q \in Seq(Entries), NEW x \in Entries, NEW e,
           Queued(q, e) \/ x.event = e
    PROVE  Queued(Append(q, x), e)
<1> DEFINE r == Append(q, x)
<1>1. /\ Len(q) \in Nat /\ Len(r) = Len(q) + 1 /\ r[Len(q) + 1] = x
      /\ \A i \in 1..Len(q) : r[i] = q[i]
  OBVIOUS
<1> HIDE DEF r
<1>2. ASSUME x.event = e PROVE Queued(r, e)
  <2>1. Len(q) + 1 \in 1..Len(r) /\ r[Len(q) + 1].event = e
    BY <1>1, <1>2
  <2>2. QED
    BY <2>1 DEF Queued
<1>3. ASSUME Queued(q, e) PROVE Queued(r, e)
  BY <1>1, <1>3 DEF Queued
<1>4. Queued(r, e)
  BY <1>2, <1>3
<1>5. QED
  BY <1>4 DEF r

\* A queue without its head.
LEMMA TailFacts ==
    ASSUME NEW q \in Seq(Entries), q # << >>
    PROVE  /\ Len(q) \in Nat \ {0} /\ Tail(q) \in Seq(Entries) /\ Len(Tail(q)) = Len(q) - 1
           /\ \A i \in 1..(Len(q) - 1) : Tail(q)[i] = q[i + 1]
           /\ Head(q) = q[1] /\ Head(q) \in Entries
OBVIOUS

\* What is queued, and not at the head, is queued in the tail.
LEMMA QueuedTail ==
    ASSUME NEW q \in Seq(Entries), q # << >>, NEW e, Queued(q, e), Head(q).event # e
    PROVE  Queued(Tail(q), e)
<1>1. PICK i \in 1..Len(q) : q[i].event = e
  BY DEF Queued
<1>2. i # 1 /\ i - 1 \in 1..(Len(q) - 1) /\ (i - 1) + 1 = i
  BY <1>1, TailFacts
<1>3. Tail(q)[i - 1] = q[i]
  BY <1>2, TailFacts
<1>4. i - 1 \in 1..Len(Tail(q))
  BY <1>2, TailFacts
<1>5. QED
  BY <1>1, <1>3, <1>4 DEF Queued

\* Behind an entry that asks for nothing, and behind the one that is asked for.
LEMMA FollowedAppend ==
    ASSUME NEW q \in Seq(Entries), NEW x \in Entries, NEW e, NEW f, e # f,
           \/ Followed(q, e, f) /\ x.event # e
           \/ x.event = f
    PROVE  Followed(Append(q, x), e, f)
<1> DEFINE r == Append(q, x)
<1>1. /\ Len(q) \in Nat /\ Len(r) = Len(q) + 1 /\ r[Len(q) + 1] = x
      /\ \A i \in 1..Len(q) : r[i] = q[i]
  OBVIOUS
<1> HIDE DEF r
<1>2. ASSUME NEW i \in 1..Len(r), r[i].event = e
      PROVE  \E j \in (i + 1)..Len(r) : r[j].event = f
  <2>1. i # Len(q) + 1
    BY <1>1, <1>2
  <2>2. i \in 1..Len(q) /\ q[i].event = e
    BY <1>1, <1>2, <2>1
  <2>3. CASE x.event = f
    BY <1>1, <2>2, <2>3
  <2>4. CASE Followed(q, e, f)
    <3>1. PICK j \in (i + 1)..Len(q) : q[j].event = f
      BY <2>2, <2>4 DEF Followed
    <3>2. j \in (i + 1)..Len(r) /\ j \in 1..Len(q)
      BY <1>1, <2>2
    <3>3. QED
      BY <1>1, <3>1, <3>2
  <2>5. QED
    BY <2>3, <2>4
<1>3. Followed(r, e, f)
  BY <1>2 DEF Followed
<1>4. QED
  BY <1>3 DEF r

\* Without its head the queue is as complete as it was ...
LEMMA FollowedTail ==
    ASSUME NEW q \in Seq(Entries), q # << >>, NEW e, NEW f, Followed(q, e, f)
    PROVE  Followed(Tail(q), e, f)
<1>1. ASSUME NEW i \in 1..Len(Tail(q)), Tail(q)[i].event = e
      PROVE  \E j \in (i + 1)..Len(Tail(q)) : Tail(q)[j].event = f
  <2>1. i \in 1..(Len(q) - 1) /\ i + 1 \in 1..Len(q) /\ Tail(q)[i] = q[i + 1]
    BY TailFacts
  <2>2. PICK j \in (i + 2)..Len(q) : q[j].event = f
    BY <1>1, <2>1 DEF Followed
  <2>3. j - 1 \in 1..(Len(q) - 1) /\ (j - 1) + 1 = j
    BY <2>1
  <2>4. Tail(q)[j - 1] = q[j]
    BY <2>3, TailFacts
  <2>5. j - 1 \in (i + 1)..Len(Tail(q))
    BY <2>1, TailFacts
  <2>6. QED
    BY <2>2, <2>4, <2>5
<1>2. QED
  BY <1>1 DEF Followed

\* ... and has what follows the head.
LEMMA FollowedHead ==
    ASSUME NEW q \in Seq(Entries), q # << >>, NEW e, NEW f, Followed(q, e, f),
           Head(q).event = e
    PROVE  Queued(Tail(q), f)
<1>1. 1 \in 1..Len(q) /\ q[1].event = e
  BY TailFacts
<1>2. PICK j \in 2..Len(q) : q[j].event = f
  BY <1>1 DEF Followed
<1>3. j - 1 \in 1..(Len(q) - 1) /\ (j - 1) + 1 = j /\ j - 1 \in 1..Len(Tail(q))
  BY TailFacts
<1>4. Tail(q)[j - 1] = q[j]
  BY <1>3, TailFacts
<1>5. QED
  BY <1>2, <1>3, <1>4 DEF Queued
----------------------------------------------------------------------------
(* What the capture thread queues.                                         *)

LEMMA InEvents ==
    /\ \A k \in Keys : Down(k) \in Events /\ Up(k) \in Events
    /\ Pinch \in Events /\ PinchEnd \in Events
BY DEF Events

LEMMA OnlyPinchEnd == \A e \in Events : e.kind = "pinchEnd" => e = PinchEnd
<1>1. ASSUME NEW k \in Keys PROVE Down(k).kind = "press" /\ Up(k).kind = "release"
  BY DEF Down, Up
<1>2. Pinch.kind = "pinch"
  BY DEF Pinch
<1>3. QED
  BY <1>1, <1>2 DEF Events

\* An event is queued, unless it releases a key that was never recorded.
LEMMA EnqueueFacts ==
    ASSUME Shape, NEW e \in Events, Enqueue(e)
    PROVE  \/ /\ e.kind = "release" /\ driver # "service" /\ e.key \notin keys
              /\ UNCHANGED capture
           \/ /\ keys' = IF driver = "service" THEN keys ELSE Recorded(keys, e)
              /\ lastId' = lastId + 1
              /\ \E x \in Entries : /\ x.event = e /\ x.id = lastId + 1
                                   /\ captured' = Append(captured, x)
<1>1. lastId + 1 \in Nat
  BY DEF Shape
<1>2. ASSUME lastId' = lastId + 1 PROVE [id |-> lastId', event |-> e] \in Entries
  BY <1>1, <1>2 DEF Entries
<1>3. [id |-> lastId', event |-> e].event = e /\ [id |-> lastId', event |-> e].id = lastId'
  OBVIOUS
<1>4. QED
  BY <1>2, <1>3 DEF Enqueue

\* The types of the capture thread's state.
LEMMA EnqueueTyped ==
    ASSUME Shape, NEW e \in Events, Enqueue(e)
    PROVE  keys' \in SUBSET Keys /\ lastId' \in Nat /\ captured' \in Seq(Entries)
<1>0. keys \in SUBSET Keys /\ lastId \in Nat /\ captured \in Seq(Entries)
  BY DEF Shape
<1>1. e.key \in Keys
  BY HeldKeysAssumption DEF HeldKeysAssumption, Events, Down, Up, Pinch, PinchEnd
<1>2. Recorded(keys, e) \in SUBSET Keys
  BY <1>0, <1>1 DEF Recorded
<1>3. ASSUME NEW x \in Entries PROVE Append(captured, x) \in Seq(Entries)
  BY <1>0
<1>4. QED
  BY <1>0, <1>2, <1>3, EnqueueFacts DEF capture

\* Nothing leaves the queue.
LEMMA EnqueueKeeps ==
    ASSUME Shape, NEW e \in Events, Enqueue(e), NEW f, Queued(captured, f)
    PROVE  Queued(captured', f)
<1>0. captured \in Seq(Entries)
  BY DEF Shape
<1>1. ASSUME NEW x \in Entries PROVE Queued(Append(captured, x), f)
  BY <1>0, QueuedAppend
<1>2. captured' = captured \/ \E x \in Entries : captured' = Append(captured, x)
  BY EnqueueFacts DEF capture
<1>3. QED
  BY <1>1, <1>2

\* What the user does leaves the drive alone: it owes what it owed, if every
\* press and pinch that ends has its end in the queue.
LEMMA UserKeeps ==
    ASSUME Shape, Owed, UNCHANGED <<driver, session, task, held, gaveUp>>,
           driver = "service" => keys' = keys,
           \A k \in Keys : Pressed(k) => (Pressed(k))' \/ Queued(captured', Up(k)),
           \A k \in Keys : Queued(captured, Up(k)) => Queued(captured', Up(k)),
           Queued(captured, PinchEnd) => Queued(captured', PinchEnd),
           gesture => gesture' \/ Queued(captured', PinchEnd)
    PROVE  Owed'
<1>0. /\ keys \in SUBSET Keys /\ task.snap \in SUBSET Keys
      /\ Driving => held[session.peer] \in SUBSET Keys
  BY DEF Shape, Driving, Tasks
<1>1. Driving' <=> Driving
  BY DEF Driving
<1>2. ASSUME Driving, ~gaveUp, NEW k \in held[session.peer]
      PROVE  (Pressed(k))' \/ Queued(captured', Up(k)) \/ (Pinched(k))'
  <2>1. k \in Keys
    BY <1>0, <1>2
  <2>2. Pressed(k) \/ Queued(captured, Up(k)) \/ Pinched(k)
    BY <1>2 DEF Owed
  <2>3. Pinched(k) => (Pinched(k))'
    BY DEF Pinched
  <2>4. QED
    BY <2>1, <2>2, <2>3
<1>3. ASSUME task.at = "opening", NEW k \in task.snap
      PROVE  (Pressed(k))' \/ Queued(captured', Up(k))
  BY <1>0, <1>3 DEF Owed
<1>4. ASSUME driver = "service", NEW k \in keys
      PROVE  (Pressed(k))' \/ Queued(captured', Up(k)) \/ k = Ctrl
  BY <1>0, <1>4 DEF Owed
<1>5. QED
  BY <1>1, <1>2, <1>3, <1>4 DEF Owed
----------------------------------------------------------------------------
(* The steps of the capture thread.                                        *)

\* The drive's part of the types is not the user's to change.
LEMMA UserTyped ==
    ASSUME Shape, UNCHANGED <<session, task, held>>, fingers' \in SUBSET Keys,
           keys' \in SUBSET Keys, lastId' \in Nat, captured' \in Seq(Entries)
    PROVE  Shape'
BY DEF Shape

\* What is not released or ended by the new event is as well followed as before.
LEMMA EnqueueFollowed ==
    ASSUME Shape, NEW x \in Events, Enqueue(x), NEW e, NEW f, e # f,
           Followed(captured, e, f), x # e
    PROVE  Followed(captured', e, f)
<1>0. captured \in Seq(Entries)
  BY DEF Shape
<1>1. ASSUME NEW y \in Entries, y.event = x PROVE Followed(Append(captured, y), e, f)
  BY <1>0, <1>1, FollowedAppend
<1>2. captured' = captured \/ \E y \in Entries : y.event = x /\ captured' = Append(captured, y)
  BY EnqueueFacts DEF capture
<1>3. QED
  BY <1>1, <1>2

\* An event that is queued is queued, and follows all that is.
LEMMA EnqueueLast ==
    ASSUME Shape, NEW x \in Events, Enqueue(x),
           x.kind # "release" \/ driver = "service" \/ x.key \in keys
    PROVE  /\ Queued(captured', x)
           /\ \A e : e # x => Followed(captured', e, x)
           /\ keys' = IF driver = "service" THEN keys ELSE Recorded(keys, x)
<1>0. captured \in Seq(Entries)
  BY DEF Shape
<1>1. PICK y \in Entries : y.event = x /\ captured' = Append(captured, y)
  BY EnqueueFacts
<1>2. Queued(captured', x)
  BY <1>0, <1>1, QueuedAppend
<1>3. ASSUME NEW e, e # x PROVE Followed(captured', e, x)
  BY <1>0, <1>1, <1>3, FollowedAppend
<1>4. QED
  BY <1>2, <1>3, EnqueueFacts

\* A press is recorded, or nobody looks.
LEMMA PressKeeps == ASSUME KeysInv, NEW k \in Keys, Press(k) PROVE KeysInv'
<1>0. /\ UNCHANGED <<driver, session, task, held, gaveUp, gesture, backend>>
      /\ fingers' = fingers \cup {k}
  BY DEF Press, ghosts
<1>1. Shape /\ Paired /\ Owed /\ Roles
  BY DEF KeysInv
<1>2. CASE backend
  <2>1. /\ Enqueue(Down(k)) /\ Down(k) \in Events /\ Down(k).kind = "press"
        /\ Down(k).key = k /\ missed' = missed \ {k}
    BY <1>2, InEvents DEF Press, Down
  <2>2. keys' = IF driver = "service" THEN keys ELSE keys \cup {k}
    BY <1>1, <2>1, EnqueueLast DEF Recorded
  <2>3. \A j \in Keys : (Pressed(j))' <=> (Pressed(j) \/ j = k)
    BY <1>0, <2>2 DEF Pressed
  <2>4. Shape'
    <3>1. fingers' \in SUBSET Keys
      BY <1>0, <1>1 DEF Shape
    <3>2. QED
      BY <1>0, <1>1, <2>1, <3>1, EnqueueTyped, UserTyped
  <2>5. Owed'
    <3>1. \A f : Queued(captured, f) => Queued(captured', f)
      BY <1>1, <2>1, EnqueueKeeps
    <3>2. QED
      BY <1>0, <1>1, <2>2, <2>3, <3>1, UserKeeps
  <2>6. Paired'
    <3>1. ASSUME NEW j \in Keys, ~(Pressed(j))' PROVE Followed(captured', Down(j), Up(j))
      <4>1. j # k /\ Followed(captured, Down(j), Up(j))
        BY <1>1, <2>3, <3>1 DEF Paired
      <4>2. QED
        BY <1>1, <2>1, <4>1, EventsDiffer, EnqueueFollowed
    <3>2. ASSUME ~gesture PROVE Followed(captured', Pinch, PinchEnd)
      BY <1>1, <2>1, <3>2, EventsDiffer, EnqueueFollowed DEF Paired
    <3>3. QED
      BY <1>0, <3>1, <3>2 DEF Paired
  <2>7. Roles'
    BY <1>0, <1>1, <2>1, <2>2 DEF Roles
  <2>8. QED
    BY <2>4, <2>5, <2>6, <2>7 DEF KeysInv
<1>3. CASE ~backend
  <2>1. driver # "service" /\ UNCHANGED <<keys, lastId, captured>> /\ missed' = missed \cup {k}
    BY <1>1, <1>3 DEF Press, Roles, capture
  <2>2. \A j \in Keys : (Pressed(j))' <=> Pressed(j)
    BY <1>0, <2>1 DEF Pressed
  <2>3. Shape'
    BY <1>0, <1>1, <2>1, UserTyped DEF Shape
  <2>4. Owed'
    BY <1>0, <1>1, <2>1, <2>2, UserKeeps
  <2>5. Paired'
    BY <1>0, <1>1, <2>1, <2>2 DEF Paired
  <2>6. Roles'
    BY <1>0, <1>1, <2>1 DEF Roles
  <2>7. QED
    BY <2>3, <2>4, <2>5, <2>6 DEF KeysInv
<1>4. QED
  BY <1>2, <1>3

\* A release of a recorded key is queued behind its press.
LEMMA ReleaseKeeps == ASSUME KeysInv, NEW k \in Keys, Release(k) PROVE KeysInv'
<1>0. /\ UNCHANGED <<driver, session, task, held, gaveUp, gesture, backend>>
      /\ fingers' = fingers \ {k}
  BY DEF Release
<1>1. Shape /\ Paired /\ Owed /\ Roles
  BY DEF KeysInv
<1>2. fingers' \in SUBSET Keys
  BY <1>0, <1>1 DEF Shape
<1>3. CASE backend /\ (driver = "service" \/ k \in keys)
  <2>1. /\ Enqueue(Up(k)) /\ Up(k) \in Events /\ Up(k).kind = "release"
        /\ Up(k).key = k /\ missed' = missed \ {k}
    BY <1>3, InEvents DEF Release, Up
  <2>2. /\ keys' = IF driver = "service" THEN keys ELSE keys \ {k}
        /\ Queued(captured', Up(k)) /\ \A e : e # Up(k) => Followed(captured', e, Up(k))
    BY <1>1, <1>3, <2>1, EnqueueLast DEF Recorded
  <2>3. \A j \in Keys : (Pressed(j))' <=> (Pressed(j) /\ j # k)
    BY <1>0, <2>2 DEF Pressed
  <2>4. Shape'
    BY <1>0, <1>1, <1>2, <2>1, EnqueueTyped, UserTyped
  <2>5. Owed'
    <3>1. \A f : Queued(captured, f) => Queued(captured', f)
      BY <1>1, <2>1, EnqueueKeeps
    <3>2. QED
      BY <1>0, <1>1, <2>2, <2>3, <3>1, UserKeeps
  <2>6. Paired'
    <3>1. ASSUME NEW j \in Keys, ~(Pressed(j))' PROVE Followed(captured', Down(j), Up(j))
      <4>1. CASE j = k
        BY <2>2, <4>1, EventsDiffer
      <4>2. CASE j # k
        <5>1. Followed(captured, Down(j), Up(j))
          BY <1>1, <2>3, <3>1, <4>2 DEF Paired
        <5>2. QED
          BY <1>1, <2>1, <5>1, EventsDiffer, EnqueueFollowed
      <4>3. QED
        BY <4>1, <4>2
    <3>2. ASSUME ~gesture PROVE Followed(captured', Pinch, PinchEnd)
      BY <1>1, <2>1, <3>2, EventsDiffer, EnqueueFollowed DEF Paired
    <3>3. QED
      BY <1>0, <3>1, <3>2 DEF Paired
  <2>7. Roles'
    BY <1>0, <1>1, <2>1, <2>2 DEF Roles
  <2>8. QED
    BY <2>4, <2>5, <2>6, <2>7 DEF KeysInv
<1>4. CASE ~backend \/ (driver # "service" /\ k \notin keys)
  <2>1. /\ driver # "service" /\ UNCHANGED <<keys, lastId, captured>>
        /\ missed' = missed \cup {k} \/ (missed' = missed \ {k} /\ k \notin keys)
    <3>1. CASE ~backend
      BY <1>1, <1>4, <3>1 DEF Release, Roles, capture
    <3>2. CASE backend
      BY <1>4, <3>2 DEF Release, Enqueue, Up, capture
    <3>3. QED
      BY <3>1, <3>2
  <2>2. \A j \in Keys : (Pressed(j))' <=> Pressed(j)
    BY <1>0, <2>1 DEF Pressed
  <2>3. Shape'
    BY <1>0, <1>1, <1>2, <2>1, UserTyped DEF Shape
  <2>4. Owed'
    BY <1>0, <1>1, <2>1, <2>2, UserKeeps
  <2>5. Paired'
    BY <1>0, <1>1, <2>1, <2>2 DEF Paired
  <2>6. Roles'
    BY <1>0, <1>1, <2>1 DEF Roles
  <2>7. QED
    BY <2>3, <2>4, <2>5, <2>6 DEF KeysInv
<1>5. QED
  BY <1>3, <1>4
\* A pinch that ends has its end in the queue, and so has one cut short by the
\* backend: common to PinchMoves and BackendFails.
LEMMA GestureKeeps ==
    ASSUME KeysInv, NEW e \in {Pinch, PinchEnd}, Enqueue(e),
           UNCHANGED <<driver, session, task, held, gaveUp, fingers, missed>>,
           gesture' \/ e = PinchEnd,
           driver = "service" => backend'
    PROVE  KeysInv'
<1>1. Shape /\ Paired /\ Owed /\ Roles
  BY DEF KeysInv
<1>2. e \in Events /\ e.kind # "release"
  BY InEvents DEF Pinch, PinchEnd
<1>3. keys' = keys /\ Queued(captured', e) /\ \A f : f # e => Followed(captured', f, e)
  <2>1. Recorded(keys, e) = keys
    BY DEF Recorded, Pinch, PinchEnd
  <2>2. QED
    BY <1>1, <1>2, <2>1, EnqueueLast
<1>4. \A j \in Keys : (Pressed(j))' <=> Pressed(j)
  BY <1>3 DEF Pressed
<1>5. Shape'
  BY <1>1, <1>2, EnqueueTyped, UserTyped DEF Shape
<1>6. Owed'
  <2>1. \A f : Queued(captured, f) => Queued(captured', f)
    BY <1>1, <1>2, EnqueueKeeps
  <2>2. gesture => gesture' \/ Queued(captured', PinchEnd)
    BY <1>3
  <2>3. QED
    BY <1>1, <1>3, <1>4, <2>1, <2>2, UserKeeps
<1>7. Paired'
  <2>1. ASSUME NEW j \in Keys, ~(Pressed(j))' PROVE Followed(captured', Down(j), Up(j))
    BY <1>1, <1>2, <1>4, <2>1, EventsDiffer, EnqueueFollowed DEF Paired
  <2>2. ASSUME ~gesture' PROVE Followed(captured', Pinch, PinchEnd)
    BY <1>3, <2>2, EventsDiffer
  <2>3. QED
    BY <2>1, <2>2 DEF Paired
<1>8. Roles'
  BY <1>1, <1>3 DEF Roles
<1>9. QED
  BY <1>5, <1>6, <1>7, <1>8 DEF KeysInv

LEMMA PinchMovesKeeps == ASSUME KeysInv, NEW on \in BOOLEAN, PinchMoves(on) PROVE KeysInv'
<1>1. /\ UNCHANGED <<driver, session, task, held, gaveUp, fingers, missed, backend>>
      /\ backend /\ gesture' = on /\ Enqueue(IF on THEN Pinch ELSE PinchEnd)
  BY DEF PinchMoves, ghosts
<1>2. CASE on
  BY <1>1, <1>2, GestureKeeps
<1>3. CASE ~on
  BY <1>1, <1>3, GestureKeeps
<1>4. QED
  BY <1>2, <1>3

LEMMA BackendFailsKeeps == ASSUME KeysInv, BackendFails PROVE KeysInv'
<1>1. /\ UNCHANGED <<driver, session, task, held, gaveUp, fingers, missed>>
      /\ driver # "service" /\ Enqueue(PinchEnd)
  BY DEF BackendFails, ghosts
<1>2. QED
  BY <1>1, GestureKeeps

\* The next backend starts with the recorded keys.
LEMMA BackendRebuiltKeeps == ASSUME KeysInv, BackendRebuilt PROVE KeysInv'
<1>1. /\ UNCHANGED <<driver, session, task, held, gaveUp, fingers, missed, gesture,
                     keys, lastId, captured>>
      /\ backend'
  BY DEF BackendRebuilt, user, capture, ghosts
<1>2. Shape /\ Paired /\ Owed /\ Roles
  BY DEF KeysInv
<1>3. \A j \in Keys : (Pressed(j))' <=> Pressed(j)
  BY <1>1 DEF Pressed
<1>4. Shape'
  BY <1>1, <1>2, UserTyped DEF Shape
<1>5. Owed'
  BY <1>1, <1>2, <1>3, UserKeeps
<1>6. Paired'
  BY <1>1, <1>2, <1>3 DEF Paired
<1>7. Roles'
  BY <1>1, <1>2 DEF Roles
<1>8. QED
  BY <1>4, <1>5, <1>6, <1>7 DEF KeysInv
----------------------------------------------------------------------------
(* The steps of the drive task that take nothing from the queue.           *)

\* What such a step leaves alone, and what it is then enough to show.
LEMMA TaskKeeps ==
    ASSUME KeysInv, UNCHANGED <<driver, fingers, gesture, backend, missed, keys, lastId, captured>>,
           session' \in Sessions,
           session'.phase # "none" => session'.peer \in Targets,
           task' \in Tasks,
           task' = Rest \/ (task'.at # "rest" /\ task'.target \in Targets /\ driver = "topology"),
           held' \in [Targets -> SUBSET Keys],
           session'.phase # "none" /\ session'.deaf => held'[session'.peer] = {},
           session'.phase = "driving" /\ ~gaveUp' =>
              \A k \in held'[session'.peer] :
                  Pressed(k) \/ Queued(captured, Up(k)) \/ (Pinched(k))',
           task'.at = "opening" => \A k \in task'.snap : Pressed(k) \/ Queued(captured, Up(k))
    PROVE  KeysInv'
<1>1. Shape /\ Paired /\ Owed /\ Roles
  BY DEF KeysInv
<1>2. \A j : (Pressed(j))' <=> Pressed(j)
  BY DEF Pressed
<1>3. Shape'
  BY <1>1 DEF Shape, Rest
<1>4. Paired'
  BY <1>1, <1>2 DEF Paired
<1>5. Owed'
  BY <1>1, <1>2 DEF Owed, Driving
<1>6. Roles'
  BY <1>1 DEF Roles, Rest
<1>7. QED
  BY <1>3, <1>4, <1>5, <1>6 DEF KeysInv
\* What every such step finds.
LEMMA DriveFacts ==
    ASSUME KeysInv
    PROVE  /\ session \in Sessions /\ task \in Tasks /\ held \in [Targets -> SUBSET Keys]
           /\ keys \in SUBSET Keys /\ lastId \in Nat
           /\ session.phase # "none" => session.peer \in Targets
           /\ task = Rest \/ (task.at # "rest" /\ task.target \in Targets /\ driver = "topology")
           /\ session.phase # "none" /\ session.deaf => held[session.peer] = {}
           /\ NoSession \in Sessions /\ Rest \in Tasks
BY DEF KeysInv, Shape, Roles, Sessions, Tasks, Rest, NoSession

\* A stream that is ended leaves nothing down.
LEMMA FinishedFacts ==
    ASSUME KeysInv
    PROVE  /\ Finished \in [Targets -> SUBSET Keys]
           /\ session.phase # "none" => Finished[session.peer] = {}
BY DriveFacts DEF Finished

\* The recorded state may be asserted at any time.
LEMMA StateOwed ==
    ASSUME KeysInv, NEW k \in keys
    PROVE  Pressed(k) \/ (driver = "service" /\ (Queued(captured, Up(k)) \/ k = Ctrl))
BY DEF KeysInv, Owed, Pressed

LEMMA PeerEndsKeeps == ASSUME KeysInv, PeerEnds PROVE KeysInv'
<1>1. /\ UNCHANGED <<driver, fingers, gesture, backend, missed, keys, lastId, captured, task>>
      /\ session.phase # "none" /\ session' = [session EXCEPT !.deaf = TRUE]
      /\ held' = [held EXCEPT ![session.peer] = {}] /\ gaveUp' = gaveUp
  BY DEF PeerEnds, user, capture, ghosts
<1>2. session' \in Sessions /\ session'.phase = session.phase /\ session'.peer = session.peer
  BY <1>1, DriveFacts DEF Sessions
<1>3. held' \in [Targets -> SUBSET Keys] /\ held'[session'.peer] = {}
  BY <1>1, <1>2, DriveFacts
<1>4. task'.at = "opening" => \A k \in task'.snap : Pressed(k) \/ Queued(captured, Up(k))
  BY <1>1 DEF KeysInv, Owed
<1>5. QED
  BY <1>1, <1>2, <1>3, <1>4, DriveFacts, TaskKeeps

\* A step that leaves the stream alone.
LEMMA SameStream ==
    ASSUME KeysInv, UNCHANGED <<driver, fingers, gesture, backend, missed, keys, lastId, captured,
                                session, held, gaveUp>>,
           task' \in Tasks,
           task' = Rest \/ (task'.at # "rest" /\ task'.target \in Targets /\ driver = "topology"),
           task'.at = "opening" => \A k \in task'.snap : Pressed(k) \/ Queued(captured, Up(k))
    PROVE  KeysInv'
<1>1. \A k : (Pinched(k))' <=> Pinched(k)
  BY DEF Pinched
<1>2. session.phase = "driving" /\ ~gaveUp =>
         \A k \in held[session.peer] : Pressed(k) \/ Queued(captured, Up(k)) \/ (Pinched(k))'
  BY <1>1 DEF KeysInv, Owed, Driving
<1>3. QED
  BY <1>2, DriveFacts, TaskKeeps

\* A step that ends the stream, or parks it with nothing down.
LEMMA NoStream ==
    ASSUME KeysInv, UNCHANGED <<driver, fingers, gesture, backend, missed, keys, lastId, captured>>,
           session' \in Sessions, session'.phase # "driving",
           session'.phase # "none" => session'.peer \in Targets,
           held' \in [Targets -> SUBSET Keys],
           session'.phase # "none" /\ session'.deaf => held'[session'.peer] = {},
           task' \in Tasks,
           task' = Rest \/ (task'.at # "rest" /\ task'.target \in Targets /\ driver = "topology"),
           task'.at = "opening" => \A k \in task'.snap : Pressed(k) \/ Queued(captured, Up(k))
    PROVE  KeysInv'
BY TaskKeeps

LEMMA PushKeeps == ASSUME KeysInv, NEW p \in Targets, Push(p) PROVE KeysInv'
<1>1. /\ UNCHANGED <<driver, fingers, gesture, backend, missed, keys, lastId, captured,
                     session, held, gaveUp>>
      /\ driver = "topology"
      /\ task' = [at |-> "veto", trigger |-> lastId, snap |-> {}, target |-> p]
  BY DEF Push, user, capture, ghosts
<1>2. task' \in Tasks
  BY <1>1, DriveFacts DEF Tasks
<1>3. QED
  BY <1>1, <1>2, SameStream

LEMMA VetoedKeeps == ASSUME KeysInv, Vetoed \/ OpenFails PROVE KeysInv'
<1>1. /\ UNCHANGED <<driver, fingers, gesture, backend, missed, keys, lastId, captured,
                     session, held, gaveUp>>
      /\ task' = Rest
  BY DEF Vetoed, OpenFails, user, capture, ghosts
<1>2. Rest.at # "opening"
  BY DEF Rest
<1>3. QED
  BY <1>1, <1>2, DriveFacts, SameStream

\* The snapshot is what is recorded.
LEMMA SnapshotKeeps == ASSUME KeysInv, Snapshot PROVE KeysInv'
<1>1. /\ UNCHANGED <<driver, fingers, gesture, backend, missed, keys, lastId, captured, gaveUp>>
      /\ task.at = "veto" /\ task' = [task EXCEPT !.at = "opening", !.snap = keys]
  BY DEF Snapshot, user, capture
<1>2. driver = "topology" /\ task.target \in Targets
  BY <1>1, DriveFacts DEF Rest
<1>3. /\ task' \in Tasks /\ task'.at # "rest" /\ task'.target \in Targets
      /\ task'.snap = keys
  BY <1>1, <1>2, DriveFacts DEF Tasks
<1>4. \A k \in task'.snap : Pressed(k) \/ Queued(captured, Up(k))
  BY <1>2, <1>3, StateOwed
<1>5. CASE session.peer = task.target
  <2>1. UNCHANGED <<session, held>>
    BY <1>5 DEF Snapshot
  <2>2. QED
    BY <1>1, <1>2, <1>3, <1>4, <2>1, SameStream
<1>6. CASE session.peer # task.target
  <2>1. session' = NoSession /\ held' = Finished
    BY <1>6 DEF Snapshot
  <2>2. NoSession.phase = "none"
    BY DEF NoSession
  <2>3. QED
    BY <1>1, <1>2, <1>3, <1>4, <2>1, <2>2, DriveFacts, FinishedFacts, NoStream
<1>7. QED
  BY <1>5, <1>6

\* The snapshot is asserted: it was pressed, or its release is still to come.
LEMMA SessionOpenedKeeps == ASSUME KeysInv, SessionOpened PROVE KeysInv'
<1>1. /\ UNCHANGED <<driver, fingers, gesture, backend, missed, keys, lastId, captured>>
      /\ task.at = "opening" /\ task' = Rest /\ ~session.deaf
      /\ session' = [session EXCEPT !.peer = task.target, !.phase = "driving",
                                    !.barrier = task.trigger]
      /\ held' = [held EXCEPT ![task.target] = task.snap]
  BY DEF SessionOpened, user, capture
<1>2. task.target \in Targets /\ task.snap \in SUBSET Keys /\ task.trigger \in Nat
  BY <1>1, DriveFacts DEF Rest, Tasks
<1>3. /\ session' \in Sessions /\ session'.peer = task.target /\ ~session'.deaf
  BY <1>1, <1>2, DriveFacts DEF Sessions
<1>4. held' \in [Targets -> SUBSET Keys] /\ held'[session'.peer] = task.snap
  BY <1>1, <1>2, <1>3, DriveFacts
<1>5. \A k \in held'[session'.peer] : Pressed(k) \/ Queued(captured, Up(k))
  BY <1>1, <1>4 DEF KeysInv, Owed
<1>6. Rest.at # "opening"
  BY DEF Rest
<1>7. QED
  BY <1>1, <1>2, <1>3, <1>4, <1>5, <1>6, DriveFacts, TaskKeeps
LEMMA ParkStaleKeeps == ASSUME KeysInv, ParkStale PROVE KeysInv'
<1>1. /\ UNCHANGED <<driver, fingers, gesture, backend, missed, keys, lastId, captured, task>>
      /\ session' = NoSession /\ held' = Finished
  BY DEF ParkStale, user, capture
<1>2. task'.at = "opening" => \A k \in task'.snap : Pressed(k) \/ Queued(captured, Up(k))
  BY <1>1 DEF KeysInv, Owed
<1>3. NoSession.phase = "none"
  BY DEF NoSession
<1>4. QED
  BY <1>1, <1>2, <1>3, DriveFacts, FinishedFacts, NoStream

\* A stream that parks lets go, or is known not to have.
LEMMA ReturnHomeKeeps == ASSUME KeysInv, ReturnHome PROVE KeysInv'
<1>1. /\ UNCHANGED <<driver, fingers, gesture, backend, missed, keys, lastId, captured, task>>
      /\ task = Rest /\ session.phase = "driving"
      /\ session' = [session EXCEPT !.phase = "parked"]
      /\ held' = Write(ReleaseAll) \/ held' = held
  BY DEF ReturnHome, Sent, Driving, user, capture
<1>2. /\ session' \in Sessions /\ session'.phase = "parked"
      /\ session'.peer = session.peer /\ session'.deaf = session.deaf
  BY <1>1, DriveFacts DEF Sessions
<1>3. session.peer \in Targets /\ (session.deaf => held[session.peer] = {})
  BY <1>1, DriveFacts
<1>4. held' \in [Targets -> SUBSET Keys] /\ (session.deaf => held' = held)
  BY <1>1, <1>3, DriveFacts DEF Write, ReleaseAll, Sync, Apply
<1>5. Rest.at # "opening"
  BY DEF Rest
<1>6. QED
  BY <1>1, <1>2, <1>3, <1>4, <1>5, DriveFacts, NoStream

\* The next machine's stream is opened with what is recorded at this moment.
LEMMA PeerHandsOnKeeps == ASSUME KeysInv, NEW p \in Targets, PeerHandsOn(p) PROVE KeysInv'
<1>1. /\ UNCHANGED <<driver, fingers, gesture, backend, missed, keys, lastId, captured>>
      /\ driver = "topology" /\ held' = Finished /\ session' = NoSession
      /\ task' = [at |-> "opening", trigger |-> lastId, snap |-> keys, target |-> p]
  BY DEF PeerHandsOn, user, capture
<1>2. /\ task' \in Tasks /\ task'.at # "rest" /\ task'.target \in Targets
      /\ task'.snap = keys
  BY <1>1, DriveFacts DEF Tasks
<1>3. \A k \in task'.snap : Pressed(k) \/ Queued(captured, Up(k))
  BY <1>1, <1>2, StateOwed
<1>4. NoSession.phase = "none"
  BY DEF NoSession
<1>5. QED
  BY <1>1, <1>2, <1>3, <1>4, DriveFacts, FinishedFacts, NoStream

LEMMA EpisodeEndsKeeps == ASSUME KeysInv, EpisodeEnds PROVE KeysInv'
<1>1. /\ UNCHANGED <<driver, fingers, gesture, backend, missed, keys, lastId, captured, task>>
      /\ task = Rest /\ session' = NoSession /\ held' = Finished
  BY DEF EpisodeEnds, user, capture
<1>2. NoSession.phase = "none" /\ Rest.at # "opening"
  BY DEF NoSession, Rest
<1>3. QED
  BY <1>1, <1>2, DriveFacts, FinishedFacts, NoStream

\* A drive of the other drivers starts with what is recorded.
LEMMA BeginKeeps == ASSUME KeysInv, NEW p \in Targets, Begin(p) PROVE KeysInv'
<1>1. /\ UNCHANGED <<driver, fingers, gesture, backend, missed, keys, lastId, captured, task>>
      /\ task = Rest /\ held' = [held EXCEPT ![p] = keys]
      /\ session' = [NoSession EXCEPT !.peer = p, !.phase = "driving",
                                      !.barrier = IF driver = "console" THEN lastId ELSE 0]
  BY DEF Begin, user, capture
<1>2. session' \in Sessions /\ session'.peer = p /\ ~session'.deaf
  BY <1>1, DriveFacts DEF Sessions, NoSession
<1>3. held' \in [Targets -> SUBSET Keys] /\ held'[session'.peer] = keys
  BY <1>1, <1>2, DriveFacts
<1>4. \A k \in keys : Pressed(k) \/ Queued(captured, Up(k)) \/ (Pinched(k))'
  BY <1>1, StateOwed DEF Pinched
<1>5. Rest.at # "opening"
  BY DEF Rest
<1>6. QED
  BY <1>1, <1>2, <1>3, <1>4, <1>5, DriveFacts, TaskKeeps
----------------------------------------------------------------------------
(* The steps that take an event from the queue.                            *)

\* What the tail still holds of what was promised.
LEMMA TailKeeps ==
    ASSUME KeysInv, captured # << >>, captured' = Tail(captured)
    PROVE  /\ captured' \in Seq(Entries) /\ Head(captured).event \in Events
           /\ \A e : Queued(captured, e) /\ Head(captured).event # e => Queued(captured', e)
           /\ \A e, f : Followed(captured, e, f) => Followed(captured', e, f)
           /\ \A e, f : Followed(captured, e, f) /\ Head(captured).event = e
                            => Queued(captured', f)
<1>1. captured \in Seq(Entries)
  BY DEF KeysInv, Shape
<1>2. captured' \in Seq(Entries) /\ Head(captured).event \in Events
  BY <1>1, TailFacts DEF Entries
<1>3. QED
  BY <1>1, <1>2, QueuedTail, FollowedTail, FollowedHead

\* What is dropped is a press or a pinch, unless nobody is driven.
LEMMA DroppedKeeps == ASSUME KeysInv, Dropped PROVE KeysInv'
<1>1. /\ UNCHANGED <<driver, fingers, gesture, backend, missed, keys, lastId, session, task,
                     held, gaveUp>>
      /\ driver # "service" /\ task = Rest /\ captured # << >> /\ captured' = Tail(captured)
      /\ ~(Driving /\ Passes(Head(captured)))
  BY DEF Dropped, user, ghosts
<1>2. Shape /\ Paired /\ Owed /\ Roles
  BY DEF KeysInv
<1>3. Driving => \A k : Head(captured).event # Up(k) /\ Head(captured).event # PinchEnd
  BY <1>1 DEF Passes, IsRelease, Up, PinchEnd
<1>4. \A k : (Pressed(k))' <=> Pressed(k)
  BY <1>1 DEF Pressed
<1>5. Shape'
  BY <1>1, <1>2, TailKeeps DEF Shape
<1>6. Paired'
  BY <1>1, <1>2, <1>4, TailKeeps DEF Paired
<1>7. Roles'
  BY <1>1, <1>2 DEF Roles
<1>8. ASSUME Driving, ~gaveUp, NEW k \in held[session.peer]
      PROVE  (Pressed(k))' \/ Queued(captured', Up(k)) \/ (Pinched(k))'
  <2>1. Pressed(k) \/ Queued(captured, Up(k)) \/ Pinched(k)
    BY <1>2, <1>8 DEF Owed
  <2>2. Queued(captured, Up(k)) => Queued(captured', Up(k))
    BY <1>1, <1>3, <1>8, TailKeeps
  <2>3. Queued(captured, PinchEnd) => Queued(captured', PinchEnd)
    BY <1>1, <1>3, <1>8, TailKeeps
  <2>4. Pinched(k) => (Pinched(k))'
    BY <1>1, <2>3 DEF Pinched
  <2>5. QED
    BY <1>4, <2>1, <2>2, <2>4
<1>9. Owed'
  <2>1. task'.at # "opening" /\ (Driving' <=> Driving)
    BY <1>1 DEF Rest, Driving
  <2>2. QED
    BY <1>1, <1>8, <2>1 DEF Owed
<1>10. QED
  BY <1>5, <1>6, <1>7, <1>9 DEF KeysInv
\* A press goes out as a press, a release as a release, a pinch as Ctrl.
LEMMA OutgoingFacts ==
    ASSUME NEW e \in Events
    PROVE  \E k \in Keys :
              \/ e = Down(k) /\ Outgoing(e) = Down(k)
              \/ e = Up(k) /\ Outgoing(e) = Up(k)
              \/ k = Ctrl /\ e = Pinch /\ Outgoing(e) = Down(k)
              \/ k = Ctrl /\ e = PinchEnd /\ Outgoing(e) = Up(k)
<1>1. ASSUME NEW k \in Keys, e = Down(k) PROVE Outgoing(e) = Down(k)
  BY <1>1 DEF Outgoing, Down
<1>2. ASSUME NEW k \in Keys, e = Up(k) PROVE Outgoing(e) = Up(k)
  BY <1>2 DEF Outgoing, Up
<1>3. ASSUME e = Pinch PROVE Outgoing(e) = Down(Ctrl)
  BY <1>3 DEF Outgoing, Pinch
<1>4. ASSUME e = PinchEnd PROVE Outgoing(e) = Up(Ctrl)
  BY <1>4 DEF Outgoing, PinchEnd
<1>5. Ctrl \in Keys
  BY HeldKeysAssumption DEF HeldKeysAssumption
<1>6. QED
  BY <1>1, <1>2, <1>3, <1>4, <1>5 DEF Events

\* What one frame does to what the peer holds.
LEMMA FrameFacts ==
    ASSUME KeysInv, Driving, NEW k \in Keys, NEW f \in {Down(k), Up(k)}, NEW S \in SUBSET Keys,
           SendFrame(f, S)
    PROVE  /\ held' \in [Targets -> SUBSET Keys]
           /\ session.deaf => held'[session.peer] = {}
           /\ \/ gaveUp'
              \/ /\ f = Down(k) /\ ~gaveUp
                 /\ held'[session.peer] \subseteq held[session.peer] \cup {k}
              \/ /\ f = Up(k) /\ ~gaveUp
                 /\ held'[session.peer] \subseteq held[session.peer] \ {k}
              \/ f = Up(k) /\ held'[session.peer] \subseteq S
<1>1. /\ session.peer \in Targets /\ held \in [Targets -> SUBSET Keys]
      /\ held[session.peer] \in SUBSET Keys
      /\ session.deaf => held[session.peer] = {}
  BY DriveFacts DEF Driving
<1>2. ASSUME NEW g, Apply(held[session.peer], g) \in SUBSET Keys, held' = Write(g)
      PROVE  /\ held' \in [Targets -> SUBSET Keys]
             /\ session.deaf => held'[session.peer] = {}
             /\ held'[session.peer] \subseteq Apply(held[session.peer], g)
                  \/ held'[session.peer] = {}
  BY <1>1, <1>2 DEF Write
<1>3. /\ Apply(held[session.peer], Down(k)) = held[session.peer] \cup {k}
      /\ Apply(held[session.peer], Up(k)) = held[session.peer] \ {k}
      /\ Apply(held[session.peer], Sync(S)) = S
  BY DEF Apply, Down, Up, Sync
<1>4. CASE f = Down(k)
  <2>1. f.kind = "press"
    BY <1>4 DEF Down
  <2>2. \/ held' = Write(f) /\ gaveUp' = (gaveUp /\ f.kind # "sync")
        \/ held' = held /\ gaveUp' = gaveUp
    BY <2>1 DEF SendFrame, Sent, PressGivenUp, ReleaseGivenUp
  <2>3. CASE held' = held /\ gaveUp' = gaveUp
    BY <1>1, <1>4, <2>3
  <2>4. CASE held' = Write(f) /\ gaveUp' = (gaveUp /\ f.kind # "sync")
    <3>1. gaveUp => gaveUp'
      <4>1. f.kind # "sync"
        BY <2>1
      <4>2. QED
        BY <2>4, <4>1, Zenon
    <3>2. /\ held' \in [Targets -> SUBSET Keys]
          /\ session.deaf => held'[session.peer] = {}
          /\ held'[session.peer] \subseteq held[session.peer] \cup {k}
      BY <1>1, <1>2, <1>3, <1>4, <2>4
    <3>3. QED
      BY <1>4, <3>1, <3>2
  <2>5. QED
    BY <2>2, <2>3, <2>4
<1>5. CASE f = Up(k)
  <2>1. f.kind = "release"
    BY <1>5 DEF Up
  <2>2. \/ held' = Write(f) /\ gaveUp' = (gaveUp /\ f.kind # "sync")
        \/ held' = Write(Sync(S))
        \/ held' = held /\ gaveUp' = TRUE
    BY <2>1 DEF SendFrame, Sent, PressGivenUp, ReleaseGivenUp
  <2>3. CASE held' = held /\ gaveUp' = TRUE
    BY <1>1, <2>3
  <2>4. CASE held' = Write(f) /\ gaveUp' = (gaveUp /\ f.kind # "sync")
    <3>1. gaveUp => gaveUp'
      <4>1. f.kind # "sync"
        BY <2>1
      <4>2. QED
        BY <2>4, <4>1, Zenon
    <3>2. /\ held' \in [Targets -> SUBSET Keys]
          /\ session.deaf => held'[session.peer] = {}
          /\ held'[session.peer] \subseteq held[session.peer] \ {k}
      BY <1>1, <1>2, <1>3, <1>5, <2>4
    <3>3. QED
      BY <1>5, <3>1, <3>2
  <2>5. CASE held' = Write(Sync(S))
    BY <1>1, <1>2, <1>3, <1>5, <2>5
  <2>6. QED
    BY <2>2, <2>3, <2>4, <2>5
<1>6. QED
  BY <1>4, <1>5

\* What Forwarded takes, and what it leaves alone.
LEMMA ForwardedFacts ==
    ASSUME KeysInv, Forwarded
    PROVE  /\ UNCHANGED <<driver, fingers, gesture, backend, missed, lastId, task>>
           /\ captured # << >> /\ captured' = Tail(captured) /\ Driving /\ task = Rest
           /\ Head(captured).event \in Events
           /\ session' \in Sessions /\ session'.peer = session.peer
           /\ session'.phase = session.phase /\ session'.deaf = session.deaf
           /\ session'.pinch = PinchAfter(Head(captured).event)
           /\ keys' \in {keys, Recorded(keys, Outgoing(Head(captured).event))}
           /\ driver # "service" => keys' = keys
           /\ \A j : (Pressed(j))' <=> Pressed(j)
<1> DEFINE e == Head(captured).event
           c == IF e.key = Ctrl /\ e.kind \in {"press", "release"}
                THEN e.kind = "press" ELSE session.ctrl
<1>1. /\ UNCHANGED <<driver, fingers, gesture, backend, missed, lastId, task>>
      /\ captured # << >> /\ captured' = Tail(captured) /\ Driving /\ task = Rest
      /\ session' = [session EXCEPT !.pinch = PinchAfter(e), !.ctrl = c]
  BY DEF Forwarded, user
<1>2. e \in Events
  BY <1>1, TailKeeps
<1>3. PinchAfter(e) \in BOOLEAN
  BY DriveFacts DEF PinchAfter, Sessions, PhysicalCtrl
<1>4. c \in BOOLEAN
  BY DriveFacts DEF Sessions
<1> HIDE DEF c, e
<1>5. /\ session' \in Sessions /\ session'.peer = session.peer
      /\ session'.phase = session.phase /\ session'.deaf = session.deaf
      /\ session'.pinch = PinchAfter(e)
  BY <1>1, <1>3, <1>4, DriveFacts DEF Sessions
<1>6. keys' = keys \/ keys' = IF driver = "service" THEN Recorded(keys, Outgoing(e)) ELSE keys
  BY DEF Forwarded, e
<1>7. \A j : (Pressed(j))' <=> Pressed(j)
  BY <1>1, <1>6 DEF Pressed
<1>8. QED
  BY <1>1, <1>2, <1>5, <1>6, <1>7 DEF e

\* The state the service keeps where it sends.
LEMMA ServiceState ==
    ASSUME KeysInv, Forwarded, driver = "service", NEW k \in keys'
    PROVE  k \in Keys /\ ((Pressed(k))' \/ Queued(captured', Up(k)) \/ k = Ctrl)
<1> DEFINE e == Head(captured).event
<1>1. /\ captured # << >> /\ captured' = Tail(captured) /\ e \in Events
      /\ \A j : (Pressed(j))' <=> Pressed(j)
      /\ keys \in SUBSET Keys
  BY ForwardedFacts, DriveFacts
<1>2. ASSUME k \in keys, e # Up(k) PROVE Pressed(k) \/ Queued(captured', Up(k)) \/ k = Ctrl
  <2>1. Pressed(k) \/ Queued(captured, Up(k)) \/ k = Ctrl
    BY <1>2 DEF KeysInv, Owed
  <2>2. QED
    BY <1>1, <1>2, <2>1, TailKeeps
<1>3. ASSUME k \in Keys, e = Down(k) PROVE Pressed(k) \/ Queued(captured', Up(k))
  <2>1. Pressed(k) \/ Followed(captured, Down(k), Up(k))
    BY <1>3 DEF KeysInv, Paired
  <2>2. QED
    BY <1>1, <1>3, <2>1, TailKeeps
<1>4. PICK j \in Keys : \/ e = Down(j) /\ Outgoing(e) = Down(j)
                        \/ e = Up(j) /\ Outgoing(e) = Up(j)
                        \/ j = Ctrl /\ e = Pinch /\ Outgoing(e) = Down(j)
                        \/ j = Ctrl /\ e = PinchEnd /\ Outgoing(e) = Up(j)
  BY <1>1, OutgoingFacts
<1>5. Recorded(keys, Down(j)) = keys \cup {j} /\ Recorded(keys, Up(j)) = keys \ {j}
  BY DEF Recorded, Down, Up
<1>6. /\ keys' = keys \/ keys' = Recorded(keys, Outgoing(e))
      /\ e = Up(k) => keys' = Recorded(keys, Outgoing(e))
  <2>1. SendsNothing(e) => e # Up(k)
    BY DEF SendsNothing, Up
  <2>2. QED
    BY <2>1 DEF Forwarded
<1> HIDE DEF e
<1>7. k \in Keys
  BY <1>1, <1>4, <1>5, <1>6
<1>8. CASE k \in keys /\ e # Up(k)
  BY <1>1, <1>2, <1>7, <1>8
<1>9. CASE k \notin keys
  <2>1. k = j /\ (e = Down(j) \/ j = Ctrl)
    BY <1>4, <1>5, <1>6, <1>9
  <2>2. QED
    BY <1>1, <1>3, <1>7, <2>1
<1>10. CASE e = Up(k)
  BY <1>4, <1>5, <1>6, <1>10, EventsDiffer
<1>11. QED
  BY <1>8, <1>9, <1>10

\* What is down after the frame is pressed, or has its end in the tail.
LEMMA ForwardedOwes ==
    ASSUME KeysInv, Forwarded, ~gaveUp', NEW k \in held'[session.peer]
    PROVE  (Pressed(k))' \/ Queued(captured', Up(k)) \/ (Pinched(k))'
<1> DEFINE e == Head(captured).event
           S == IF driver = "service" THEN Recorded(keys, Outgoing(e)) ELSE keys
<1>1. /\ captured # << >> /\ captured' = Tail(captured) /\ e \in Events /\ Driving
      /\ \A j : (Pressed(j))' <=> Pressed(j)
      /\ UNCHANGED <<driver, gesture>> /\ session'.pinch = PinchAfter(e)
      /\ keys \in SUBSET Keys
  BY ForwardedFacts, DriveFacts
<1>2. \/ SendsNothing(e) /\ UNCHANGED <<keys, held, gaveUp>>
      \/ ~SendsNothing(e) /\ keys' = S /\ SendFrame(Outgoing(e), S)
  BY DEF Forwarded
\* A key that was down and is not let go.
<1>3. ASSUME ~gaveUp, k \in held[session.peer], e # Up(k), k = Ctrl => e # PinchEnd \/ ~session.pinch
      PROVE  Pressed(k) \/ Queued(captured', Up(k)) \/ (Pinched(k))'
  <2>1. Pressed(k) \/ Queued(captured, Up(k)) \/ Pinched(k)
    BY <1>1, <1>3 DEF KeysInv, Owed
  <2>2. Queued(captured, Up(k)) => Queued(captured', Up(k))
    BY <1>1, <1>3, TailKeeps
  <2>3. ASSUME k = Ctrl, session.pinch, gesture \/ Queued(captured, PinchEnd)
        PROVE  session'.pinch /\ (gesture \/ Queued(captured', PinchEnd))
    <3>1. e # PinchEnd
      BY <1>3, <2>3
    <3>2. e.kind # "pinchEnd"
      BY <1>1, <3>1, OnlyPinchEnd
    <3>3. PinchAfter(e)
      BY <2>3, <3>2 DEF PinchAfter
    <3>4. Queued(captured, PinchEnd) => Queued(captured', PinchEnd)
      BY <1>1, <3>1, TailKeeps
    <3>5. QED
      BY <1>1, <2>3, <3>3, <3>4
  <2>4. Pinched(k) => (Pinched(k))'
    BY <1>1, <2>3 DEF Pinched
  <2>5. QED
    BY <2>1, <2>2, <2>4
<1>4. PICK j \in Keys : \/ e = Down(j) /\ Outgoing(e) = Down(j)
                        \/ e = Up(j) /\ Outgoing(e) = Up(j)
                        \/ j = Ctrl /\ e = Pinch /\ Outgoing(e) = Down(j)
                        \/ j = Ctrl /\ e = PinchEnd /\ Outgoing(e) = Up(j)
  BY <1>1, OutgoingFacts
<1>5. S \in SUBSET Keys
  BY <1>1, <1>4 DEF Recorded, Down, Up
<1>6. CASE SendsNothing(e) /\ UNCHANGED <<keys, held, gaveUp>>
  <2>1. e # Up(k) /\ (e # PinchEnd \/ ~session.pinch)
    BY <1>6 DEF SendsNothing, Up, PinchEnd
  <2>2. QED
    BY <1>1, <1>3, <1>6, <2>1
<1>7. CASE ~SendsNothing(e) /\ keys' = S /\ SendFrame(Outgoing(e), S)
  <2>1. \/ Outgoing(e) = Down(j) /\ ~gaveUp /\ k \in held[session.peer] \cup {j}
        \/ Outgoing(e) = Up(j) /\ ~gaveUp /\ k \in held[session.peer] \ {j}
        \/ k \in S
    BY <1>1, <1>4, <1>5, <1>7, FrameFacts
  <2>2. CASE k \in S
    <3>1. CASE driver = "service"
      BY <1>1, <1>7, <2>2, <3>1, ServiceState DEF Pinched
    <3>2. CASE driver # "service"
      BY <1>1, <2>2, <3>2, StateOwed
    <3>3. QED
      BY <3>1, <3>2
  <2>3. CASE Outgoing(e) = Up(j) /\ ~gaveUp /\ k \in held[session.peer] \ {j}
    BY <1>1, <1>3, <1>4, <2>3, EventsDiffer
  <2>4. CASE Outgoing(e) = Down(j) /\ ~gaveUp /\ k \in held[session.peer]
    BY <1>1, <1>3, <1>4, <2>4, EventsDiffer
  <2>5. CASE Outgoing(e) = Down(j) /\ k = j
    <3>1. CASE e = Down(k)
      <4>1. Pressed(k) \/ Followed(captured, Down(k), Up(k))
        BY <1>4, <2>5 DEF KeysInv, Paired
      <4>2. QED
        BY <1>1, <3>1, <4>1, TailKeeps
    <3>2. CASE e = Pinch /\ k = Ctrl
      <4>1. session'.pinch
        <5>1. e.kind = "pinch"
          BY <3>2 DEF Pinch
        <5>2. PinchAfter(e)
          BY <1>7, <5>1 DEF PinchAfter, SendsNothing
        <5>3. QED
          BY <1>1, <5>2
      <4>2. gesture \/ Followed(captured, Pinch, PinchEnd)
        BY DEF KeysInv, Paired
      <4>3. gesture \/ Queued(captured', PinchEnd)
        BY <1>1, <3>2, <4>2, TailKeeps
      <4>4. QED
        BY <1>1, <3>2, <4>1, <4>3 DEF Pinched
    <3>3. QED
      BY <1>4, <2>5, <3>1, <3>2, EventsDiffer
  <2>6. QED
    BY <2>1, <2>2, <2>3, <2>4, <2>5
<1>8. QED
  BY <1>2, <1>6, <1>7
LEMMA ForwardedKeeps == ASSUME KeysInv, Forwarded PROVE KeysInv'
<1> DEFINE e == Head(captured).event
           S == IF driver = "service" THEN Recorded(keys, Outgoing(e)) ELSE keys
<1>1. Shape /\ Paired /\ Owed /\ Roles
  BY DEF KeysInv
<1>2. /\ UNCHANGED <<driver, fingers, gesture, backend, missed, lastId, task>>
      /\ captured # << >> /\ captured' = Tail(captured) /\ Driving /\ task = Rest
      /\ e \in Events /\ session' \in Sessions /\ session'.peer = session.peer
      /\ session'.phase = session.phase /\ session'.deaf = session.deaf
      /\ driver # "service" => keys' = keys
      /\ \A j : (Pressed(j))' <=> Pressed(j)
  BY ForwardedFacts
<1>3. keys' \in SUBSET Keys
  <2>1. driver = "service" => \A k \in keys' : k \in Keys
    BY ServiceState
  <2>2. QED
    BY <1>2, <2>1, DriveFacts
<1>4. held' \in [Targets -> SUBSET Keys] /\ (session.deaf => held'[session.peer] = {})
  <2>1. CASE held' = held
    BY <1>2, <2>1, DriveFacts DEF Driving
  <2>2. CASE keys' = S /\ SendFrame(Outgoing(e), S)
    <3>1. \E k \in Keys : Outgoing(e) \in {Down(k), Up(k)}
      BY <1>2, OutgoingFacts
    <3>2. QED
      BY <1>2, <1>3, <2>2, <3>1, FrameFacts
  <2>3. QED
    BY <2>1, <2>2 DEF Forwarded
<1>5. Shape'
  BY <1>1, <1>2, <1>3, <1>4, TailKeeps DEF Shape
<1>6. Paired'
  BY <1>1, <1>2, TailKeeps DEF Paired
<1>7. Owed'
  <2>1. task'.at # "opening"
    BY <1>2 DEF Rest
  <2>2. ASSUME ~gaveUp', NEW k \in held'[session'.peer]
        PROVE  (Pressed(k))' \/ Queued(captured', Up(k)) \/ (Pinched(k))'
    BY <1>2, <2>2, ForwardedOwes
  <2>3. ASSUME driver' = "service", NEW k \in keys'
        PROVE  (Pressed(k))' \/ Queued(captured', Up(k)) \/ k = Ctrl
    BY <1>2, <2>3, ServiceState
  <2>4. QED
    BY <2>1, <2>2, <2>3 DEF Owed
<1>8. Roles'
  BY <1>1, <1>2, <1>4 DEF Roles
<1>9. QED
  BY <1>5, <1>6, <1>7, <1>8 DEF KeysInv
----------------------------------------------------------------------------
(* The theorems.                                                           *)

LEMMA InitHolds == HeldInit => KeysInv
<1> SUFFICES ASSUME HeldInit PROVE KeysInv
  OBVIOUS
<1>1. /\ driver \in Drivers /\ fingers = {} /\ gesture = FALSE /\ backend = TRUE /\ missed = {}
      /\ keys = {} /\ lastId = 0 /\ captured = << >> /\ task = Rest /\ session = NoSession
      /\ held = [p \in Targets |-> {}]
  BY DEF HeldInit
<1>2. Len(captured) = 0 /\ captured \in Seq(Entries)
  BY <1>1
<1>3. Shape
  BY <1>1, <1>2 DEF Shape, Sessions, Tasks, NoSession, Rest
<1>4. \A e, f : Followed(captured, e, f)
  BY <1>2 DEF Followed
<1>5. Paired
  BY <1>4 DEF Paired
<1>6. Owed
  BY <1>1 DEF Owed, Driving, NoSession, Rest
<1>7. Roles
  BY <1>1 DEF Roles, NoSession, Rest
<1>8. QED
  BY <1>3, <1>5, <1>6, <1>7 DEF KeysInv

LEMMA StutterKeeps == ASSUME KeysInv, UNCHANGED heldVars PROVE KeysInv'
<1>1. /\ UNCHANGED <<driver, fingers, gesture, backend, missed, keys, lastId, captured,
                     session, held, gaveUp, task>>
  BY DEF heldVars, user, capture, ghosts
<1>2. task'.at = "opening" => \A k \in task'.snap : Pressed(k) \/ Queued(captured, Up(k))
  BY <1>1 DEF KeysInv, Owed
<1>3. QED
  BY <1>1, <1>2, DriveFacts, SameStream

\* The invariant is inductive: no step of the capture thread, of the drive
\* task or of a peer breaks it, for any keys, machines and bounds.
THEOREM Inductive == HeldSpec => []KeysInv
<1>1. ASSUME KeysInv, [HeldNext]_heldVars PROVE KeysInv'
  <2>1. ASSUME NEW k \in Keys, Press(k) \/ Release(k) PROVE KeysInv'
    BY <1>1, <2>1, PressKeeps, ReleaseKeeps
  <2>2. ASSUME NEW on \in BOOLEAN, PinchMoves(on) PROVE KeysInv'
    BY <1>1, <2>2, PinchMovesKeeps
  <2>3. CASE BackendFails \/ BackendRebuilt
    BY <1>1, <2>3, BackendFailsKeeps, BackendRebuiltKeeps
  <2>4. CASE Dropped \/ Forwarded
    BY <1>1, <2>4, DroppedKeeps, ForwardedKeeps
  <2>5. ASSUME NEW p \in Targets, Push(p) \/ PeerHandsOn(p) \/ Begin(p) PROVE KeysInv'
    BY <1>1, <2>5, PushKeeps, PeerHandsOnKeeps, BeginKeeps
  <2>6. CASE PeerEnds \/ Vetoed \/ Snapshot \/ SessionOpened
    BY <1>1, <2>6, PeerEndsKeeps, VetoedKeeps, SnapshotKeeps, SessionOpenedKeeps
  <2>7. CASE ParkStale \/ OpenFails \/ ReturnHome \/ EpisodeEnds
    BY <1>1, <2>7, ParkStaleKeeps, VetoedKeeps, ReturnHomeKeeps, EpisodeEndsKeeps
  <2>8. CASE UNCHANGED heldVars
    BY <1>1, <2>8, StutterKeeps
  <2>9. QED
    BY <1>1, <2>1, <2>2, <2>3, <2>4, <2>5, <2>6, <2>7, <2>8 DEF HeldNext
<1>2. QED
  BY <1>1, InitHolds, PTL DEF HeldSpec

\* What a driven peer still holds when nothing waits for the drive task is
\* what the user holds: a release is recorded behind its press, taken over in
\* that order, and never left behind by a barrier, a crossing or a snapshot.
THEOREM NoKeyIsLeftDown == HeldSpec => []NoStuckKey
<1>1. ASSUME KeysInv PROVE NoStuckKey
  <2> SUFFICES ASSUME captured = << >>, Driving, ~gaveUp, NEW k \in held[session.peer]
               PROVE  k \in fingers \cup missed
                               \cup (IF gesture \/ driver = "service" THEN {Ctrl} ELSE {})
    BY DEF NoStuckKey, CaughtUp
  <2>1. \A e : ~Queued(captured, e)
    BY DEF Queued
  <2>2. Pressed(k) \/ Pinched(k)
    BY <1>1, <2>1 DEF KeysInv, Owed
  <2>3. Pressed(k) => k \in fingers \cup missed
    BY <1>1 DEF Pressed, KeysInv, Roles
  <2>4. Pinched(k) => k = Ctrl /\ (gesture \/ driver = "service")
    BY <2>1 DEF Pinched
  <2>5. QED
    BY <2>2, <2>3, <2>4
<1>2. QED
  BY <1>1, Inductive, PTL
----------------------------------------------------------------------------
(* The other way round: what the user holds, the peer comes to hold.  A    *)
(* press whose release is queued is behind it, and what is queued while a  *)
(* machine is driven lies ahead of the barriers: no press is left behind.  *)

\* Held where a backend could see it, and not the key of the pinch.
Holds(k) == k \in (fingers \ missed) \ {Ctrl}

Ahead(q, n) == \A i \in 1..Len(q) : q[i].id > n

\* The barriers and the trigger were read from the clock.
Clock ==
    /\ barrier \in Nat /\ barrier <= lastId
    /\ session.barrier <= lastId /\ task.trigger <= lastId
    /\ driver # "topology" => barrier = 0
    /\ task.at # "rest" => ~Driving /\ barrier <= task.trigger
    /\ driver = "service" => session.barrier = 0 /\ ~behind

\* What was captured since, and nothing else, is queued.
Fresh ==
    /\ Ahead(captured, 0)
    /\ task.at = "veto" \/ (task.at = "opening" /\ ~behind) => Ahead(captured, task.trigger)
    /\ Driving /\ ~behind => Ahead(captured, barrier) /\ Ahead(captured, session.barrier)

Arrives ==
    \A k : Holds(k) =>
        /\ Followed(captured, Up(k), Down(k))
        /\ driver # "service" => k \in keys
        /\ driver = "service" => k \in keys \/ Queued(captured, Down(k))
        /\ task.at = "opening" /\ ~behind => k \in task.snap \/ Queued(captured, Down(k))
        /\ Driving /\ ~behind /\ ~session.deaf =>
              k \in held[session.peer] \cup lost \/ Queued(captured, Down(k))

FollowInv == Clock /\ Fresh /\ Arrives

LEMMA AheadAppend ==
    ASSUME NEW q \in Seq(Entries), NEW x \in Entries, NEW n \in Nat, Ahead(q, n), x.id > n
    PROVE  Ahead(Append(q, x), n)
<1> DEFINE r == Append(q, x)
<1>1. /\ Len(q) \in Nat /\ Len(r) = Len(q) + 1 /\ r[Len(q) + 1] = x
      /\ \A i \in 1..Len(q) : r[i] = q[i]
  OBVIOUS
<1> HIDE DEF r
<1>2. ASSUME NEW i \in 1..Len(r) PROVE r[i].id > n
  <2>1. i = Len(q) + 1 \/ i \in 1..Len(q)
    BY <1>1
  <2>2. QED
    BY <1>1, <2>1 DEF Ahead
<1>3. QED
  BY <1>2 DEF Ahead, r

LEMMA AheadTail ==
    ASSUME NEW q \in Seq(Entries), q # << >>, NEW n, Ahead(q, n)
    PROVE  Ahead(Tail(q), n)
<1>1. ASSUME NEW i \in 1..Len(Tail(q)) PROVE Tail(q)[i].id > n
  <2>1. i \in 1..(Len(q) - 1) /\ i + 1 \in 1..Len(q) /\ Tail(q)[i] = q[i + 1]
    BY TailFacts
  <2>2. QED
    BY <2>1 DEF Ahead
<1>2. QED
  BY <1>1 DEF Ahead

LEMMA AheadLess ==
    ASSUME NEW q \in Seq(Entries), NEW n \in Nat, NEW m \in Nat, m <= n, Ahead(q, n)
    PROVE  Ahead(q, m)
<1>1. ASSUME NEW i \in 1..Len(q) PROVE q[i].id > m
  <2>1. q[i] \in Entries
    OBVIOUS
  <2>2. q[i].id \in Nat
    BY <2>1 DEF Entries
  <2>3. QED
    BY <2>2 DEF Ahead
<1>2. QED
  BY <1>1 DEF Ahead

LEMMA EnqueueAhead ==
    ASSUME Shape, NEW e \in Events, Enqueue(e)
    PROVE  /\ lastId' \in Nat /\ lastId <= lastId'
           /\ \A n \in 0..lastId : Ahead(captured, n) => Ahead(captured', n)
<1>0. captured \in Seq(Entries) /\ lastId \in Nat
  BY DEF Shape
<1>1. ASSUME NEW x \in Entries, x.id = lastId + 1, NEW n \in 0..lastId, Ahead(captured, n)
      PROVE  Ahead(Append(captured, x), n)
  BY <1>0, <1>1, AheadAppend
<1>2. CASE UNCHANGED capture
  BY <1>0, <1>2 DEF capture
<1>3. CASE /\ lastId' = lastId + 1
           /\ \E x \in Entries : x.id = lastId + 1 /\ captured' = Append(captured, x)
  BY <1>0, <1>1, <1>3
<1>4. QED
  BY <1>2, <1>3, EnqueueFacts

\* What the user does leaves the drive alone: new presses are queued, and
\* what was held or on its way still is.
LEMMA UserFollows ==
    ASSUME KeysInv, FollowInv, UNCHANGED <<driver, session, task, held, barrier, behind>>,
           lastId' \in Nat, lastId <= lastId',
           \A n \in 0..lastId : Ahead(captured, n) => Ahead(captured', n),
           \A k : (Holds(k))' =>
               /\ Followed(captured', Up(k), Down(k))
               /\ driver # "service" => k \in keys'
               /\ \/ Queued(captured', Down(k))
                  \/ /\ Holds(k) /\ (k \in keys => k \in keys') /\ (k \in lost => k \in lost')
                     /\ Queued(captured, Down(k)) => Queued(captured', Down(k))
    PROVE  FollowInv'
<1>0. Clock /\ Fresh /\ Arrives
  BY DEF FollowInv
<1>1. /\ lastId \in Nat /\ session.barrier \in Nat /\ task.trigger \in Nat
      /\ Driving' <=> Driving
  BY DriveFacts DEF Sessions, Tasks, Driving
<1>2. Clock'
  BY <1>0, <1>1 DEF Clock
<1>3. Fresh'
  <2>1. {0, barrier, session.barrier, task.trigger} \subseteq 0..lastId
    BY <1>0, <1>1 DEF Clock
  <2>2. QED
    BY <1>0, <1>1, <2>1 DEF Fresh
<1>4. Arrives'
  BY <1>0, <1>1 DEF Arrives
<1>5. QED
  BY <1>2, <1>3, <1>4 DEF FollowInv
LEMMA PressFollows == ASSUME KeysInv, FollowInv, NEW k \in Keys, Press(k) PROVE FollowInv'
<1>0. /\ UNCHANGED <<driver, session, task, held, barrier, behind, lost>>
      /\ fingers' = fingers \cup {k}
  BY DEF Press, ghosts
<1>1. Shape /\ Roles /\ Arrives
  BY DEF KeysInv, FollowInv
<1>2. CASE backend
  <2>1. /\ Enqueue(Down(k)) /\ Down(k) \in Events /\ Down(k).kind = "press"
        /\ Down(k).key = k /\ missed' = missed \ {k}
    BY <1>2, InEvents DEF Press, Down
  <2>2. /\ keys' = IF driver = "service" THEN keys ELSE keys \cup {k}
        /\ Queued(captured', Down(k)) /\ \A e : e # Down(k) => Followed(captured', e, Down(k))
    BY <1>1, <2>1, EnqueueLast DEF Recorded
  <2>3. \A j : (Holds(j))' => Holds(j) \/ j = k
    BY <1>0, <2>1 DEF Holds
  <2>4. ASSUME NEW j, Holds(j), j # k
        PROVE  /\ Followed(captured', Up(j), Down(j))
               /\ driver # "service" => j \in keys'
               /\ Queued(captured, Down(j)) => Queued(captured', Down(j))
    <3>1. Followed(captured, Up(j), Down(j)) /\ (driver # "service" => j \in keys)
      BY <1>1, <2>4 DEF Arrives
    <3>2. Followed(captured', Up(j), Down(j))
      BY <1>1, <2>1, <3>1, EventsDiffer, EnqueueFollowed
    <3>3. QED
      BY <1>1, <2>1, <2>2, <3>1, <3>2, EnqueueKeeps
  <2>5. Followed(captured', Up(k), Down(k))
    BY <2>2, EventsDiffer
  <2>6. QED
    BY <1>0, <1>1, <2>1, <2>2, <2>3, <2>4, <2>5, EnqueueAhead, UserFollows
<1>3. CASE ~backend
  <2>1. UNCHANGED <<keys, lastId, captured>> /\ missed' = missed \cup {k}
    BY <1>3 DEF Press, capture
  <2>2. \A j : (Holds(j))' => Holds(j)
    BY <1>0, <2>1 DEF Holds
  <2>3. lastId \in Nat
    BY DriveFacts
  <2>4. QED
    BY <1>0, <1>1, <2>1, <2>2, <2>3, UserFollows DEF Arrives
<1>4. QED
  BY <1>2, <1>3

LEMMA ReleaseFollows == ASSUME KeysInv, FollowInv, NEW k \in Keys, Release(k) PROVE FollowInv'
<1>0. /\ UNCHANGED <<driver, session, task, held, barrier, behind>>
      /\ fingers' = fingers \ {k} /\ lost' = lost \ {k}
      /\ missed \subseteq missed' \cup {k}
  BY DEF Release, ghosts
<1>1. Shape /\ Arrives
  BY DEF KeysInv, FollowInv
<1>2. \A j : (Holds(j))' => Holds(j) /\ j # k
  BY <1>0 DEF Holds
<1>3. CASE Enqueue(Up(k))
  <2>1. Up(k) \in Events /\ Up(k).kind = "release" /\ Up(k).key = k
    BY InEvents DEF Up
  <2>2. keys \subseteq keys' \cup {k}
    BY <1>1, <1>3, <2>1, EnqueueFacts DEF Recorded, capture
  <2>3. ASSUME NEW j, Holds(j), j # k
        PROVE  /\ Followed(captured', Up(j), Down(j))
               /\ driver # "service" => j \in keys'
               /\ Queued(captured, Down(j)) => Queued(captured', Down(j))
    <3>1. Followed(captured, Up(j), Down(j)) /\ (driver # "service" => j \in keys)
      BY <1>1, <2>3 DEF Arrives
    <3>2. Followed(captured', Up(j), Down(j))
      BY <1>1, <1>3, <2>1, <2>3, <3>1, EventsDiffer, EnqueueFollowed
    <3>3. QED
      BY <1>1, <1>3, <2>1, <2>2, <2>3, <3>1, <3>2, EnqueueKeeps
  <2>4. QED
    BY <1>0, <1>1, <1>2, <1>3, <2>1, <2>2, <2>3, EnqueueAhead, UserFollows
<1>4. CASE UNCHANGED capture
  <2>1. UNCHANGED <<keys, lastId, captured>> /\ lastId \in Nat
    BY <1>4, DriveFacts DEF capture
  <2>2. QED
    BY <1>0, <1>1, <1>2, <2>1, UserFollows DEF Arrives
<1>5. QED
  BY <1>3, <1>4 DEF Release

\* A gesture moves no key but its own.
LEMMA GestureFollows ==
    ASSUME KeysInv, FollowInv, NEW e \in {Pinch, PinchEnd}, Enqueue(e),
           UNCHANGED <<driver, session, task, held, barrier, behind, fingers, missed, lost>>
    PROVE  FollowInv'
<1>1. Shape /\ Arrives
  BY DEF KeysInv, FollowInv
<1>2. e \in Events /\ e.kind # "release"
  BY InEvents DEF Pinch, PinchEnd
<1>3. keys' = keys
  <2>1. Recorded(keys, e) = keys
    BY DEF Recorded, Pinch, PinchEnd
  <2>2. QED
    BY <1>1, <1>2, <2>1, EnqueueLast
<1>4. ASSUME NEW j, (Holds(j))'
      PROVE  /\ Holds(j) /\ Followed(captured', Up(j), Down(j))
             /\ driver # "service" => j \in keys'
             /\ Queued(captured, Down(j)) => Queued(captured', Down(j))
  <2>1. Holds(j)
    BY <1>4 DEF Holds
  <2>2. Followed(captured, Up(j), Down(j)) /\ (driver # "service" => j \in keys)
    BY <1>1, <2>1 DEF Arrives
  <2>3. Followed(captured', Up(j), Down(j))
    BY <1>1, <1>2, <2>2, EventsDiffer, EnqueueFollowed
  <2>4. QED
    BY <1>1, <1>2, <1>3, <2>1, <2>2, <2>3, EnqueueKeeps
<1>5. QED
  BY <1>1, <1>2, <1>3, <1>4, EnqueueAhead, UserFollows

LEMMA BackendFollows ==
    ASSUME KeysInv, FollowInv,
           BackendFails \/ BackendRebuilt \/ \E on \in BOOLEAN : PinchMoves(on)
    PROVE  FollowInv'
<1>1. UNCHANGED <<driver, session, task, held, barrier, behind, fingers, missed, lost>>
  BY DEF BackendFails, BackendRebuilt, PinchMoves, ghosts
<1>2. CASE BackendFails \/ \E on \in BOOLEAN : PinchMoves(on)
  <2>1. \E e \in {Pinch, PinchEnd} : Enqueue(e)
    BY <1>2 DEF BackendFails, PinchMoves
  <2>2. QED
    BY <1>1, <2>1, GestureFollows
<1>3. CASE BackendRebuilt
  <2>1. UNCHANGED <<keys, lastId, captured>> /\ lastId \in Nat
    BY <1>3, DriveFacts DEF BackendRebuilt, capture
  <2>2. \A j : (Holds(j))' => Holds(j)
    BY <1>1 DEF Holds
  <2>3. QED
    BY <1>1, <2>1, <2>2, UserFollows DEF Arrives, FollowInv
<1>4. QED
  BY <1>2, <1>3
\* What a step of the drive task that takes nothing from the queue has to keep.
LEMMA TaskFollows ==
    ASSUME KeysInv, FollowInv, UNCHANGED <<driver, fingers, missed, keys, captured>>,
           Clock', Fresh',
           task'.at = "opening" /\ ~behind' =>
               \A k : Holds(k) => k \in task'.snap \/ Queued(captured, Down(k)),
           Driving' /\ ~behind' /\ ~session'.deaf =>
               \A k : Holds(k) => \/ k \in held'[session'.peer] \cup lost'
                                  \/ Queued(captured, Down(k))
    PROVE  FollowInv'
<1>1. \A k : (Holds(k))' <=> Holds(k)
  BY DEF Holds
<1>2. Arrives'
  BY <1>1 DEF FollowInv, Arrives
<1>3. QED
  BY <1>2 DEF FollowInv

\* The clock and what it is compared with.
LEMMA ClockFacts ==
    ASSUME KeysInv, FollowInv
    PROVE  /\ captured \in Seq(Entries) /\ lastId \in Nat /\ barrier \in Nat
           /\ session.barrier \in Nat /\ task.trigger \in Nat
           /\ Clock /\ Fresh /\ Arrives
           /\ captured = << >> => \A n : Ahead(captured, n)
<1>1. captured = << >> => \A n : Ahead(captured, n)
  BY DEF Ahead
<1>2. captured \in Seq(Entries)
  BY DEF KeysInv, Shape
<1>3. QED
  BY <1>1, <1>2, DriveFacts DEF FollowInv, Clock, Sessions, Tasks

\* The pointer is pushed while nothing is queued.
LEMMA PushFollows == ASSUME KeysInv, FollowInv, NEW p \in Targets, Push(p) PROVE FollowInv'
<1>1. /\ UNCHANGED <<driver, fingers, missed, keys, lastId, captured, session, held, lost,
                     barrier, behind>>
      /\ driver = "topology" /\ captured = << >> /\ ~Driving
      /\ task' = [at |-> "veto", trigger |-> lastId, snap |-> {}, target |-> p]
  BY DEF Push, user, capture, ghosts
<1>2. ~Driving'
  BY <1>1 DEF Driving
<1>3. Clock'
  BY <1>1, <1>2, ClockFacts DEF Clock
<1>4. Fresh'
  BY <1>1, <1>2, ClockFacts DEF Fresh
<1>5. QED
  BY <1>1, <1>2, <1>3, <1>4, TaskFollows

LEMMA VetoedFollows == ASSUME KeysInv, FollowInv, Vetoed \/ OpenFails PROVE FollowInv'
<1>1. /\ UNCHANGED <<driver, fingers, missed, keys, lastId, captured, session, held, lost,
                     barrier, behind>>
      /\ task' = Rest /\ task.at # "rest"
  BY DEF Vetoed, OpenFails, user, capture, ghosts
<1>2. ~Driving'
  BY <1>1, ClockFacts DEF Clock, Driving
<1>3. Clock'
  BY <1>1, <1>2, ClockFacts DEF Clock, Rest
<1>4. Fresh'
  BY <1>1, <1>2, ClockFacts DEF Fresh, Rest
<1>5. Rest.at # "opening"
  BY DEF Rest
<1>6. QED
  BY <1>1, <1>2, <1>3, <1>4, <1>5, TaskFollows

\* A step after which no machine is driven and no stream is opened.
LEMMA EndsFollow ==
    ASSUME KeysInv, FollowInv,
           UNCHANGED <<driver, fingers, missed, keys, lastId, captured, task, behind>>,
           task = Rest \/ barrier' = barrier,
           ~Driving', barrier' \in {barrier, lastId}, driver # "topology" => barrier' = barrier,
           session'.barrier \in {0, session.barrier}
    PROVE  FollowInv'
<1>1. Clock'
  BY ClockFacts DEF Clock, Rest
<1>2. Fresh'
  BY ClockFacts DEF Fresh
<1>3. task'.at = "opening" /\ ~behind' =>
         \A k : Holds(k) => k \in task'.snap \/ Queued(captured, Down(k))
  BY ClockFacts DEF Arrives
<1>4. QED
  BY <1>1, <1>2, <1>3, TaskFollows

LEMMA StreamEndsFollow ==
    ASSUME KeysInv, FollowInv, ParkStale \/ EpisodeEnds \/ ReturnHome
    PROVE  FollowInv'
<1>1. /\ UNCHANGED <<driver, fingers, missed, keys, lastId, captured, task, behind>>
      /\ task = Rest \/ barrier' = barrier
      /\ barrier' \in {barrier, lastId} /\ (driver # "topology" => barrier' = barrier)
      /\ session' \in {NoSession, [session EXCEPT !.phase = "parked"]}
  BY DEF ParkStale, EpisodeEnds, ReturnHome, user, capture, ghosts
<1>2. ~Driving' /\ session'.barrier \in {0, session.barrier}
  BY <1>1, DriveFacts DEF Driving, NoSession, Sessions
<1>3. QED
  BY <1>1, <1>2, EndsFollow

\* A peer that reads no more is owed nothing.
LEMMA PeerEndsFollows == ASSUME KeysInv, FollowInv, PeerEnds PROVE FollowInv'
<1>1. /\ UNCHANGED <<driver, fingers, missed, keys, lastId, captured, task, lost, barrier, behind>>
      /\ session' = [session EXCEPT !.deaf = TRUE]
  BY DEF PeerEnds, user, capture, ghosts
<1>2. session'.barrier = session.barrier /\ session'.deaf /\ (Driving' <=> Driving)
  BY <1>1, DriveFacts DEF Driving, Sessions
<1>3. Clock'
  BY <1>1, <1>2, ClockFacts DEF Clock
<1>4. Fresh'
  BY <1>1, <1>2, ClockFacts DEF Fresh
<1>5. task'.at = "opening" /\ ~behind' =>
         \A k : Holds(k) => k \in task'.snap \/ Queued(captured, Down(k))
  BY <1>1, ClockFacts DEF Arrives
<1>6. QED
  BY <1>1, <1>2, <1>3, <1>4, <1>5, TaskFollows

\* The snapshot holds every key that is held: its press was recorded.
LEMMA SnapshotFollows == ASSUME KeysInv, FollowInv, Snapshot PROVE FollowInv'
<1>1. /\ UNCHANGED <<driver, fingers, missed, keys, lastId, captured, barrier, lost>>
      /\ task.at = "veto" /\ task' = [task EXCEPT !.at = "opening", !.snap = keys]
      /\ session' \in {session, NoSession} /\ behind' = FALSE
  BY DEF Snapshot, user, capture
<1>2. driver = "topology"
  BY <1>1, DriveFacts DEF Rest
<1>3. task'.at = "opening" /\ task'.trigger = task.trigger /\ task'.snap = keys
  BY <1>1, DriveFacts DEF Tasks
<1>4. ~Driving' /\ session'.barrier \in {0, session.barrier}
  BY <1>1, ClockFacts DEF Clock, Driving, NoSession
<1>5. Clock'
  BY <1>1, <1>2, <1>3, <1>4, ClockFacts DEF Clock
<1>6. Fresh'
  BY <1>1, <1>3, <1>4, ClockFacts DEF Fresh
<1>7. \A k : Holds(k) => k \in task'.snap
  BY <1>2, <1>3, ClockFacts DEF Arrives
<1>8. QED
  BY <1>1, <1>4, <1>5, <1>6, <1>7, TaskFollows

\* The peer holds the snapshot, and all that was captured since passes.
LEMMA SessionOpenedFollows == ASSUME KeysInv, FollowInv, SessionOpened PROVE FollowInv'
<1>1. /\ UNCHANGED <<driver, fingers, missed, keys, lastId, captured, barrier, behind>>
      /\ task.at = "opening" /\ task' = Rest /\ ~session.deaf
      /\ session' = [session EXCEPT !.peer = task.target, !.phase = "driving",
                                    !.barrier = task.trigger]
      /\ held' = [held EXCEPT ![task.target] = task.snap]
  BY DEF SessionOpened, user, capture
<1>2. /\ task.target \in Targets /\ driver = "topology" /\ barrier <= task.trigger
  BY <1>1, DriveFacts, ClockFacts DEF Rest, Clock
<1>3. session'.barrier = task.trigger /\ session'.peer = task.target
  BY <1>1, DriveFacts DEF Sessions
<1>4. held'[session'.peer] = task.snap
  BY <1>1, <1>2, <1>3, DriveFacts
<1>5. Rest.at = "rest" /\ Rest.trigger = 0
  BY DEF Rest
<1>6. Clock'
  BY <1>1, <1>2, <1>3, <1>5, ClockFacts DEF Clock
<1>7. Fresh'
  <2>1. ~behind => Ahead(captured, task.trigger) /\ Ahead(captured, barrier)
    BY <1>1, <1>2, ClockFacts, AheadLess DEF Fresh
  <2>2. QED
    BY <1>1, <1>3, <1>5, <2>1, ClockFacts DEF Fresh
<1>8. ~behind' => \A k : Holds(k) => k \in held'[session'.peer] \/ Queued(captured, Down(k))
  BY <1>1, <1>4, ClockFacts DEF Arrives
<1>9. QED
  BY <1>1, <1>5, <1>6, <1>7, <1>8, TaskFollows

\* Only what is queued when the peer hands on may be left behind.
LEMMA PeerHandsOnFollows ==
    ASSUME KeysInv, FollowInv, NEW p \in Targets, PeerHandsOn(p) PROVE FollowInv'
<1>1. /\ UNCHANGED <<driver, fingers, missed, keys, lastId, captured, lost>>
      /\ driver = "topology" /\ session' = NoSession /\ barrier' = lastId
      /\ task' = [at |-> "opening", trigger |-> lastId, snap |-> keys, target |-> p]
      /\ behind' = (captured # << >>)
  BY DEF PeerHandsOn, user, capture
<1>2. ~Driving' /\ session'.barrier = 0
  BY <1>1 DEF Driving, NoSession
<1>3. /\ task'.at = "opening" /\ task'.trigger = lastId /\ task'.snap = keys
  BY <1>1
<1>4. Clock'
  BY <1>1, <1>2, <1>3, ClockFacts DEF Clock
<1>5. Fresh'
  BY <1>1, <1>2, <1>3, ClockFacts DEF Fresh
<1>6. \A k : Holds(k) => k \in task'.snap
  BY <1>1, <1>3, ClockFacts DEF Arrives
<1>7. QED
  BY <1>1, <1>2, <1>4, <1>5, <1>6, TaskFollows

LEMMA BeginFollows == ASSUME KeysInv, FollowInv, NEW p \in Targets, Begin(p) PROVE FollowInv'
<1>1. /\ UNCHANGED <<driver, fingers, missed, keys, lastId, captured, task, barrier>>
      /\ driver # "topology" /\ task = Rest /\ held' = [held EXCEPT ![p] = keys]
      /\ session' = [NoSession EXCEPT !.peer = p, !.phase = "driving",
                                      !.barrier = IF driver = "console" THEN lastId ELSE 0]
      /\ behind' = (driver = "console" /\ captured # << >>)
  BY DEF Begin, user, capture
<1>2. /\ session'.barrier = (IF driver = "console" THEN lastId ELSE 0)
      /\ session'.peer = p
  BY <1>1 DEF NoSession
<1>3. held'[session'.peer] = keys
  BY <1>1, <1>2, DriveFacts
<1>4. Rest.at = "rest" /\ Rest.trigger = 0
  BY DEF Rest
<1>5. driver # "console" => driver = "service"
  <2>1. driver \in Drivers
    BY DEF KeysInv, Roles
  <2>2. QED
    BY <1>1, <2>1, HeldKeysAssumption DEF HeldKeysAssumption
<1>6. Clock'
  <2>1. driver = "service" => ~behind'
    BY <1>1
  <2>2. QED
    BY <1>1, <1>2, <1>4, <2>1, ClockFacts DEF Clock
<1>7. Fresh'
  BY <1>1, <1>2, <1>4, ClockFacts DEF Fresh, Clock
<1>8. \A k : Holds(k) => k \in held'[session'.peer] \/ Queued(captured, Down(k))
  BY <1>1, <1>3, ClockFacts DEF Arrives
<1>9. QED
  BY <1>1, <1>4, <1>6, <1>7, <1>8, TaskFollows
\* Everything queued on a driven stream passes: what is dropped is dropped
\* while nobody is driven, or was queued when the peer handed on.
LEMMA DroppedFollows == ASSUME KeysInv, FollowInv, Dropped PROVE FollowInv'
<1>1. /\ UNCHANGED <<driver, fingers, missed, keys, lastId, session, task, held, lost, barrier,
                     behind>>
      /\ driver # "service" /\ task = Rest /\ captured # << >> /\ captured' = Tail(captured)
      /\ ~(Driving /\ Passes(Head(captured)))
  BY DEF Dropped, user, ghosts
<1>2. ~(Driving /\ ~behind)
  <2>1. Len(captured) \in Nat \ {0} /\ Head(captured) = captured[1]
    BY <1>1, ClockFacts, TailFacts
  <2>2. ASSUME Driving, ~behind
        PROVE  captured[1].id > barrier /\ captured[1].id > session.barrier
    BY <2>1, <2>2, ClockFacts DEF Fresh, Ahead
  <2>3. QED
    BY <1>1, <2>1, <2>2 DEF Passes
<1>3. (Driving' <=> Driving) /\ task.at = "rest"
  BY <1>1 DEF Driving, Rest
<1>4. Clock'
  BY <1>1, <1>3, ClockFacts DEF Clock
<1>5. Fresh'
  BY <1>1, <1>2, <1>3, ClockFacts, AheadTail DEF Fresh
<1>6. \A k : (Holds(k))' <=> Holds(k)
  BY <1>1 DEF Holds
<1>7. Arrives'
  BY <1>1, <1>2, <1>3, <1>6, ClockFacts, TailKeeps DEF Arrives
<1>8. QED
  BY <1>4, <1>5, <1>7 DEF FollowInv

\* What a frame leaves down.
LEMMA FrameLeaves ==
    ASSUME KeysInv, Driving, ~session.deaf, NEW j \in Keys, NEW f \in {Down(j), Up(j)},
           NEW S \in SUBSET Keys, SendFrame(f, S), NEW k
    PROVE  /\ f = Down(j) => j \in held'[session.peer] \cup lost'
           /\ k \in held[session.peer] \cup lost /\ f # Up(k) =>
                 \/ k \in held'[session.peer] \cup lost'
                 \/ f = Up(j) /\ held'[session.peer] = S
<1>1. session.peer \in Targets /\ held \in [Targets -> SUBSET Keys]
  BY DriveFacts DEF Driving
<1>2. ASSUME NEW g, held' = Write(g) PROVE held'[session.peer] = Apply(held[session.peer], g)
  BY <1>1, <1>2 DEF Write
<1>3. /\ Apply(held[session.peer], Down(j)) = held[session.peer] \cup {j}
      /\ Apply(held[session.peer], Up(j)) = held[session.peer] \ {j}
      /\ Apply(held[session.peer], Sync(S)) = S
  BY DEF Apply, Down, Up, Sync
<1>4. CASE f = Down(j)
  <2>1. f.kind = "press" /\ f.key = j
    BY <1>4 DEF Down
  <2>2. \/ held' = Write(f) /\ lost' = lost \ {j}
        \/ held' = held /\ lost' = lost \cup {j}
    BY <2>1 DEF SendFrame, Sent, PressGivenUp, ReleaseGivenUp
  <2>3. QED
    BY <1>2, <1>3, <1>4, <2>2
<1>5. CASE f = Up(j)
  <2>1. f.kind = "release" /\ f.key = j
    BY <1>5 DEF Up
  <2>2. \/ held' = Write(f) /\ lost' = lost
        \/ held' = Write(Sync(S))
        \/ held' = held /\ lost' = lost
    BY <2>1 DEF SendFrame, Sent, PressGivenUp, ReleaseGivenUp
  <2>3. QED
    BY <1>2, <1>3, <1>5, <2>2, EventsDiffer
<1>6. QED
  BY <1>4, <1>5

\* A press that is taken over is held, or known to be lost; a key held stays
\* down until its release is taken over, and then its next press is queued.
LEMMA ForwardedFollows == ASSUME KeysInv, FollowInv, Forwarded PROVE FollowInv'
<1> DEFINE e == Head(captured).event
           S == IF driver = "service" THEN Recorded(keys, Outgoing(e)) ELSE keys
<1>1. /\ UNCHANGED <<driver, fingers, missed, lastId, task, barrier, behind>>
      /\ captured # << >> /\ captured' = Tail(captured) /\ Driving /\ task = Rest
      /\ e \in Events /\ session'.peer = session.peer
      /\ session'.phase = session.phase /\ session'.deaf = session.deaf
      /\ driver # "service" => keys' = keys
      /\ keys \in SUBSET Keys
  BY ForwardedFacts, DriveFacts DEF Forwarded
<1>2. session'.barrier = session.barrier
  <2>1. ASSUME NEW a, NEW b
        PROVE  [session EXCEPT !.pinch = a, !.ctrl = b].barrier = session.barrier
    BY DriveFacts DEF Sessions
  <2>2. QED
    BY <2>1 DEF Forwarded
<1>3. (Driving' <=> Driving) /\ task.at = "rest"
  BY <1>1 DEF Driving, Rest
<1>4. Clock'
  BY <1>1, <1>2, <1>3, ClockFacts DEF Clock
<1>5. Fresh'
  BY <1>1, <1>2, <1>3, ClockFacts, AheadTail DEF Fresh
<1>6. PICK j \in Keys : \/ e = Down(j) /\ Outgoing(e) = Down(j)
                        \/ e = Up(j) /\ Outgoing(e) = Up(j)
                        \/ j = Ctrl /\ e = Pinch /\ Outgoing(e) = Down(j)
                        \/ j = Ctrl /\ e = PinchEnd /\ Outgoing(e) = Up(j)
  BY <1>1, OutgoingFacts
<1>7. S \in SUBSET Keys
  BY <1>1, <1>6 DEF Recorded, Down, Up
<1>8. \/ SendsNothing(e) /\ UNCHANGED <<keys, held, lost>>
      \/ ~SendsNothing(e) /\ keys' = S /\ SendFrame(Outgoing(e), S)
  BY DEF Forwarded
<1>9. Recorded(keys, Down(j)) = keys \cup {j} /\ Recorded(keys, Up(j)) = keys \ {j}
  BY DEF Recorded, Down, Up
<1>10. ASSUME NEW k, Holds(k)
       PROVE  /\ Followed(captured', Up(k), Down(k))
              /\ driver # "service" => k \in keys'
              /\ driver = "service" => k \in keys' \/ Queued(captured', Down(k))
              /\ ~behind /\ ~session.deaf =>
                    k \in held'[session.peer] \cup lost' \/ Queued(captured', Down(k))
  <2>1. /\ Followed(captured, Up(k), Down(k))
        /\ driver # "service" => k \in keys
        /\ driver = "service" => k \in keys \/ Queued(captured, Down(k))
        /\ ~behind /\ ~session.deaf =>
              k \in held[session.peer] \cup lost \/ Queued(captured, Down(k))
    BY <1>1, <1>10, ClockFacts DEF Arrives
  <2>2. Followed(captured', Up(k), Down(k)) /\ k # Ctrl
    BY <1>1, <1>10, <2>1, TailKeeps DEF Holds
  <2>3. CASE Queued(captured', Down(k))
    BY <1>1, <2>1, <2>2, <2>3
  <2>4. CASE ~Queued(captured', Down(k))
    <3>1. e # Up(k)
      BY <1>1, <2>1, <2>4, TailKeeps
    <3>2. e # Down(k) => ~Queued(captured, Down(k))
      BY <1>1, <2>4, TailKeeps
    <3>3. CASE SendsNothing(e) /\ UNCHANGED <<keys, held, lost>>
      <4>1. e # Down(k)
        BY <3>3 DEF SendsNothing, Down
      <4>2. QED
        BY <2>1, <2>2, <3>2, <3>3, <4>1
    <3>4. CASE ~SendsNothing(e) /\ keys' = S /\ SendFrame(Outgoing(e), S)
      <4>1. Outgoing(e) # Up(k) /\ (k # j => e # Down(k))
        BY <1>6, <2>2, <3>1, EventsDiffer
      <4>2. driver = "service" => k \in S
        BY <1>6, <1>9, <2>1, <2>2, <3>1, <3>2, EventsDiffer
      <4>3. driver # "service" => k \in S
        BY <2>1
      <4>4. ASSUME ~behind, ~session.deaf PROVE k \in held'[session.peer] \cup lost'
        <5>1. \/ k = j /\ e = Down(k) /\ Outgoing(e) = Down(j)
              \/ k \in held[session.peer] \cup lost
          BY <1>6, <2>1, <3>2, <4>1, <4>4
        <5>2. QED
          BY <1>1, <1>6, <1>7, <3>4, <4>1, <4>2, <4>3, <4>4, <5>1, FrameLeaves
      <4>5. QED
        BY <2>2, <3>4, <4>2, <4>3, <4>4
    <3>5. QED
      BY <1>8, <3>3, <3>4
  <2>5. QED
    BY <2>3, <2>4
<1>11. \A k : (Holds(k))' <=> Holds(k)
  BY <1>1 DEF Holds
<1>12. Arrives'
  BY <1>1, <1>3, <1>10, <1>11 DEF Arrives
<1>13. QED
  BY <1>4, <1>5, <1>12 DEF FollowInv
LEMMA FollowInit == HeldInit => FollowInv
<1> SUFFICES ASSUME HeldInit PROVE FollowInv
  OBVIOUS
<1>1. /\ fingers = {} /\ lastId = 0 /\ captured = << >> /\ barrier = 0 /\ behind = FALSE
      /\ task = Rest /\ session = NoSession
  BY DEF HeldInit
<1>2. Clock
  BY <1>1 DEF Clock, Rest, NoSession, Driving
<1>3. Fresh
  BY <1>1 DEF Fresh, Ahead, Rest, NoSession, Driving
<1>4. Arrives
  BY <1>1 DEF Arrives, Holds
<1>5. QED
  BY <1>2, <1>3, <1>4 DEF FollowInv

LEMMA FollowStutter == ASSUME KeysInv, FollowInv, UNCHANGED heldVars PROVE FollowInv'
<1>1. UNCHANGED <<driver, fingers, missed, keys, lastId, captured, session, task, held, lost,
                  barrier, behind>>
  BY DEF heldVars, user, capture, ghosts
<1>2. \A j : (Holds(j))' <=> Holds(j)
  BY <1>1 DEF Holds
<1>3. QED
  BY <1>1, <1>2, DriveFacts, ClockFacts, UserFollows DEF Arrives

\* What the user holds, the driven peer holds once nothing waits for the drive
\* task: a press that races a crossing is in the snapshot the peer starts from,
\* or passes the barrier behind it.
THEOREM PressesArrive == HeldSpec => []RemoteFollows
<1>1. ASSUME KeysInv, FollowInv, [HeldNext]_heldVars PROVE FollowInv'
  <2>1. ASSUME NEW k \in Keys, Press(k) \/ Release(k) PROVE FollowInv'
    BY <1>1, <2>1, PressFollows, ReleaseFollows
  <2>2. CASE BackendFails \/ BackendRebuilt \/ \E on \in BOOLEAN : PinchMoves(on)
    BY <1>1, <2>2, BackendFollows
  <2>3. CASE Dropped \/ Forwarded
    BY <1>1, <2>3, DroppedFollows, ForwardedFollows
  <2>4. ASSUME NEW p \in Targets, Push(p) \/ PeerHandsOn(p) \/ Begin(p) PROVE FollowInv'
    BY <1>1, <2>4, PushFollows, PeerHandsOnFollows, BeginFollows
  <2>5. CASE PeerEnds \/ Vetoed \/ Snapshot \/ SessionOpened
    BY <1>1, <2>5, PeerEndsFollows, VetoedFollows, SnapshotFollows, SessionOpenedFollows
  <2>6. CASE ParkStale \/ OpenFails \/ ReturnHome \/ EpisodeEnds
    BY <1>1, <2>6, StreamEndsFollow, VetoedFollows
  <2>7. CASE UNCHANGED heldVars
    BY <1>1, <2>7, FollowStutter
  <2>8. QED
    BY <1>1, <2>1, <2>2, <2>3, <2>4, <2>5, <2>6, <2>7 DEF HeldNext
<1>2. FollowInv => RemoteFollows
  <2> SUFFICES ASSUME FollowInv, captured = << >>, Driving, ~session.deaf, ~behind,
                      NEW k \in fingers \ (missed \cup lost \cup {Ctrl})
               PROVE  k \in held[session.peer]
    BY DEF RemoteFollows, CaughtUp
  <2>1. Holds(k)
    BY DEF Holds
  <2>2. ~Queued(captured, Down(k))
    BY DEF Queued
  <2>3. QED
    BY <2>1, <2>2 DEF FollowInv, Arrives
<1>3. QED
  BY <1>1, <1>2, FollowInit, Inductive, PTL DEF HeldSpec
=============================================================================
