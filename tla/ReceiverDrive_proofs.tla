------------------------ MODULE ReceiverDrive_proofs ------------------------
(***************************************************************************)
(* Proofs about ReceiverDrive: its types, that a key is down only for the  *)
(* session that has the permit, and that the receiver implements           *)
(* InputOwnership when every driver hands off.                             *)
(***************************************************************************)
EXTENDS ReceiverDrive, SequenceTheorems, TLAPS

\* The frames that change what a session's injector holds down, ReleaseAll apart.
KeyFrames == {"sync", "press", "release"}

\* When a session comes to frame i of its wire w, it may hold keys: it may now and no
\* ReleaseAll is in between, or a handoff that lets it comes first.
Granted(w, now, i) ==
    \/ now /\ \A j \in 1..(i - 1) : w[j].type # "releaseall"
    \/ \E j \in 1..(i - 1) :
          /\ w[j].type = "handoff"
          /\ \A m \in j..(i - 1) : w[m].type # "releaseall"

\* The key frames in flight come to a session that may hold keys, and so would one
\* that a driver who writes keys appends.
WireOK(w, now, writes) ==
    /\ \A i \in 1..Len(w) : w[i].type \in KeyFrames => Granted(w, now, i)
    /\ writes => Granted(w, now, Len(w) + 1)

\* A topology driver's session may hold keys with the permit, a fixed driver's as
\* long as it is not idle.
MayHold(d) == IF d \in Fixed THEN ~idle[d] ELSE slot = d

Writes(d) == drv[d] = "driving" \/ (d \in Fixed /\ drv[d] = "linked")

\* What is so of every driver and its session.
SessionInv(d) ==
    /\ rx[d] = "open" => WireOK(onWire[d], MayHold(d), Writes(d))
    /\ rx[d] = "open" /\ idle[d] => held[d] = {} /\ slot # d /\ ~driving[d]
    /\ rx[d] \in {"none", "released"} => held[d] = {}
    /\ rx[d] = "none" => slot # d
    /\ d \notin Fixed /\ held[d] # {} => slot = d

DriveInv == DriveTypeOK /\ \A d \in Drivers : SessionInv(d)
----------------------------------------------------------------------------
(* Frames and wires.                                                       *)

\* The frames a driver writes are frames.
LEMMA FramesTyped ==
    ASSUME NEW n \in Nat, NEW ks \in SUBSET Keys, NEW k \in Keys
    PROVE  {Handoff(n), StateSync(ks), Press(k), Release(k), Move(n), ReleaseAll, Fin}
               \subseteq Frames
BY DEF Frames, Frame, Handoff, StateSync, Press, Release, Move, ReleaseAll, Fin

\* What is sent keeps the wires typed, and changes no other stream.
LEMMA SendTyped ==
    ASSUME NEW d \in Drivers, NEW frames \in Seq(Frames),
           onWire \in [Drivers -> Seq(Frames)], Send(d, frames)
    PROVE  /\ onWire' \in [Drivers -> Seq(Frames)]
           /\ \A e \in Drivers \ {d} : onWire'[e] = onWire[e]
           /\ onWire'[d] = IF rx[d] = "open" THEN onWire[d] \o frames ELSE onWire[d]
BY DEF Send

\* What is taken is a frame, and leaves a shorter wire.
LEMMA TakeTyped ==
    ASSUME NEW d \in Drivers, NEW type,
           onWire \in [Drivers -> Seq(Frames)], Take(d, type)
    PROVE  /\ onWire' \in [Drivers -> Seq(Frames)]
           /\ \A e \in Drivers \ {d} : onWire'[e] = onWire[e]
           /\ onWire[d] # <<>> /\ onWire'[d] = Tail(onWire[d])
           /\ Head(onWire[d]) \in Frames /\ Head(onWire[d]).type = type
           /\ rx[d] = "open"
<1>1. onWire[d] \in Seq(Frames) /\ onWire[d] # <<>>
  BY DEF Take
<1>2. Tail(onWire[d]) \in Seq(Frames) /\ Head(onWire[d]) \in Frames
  BY <1>1
<1>3. QED
  BY <1>1, <1>2 DEF Take
----------------------------------------------------------------------------
(* Types.                                                                  *)

LEMMA DriverTypes ==
    ASSUME DriveTypeOK, NEW d \in Drivers, DriverStep(d)
    PROVE  DriveTypeOK'
<1> USE DriveAssumption DEF DriveTypeOK, driver, network, session
<1>1. CASE OpenDrive(d)
  BY <1>1 DEF OpenDrive
<1>2. CASE Cross(d)
  <2>1. drv' \in [Drivers -> {"off", "linked", "driving", "parked"}]
    BY <1>2 DEF Cross
  <2>2. CASE motions[d] < MaxMotion /\ motions' = [motions EXCEPT ![d] = @ + 1]
             /\ Send(d, <<Handoff(motions[d]), StateSync(down[d]), Move(motions'[d])>>)
    <3>1. motions' \in [Drivers -> Nat] /\ motions'[d] \in Nat /\ motions[d] \in Nat
          /\ down[d] \in SUBSET Keys
      BY <2>2
    <3>2. <<Handoff(motions[d]), StateSync(down[d]), Move(motions'[d])>> \in Seq(Frames)
      BY <3>1 DEF Frames, Frame, Handoff, StateSync, Move
    <3>3. onWire' \in [Drivers -> Seq(Frames)]
      BY <2>2, <3>2, SendTyped
    <3>4. QED
      BY <1>2, <2>1, <3>1, <3>3 DEF Cross
  <2>3. CASE Send(d, <<Handoff(motions[d]), StateSync(down[d])>>) /\ UNCHANGED motions
    <3>1. motions[d] \in Nat /\ down[d] \in SUBSET Keys
      OBVIOUS
    <3>2. <<Handoff(motions[d]), StateSync(down[d])>> \in Seq(Frames)
      BY <3>1 DEF Frames, Frame, Handoff, StateSync
    <3>3. onWire' \in [Drivers -> Seq(Frames)]
      BY <2>3, <3>2, SendTyped
    <3>4. QED
      BY <1>2, <2>1, <2>3, <3>3 DEF Cross
  <2>4. QED
    BY <1>2, <2>2, <2>3 DEF Cross
<1>3. CASE Capture(d)
  <2>1. <<StateSync(down[d])>> \in Seq(Frames)
    BY DEF Frames, Frame, StateSync
  <2>2. onWire' \in [Drivers -> Seq(Frames)]
    BY <1>3, <2>1, SendTyped DEF Capture
  <2>3. QED
    BY <1>3, <2>2 DEF Capture
<1>4. CASE Park(d)
  <2>1. <<ReleaseAll>> \in Seq(Frames)
    BY DEF Frames, Frame, ReleaseAll
  <2>2. onWire' \in [Drivers -> Seq(Frames)]
    BY <1>4, <2>1, SendTyped DEF Park
  <2>3. QED
    BY <1>4, <2>2 DEF Park
<1>5. CASE Finish(d)
  <2>1. <<ReleaseAll, Fin>> \in Seq(Frames) /\ <<Fin>> \in Seq(Frames)
    BY DEF Frames, Frame, ReleaseAll, Fin
  <2>2. onWire' \in [Drivers -> Seq(Frames)]
    BY <1>5, <2>1, SendTyped DEF Finish
  <2>3. QED
    BY <1>5, <2>2 DEF Finish
<1>6. ASSUME NEW k \in Keys, PressKey(d, k)
      PROVE  DriveTypeOK'
  <2>1. <<Press(k)>> \in Seq(Frames)
    BY DEF Frames, Frame, Press
  <2>2. onWire' \in [Drivers -> Seq(Frames)]
    BY <1>6, <2>1, SendTyped DEF PressKey
  <2>3. QED
    BY <1>6, <2>2 DEF PressKey
<1>7. ASSUME NEW k \in Keys, ReleaseKey(d, k)
      PROVE  DriveTypeOK'
  <2>1. down' \in [Drivers -> SUBSET Keys] /\ down'[d] \in SUBSET Keys
    BY <1>7 DEF ReleaseKey
  <2>2. <<Release(k)>> \in Seq(Frames) /\ <<StateSync(down'[d])>> \in Seq(Frames)
    BY <2>1 DEF Frames, Frame, Release, StateSync
  <2>3. onWire' \in [Drivers -> Seq(Frames)]
    BY <1>7, <2>2, SendTyped DEF ReleaseKey
  <2>4. QED
    BY <1>7, <2>1, <2>3 DEF ReleaseKey
<1>8. ASSUME NEW path \in Paths, MovePointer(d, path)
      PROVE  DriveTypeOK'
  <2>1. motions' \in [Drivers -> Nat] /\ motions'[d] \in Nat
    BY <1>8 DEF MovePointer
  <2>2. loose' \in [Drivers -> SUBSET (Paths \X Nat)]
    BY <1>8, <2>1 DEF MovePointer
  <2>3. QED
    BY <1>8, <2>1, <2>2 DEF MovePointer
<1>9. CASE Lose(d)
  <2>1. <<Fin>> \in Seq(Frames)
    BY DEF Frames, Frame, Fin
  <2>2. QED
    BY <1>9, <2>1 DEF Lose
<1>10. CASE Closed(d)
  BY <1>10 DEF Closed
<1>11. QED
  BY <1>1, <1>2, <1>3, <1>4, <1>5, <1>6, <1>7, <1>8, <1>9, <1>10 DEF DriverStep

LEMMA ApplyTyped ==
    ASSUME DriveTypeOK, NEW d \in Drivers, NEW n \in Nat, Apply(d, n)
    PROVE  /\ lastMove' \in [Drivers -> Nat]
           /\ rx' = rx \/ rx' = [rx EXCEPT ![d] = "ending"]
BY DEF Apply, Break, DriveTypeOK

LEMMA ReceiverTypes ==
    ASSUME DriveTypeOK, NEW d \in Drivers, ReceiverStep(d)
    PROVE  DriveTypeOK'
<1> USE DriveAssumption DEF DriveTypeOK, driver
<1>1. CASE GetSync(d)
  <2>1. onWire' \in [Drivers -> Seq(Frames)] /\ Head(onWire[d]).keys \in SUBSET Keys
    BY <1>1, TakeTyped DEF GetSync, Frames
  <2>2. QED
    BY <1>1, <2>1 DEF GetSync
<1>2. CASE GetKey(d)
  <2>1. onWire' \in [Drivers -> Seq(Frames)] /\ Head(onWire[d]).keys \in SUBSET Keys
    BY <1>2, TakeTyped DEF GetKey, Frames
  <2>2. PICK ks \in SUBSET Keys : Inject(d, ks)
    BY <1>2, <2>1 DEF GetKey
  <2>3. held' \in [Drivers -> SUBSET Keys]
        /\ rx' \in [Drivers -> {"none", "open", "ending", "released"}]
    <3>1. held' = held \/ held' = [held EXCEPT ![d] = ks]
          \/ held' = [held EXCEPT ![d] = ks \ held[d]]
      BY <2>2 DEF Inject
    <3>2. rx' = rx \/ rx' = [rx EXCEPT ![d] = "ending"]
      BY <2>2 DEF Inject, Break
    <3>3. ks \ held[d] \in SUBSET Keys
      OBVIOUS
    <3>4. held' \in [Drivers -> SUBSET Keys]
      BY <3>1, <3>3
    <3>5. QED
      BY <3>2, <3>4
  <2>4. QED
    BY <1>2, <2>1, <2>3 DEF GetKey
<1>3. CASE GetMove(d)
  <2>1. onWire' \in [Drivers -> Seq(Frames)] /\ Head(onWire[d]).n \in Nat
    BY <1>3, TakeTyped DEF GetMove, Frames
  <2>2. lastMove' \in [Drivers -> Nat]
        /\ rx' \in [Drivers -> {"none", "open", "ending", "released"}]
    BY <1>3, <2>1, ApplyTyped DEF GetMove
  <2>3. QED
    BY <1>3, <2>1, <2>2 DEF GetMove
<1>4. CASE GetHandoff(d)
  <2>1. onWire' \in [Drivers -> Seq(Frames)] /\ Head(onWire[d]).n \in Nat
    BY <1>4, TakeTyped DEF GetHandoff, Frames
  <2>2. QED
    BY <1>4, <2>1 DEF GetHandoff, Break
<1>5. CASE GetReleaseAll(d)
  <2>1. onWire' \in [Drivers -> Seq(Frames)]
    BY <1>5, TakeTyped DEF GetReleaseAll
  <2>2. QED
    BY <1>5, <2>1 DEF GetReleaseAll
<1>6. CASE GetFin(d)
  <2>1. onWire' \in [Drivers -> Seq(Frames)]
    BY <1>6, TakeTyped DEF GetFin
  <2>2. QED
    BY <1>6, <2>1 DEF GetFin, Break
<1>7. CASE LetGo(d)
  BY <1>7 DEF LetGo, network
<1>8. CASE Free(d)
  <2>1. loose' \in [Drivers -> SUBSET (Paths \X Nat)]
    BY <1>8 DEF Free
  <2>2. <<>> \in Seq(Frames)
    OBVIOUS
  <2>3. onWire' \in [Drivers -> Seq(Frames)]
    BY <1>8, <2>2 DEF Free
  <2>4. QED
    BY <1>8, <2>1, <2>3 DEF Free
<1>9. QED
  BY <1>1, <1>2, <1>3, <1>4, <1>5, <1>6, <1>7, <1>8 DEF ReceiverStep

LEMMA OtherTypes ==
    ASSUME DriveTypeOK, NEW d \in Drivers,
           \/ EndDrive(d)
           \/ \E n \in 1..MaxMotion : GetLane(d, n) \/ GetUdp(d, n) \/ LoseUdp(d, n)
    PROVE  DriveTypeOK'
<1> USE DriveAssumption DEF DriveTypeOK, driver, network, session
<1>1. CASE EndDrive(d)
  BY <1>1 DEF EndDrive, Break
<1>2. ASSUME NEW n \in 1..MaxMotion, GetLane(d, n)
      PROVE  DriveTypeOK'
  <2>1. loose' \in [Drivers -> SUBSET (Paths \X Nat)]
    BY <1>2 DEF GetLane
  <2>2. lastMove' \in [Drivers -> Nat]
        /\ rx' \in [Drivers -> {"none", "open", "ending", "released"}]
    <3>1. n \in Nat
      OBVIOUS
    <3>2. CASE idle[d]
      BY <1>2, <3>2 DEF GetLane
    <3>3. CASE ~idle[d]
      BY <1>2, <3>1, <3>3, ApplyTyped DEF GetLane
    <3>4. QED
      BY <3>2, <3>3
  <2>3. QED
    BY <1>2, <2>1, <2>2 DEF GetLane
<1>3. ASSUME NEW n \in 1..MaxMotion, GetUdp(d, n)
      PROVE  DriveTypeOK'
  <2>1. loose' \in [Drivers -> SUBSET (Paths \X Nat)]
    BY <1>3 DEF GetUdp
  <2>2. lastMove' \in [Drivers -> Nat]
        /\ rx' \in [Drivers -> {"none", "open", "ending", "released"}]
    <3>1. n \in Nat
      OBVIOUS
    <3>2. Apply(d, n) \/ UNCHANGED <<rx, lastMove>>
      BY <1>3 DEF GetUdp
    <3>3. QED
      BY <3>1, <3>2, ApplyTyped
  <2>3. QED
    BY <1>3, <2>1, <2>2 DEF GetUdp
<1>4. ASSUME NEW n \in 1..MaxMotion, LoseUdp(d, n)
      PROVE  DriveTypeOK'
  BY <1>4 DEF LoseUdp
<1>5. QED
  BY <1>1, <1>2, <1>3, <1>4

LEMMA NextTyped == DriveTypeOK /\ [DriveNext]_driveVars => DriveTypeOK'
<1> SUFFICES ASSUME DriveTypeOK, [DriveNext]_driveVars
             PROVE  DriveTypeOK'
  OBVIOUS
<1>1. CASE UNCHANGED driveVars
  BY <1>1 DEF driveVars, driver, network, session, DriveTypeOK
<1>2. CASE DriveNext
  BY <1>2, DriverTypes, ReceiverTypes, OtherTypes DEF DriveNext
<1>3. QED
  BY <1>1, <1>2

LEMMA InitTyped == DriveInit => DriveTypeOK
BY DriveAssumption DEF DriveInit, DriveTypeOK

\* Every reachable state of the drives is well typed, for any drivers, keys, bounds
\* and faults.
THEOREM TypeCorrect == DriveSpec => []DriveTypeOK
BY InitTyped, NextTyped, PTL DEF DriveSpec
----------------------------------------------------------------------------
(* What may be held when a frame is read.                                  *)

\* A session that may hold more, for a driver that writes less.
LEMMA WireWeaken ==
    ASSUME NEW w, NEW now, NEW writes, NEW now2, NEW writes2,
           WireOK(w, now, writes), now => now2, writes2 => writes
    PROVE  WireOK(w, now2, writes2)
BY DEF WireOK, Granted

\* Reading a frame: the rest of the wire keeps its guarantees, if the session did
\* not lose its right to hold keys except by a ReleaseAll, and has it after a
\* handoff.
LEMMA WireTake ==
    ASSUME NEW w \in Seq(Frames), w # <<>>,
           NEW now, NEW now2, NEW writes,
           WireOK(w, now, writes),
           Head(w).type = "releaseall" \/ now2 \/ (~now /\ Head(w).type # "handoff")
    PROVE  WireOK(Tail(w), now2, writes)
<1>1. /\ Len(w) \in Nat \ {0} /\ Len(Tail(w)) = Len(w) - 1
      /\ \A i \in 1..(Len(w) - 1) : Tail(w)[i] = w[i + 1]
      /\ Head(w) = w[1]
  OBVIOUS
<1>2. ASSUME NEW i \in 1..Len(w), Granted(w, now, i + 1)
      PROVE  Granted(Tail(w), now2, i)
  <2>1. CASE now /\ \A j \in 1..i : w[j].type # "releaseall"
    <3>1. now2
      BY <1>1, <2>1
    <3>2. ASSUME NEW j \in 1..(i - 1)
          PROVE  Tail(w)[j].type # "releaseall"
      <4>1. j + 1 \in 1..i /\ j \in 1..(Len(w) - 1)
        BY <1>1
      <4>2. QED
        BY <1>1, <2>1, <4>1
    <3>3. QED
      BY <3>1, <3>2 DEF Granted
  <2>2. ASSUME NEW j \in 1..i, w[j].type = "handoff",
               \A m \in j..i : w[m].type # "releaseall"
        PROVE  Granted(Tail(w), now2, i)
    <3>1. ASSUME NEW m \in 1..(i - 1), m + 1 >= j
          PROVE  Tail(w)[m].type # "releaseall"
      <4>1. m + 1 \in j..i /\ m \in 1..(Len(w) - 1)
        BY <1>1, <3>1
      <4>2. QED
        BY <1>1, <2>2, <4>1
    <3>2. CASE j = 1
      <4>1. now2
        BY <1>1, <2>2, <3>2
      <4>2. \A m \in 1..(i - 1) : Tail(w)[m].type # "releaseall"
        BY <3>1, <3>2
      <4>3. QED
        BY <4>1, <4>2 DEF Granted
    <3>3. CASE j # 1
      <4>1. j - 1 \in 1..(i - 1) /\ j - 1 \in 1..(Len(w) - 1)
        BY <1>1, <3>3
      <4>2. Tail(w)[j - 1].type = "handoff"
        BY <1>1, <2>2, <4>1
      <4>3. \A m \in (j - 1)..(i - 1) : Tail(w)[m].type # "releaseall"
        BY <3>1, <4>1
      <4>4. QED
        BY <4>1, <4>2, <4>3 DEF Granted
    <3>4. QED
      BY <3>2, <3>3
  <2>3. QED
    BY <1>1, <1>2, <2>1, <2>2 DEF Granted
<1>3. ASSUME NEW i \in 1..Len(Tail(w)), Tail(w)[i].type \in KeyFrames
      PROVE  Granted(Tail(w), now2, i)
  <2>1. i + 1 \in 1..Len(w) /\ i \in 1..Len(w) /\ Tail(w)[i] = w[i + 1]
    BY <1>1
  <2>2. Granted(w, now, i + 1)
    BY <1>3, <2>1 DEF WireOK
  <2>3. QED
    BY <1>2, <2>1, <2>2
<1>4. ASSUME writes
      PROVE  Granted(Tail(w), now2, Len(Tail(w)) + 1)
  <2>1. Granted(w, now, Len(w) + 1)
    BY <1>4 DEF WireOK
  <2>2. Len(w) \in 1..Len(w) /\ Len(Tail(w)) + 1 = Len(w)
    BY <1>1
  <2>3. QED
    BY <1>2, <2>1, <2>2
<1>5. QED
  BY <1>3, <1>4 DEF WireOK

\* A key frame at the head is read by a session that may hold keys.
LEMMA HeadGranted ==
    ASSUME NEW w \in Seq(Frames), w # <<>>, NEW now, NEW writes,
           WireOK(w, now, writes), Head(w).type \in KeyFrames
    PROVE  now
<1>1. 1 \in 1..Len(w) /\ Head(w) = w[1]
  OBVIOUS
<1>2. Granted(w, now, 1)
  BY <1>1 DEF WireOK
<1>3. QED
  BY <1>2 DEF Granted

\* Frames after the last of w do not disturb what comes before.
LEMMA GrantedPrefix ==
    ASSUME NEW w \in Seq(Frames), NEW f \in Seq(Frames), NEW now,
           NEW i \in 1..(Len(w) + 1), Granted(w, now, i)
    PROVE  Granted(w \o f, now, i)
<1>1. \A j \in 1..(i - 1) : (w \o f)[j] = w[j]
  OBVIOUS
<1>2. CASE now /\ \A j \in 1..(i - 1) : w[j].type # "releaseall"
  BY <1>1, <1>2 DEF Granted
<1>3. ASSUME NEW j \in 1..(i - 1), w[j].type = "handoff",
             \A m \in j..(i - 1) : w[m].type # "releaseall"
      PROVE  Granted(w \o f, now, i)
  <2>1. (w \o f)[j].type = "handoff"
    BY <1>1, <1>3
  <2>2. \A m \in j..(i - 1) : (w \o f)[m].type # "releaseall"
    BY <1>1, <1>3
  <2>3. QED
    BY <2>1, <2>2 DEF Granted
<1>4. QED
  BY <1>2, <1>3 DEF Granted

\* Writing frames without a ReleaseAll after a point where keys may be held.
LEMMA WireSend ==
    ASSUME NEW w \in Seq(Frames), NEW f \in Seq(Frames), NEW now,
           WireOK(w, now, TRUE),
           \A i \in 1..Len(f) : f[i].type # "releaseall"
    PROVE  WireOK(w \o f, now, TRUE)
<1> DEFINE v == w \o f
<1>1. /\ Len(w) \in Nat /\ Len(f) \in Nat /\ Len(v) = Len(w) + Len(f)
      /\ \A i \in 1..Len(w) : v[i] = w[i]
      /\ \A i \in (Len(w) + 1)..Len(v) : v[i] = f[i - Len(w)]
  OBVIOUS
<1>2. \A i \in (Len(w) + 1)..Len(v) : v[i].type # "releaseall"
  <2> TAKE i \in (Len(w) + 1)..Len(v)
  <2>1. i - Len(w) \in 1..Len(f)
    BY <1>1
  <2>2. QED
    BY <1>1, <2>1
<1>3. Granted(v, now, Len(w) + 1)
  BY <1>1, GrantedPrefix DEF WireOK
<1>4. ASSUME NEW i \in (Len(w) + 1)..(Len(v) + 1)
      PROVE  Granted(v, now, i)
  <2>1. CASE now /\ \A j \in 1..Len(w) : v[j].type # "releaseall"
    <3>1. \A j \in 1..(i - 1) : v[j].type # "releaseall"
      BY <1>1, <1>2, <2>1
    <3>2. QED
      BY <2>1, <3>1 DEF Granted
  <2>2. ASSUME NEW j \in 1..Len(w), v[j].type = "handoff",
               \A m \in j..Len(w) : v[m].type # "releaseall"
        PROVE  Granted(v, now, i)
    <3>1. j \in 1..(i - 1)
      BY <1>1
    <3>2. \A m \in j..(i - 1) : v[m].type # "releaseall"
      BY <1>1, <1>2, <2>2
    <3>3. QED
      BY <2>2, <3>1, <3>2 DEF Granted
  <2>3. (Len(w) + 1) - 1 = Len(w)
    BY <1>1
  <2>4. QED
    BY <1>3, <2>1, <2>2, <2>3 DEF Granted
<1>5. ASSUME NEW i \in 1..Len(v), v[i].type \in KeyFrames
      PROVE  Granted(v, now, i)
  <2>1. CASE i \in 1..Len(w)
    BY <1>1, <1>5, <2>1, GrantedPrefix DEF WireOK
  <2>2. CASE i \notin 1..Len(w)
    BY <1>1, <1>4, <2>2
  <2>3. QED
    BY <2>1, <2>2
<1>6. QED
  BY <1>1, <1>4, <1>5 DEF WireOK

\* Writing frames that press nothing, and no more keys after them.
LEMMA WireSendLast ==
    ASSUME NEW w \in Seq(Frames), NEW f \in Seq(Frames), NEW now, NEW writes,
           WireOK(w, now, writes),
           \A i \in 1..Len(f) : f[i].type \notin KeyFrames
    PROVE  WireOK(w \o f, now, FALSE)
<1> DEFINE v == w \o f
<1>1. /\ Len(w) \in Nat /\ Len(f) \in Nat /\ Len(v) = Len(w) + Len(f)
      /\ \A i \in 1..Len(w) : v[i] = w[i]
      /\ \A i \in (Len(w) + 1)..Len(v) : v[i] = f[i - Len(w)]
  OBVIOUS
<1>2. ASSUME NEW i \in 1..Len(v), v[i].type \in KeyFrames
      PROVE  Granted(v, now, i)
  <2>1. CASE i \in 1..Len(w)
    BY <1>1, <1>2, <2>1, GrantedPrefix DEF WireOK
  <2>2. CASE i \notin 1..Len(w)
    <3>1. i - Len(w) \in 1..Len(f) /\ v[i] = f[i - Len(w)]
      BY <1>1, <2>2
    <3>2. QED
      BY <1>2, <3>1
  <2>3. QED
    BY <2>1, <2>2
<1>3. QED
  BY <1>2 DEF WireOK

\* Short messages.
LEMMA Short ==
    \A a, b, c \in Frames :
           /\ <<a>> \o <<b>> = <<a, b>> /\ <<a>> \o <<b, c>> = <<a, b, c>>
<1> TAKE a, b, c \in Frames
<1>1. <<a>> \in Seq(Frames) /\ <<b>> \in Seq(Frames) /\ <<b, c>> \in Seq(Frames) /\ <<a, b>> \in Seq(Frames)
      /\ <<a, b, c>> \in Seq(Frames)
  OBVIOUS
<1>2. Len(<<a>> \o <<b>>) = 2 /\ Len(<<a>> \o <<b, c>>) = 3
  BY <1>1
<1>3. /\ (<<a>> \o <<b>>)[1] = a /\ (<<a>> \o <<b>>)[2] = b
      /\ (<<a>> \o <<b, c>>)[1] = a /\ (<<a>> \o <<b, c>>)[2] = b
      /\ (<<a>> \o <<b, c>>)[3] = c
  BY <1>1
<1>4. <<a>> \o <<b>> = <<a, b>>
  <2>1. <<a>> \o <<b>> \in Seq(Frames) /\ Len(<<a, b>>) = 2
    BY <1>1
  <2>2. \A i \in 1..2 : (<<a>> \o <<b>>)[i] = <<a, b>>[i]
    BY <1>3
  <2>3. QED
    BY <1>1, <1>2, <2>1, <2>2, SeqEqual
<1>5. <<a>> \o <<b, c>> = <<a, b, c>>
  <2>1. <<a>> \o <<b, c>> \in Seq(Frames) /\ Len(<<a, b, c>>) = 3
    BY <1>1
  <2>2. \A i \in 1..3 : (<<a>> \o <<b, c>>)[i] = <<a, b, c>>[i]
    BY <1>3
  <2>3. QED
    BY <1>1, <1>2, <2>1, <2>2, SeqEqual
<1>6. QED
  BY <1>1, <1>4, <1>5

\* Writing one frame that is no ReleaseAll.
LEMMA WireSendOne ==
    ASSUME NEW w \in Seq(Frames), NEW f \in Frames, NEW now,
           WireOK(w, now, TRUE), f.type # "releaseall"
    PROVE  WireOK(w \o <<f>>, now, TRUE)
<1>1. <<f>> \in Seq(Frames) /\ \A i \in 1..Len(<<f>>) : <<f>>[i].type # "releaseall"
  OBVIOUS
<1>2. QED
  BY <1>1, WireSend

\* After a handoff, keys may be written.
LEMMA WireHandoff ==
    ASSUME NEW w \in Seq(Frames), NEW h \in Frames, NEW now, NEW writes,
           WireOK(w, now, writes), h.type = "handoff"
    PROVE  WireOK(w \o <<h>>, now, TRUE)
<1> DEFINE v == w \o <<h>>
<1>1. Len(w) \in Nat /\ Len(v) = Len(w) + 1 /\ v[Len(w) + 1] = h
  OBVIOUS
<1>2. WireOK(v, now, FALSE)
  <2>1. <<h>> \in Seq(Frames) /\ \A i \in 1..Len(<<h>>) : <<h>>[i].type \notin KeyFrames
    BY DEF KeyFrames
  <2>2. QED
    BY <2>1, WireSendLast
<1>3. Granted(v, now, Len(v) + 1)
  <2>1. Len(w) + 1 \in 1..((Len(v) + 1) - 1)
    BY <1>1
  <2>2. \A m \in (Len(w) + 1)..((Len(v) + 1) - 1) : v[m].type # "releaseall"
    BY <1>1
  <2>3. QED
    BY <1>1, <2>1, <2>2 DEF Granted
<1>4. QED
  BY <1>2, <1>3 DEF WireOK
----------------------------------------------------------------------------
(* The sessions, step by step.                                             *)

\* A step leaves everything about the session of e as it was.
Kept(e) ==
    /\ onWire'[e] = onWire[e] /\ rx'[e] = rx[e] /\ drv'[e] = drv[e] /\ down'[e] = down[e]
    /\ idle'[e] = idle[e] /\ driving'[e] = driving[e] /\ held'[e] = held[e]
    /\ slot' = e <=> slot = e

LEMMA KeptInv ==
    ASSUME NEW e \in Drivers, SessionInv(e), Kept(e)
    PROVE  SessionInv(e)'
<1>1. MayHold(e)' = MayHold(e) /\ Writes(e)' = Writes(e)
  BY DEF Kept, MayHold, Writes
<1>2. rx'[e] = "open" => WireOK(onWire[e], MayHold(e), Writes(e))
  BY DEF Kept, SessionInv
<1>3. rx'[e] = "open" => WireOK(onWire'[e], MayHold(e)', Writes(e)')
  BY <1>1, <1>2 DEF Kept
<1>4. rx'[e] = "open" => WireOK(onWire[e], MayHold(e), Writes(e))'
  BY <1>3
<1>5. QED
  BY <1>4 DEF Kept, SessionInv

StepOf(d) ==
    \/ DriverStep(d) \/ ReceiverStep(d) \/ EndDrive(d)
    \/ \E n \in 1..MaxMotion : GetLane(d, n) \/ GetUdp(d, n) \/ LoseUdp(d, n)

\* A driver's steps, and its session's, leave the other sessions alone; the permit
\* goes from one to another only by way of nobody.
LEMMA OthersKept ==
    ASSUME DriveTypeOK, NEW d \in Drivers, NEW e \in Drivers \ {d}, StepOf(d)
    PROVE  Kept(e)
<1> USE DriveAssumption DEF DriveTypeOK, driver, network, session, Kept
<1>1. CASE OpenDrive(d) \/ Cross(d) \/ Capture(d) \/ Park(d) \/ Finish(d)
           \/ Lose(d) \/ Closed(d)
  BY <1>1 DEF OpenDrive, Cross, Capture, Park, Finish, Lose, Closed, Send
<1>2. ASSUME NEW k \in Keys, PressKey(d, k) \/ ReleaseKey(d, k)
      PROVE  Kept(e)
  BY <1>2 DEF PressKey, ReleaseKey, Send
<1>3. ASSUME NEW path \in Paths, MovePointer(d, path)
      PROVE  Kept(e)
  BY <1>3 DEF MovePointer
<1>4. CASE GetSync(d) \/ GetHandoff(d) \/ GetReleaseAll(d) \/ GetFin(d)
           \/ LetGo(d) \/ Free(d) \/ EndDrive(d)
  BY <1>4 DEF GetSync, GetHandoff, GetReleaseAll, GetFin, LetGo, Free, EndDrive, Take, Break
<1>5. CASE GetKey(d)
  BY <1>5 DEF GetKey, Take, Inject, Break
<1>6. CASE GetMove(d)
  BY <1>6 DEF GetMove, Take, Apply, Break
<1>7. ASSUME NEW n \in 1..MaxMotion, GetLane(d, n) \/ GetUdp(d, n) \/ LoseUdp(d, n)
      PROVE  Kept(e)
  BY <1>7 DEF GetLane, GetUdp, LoseUdp, Apply, Break
<1>8. QED
  BY <1>1, <1>2, <1>3, <1>4, <1>5, <1>6, <1>7 DEF StepOf, DriverStep, ReceiverStep

\* A driver's step that leaves the session alone: only the wire is to be looked at.
LEMMA DriverKeeps ==
    ASSUME NEW d \in Drivers, SessionInv(d), UNCHANGED session,
           rx[d] = "open" => WireOK(onWire'[d], MayHold(d), Writes(d)')
    PROVE  SessionInv(d)'
<1>1. MayHold(d)' = MayHold(d)
  BY DEF session, MayHold
<1>2. rx'[d] = "open" => WireOK(onWire'[d], MayHold(d)', Writes(d)')
  BY <1>1 DEF session
<1>3. rx'[d] = "open" => WireOK(onWire[d], MayHold(d), Writes(d))'
  BY <1>2
<1>4. QED
  BY <1>3 DEF session, SessionInv

LEMMA DriverOwn ==
    ASSUME DriveTypeOK, NEW d \in Drivers, SessionInv(d), DriverStep(d)
    PROVE  SessionInv(d)'
<1> USE DriveAssumption DEF DriveTypeOK
<1>0. /\ onWire[d] \in Seq(Frames) /\ motions[d] \in Nat /\ down[d] \in SUBSET Keys
      /\ drv'[d] # "driving" /\ drv'[d] # "linked" => ~Writes(d)'
  BY DEF Writes
<1>w. rx[d] = "open" => WireOK(onWire[d], MayHold(d), Writes(d))
  BY DEF SessionInv
<1>t. ASSUME onWire'[d] = onWire[d], Writes(d)' => Writes(d)
      PROVE  rx[d] = "open" => WireOK(onWire'[d], MayHold(d), Writes(d)')
  BY <1>w, <1>t, WireWeaken
<1>s. ASSUME NEW f \in Frames, f.type # "releaseall", Writes(d), Send(d, <<f>>)
      PROVE  rx[d] = "open" => WireOK(onWire'[d], MayHold(d), Writes(d)')
  <2> SUFFICES ASSUME rx[d] = "open" PROVE WireOK(onWire'[d], MayHold(d), Writes(d)')
    OBVIOUS
  <2>2. onWire'[d] = onWire[d] \o <<f>>
    BY <1>s DEF Send
  <2>3. WireOK(onWire[d], MayHold(d), TRUE)
    BY <1>w, <1>s DEF WireOK
  <2>4. WireOK(onWire[d] \o <<f>>, MayHold(d), TRUE)
    BY <1>0, <1>s, <2>3, WireSendOne
  <2>5. QED
    BY <2>2, <2>4 DEF WireOK
<1>l. ASSUME NEW f \in Seq(Frames), \A i \in 1..Len(f) : f[i].type \notin KeyFrames,
             ~Writes(d)', Send(d, f)
      PROVE  rx[d] = "open" => WireOK(onWire'[d], MayHold(d), Writes(d)')
  <2> SUFFICES ASSUME rx[d] = "open" PROVE WireOK(onWire'[d], MayHold(d), Writes(d)')
    OBVIOUS
  <2>1. onWire'[d] = onWire[d] \o f
    BY <1>l DEF Send
  <2>2. WireOK(onWire'[d], MayHold(d), FALSE)
    <3>1. \A i \in 1..Len(f) : f[i].type \notin KeyFrames
      BY <1>l
    <3>2. WireOK(onWire[d], MayHold(d), FALSE)
      BY <1>w DEF WireOK
    <3>3. WireOK(onWire[d] \o f, MayHold(d), FALSE)
      BY <1>0, <3>1, <3>2, WireSendLast
    <3>4. QED
      BY <2>1, <3>3
  <2>3. QED
    BY <1>l, <2>2 DEF WireOK
<1>1. CASE OpenDrive(d)
  <2>1. /\ onWire'[d] = <<>> /\ rx'[d] = "open" /\ idle'[d] = FALSE /\ driving'[d] = FALSE
        /\ held'[d] = {} /\ slot' = slot /\ slot # d /\ drv'[d] = "linked"
    BY <1>1 DEF OpenDrive, SessionInv
  <2>2. Writes(d)' => MayHold(d)'
    BY <2>1 DEF Writes, MayHold
  <2>3. WireOK(<<>>, MayHold(d)', Writes(d)')
    BY <2>2 DEF WireOK, Granted
  <2>4. WireOK(onWire[d], MayHold(d), Writes(d))'
    BY <2>1, <2>3
  <2>5. QED
    BY <2>1, <2>4 DEF SessionInv
<1>2. CASE Cross(d)
  <2>1. Writes(d)' /\ UNCHANGED session
    BY <1>2 DEF Cross, Writes
  <2> DEFINE H == Handoff(motions[d])
             S == StateSync(down[d])
  <2>2. ASSUME NEW f \in Seq(Frames), rx[d] = "open", onWire'[d] = onWire[d] \o (<<H>> \o f),
               \A i \in 1..Len(f) : f[i].type # "releaseall"
        PROVE  WireOK(onWire'[d], MayHold(d), TRUE)
    <3>1. H \in Frames /\ H.type = "handoff" /\ <<H>> \in Seq(Frames)
      BY <1>0 DEF Handoff, Frame, Frames
    <3>2. WireOK(onWire[d] \o <<H>>, MayHold(d), TRUE)
      BY <1>0, <1>w, <2>2, <3>1, WireHandoff
    <3>3. onWire[d] \o <<H>> \in Seq(Frames)
      BY <1>0, <3>1
    <3>4. WireOK((onWire[d] \o <<H>>) \o f, MayHold(d), TRUE)
      BY <2>2, <3>2, <3>3, WireSend
    <3>5. (onWire[d] \o <<H>>) \o f = onWire[d] \o (<<H>> \o f)
      BY <1>0, <3>1, ConcatAssociative
    <3>6. QED
      BY <2>2, <3>4, <3>5
  <2>3. CASE /\ motions' = [motions EXCEPT ![d] = @ + 1]
             /\ Send(d, <<H, S, Move(motions'[d])>>)
    <3>1. motions'[d] \in Nat
      BY <2>3, <1>0
    <3>2. H \in Frames /\ S \in Frames /\ Move(motions'[d]) \in Frames
      BY <1>0, <3>1 DEF Handoff, StateSync, Move, Frame, Frames
    <3>3. S.type # "releaseall" /\ Move(motions'[d]).type # "releaseall"
      BY DEF StateSync, Move, Frame
    <3> DEFINE M == Move(motions'[d])
    <3> HIDE DEF H, S, M
    <3>4. /\ <<S, M>> \in Seq(Frames) /\ <<H>> \o <<S, M>> = <<H, S, M>>
          /\ \A i \in 1..Len(<<S, M>>) : <<S, M>>[i].type # "releaseall"
      <4>1. M \in Frames /\ M.type # "releaseall"
        BY <3>2, <3>3 DEF M
      <4> DEFINE G == <<S, M>>
      <4>2. G \in Seq(Frames) /\ Len(G) = 2 /\ G[1] = S /\ G[2] = M /\ <<H>> \o G = <<H, S, M>>
        <5>1. G \in Seq(Frames) /\ Len(G) = 2 /\ G[1] = S /\ G[2] = M
          BY <3>2, <4>1
        <5>2. <<H>> \o G = <<H, S, M>>
          BY <3>2, <4>1, Short
        <5>3. QED
          BY <5>1, <5>2
      <4> HIDE DEF G
      <4>3. \A i \in 1..Len(G) : G[i].type # "releaseall"
        BY <3>3, <4>1, <4>2
      <4>4. QED
        BY <4>2, <4>3 DEF G
    <3>5. rx[d] = "open" => onWire'[d] = onWire[d] \o (<<H>> \o <<S, M>>)
      BY <2>3, <3>4 DEF Send, M
    <3>6. rx[d] = "open" => WireOK(onWire'[d], MayHold(d), TRUE)
      BY <2>2, <3>4, <3>5
    <3>7. QED
      BY <2>1, <3>6, DriverKeeps
  <2>4. CASE Send(d, <<H, S>>)
    <3>2. H \in Frames /\ S \in Frames
      BY <1>0 DEF Handoff, StateSync, Frame, Frames
    <3>3. S.type # "releaseall"
      BY DEF StateSync, Frame
    <3> HIDE DEF H, S
    <3>4. /\ <<S>> \in Seq(Frames) /\ <<H>> \o <<S>> = <<H, S>>
          /\ \A i \in 1..Len(<<S>>) : <<S>>[i].type # "releaseall"
      <4> DEFINE G == <<S>>
      <4>1. G \in Seq(Frames) /\ Len(G) = 1 /\ G[1] = S /\ <<H>> \o G = <<H, S>>
        <5>1. G \in Seq(Frames) /\ Len(G) = 1 /\ G[1] = S
          BY <3>2
        <5>2. <<H>> \o G = <<H, S>>
          BY <3>2, Short
        <5>3. QED
          BY <5>1, <5>2
      <4> HIDE DEF G
      <4>2. \A i \in 1..Len(G) : G[i].type # "releaseall"
        BY <3>3, <4>1
      <4>3. QED
        BY <4>1, <4>2 DEF G
    <3>5. rx[d] = "open" => onWire'[d] = onWire[d] \o (<<H>> \o <<S>>)
      BY <2>4, <3>4 DEF Send
    <3>6. rx[d] = "open" => WireOK(onWire'[d], MayHold(d), TRUE)
      BY <2>2, <3>4, <3>5
    <3>7. QED
      BY <2>1, <3>6, DriverKeeps
  <2>5. QED
    BY <1>2, <2>3, <2>4 DEF Cross
<1>3. CASE Capture(d)
  <2>1. Writes(d) /\ UNCHANGED session /\ Send(d, <<StateSync(down[d])>>)
    BY <1>3 DEF Capture, Writes
  <2>2. StateSync(down[d]) \in Frames /\ StateSync(down[d]).type # "releaseall"
    BY <1>0 DEF StateSync, Frame, Frames
  <2>3. QED
    BY <1>s, <2>1, <2>2, DriverKeeps
<1>4. CASE Park(d)
  <2>1. ~Writes(d)' /\ UNCHANGED session
    BY <1>4 DEF Park, Writes
  <2>2. CASE Send(d, <<ReleaseAll>>)
    <3>1. /\ <<ReleaseAll>> \in Seq(Frames)
          /\ \A i \in 1..Len(<<ReleaseAll>>) : <<ReleaseAll>>[i].type \notin KeyFrames
      BY DEF ReleaseAll, Frame, Frames, KeyFrames
    <3>2. QED
      BY <1>l, <2>1, <2>2, <3>1, DriverKeeps
  <2>3. CASE UNCHANGED onWire
    BY <1>t, <2>1, <2>3, DriverKeeps
  <2>4. QED
    BY <1>4, <2>2, <2>3 DEF Park
<1>5. CASE Finish(d)
  <2>1. ~Writes(d)' /\ UNCHANGED session
    BY <1>5 DEF Finish, Writes
  <2>2. /\ <<ReleaseAll, Fin>> \in Seq(Frames) /\ <<Fin>> \in Seq(Frames)
        /\ \A i \in 1..Len(<<ReleaseAll, Fin>>) : <<ReleaseAll, Fin>>[i].type \notin KeyFrames
        /\ \A i \in 1..Len(<<Fin>>) : <<Fin>>[i].type \notin KeyFrames
    BY DEF ReleaseAll, Fin, Frame, Frames, KeyFrames
  <2>3. QED
    BY <1>5, <1>l, <2>1, <2>2, DriverKeeps DEF Finish
<1>6. ASSUME NEW k \in Keys, PressKey(d, k) \/ ReleaseKey(d, k)
      PROVE  SessionInv(d)'
  <2>1. UNCHANGED session /\ (Writes(d)' <=> Writes(d)) /\ down'[d] \in SUBSET Keys
    BY <1>6 DEF PressKey, ReleaseKey, Writes
  <2>2. /\ Press(k) \in Frames /\ Press(k).type # "releaseall"
        /\ Release(k) \in Frames /\ Release(k).type # "releaseall"
        /\ StateSync(down'[d]) \in Frames /\ StateSync(down'[d]).type # "releaseall"
    BY <2>1 DEF Press, Release, StateSync, Frame, Frames
  <2>3. \/ UNCHANGED onWire
        \/ /\ Writes(d)
           /\ Send(d, <<Press(k)>>) \/ Send(d, <<Release(k)>>) \/ Send(d, <<StateSync(down'[d])>>)
    BY <1>6 DEF PressKey, ReleaseKey, Writes
  <2>4. rx[d] = "open" => WireOK(onWire'[d], MayHold(d), Writes(d)')
    BY <1>s, <1>t, <2>1, <2>2, <2>3
  <2>5. QED
    BY <2>1, <2>4, DriverKeeps
<1>7. ASSUME NEW path \in Paths, MovePointer(d, path)
      PROVE  SessionInv(d)'
  <2>1. UNCHANGED session /\ (Writes(d)' <=> Writes(d)) /\ onWire'[d] = onWire[d]
    BY <1>7 DEF MovePointer, Writes
  <2>2. QED
    BY <1>t, <2>1, DriverKeeps
<1>8. CASE Lose(d)
  <2>1. ~Writes(d)' /\ UNCHANGED session /\ onWire'[d] = <<Fin>>
    BY <1>8 DEF Lose, Writes
  <2>2. WireOK(<<Fin>>, MayHold(d), FALSE)
    BY DEF WireOK, KeyFrames, Fin, Frame
  <2>3. WireOK(onWire'[d], MayHold(d), Writes(d)')
    BY <2>1, <2>2 DEF WireOK
  <2>4. QED
    BY <2>1, <2>3, DriverKeeps
<1>9. CASE Closed(d)
  <2>1. ~Writes(d)' /\ UNCHANGED session /\ onWire'[d] = onWire[d]
    BY <1>9 DEF Closed, Writes, network
  <2>2. QED
    BY <1>t, <2>1, DriverKeeps
<1>10. QED
  BY <1>1, <1>2, <1>3, <1>4, <1>5, <1>6, <1>7, <1>8, <1>9 DEF DriverStep

\* A frame that is read leaves the rest of the wire as good as it was.
LEMMA TakeKeeps ==
    ASSUME DriveTypeOK, NEW d \in Drivers, SessionInv(d), NEW type, Take(d, type),
           UNCHANGED drv,
           type = "releaseall" \/ MayHold(d)' \/ (~MayHold(d) /\ type # "handoff")
    PROVE  WireOK(onWire[d], MayHold(d), Writes(d))'
<1>1. /\ onWire[d] \in Seq(Frames) /\ onWire[d] # <<>> /\ onWire'[d] = Tail(onWire[d])
      /\ Head(onWire[d]).type = type /\ rx[d] = "open"
  BY TakeTyped DEF DriveTypeOK
<1>2. WireOK(onWire[d], MayHold(d), Writes(d))
  BY <1>1 DEF SessionInv
<1>3. WireOK(Tail(onWire[d]), MayHold(d)', Writes(d))
  BY <1>1, <1>2, WireTake
<1>4. Writes(d)' <=> Writes(d)
  BY DEF Writes
<1>5. WireOK(onWire'[d], MayHold(d)', Writes(d)')
  BY <1>1, <1>3, <1>4 DEF WireOK
<1>6. QED
  BY <1>5

\* A key frame is read by a session that may hold keys.
LEMMA KeyRead ==
    ASSUME DriveTypeOK, NEW d \in Drivers, SessionInv(d), NEW type, Take(d, type),
           type \in KeyFrames
    PROVE  MayHold(d)
<1>1. /\ onWire[d] \in Seq(Frames) /\ onWire[d] # <<>>
      /\ Head(onWire[d]).type = type /\ rx[d] = "open"
  BY TakeTyped DEF DriveTypeOK
<1>2. WireOK(onWire[d], MayHold(d), Writes(d))
  BY <1>1 DEF SessionInv
<1>3. QED
  BY <1>1, <1>2, HeadGranted

\* A session that stays in its loop without reading the stream.
LEMMA WireKept ==
    ASSUME DriveTypeOK, NEW d \in Drivers, SessionInv(d), rx[d] = "open",
           onWire'[d] = onWire[d], UNCHANGED drv, MayHold(d) => MayHold(d)'
    PROVE  WireOK(onWire[d], MayHold(d), Writes(d))'
<1>1. WireOK(onWire[d], MayHold(d), Writes(d)) /\ (Writes(d)' <=> Writes(d))
  BY DEF SessionInv, Writes
<1>2. WireOK(onWire'[d], MayHold(d)', Writes(d)')
  BY <1>1 DEF WireOK, Granted
<1>3. QED
  BY <1>2

LEMMA ReceiverOwn ==
    ASSUME DriveTypeOK, NEW d \in Drivers, SessionInv(d),
           \/ ReceiverStep(d) \/ EndDrive(d)
           \/ \E n \in 1..MaxMotion : GetLane(d, n) \/ GetUdp(d, n) \/ LoseUdp(d, n)
    PROVE  SessionInv(d)'
<1> USE DriveAssumption DEF DriveTypeOK, driver, network
<1>1. CASE GetSync(d)
  <2>1. MayHold(d) /\ UNCHANGED <<rx, idle, driving, slot, drv>> /\ rx[d] = "open"
    BY <1>1, KeyRead DEF GetSync, KeyFrames, Take
  <2>2. MayHold(d)'
    BY <2>1 DEF MayHold
  <2>3. WireOK(onWire[d], MayHold(d), Writes(d))'
    BY <1>1, <2>1, <2>2, TakeKeeps DEF GetSync
  <2>4. QED
    BY <2>1, <2>3 DEF SessionInv, MayHold
<1>2. CASE GetKey(d)
  <2>1. PICK type \in {"press", "release"} : Take(d, type)
    BY <1>2 DEF GetKey
  <2>2. MayHold(d) /\ UNCHANGED <<driving, slot, drv>> /\ rx[d] = "open" /\ idle'[d] = FALSE
    BY <1>2, <2>1, KeyRead DEF GetKey, KeyFrames, Take
  <2>3. MayHold(d)'
    BY <2>2 DEF MayHold
  <2>4. WireOK(onWire[d], MayHold(d), Writes(d))'
    BY <2>1, <2>2, <2>3, TakeKeeps
  <2>5. rx'[d] \in {"open", "ending"}
    BY <1>2, <2>2 DEF GetKey, Inject, Break
  <2>6. QED
    BY <2>2, <2>4, <2>5 DEF SessionInv, MayHold
<1>3. CASE GetMove(d)
  <2>1. /\ UNCHANGED <<driving, slot, drv, held>> /\ Take(d, "move") /\ rx[d] = "open"
        /\ idle'[d] = FALSE
    BY <1>3 DEF GetMove, Take
  <2>2. MayHold(d) => MayHold(d)'
    BY <2>1 DEF MayHold
  <2>3. WireOK(onWire[d], MayHold(d), Writes(d))'
    BY <2>1, <2>2, TakeKeeps
  <2>4. rx'[d] \in {"open", "ending"}
    BY <1>3, <2>1 DEF GetMove, Apply, Break
  <2>5. QED
    BY <2>1, <2>3, <2>4 DEF SessionInv
<1>4. CASE GetHandoff(d)
  <2>1. /\ UNCHANGED <<drv, held>> /\ Take(d, "handoff") /\ rx[d] = "open"
        /\ idle'[d] = FALSE /\ rx'[d] \in {"open", "ending"}
        /\ slot = d => slot' = d
        /\ rx'[d] = "open" => slot' = d
    BY <1>4 DEF GetHandoff, Take, Break
  <2>2. CASE rx'[d] = "open"
    <3>1. MayHold(d)'
      BY <2>1, <2>2 DEF MayHold
    <3>2. WireOK(onWire[d], MayHold(d), Writes(d))'
      BY <2>1, <3>1, TakeKeeps
    <3>3. QED
      BY <2>1, <3>2 DEF SessionInv
  <2>3. CASE rx'[d] # "open"
    BY <2>1, <2>3 DEF SessionInv
  <2>4. QED
    BY <2>2, <2>3
<1>5. CASE GetReleaseAll(d)
  <2>1. /\ UNCHANGED <<drv, rx>> /\ Take(d, "releaseall") /\ rx[d] = "open"
        /\ held'[d] = {} /\ slot' # d /\ driving'[d] = FALSE
    BY <1>5 DEF GetReleaseAll, Take
  <2>2. WireOK(onWire[d], MayHold(d), Writes(d))'
    BY <2>1, TakeKeeps
  <2>3. QED
    BY <2>1, <2>2 DEF SessionInv
<1>6. CASE GetFin(d) \/ EndDrive(d)
  <2>1. rx'[d] = "ending" /\ UNCHANGED <<held, slot>>
    BY <1>6 DEF GetFin, EndDrive, Break
  <2>2. QED
    BY <2>1 DEF SessionInv
<1>7. CASE LetGo(d)
  <2>1. rx'[d] = "released" /\ held'[d] = {}
    BY <1>7 DEF LetGo
  <2>2. QED
    BY <2>1 DEF SessionInv
<1>8. CASE Free(d)
  <2>1. rx'[d] = "none" /\ held'[d] = {} /\ slot' # d
    BY <1>8 DEF Free, SessionInv
  <2>2. QED
    BY <2>1 DEF SessionInv
<1>9. ASSUME NEW n \in 1..MaxMotion, GetLane(d, n) \/ GetUdp(d, n)
      PROVE  SessionInv(d)'
  <2>1. /\ UNCHANGED <<drv, onWire, idle, driving, held>> /\ rx[d] = "open"
        /\ rx'[d] \in {"open", "ending"}
        /\ slot' = slot \/ (slot' = d /\ ~idle[d])
    BY <1>9 DEF GetLane, GetUdp, Apply, Break
  <2>2. MayHold(d) => MayHold(d)'
    BY <2>1 DEF MayHold
  <2>3. WireOK(onWire[d], MayHold(d), Writes(d))'
    BY <2>1, <2>2, WireKept
  <2>4. QED
    BY <2>1, <2>3 DEF SessionInv
<1>10. ASSUME NEW n \in 1..MaxMotion, LoseUdp(d, n)
       PROVE  SessionInv(d)'
  <2>1. UNCHANGED <<drv, down, onWire, rx, idle, driving, slot, held>>
    BY <1>10 DEF LoseUdp, session
  <2>2. Kept(d)
    BY <2>1 DEF Kept
  <2>3. QED
    BY <2>2, KeptInv
<1>11. QED
  BY <1>1, <1>2, <1>3, <1>4, <1>5, <1>6, <1>7, <1>8, <1>9, <1>10 DEF ReceiverStep
----------------------------------------------------------------------------
(* The invariant, and what follows from it.                                *)

LEMMA InitInv == DriveInit => DriveInv
<1> SUFFICES ASSUME DriveInit PROVE DriveInv
  OBVIOUS
<1>1. DriveTypeOK
  BY InitTyped
<1>2. \A d \in Drivers : SessionInv(d)
  BY DriveAssumption DEF DriveInit, SessionInv
<1>3. QED
  BY <1>1, <1>2 DEF DriveInv

LEMMA NextInv == DriveInv /\ [DriveNext]_driveVars => DriveInv'
<1> SUFFICES ASSUME DriveInv, [DriveNext]_driveVars PROVE DriveInv'
  OBVIOUS
<1>1. DriveTypeOK /\ DriveTypeOK'
  BY NextTyped DEF DriveInv
<1>2. ASSUME NEW e \in Drivers PROVE SessionInv(e)'
  <2>1. SessionInv(e)
    BY DEF DriveInv
  <2>2. CASE UNCHANGED driveVars
    <3>1. Kept(e)
      BY <2>2 DEF driveVars, driver, network, session, Kept
    <3>2. QED
      BY <2>1, <3>1, KeptInv
  <2>3. ASSUME NEW d \in Drivers, StepOf(d) PROVE SessionInv(e)'
    <3>1. CASE e = d
      BY <1>1, <2>1, <2>3, <3>1, DriverOwn, ReceiverOwn DEF StepOf
    <3>2. CASE e # d
      <4>1. Kept(e)
        BY <1>1, <2>3, <3>2, OthersKept
      <4>2. QED
        BY <2>1, <4>1, KeptInv
    <3>3. QED
      BY <3>1, <3>2
  <2>4. QED
    BY <2>2, <2>3 DEF DriveNext, StepOf
<1>3. QED
  BY <1>1, <1>2 DEF DriveInv

\* The invariant of the drives is inductive.
THEOREM Inductive == DriveSpec => []DriveInv
BY InitInv, NextInv, PTL DEF DriveSpec

\* The permit belongs to a session that is there, and no session of a topology
\* driver holds a key without it, in every state of every receiver.
THEOREM PermitCoversKeys == DriveSpec => []HeldNeedsPermit
<1>1. DriveInv => HeldNeedsPermit
  BY DEF DriveInv, DriveTypeOK, SessionInv, HeldNeedsPermit
<1>2. QED
  BY <1>1, Inductive, PTL

\* A parked session holds no key and no permit, and does not count as driving.
THEOREM ParkedIsSilent == DriveSpec => []IdleIsSilent
<1>1. DriveInv => IdleIsSilent
  BY DEF DriveInv, SessionInv, IdleIsSilent
<1>2. QED
  BY <1>1, Inductive, PTL
----------------------------------------------------------------------------
(* No key stays stuck: the wire itself is on its way to letting go.        *)

\* Reading the frame, a session lets go of key k ...
Clears(f, k) ==
    \/ f.type = "releaseall"
    \/ f.type = "sync" /\ k \notin f.keys
    \/ f.type = "release" /\ k \in f.keys

\* ... or may take it down.
Sets(f, k) == f.type \in {"press", "sync"} /\ k \in f.keys

\* A session that holds ks lets go of k by the end of wire w.
Settles(w, ks, k) ==
    /\ k \in ks => \E i \in 1..Len(w) : Clears(w[i], k)
    /\ \A j \in 1..Len(w) : Sets(w[j], k) => \E i \in (j + 1)..Len(w) : Clears(w[i], k)

\* Once it is read dry, a driving stream leaves no key down that is up at its driver.
SettledInv(d) ==
    rx[d] = "open" /\ drv[d] = "driving" =>
        \A k \in Keys \ down[d] : Settles(onWire[d], held[d], k)

\* A frame is read: what it does to the key is what the rest no longer has to do.
LEMMA SettlesTail ==
    ASSUME NEW w \in Seq(Frames), w # <<>>, NEW ks, NEW ks2, NEW k, Settles(w, ks, k),
           k \in ks2 => (k \in ks /\ ~Clears(Head(w), k)) \/ Sets(Head(w), k)
    PROVE  Settles(Tail(w), ks2, k)
<1>1. /\ Len(w) \in Nat \ {0} /\ Len(Tail(w)) = Len(w) - 1
      /\ \A i \in 1..(Len(w) - 1) : Tail(w)[i] = w[i + 1]
      /\ Head(w) = w[1]
  OBVIOUS
<1>2. ASSUME NEW j \in Nat, NEW i \in (j + 2)..Len(w), Clears(w[i], k)
      PROVE  \E l \in (j + 1)..Len(Tail(w)) : Clears(Tail(w)[l], k)
  <2>1. i - 1 \in (j + 1)..Len(Tail(w)) /\ Tail(w)[i - 1] = w[i]
    BY <1>1, <1>2
  <2> QED
    BY <1>2, <2>1
<1>3. ASSUME k \in ks2 PROVE \E l \in 1..Len(Tail(w)) : Clears(Tail(w)[l], k)
  <2>1. \E i \in 2..Len(w) : Clears(w[i], k)
    <3>1. CASE k \in ks /\ ~Clears(w[1], k)
      <4>1. PICK i \in 1..Len(w) : Clears(w[i], k)
        BY <3>1 DEF Settles
      <4> QED
        BY <1>1, <3>1, <4>1
    <3>2. CASE Sets(w[1], k)
      BY <1>1, <3>2 DEF Settles
    <3> QED
      BY <1>1, <1>3, <3>1, <3>2
  <2> QED
    BY <1>2, <2>1
<1>4. ASSUME NEW j \in 1..Len(Tail(w)), Sets(Tail(w)[j], k)
      PROVE  \E l \in (j + 1)..Len(Tail(w)) : Clears(Tail(w)[l], k)
  <2>1. j + 1 \in 1..Len(w) /\ Sets(w[j + 1], k) /\ j \in Nat
    BY <1>1, <1>4
  <2>2. \E i \in (j + 2)..Len(w) : Clears(w[i], k)
    BY <2>1 DEF Settles
  <2> QED
    BY <1>2, <2>1, <2>2
<1> QED
  BY <1>3, <1>4 DEF Settles

\* Frames are written that do not take the key down, and one lets go of it unless
\* the wire already did.
LEMMA SettlesSent ==
    ASSUME NEW w \in Seq(Frames), NEW v \in Seq(Frames), NEW ks, NEW k,
           \A i \in 1..Len(v) : ~Sets(v[i], k),
           Settles(w, ks, k) \/ \E i \in 1..Len(v) : Clears(v[i], k)
    PROVE  Settles(w \o v, ks, k)
<1>1. /\ Len(w) \in Nat /\ Len(v) \in Nat /\ Len(w \o v) = Len(w) + Len(v)
      /\ \A i \in 1..Len(w) : (w \o v)[i] = w[i]
      /\ \A i \in 1..Len(v) : (w \o v)[Len(w) + i] = v[i]
  OBVIOUS
<1>2. ASSUME NEW j \in 1..Len(w \o v), Sets((w \o v)[j], k)
      PROVE  j \in 1..Len(w) /\ Sets(w[j], k)
  <2>1. CASE j \in 1..Len(w)
    BY <1>1, <1>2, <2>1
  <2>2. CASE j \notin 1..Len(w)
    <3>1. j - Len(w) \in 1..Len(v) /\ (w \o v)[j] = v[j - Len(w)]
      BY <1>1, <2>2
    <3> QED
      BY <1>2, <3>1
  <2> QED
    BY <2>1, <2>2
<1>3. CASE Settles(w, ks, k)
  <2>1. ASSUME NEW l \in Nat, NEW i \in l..Len(w), l >= 1, Clears(w[i], k)
        PROVE  \E m \in l..Len(w \o v) : Clears((w \o v)[m], k)
    <3>1. i \in 1..Len(w) /\ i \in l..Len(w \o v)
      BY <1>1, <2>1
    <3> QED
      BY <1>1, <2>1, <3>1
  <2>2. k \in ks => \E i \in 1..Len(w \o v) : Clears((w \o v)[i], k)
    BY <1>3, <2>1 DEF Settles
  <2>3. ASSUME NEW j \in 1..Len(w \o v), Sets((w \o v)[j], k)
        PROVE  \E i \in (j + 1)..Len(w \o v) : Clears((w \o v)[i], k)
    <3>1. PICK i \in (j + 1)..Len(w) : Clears(w[i], k)
      BY <1>2, <1>3, <2>3 DEF Settles
    <3> QED
      BY <2>1, <3>1
  <2> QED
    BY <2>2, <2>3 DEF Settles
<1>4. CASE \E i \in 1..Len(v) : Clears(v[i], k)
  <2>1. PICK i \in 1..Len(v) : Clears(v[i], k)
    BY <1>4
  <2>2. /\ Len(w) + i \in 1..Len(w \o v) /\ Clears((w \o v)[Len(w) + i], k)
        /\ \A j \in 1..Len(w) : Len(w) + i \in (j + 1)..Len(w \o v)
    BY <1>1, <2>1
  <2> QED
    BY <1>2, <2>2 DEF Settles
<1> QED
  BY <1>3, <1>4

\* A driver's own step.
LEMMA DriverSettles ==
    ASSUME DriveTypeOK, DriveTypeOK', "sync" \notin DriveFaults,
           NEW d \in Drivers, SettledInv(d), DriverStep(d)
    PROVE  SettledInv(d)'
<1> USE DriveAssumption DEF DriveTypeOK
<1> SUFFICES ASSUME rx'[d] = "open", drv'[d] = "driving", NEW k \in Keys, k \notin down'[d]
             PROVE  Settles(onWire'[d], held'[d], k)
  BY DEF SettledInv
<1>1. onWire[d] \in Seq(Frames) /\ motions[d] \in Nat /\ down[d] \in SUBSET Keys
  OBVIOUS
<1>2. ASSUME NEW v \in Seq(Frames), Send(d, v), UNCHANGED session,
             \A i \in 1..Len(v) : ~Sets(v[i], k),
             \/ drv[d] = "driving" /\ k \notin down[d]
             \/ \E i \in 1..Len(v) : Clears(v[i], k)
      PROVE  Settles(onWire'[d], held'[d], k)
  <2>1. onWire'[d] = onWire[d] \o v /\ rx[d] = "open" /\ held' = held
    BY <1>2, SendTyped DEF session
  <2>2. Settles(onWire[d], held[d], k) \/ \E i \in 1..Len(v) : Clears(v[i], k)
    BY <1>2, <2>1 DEF SettledInv
  <2>3. Settles(onWire[d] \o v, held[d], k)
    BY <1>1, <1>2, <2>2, SettlesSent
  <2> QED
    BY <2>1, <2>3
<1>3. ASSUME onWire' = onWire, UNCHANGED session, drv[d] = "driving", k \notin down[d]
      PROVE  Settles(onWire'[d], held'[d], k)
  BY <1>3 DEF SettledInv, session
<1>4. CASE OpenDrive(d) \/ Park(d) \/ Finish(d) \/ Lose(d) \/ Closed(d)
  BY <1>4 DEF OpenDrive, Park, Finish, Lose, Closed
<1>5. CASE Cross(d)
  <2>1. PICK n \in Nat : \E v \in {<<Handoff(motions[d]), StateSync(down[d]), Move(n)>>,
                                   <<Handoff(motions[d]), StateSync(down[d])>>} :
           Send(d, v) /\ UNCHANGED <<down, session>>
    BY <1>1, <1>5 DEF Cross
  <2>0. PICK v \in {<<Handoff(motions[d]), StateSync(down[d]), Move(n)>>,
                     <<Handoff(motions[d]), StateSync(down[d])>>} :
           Send(d, v) /\ UNCHANGED <<down, session>>
    BY <2>1
  <2>2. /\ Handoff(motions[d]) \in Frames /\ StateSync(down[d]) \in Frames /\ Move(n) \in Frames
    BY <1>1 DEF Frames, Frame, Handoff, StateSync, Move
  <2>3. /\ v \in Seq(Frames) /\ Len(v) \in {2, 3} /\ v[1] = Handoff(motions[d])
        /\ v[2] = StateSync(down[d]) /\ (Len(v) = 3 => v[3] = Move(n))
    <3>1. CASE v = <<Handoff(motions[d]), StateSync(down[d]), Move(n)>>
      BY <2>2, <3>1
    <3>2. CASE v = <<Handoff(motions[d]), StateSync(down[d])>>
      BY <2>2, <3>2
    <3> QED
      BY <2>0, <3>1, <3>2
  <2>4. k \notin down[d]
    BY <2>0
  <2>5. ~Sets(v[1], k) /\ ~Sets(v[2], k) /\ Clears(v[2], k) /\ (Len(v) = 3 => ~Sets(v[3], k))
    BY <2>3, <2>4 DEF Sets, Clears, Handoff, StateSync, Move, Frame
  <2>6. /\ \A i \in 1..Len(v) : i = 1 \/ i = 2 \/ (i = 3 /\ Len(v) = 3)
        /\ 2 \in 1..Len(v)
    <3>1. Len(v) = 2 \/ Len(v) = 3
      BY <2>3
    <3>2. /\ \A i \in 1..2 : i = 1 \/ i = 2
          /\ \A i \in 1..3 : i = 1 \/ i = 2 \/ i = 3
          /\ 2 \in 1..2 /\ 2 \in 1..3
      OBVIOUS
    <3> QED
      BY <3>1, <3>2, Zenon
  <2> QED
    BY <1>2, <2>0, <2>3, <2>5, <2>6
<1>6. ASSUME NEW f \in Frames, Send(d, <<f>>), UNCHANGED session, ~Sets(f, k),
             (drv[d] = "driving" /\ k \notin down[d]) \/ Clears(f, k)
      PROVE  Settles(onWire'[d], held'[d], k)
  <2> DEFINE v == <<f>>
  <2>1. v \in Seq(Frames) /\ Len(v) = 1 /\ v[1] = f
    OBVIOUS
  <2>2. \A i \in 1..Len(v) : i = 1
    BY <2>1
  <2>3. 1 \in 1..Len(v)
    BY <2>1
  <2> HIDE DEF v
  <2>4. Send(d, v)
    BY <1>6 DEF v
  <2> QED
    BY <1>2, <1>6, <2>1, <2>2, <2>3, <2>4
<1>7. CASE Capture(d)
  <2>1. StateSync(down[d]) \in Frames /\ Send(d, <<StateSync(down[d])>>) /\ UNCHANGED session
        /\ k \notin down[d]
    BY <1>1, <1>7 DEF Capture, Frames, Frame, StateSync
  <2>2. ~Sets(StateSync(down[d]), k) /\ Clears(StateSync(down[d]), k)
    BY <2>1 DEF Sets, Clears, StateSync, Frame
  <2> QED
    BY <1>6, <2>1, <2>2
<1>8. ASSUME NEW x \in Keys, PressKey(d, x) PROVE Settles(onWire'[d], held'[d], k)
  <2>1. /\ drv[d] = "driving" /\ k \notin down[d] /\ k # x /\ UNCHANGED session
        /\ Send(d, <<Press(x)>>) \/ onWire' = onWire
    BY <1>1, <1>8 DEF PressKey
  <2>2. Press(x) \in Frames /\ ~Sets(Press(x), k)
    BY <2>1 DEF Frames, Frame, Press, Sets
  <2> QED
    BY <1>3, <1>6, <2>1, <2>2
<1>9. ASSUME NEW x \in Keys, ReleaseKey(d, x) PROVE Settles(onWire'[d], held'[d], k)
  <2>1. /\ drv[d] = "driving" /\ down'[d] = down[d] \ {x} /\ UNCHANGED session
        /\ Send(d, <<Release(x)>>) \/ Send(d, <<StateSync(down'[d])>>)
    BY <1>1, <1>9 DEF ReleaseKey
  <2>2. /\ Release(x) \in Frames /\ ~Sets(Release(x), k) /\ (k = x => Clears(Release(x), k))
        /\ StateSync(down'[d]) \in Frames /\ ~Sets(StateSync(down'[d]), k)
        /\ Clears(StateSync(down'[d]), k)
    BY <1>1, <2>1 DEF Frames, Frame, Release, StateSync, Sets, Clears
  <2>3. k # x => k \notin down[d]
    BY <2>1
  <2> QED
    BY <1>6, <2>1, <2>2, <2>3
<1>10. ASSUME NEW path \in Paths, MovePointer(d, path) PROVE Settles(onWire'[d], held'[d], k)
  BY <1>3, <1>10 DEF MovePointer
<1> QED
  BY <1>4, <1>5, <1>7, <1>8, <1>9, <1>10 DEF DriverStep

\* A step of its session.
LEMMA ReceiverSettles ==
    ASSUME DriveTypeOK, NEW d \in Drivers, SettledInv(d),
           \/ ReceiverStep(d) \/ EndDrive(d)
           \/ \E n \in 1..MaxMotion : GetLane(d, n) \/ GetUdp(d, n) \/ LoseUdp(d, n)
    PROVE  SettledInv(d)'
<1> SUFFICES ASSUME rx'[d] = "open", drv'[d] = "driving", NEW k \in Keys, k \notin down'[d]
             PROVE  Settles(onWire'[d], held'[d], k)
  BY DEF SettledInv
<1>1. UNCHANGED driver
  BY DEF ReceiverStep, GetSync, GetKey, GetMove, GetHandoff, GetReleaseAll, GetFin, LetGo, Free,
     EndDrive, GetLane, GetUdp, LoseUdp
<1>2. drv[d] = "driving" /\ k \notin down[d] /\ (rx[d] = "open" => Settles(onWire[d], held[d], k))
  BY <1>1 DEF SettledInv, driver
<1>3. ASSUME NEW type, Take(d, type),
             k \in held'[d] => (k \in held[d] /\ ~Clears(Head(onWire[d]), k)) \/ Sets(Head(onWire[d]), k)
      PROVE  Settles(onWire'[d], held'[d], k)
  <2>1. /\ onWire[d] \in Seq(Frames) /\ onWire[d] # <<>> /\ onWire'[d] = Tail(onWire[d])
        /\ rx[d] = "open"
    BY <1>3, TakeTyped DEF DriveTypeOK
  <2>2. Settles(Tail(onWire[d]), held'[d], k)
    BY <1>2, <1>3, <2>1, SettlesTail
  <2> QED
    BY <2>1, <2>2
<1>4. ASSUME onWire' = onWire, held' = held, rx[d] = "open" PROVE Settles(onWire'[d], held'[d], k)
  BY <1>2, <1>4
<1>5. CASE GetSync(d)
  <2>1. Take(d, "sync") /\ held'[d] = Head(onWire[d]).keys /\ Head(onWire[d]).type = "sync"
    BY <1>5 DEF GetSync, Take, DriveTypeOK
  <2> QED
    BY <1>3, <2>1 DEF Sets
<1>6. CASE GetKey(d)
  <2>1. PICK type \in {"press", "release"} : Take(d, type)
    BY <1>6 DEF GetKey
  <2>2. Head(onWire[d]).type = type
    BY <2>1 DEF Take
  <2>3. held'[d] \subseteq IF type = "press" THEN held[d] \cup Head(onWire[d]).keys
                           ELSE held[d] \ Head(onWire[d]).keys
    <3>1. rx[d] = "open"
      BY <2>1 DEF Take
    <3>2. Inject(d, IF type = "press" THEN held[d] \cup Head(onWire[d]).keys
                    ELSE held[d] \ Head(onWire[d]).keys)
      BY <1>6, <2>2 DEF GetKey
    <3>3. ~Break(d)
      BY <3>1 DEF Break, DriveTypeOK
    <3> QED
      BY <3>2, <3>3 DEF Inject, DriveTypeOK
  <2> QED
    BY <1>3, <2>1, <2>2, <2>3 DEF Sets, Clears
<1>7. CASE GetMove(d) \/ GetHandoff(d)
  <2>1. PICK type \in {"move", "handoff"} : Take(d, type) /\ held' = held
    BY <1>7 DEF GetMove, GetHandoff
  <2>2. Head(onWire[d]).type = type
    BY <2>1 DEF Take
  <2> QED
    BY <1>3, <2>1, <2>2 DEF Clears
<1>8. CASE GetReleaseAll(d)
  <2>1. Take(d, "releaseall") /\ held'[d] = {}
    BY <1>8 DEF GetReleaseAll, DriveTypeOK
  <2> QED
    BY <1>3, <2>1
<1>9. CASE GetFin(d) \/ EndDrive(d) \/ LetGo(d) \/ Free(d)
  BY <1>9 DEF GetFin, EndDrive, LetGo, Free, Break, DriveTypeOK
<1>10. ASSUME NEW n \in 1..MaxMotion, GetLane(d, n) \/ GetUdp(d, n) \/ LoseUdp(d, n)
       PROVE  Settles(onWire'[d], held'[d], k)
  BY <1>4, <1>10 DEF GetLane, GetUdp, LoseUdp, session
<1> QED
  BY <1>5, <1>6, <1>7, <1>8, <1>9, <1>10 DEF ReceiverStep

\* Every stream stays settled, whoever moves.
LEMMA SettledStep ==
    ASSUME DriveTypeOK, DriveTypeOK', "sync" \notin DriveFaults,
           \A e \in Drivers : SettledInv(e), [DriveNext]_driveVars
    PROVE  \A e \in Drivers : SettledInv(e)'
<1> SUFFICES ASSUME NEW e \in Drivers PROVE SettledInv(e)'
  OBVIOUS
<1>1. CASE UNCHANGED driveVars
  BY <1>1 DEF driveVars, driver, network, session, SettledInv, Settles
<1>2. ASSUME NEW d \in Drivers, StepOf(d) PROVE SettledInv(e)'
  <2>1. CASE e = d
    BY <1>2, <2>1, DriverSettles, ReceiverSettles DEF StepOf
  <2>2. CASE e # d
    BY <1>2, <2>2, OthersKept DEF Kept, SettledInv, Settles
  <2> QED
    BY <2>1, <2>2
<1> QED
  BY <1>1, <1>2 DEF DriveNext, StepOf

\* As long as the state sync that replaces a stalled release gets out, a driving
\* stream that has run dry leaves no key down at the receiver that is up at its
\* driver, whatever was pressed, parked, resumed, lost or injected in vain.
THEOREM NoneStuck == ("sync" \notin DriveFaults) => (DriveSpec => []NoStuckKeys)
<1> SUFFICES ASSUME "sync" \notin DriveFaults PROVE DriveSpec => []NoStuckKeys
  OBVIOUS
<1> DEFINE Inv == DriveTypeOK /\ \A d \in Drivers : SettledInv(d)
<1>1. DriveInit => Inv
  BY InitTyped DEF DriveInit, SettledInv
<1>2. Inv /\ [DriveNext]_driveVars => Inv'
  BY NextTyped, SettledStep
<1>3. Inv => NoStuckKeys
  BY DEF NoStuckKeys, SettledInv, Settles, DriveTypeOK
<1> HIDE DEF Inv
<1> QED
  BY <1>1, <1>2, <1>3, PTL DEF DriveSpec
----------------------------------------------------------------------------
(* The sessions implement the ownership of the input, when every driver    *)
(* hands off.                                                              *)

\* With every driver a topology driver, what a session may hold is a matter of the
\* permit alone.
LEMMA OwnerHolds ==
    ASSUME Fixed = {}, DriveInv, NEW d \in Drivers
    PROVE  /\ MayHold(d) <=> slot = d
           /\ held[d] # {} => slot = d
           /\ rx[d] = "none" => slot # d
           /\ rx[d] = "released" => held[d] = {}
           /\ SessionInv(d) /\ DriveTypeOK
BY DEF DriveInv, SessionInv, MayHold

LEMMA Unowned ==
    ASSUME UNCHANGED <<slot, held>>
    PROVE  [Ownership!Next]_Ownership!vars
BY DEF Ownership!vars

LEMMA Takes ==
    ASSUME NEW d \in Drivers, slot = NoDriver, slot' = d, UNCHANGED held
    PROVE  [Ownership!Next]_Ownership!vars
<1>1. Ownership!Take(d)
  BY DEF Ownership!Take
<1>2. QED
  BY <1>1 DEF Ownership!Next

LEMMA Holds ==
    ASSUME NEW d \in Drivers, NEW ks \in SUBSET Keys,
           slot = d, held' = [held EXCEPT ![d] = ks], UNCHANGED slot
    PROVE  [Ownership!Next]_Ownership!vars
<1>1. Ownership!Hold(d, ks)
  BY DEF Ownership!Hold
<1>2. QED
  BY <1>1 DEF Ownership!Next

LEMMA Leaves ==
    ASSUME NEW d \in Drivers, held \in [Drivers -> SUBSET Keys], slot = d, slot' = NoDriver,
           held' = [held EXCEPT ![d] = {}]
    PROVE  [Ownership!Next]_Ownership!vars
<1>1. Ownership!Leave(d)
  BY DEF Ownership!Leave
<1>2. QED
  BY <1>1 DEF Ownership!Next

LEMMA OwnerStep ==
    ASSUME Fixed = {}, DriveInv, NEW d \in Drivers, StepOf(d)
    PROVE  [Ownership!Next]_Ownership!vars
<1>0. /\ MayHold(d) <=> slot = d
      /\ held[d] # {} => slot = d
      /\ rx[d] = "none" => slot # d
      /\ rx[d] = "released" => held[d] = {}
      /\ SessionInv(d) /\ DriveTypeOK
      /\ held \in [Drivers -> SUBSET Keys] /\ slot \in Drivers \cup {NoDriver}
  BY OwnerHolds DEF DriveTypeOK
<1>1. CASE \/ OpenDrive(d) \/ Cross(d) \/ Capture(d) \/ Park(d) \/ Finish(d)
           \/ \E k \in Keys : PressKey(d, k) \/ ReleaseKey(d, k)
           \/ \E path \in Paths : MovePointer(d, path)
           \/ Lose(d) \/ Closed(d) \/ GetMove(d) \/ GetFin(d) \/ EndDrive(d)
           \/ \E n \in 1..MaxMotion : GetLane(d, n) \/ LoseUdp(d, n)
  <2>1. UNCHANGED <<slot, held>>
    BY <1>1 DEF OpenDrive, Cross, Capture, Park, Finish, PressKey, ReleaseKey, MovePointer,
                Lose, Closed, GetMove, GetFin, EndDrive, GetLane, LoseUdp, session
  <2>2. QED
    BY <2>1, Unowned
<1>2. CASE GetSync(d)
  <2>1. slot = d /\ UNCHANGED slot
    BY <1>0, <1>2, KeyRead DEF GetSync, KeyFrames
  <2>2. Head(onWire[d]).keys \in SUBSET Keys
    BY <1>0, <1>2, TakeTyped DEF GetSync, DriveTypeOK, Frames
  <2>3. QED
    BY <1>2, <2>1, <2>2, Holds DEF GetSync
<1>3. CASE GetKey(d)
  <2>1. slot = d /\ UNCHANGED slot
    <3>1. PICK type \in {"press", "release"} : Take(d, type)
      BY <1>3 DEF GetKey
    <3>2. QED
      BY <1>0, <1>3, <3>1, KeyRead DEF GetKey, KeyFrames
  <2>2. Head(onWire[d]).keys \in SUBSET Keys /\ held[d] \in SUBSET Keys
    BY <1>0, <1>3, TakeTyped DEF GetKey, DriveTypeOK, Frames
  <2>3. PICK ks \in SUBSET Keys : Inject(d, ks)
    BY <1>3, <2>2 DEF GetKey
  <2>4. CASE held' = [held EXCEPT ![d] = ks]
    BY <2>1, <2>4, Holds
  <2>5. CASE held' = [held EXCEPT ![d] = ks \ held[d]]
    <3>1. ks \ held[d] \in SUBSET Keys
      OBVIOUS
    <3>2. QED
      BY <2>1, <2>5, <3>1, Holds
  <2>6. CASE UNCHANGED held
    BY <2>1, <2>6, Unowned
  <2>7. QED
    BY <2>3, <2>4, <2>5, <2>6 DEF Inject
<1>4. CASE GetHandoff(d) \/ \E n \in 1..MaxMotion : GetUdp(d, n)
  <2>1. UNCHANGED held /\ (slot' = slot \/ (slot = NoDriver /\ slot' = d))
    BY <1>4 DEF GetHandoff, GetUdp
  <2>2. QED
    BY <2>1, Unowned, Takes
<1>5. CASE GetReleaseAll(d)
  <2>1. held' = [held EXCEPT ![d] = {}] /\ slot' = IF slot = d THEN NoDriver ELSE slot
    BY <1>5 DEF GetReleaseAll
  <2>2. CASE slot = d
    BY <1>0, <2>1, <2>2, Leaves
  <2>3. CASE slot # d
    <3>1. UNCHANGED <<slot, held>>
      BY <1>0, <2>1, <2>3
    <3>2. QED
      BY <3>1, Unowned
  <2>4. QED
    BY <2>2, <2>3
<1>6. CASE LetGo(d)
  <2>1. held' = [held EXCEPT ![d] = {}] /\ UNCHANGED slot /\ {} \in SUBSET Keys
    BY <1>6 DEF LetGo
  <2>2. CASE slot = d
    BY <2>1, <2>2, Holds
  <2>3. CASE slot # d
    <3>1. UNCHANGED <<slot, held>>
      BY <1>0, <2>1, <2>3
    <3>2. QED
      BY <3>1, Unowned
  <2>4. QED
    BY <2>2, <2>3
<1>7. CASE Free(d)
  <2>1. held[d] = {} /\ UNCHANGED held /\ slot' = IF slot = d THEN NoDriver ELSE slot
    BY <1>0, <1>7 DEF Free
  <2>2. CASE slot = d
    <3>1. held' = [held EXCEPT ![d] = {}]
      BY <1>0, <2>1
    <3>2. QED
      BY <1>0, <2>1, <2>2, <3>1, Leaves
  <2>3. CASE slot # d
    BY <2>1, <2>3, Unowned
  <2>4. QED
    BY <2>2, <2>3
<1>8. QED
  BY <1>1, <1>2, <1>3, <1>4, <1>5, <1>6, <1>7 DEF StepOf, DriverStep, ReceiverStep

\* As long as every driver hands off, the receiver's sessions implement InputOwnership:
\* one owner at a time, only the owner's keys are down, and they go with the owner.
THEOREM ImplementsOwnership ==
    ASSUME Fixed = {}
    PROVE  DriveSpec => OwnershipSpec
<1>1. DriveInit => Ownership!Init
  BY DEF DriveInit, Ownership!Init
<1>2. DriveInv /\ [DriveNext]_driveVars => [Ownership!Next]_Ownership!vars
  <2> SUFFICES ASSUME DriveInv, [DriveNext]_driveVars
               PROVE  [Ownership!Next]_Ownership!vars
    OBVIOUS
  <2>1. CASE UNCHANGED driveVars
    BY <2>1, Unowned DEF driveVars, session
  <2>2. ASSUME NEW d \in Drivers, StepOf(d)
        PROVE  [Ownership!Next]_Ownership!vars
    BY <2>2, OwnerStep
  <2>3. QED
    BY <2>1, <2>2 DEF DriveNext, StepOf
<1>3. QED
  BY <1>1, <1>2, Inductive, PTL DEF DriveSpec, OwnershipSpec, Ownership!Spec
=============================================================================
