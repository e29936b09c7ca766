------------------------ MODULE LinkLifecycle_proofs ------------------------
(* The safety of inbound links for any number of peers, epochs, streams    *)
(* and callers.                                                            *)
EXTENDS LinkLifecycle, TLAPS

\* What teardowns work through: a peer and an epoch, either of them missing.
Items == (Peers \cup {None}) \X (Epochs \cup {None})

\* A caller that starts a teardown, or finds nothing to tear down, keeps the
\* types of what it writes and touches no other task.
LEMMA StartTeardownStep ==
    ASSUME TypeOK, NEW c \in Callers, NEW items \in SUBSET Items,
           StartTeardown(c, items)
    PROVE  /\ phase' \in [Tasks -> StreamPhases \cup CallerPhases]
           /\ peer' \in [Tasks -> Peers \cup {None}]
           /\ epoch' \in [Tasks -> Epochs \cup {None}]
           /\ todo' \in [Callers -> SUBSET Items]
           /\ phase'[c] \in {"idle", "hangup"}
           /\ \A x \in Tasks \ {c} : /\ phase'[x] = phase[x]
                                     /\ peer'[x] = peer[x]
                                     /\ epoch'[x] = epoch[x]
<1> USE DEF TypeOK, Items, Tasks
<1>1. CASE items = {}
  BY <1>1 DEF StartTeardown, Goto, CallerPhases
<1>2. CASE items # {}
  <2>1. PICK i \in items : /\ Goto(c, "hangup")
                           /\ peer' = [peer EXCEPT ![c] = i[1]]
                           /\ epoch' = [epoch EXCEPT ![c] = i[2]]
                           /\ todo' = [todo EXCEPT ![c] = items \ {i}]
    BY <1>2 DEF StartTeardown
  <2>2. i[1] \in Peers \cup {None} /\ i[2] \in Epochs \cup {None}
    OBVIOUS
  <2> QED
    BY <2>1, <2>2 DEF Goto, CallerPhases
<1> QED
  BY <1>1, <1>2

\* Removing rows keeps the types of the queue.
LEMMA RemoveRowsType ==
    ASSUME TypeOK, NEW Gone, RemoveRows(Gone)
    PROVE  /\ pending' \in [Links -> Streams \cup {None}]
           /\ answer' \in [Streams -> Answers]
BY DEF TypeOK, RemoveRows, Answers

\* A hang-up keeps the type of the drop channels.
LEMMA DropSessionType ==
    ASSUME TypeOK, NEW p, DropSession(p)
    PROVE  hungUp' \in [Streams -> BOOLEAN]
BY DEF TypeOK, DropSession

\* A ban keeps the set of ended epochs one of epochs.
LEMMA BuryType ==
    ASSUME TypeOK, NEW e \in Epochs, Bury(e)
    PROVE  ended' \in SUBSET Epochs
BY DEF TypeOK, Bury

\* Every link has its peer and its epoch.
LEMMA LinkParts ==
    ASSUME NEW l \in Links
    PROVE  l[1] \in Peers /\ l[2] \in Epochs /\ l = <<l[1], l[2]>>
BY DEF Links

LEMMA RowsType == \A p : RowsOf(p) \subseteq Links /\ RowsAt(p) \subseteq Links
BY DEF RowsOf, RowsAt

\* So a teardown that starts leaves every task with the link it works on.
LEMMA TeardownType ==
    ASSUME TypeOK, NEW c \in Callers, NEW items \in SUBSET Items,
           StartTeardown(c, items)
    PROVE  /\ phase' \in [Tasks -> StreamPhases \cup CallerPhases]
           /\ peer' \in [Tasks -> Peers \cup {None}]
           /\ epoch' \in [Tasks -> Epochs \cup {None}]
           /\ todo' \in [Callers -> SUBSET ((Peers \cup {None}) \X (Epochs \cup {None}))]
           /\ KeysKnown'
<1>1. /\ phase'[c] \in {"idle", "hangup"}
      /\ \A x \in Tasks \ {c} : /\ phase'[x] = phase[x]
                                /\ peer'[x] = peer[x]
                                /\ epoch'[x] = epoch[x]
  BY StartTeardownStep
<1>2. KeysKnown'
  BY <1>1, LinkAssumption DEF TypeOK, KeysKnown, Key, Tasks
<1> QED
  BY <1>2, StartTeardownStep DEF Items

\* A caller that takes up a link of the system knows it.
LEMMA NewLink ==
    ASSUME TypeOK, NEW c \in Callers, NEW l \in Links,
           phase[c] = "idle", \A x \in Tasks \ {c} : phase'[x] = phase[x],
           peer' = [peer EXCEPT ![c] = l[1]], epoch' = [epoch EXCEPT ![c] = l[2]]
    PROVE  KeysKnown'
<1>1. Key(c)' = l
  BY LinkParts DEF Key, TypeOK, Tasks
<1>2. \A x \in Tasks \ {c} : peer'[x] = peer[x] /\ epoch'[x] = epoch[x]
  BY DEF TypeOK
<1> QED
  BY <1>1, <1>2, LinkAssumption DEF TypeOK, KeysKnown, Key, Tasks

\* The steps of a stream keep the types.
LEMMA StreamType ==
    ASSUME TypeOK, NEW t \in Streams, StreamStep(t)
    PROVE  TypeOK'
<1> USE LinkAssumption DEF Tasks, Goto, trust, queue, sessions, StreamPhases
<1>1. ASSUME NEW p \in Peers, Open(t, p) PROVE TypeOK'
  BY <1>1 DEF Open, TypeOK, KeysKnown, Key
<1>2. ASSUME NEW e \in Epochs \cup {None}, Hello(t, e) PROVE TypeOK'
  BY <1>2 DEF Hello, TypeOK, KeysKnown, Key
<1>3. ASSUME NEW e \in Epochs \cup {None}, LinkEnded(t, e) PROVE TypeOK'
  <2>1. ended' \in SUBSET Epochs
    BY <1>3, BuryType DEF LinkEnded, TypeOK, KeysKnown, Key
  <2>2. hungUp' \in [Streams -> BOOLEAN]
    BY <1>3, DropSessionType DEF LinkEnded, TypeOK, KeysKnown, Key
  <2>3. phase' \in [Tasks -> StreamPhases \cup CallerPhases]
    BY <1>3 DEF LinkEnded, TypeOK, KeysKnown, Key
  <2> QED
    BY <1>3, <2>1, <2>2, <2>3 DEF LinkEnded, TypeOK, KeysKnown, Key
<1>4. CASE Refuse(t)
  BY <1>4 DEF Refuse, TypeOK, KeysKnown, Key
<1>5. CASE LinkEndedDrop(t)
  <2>1. hungUp' \in [Streams -> BOOLEAN]
    BY <1>5, DropSessionType DEF LinkEndedDrop
  <2> QED
    BY <1>5, <2>1 DEF LinkEndedDrop, TypeOK, KeysKnown, Key
<1>6. CASE PassGate(t)
  BY <1>6 DEF PassGate, TypeOK, KeysKnown, Key
<1>7. CASE Register(t)
  BY <1>7 DEF Register, TypeOK, KeysKnown, Key, Answers
<1>8. CASE RegisterRefused(t)
  BY <1>8 DEF RegisterRefused, TypeOK, KeysKnown, Key
<1>9. CASE Decided(t)
  BY <1>9 DEF Decided, TypeOK, KeysKnown, Key
<1>10. CASE TimedOut(t)
  BY <1>10 DEF TimedOut, TypeOK, KeysKnown, Key, Answers
<1>11. CASE Settle(t) \/ PeerVanishes(t)
  <2>1. pending' \in [Links -> Streams \cup {None}] /\ answer' \in [Streams -> Answers]
    BY <1>11, RemoveRowsType DEF Settle, PeerVanishes
  <2>2. phase' \in [Tasks -> StreamPhases \cup CallerPhases]
    BY <1>11 DEF Settle, PeerVanishes, TypeOK, KeysKnown, Key
  <2> QED
    BY <1>11, <2>1, <2>2 DEF Settle, PeerVanishes, TypeOK, KeysKnown, Key
<1>12. CASE AcceptFails(t)
  BY <1>12 DEF AcceptFails, TypeOK, KeysKnown, Key
<1>13. CASE Serve(t)
  <2>1. hungUp' \in [Streams -> BOOLEAN]
    BY <1>13 DEF Serve, TypeOK, KeysKnown, Key
  <2> QED
    BY <1>13, <2>1 DEF Serve, TypeOK, KeysKnown, Key
<1>14. CASE HangUp(t) \/ CutOff(t) \/ PeerLeaves(t)
  BY <1>14 DEF HangUp, CutOff, PeerLeaves, EndSession, TypeOK, KeysKnown, Key
<1> QED
  BY <1>1, <1>2, <1>3, <1>4, <1>5, <1>6, <1>7, <1>8, <1>9, <1>10, <1>11, <1>12,
     <1>13, <1>14 DEF StreamStep

\* The steps that change trust keep the types.
LEMMA TrustType ==
    ASSUME TypeOK, TrustStep
    PROVE  TypeOK'
<1> USE LinkAssumption DEF Tasks, trust, queue, sessions
<1>1. ASSUME NEW p \in Peers, Pair(p) \/ PairSaveFails(p) \/ PinPeer(p) \/ GraceExpires(p)
      PROVE  TypeOK'
  BY <1>1, RowsType DEF Pair, PairSaveFails, PinPeer, GraceExpires, TypeOK, KeysKnown, Key
<1>2. ASSUME NEW p \in Peers, Unpair(p) PROVE TypeOK'
  <2>1. pending' \in [Links -> Streams \cup {None}] /\ answer' \in [Streams -> Answers]
    BY <1>2, RemoveRowsType DEF Unpair
  <2>2. revoked' \in [Streams -> BOOLEAN]
    BY <1>2 DEF Unpair, TypeOK, KeysKnown, Key
  <2> QED
    BY <1>2, <2>1, <2>2 DEF Unpair, TypeOK, KeysKnown, Key
<1>3. ASSUME NEW p \in Peers, UnpairSaveFails(p) PROVE TypeOK'
  BY <1>3 DEF UnpairSaveFails, TypeOK, KeysKnown, Key
<1>4. ASSUME NEW l \in Links, ApprovalExpires(l) PROVE TypeOK'
  BY <1>4 DEF ApprovalExpires, TypeOK, KeysKnown, Key
<1> QED
  BY <1>1, <1>2, <1>3, <1>4 DEF TrustStep

\* The steps of a caller keep the types.
LEMMA CallerType ==
    ASSUME TypeOK, NEW c \in Callers, CallerStep(c)
    PROVE  TypeOK'
<1> USE LinkAssumption DEF Tasks, Goto, trust, queue, sessions, CallerPhases
<1>1. ASSUME NEW l \in Links, Approve(c, l) PROVE TypeOK'
  <2>1. l[1] \in Peers /\ l[2] \in Epochs
    BY LinkParts
  <2>2. answer' \in [Streams -> Answers] /\ consent' \in SUBSET Links
        /\ phase' \in [Tasks -> StreamPhases \cup CallerPhases]
    BY <1>1 DEF Approve, TypeOK, KeysKnown, Key, Answers
  <2>3. KeysKnown'
    <3>1. \A x \in Tasks \ {c} : phase'[x] = phase[x]
      BY <1>1 DEF Approve, TypeOK
    <3> QED
      BY <1>1, <3>1, NewLink DEF Approve
  <2> QED
    BY <1>1, <2>1, <2>2, <2>3 DEF Approve, TypeOK
<1>2. ASSUME NEW l \in Links, Deny(c, l) PROVE TypeOK'
  <2>1. answer' \in [Streams -> Answers]
    BY <1>2 DEF Deny, TypeOK, KeysKnown, Key, Answers
  <2> QED
    BY <1>2, <2>1 DEF Deny, TypeOK, KeysKnown, Key
<1>3. ASSUME NEW l \in Links, LeaseBegin(c, l) PROVE TypeOK'
  <2>1. l[1] \in Peers /\ l[2] \in Epochs
    BY LinkParts
  <2>2. KeysKnown'
    <3>1. \A x \in Tasks \ {c} : phase'[x] = phase[x]
      BY <1>3 DEF LeaseBegin, TypeOK
    <3> QED
      BY <1>3, <3>1, NewLink DEF LeaseBegin
  <2> QED
    BY <1>3, <2>1, <2>2 DEF LeaseBegin, TypeOK
<1>4. CASE Grant(c)
  <2>1. Key(c) \in Links
    BY <1>4 DEF Grant, TypeOK, KeysKnown
  <2> QED
    BY <1>4, <2>1 DEF Grant, TypeOK, KeysKnown, Key
<1>5. CASE AppGone(c)
  <2>1. PICK items \in SUBSET Items : StartTeardown(c, items)
    <3>1. {<<p, epoch[links[p]]>> : p \in {q \in Peers : links[q] # None}}
            \in SUBSET Items
      BY DEF TypeOK, Items
    <3> QED
      BY <1>5, <3>1 DEF AppGone
  <2> QED
    BY <1>5, <2>1, TeardownType DEF AppGone, TypeOK
<1>6. CASE LeaseReplied(c) \/ LeaseReplyFails(c)
  BY <1>6 DEF LeaseReplied, LeaseReplyFails, TypeOK, KeysKnown, Key
<1>7. CASE LeaseEnds(c)
  <2>1. {Key(c)} \in SUBSET Items
    BY <1>7 DEF Key, TypeOK, Items
  <2>2. CASE leases[Key(c)] = c
    BY <1>7, <2>1, <2>2, TeardownType DEF LeaseEnds, TypeOK
  <2>3. CASE leases[Key(c)] # c
    BY <1>7, <2>3 DEF LeaseEnds, TypeOK, KeysKnown, Key
  <2> QED
    BY <2>2, <2>3
<1>8. ASSUME NEW p \in Peers \cup {None}, NEW e \in Epochs \cup {None},
             NEW at \in Peers \cup {None}, Disconnect(c, p, e, at)
      PROVE  TypeOK'
  <2> DEFINE Match == {l \in Links : leases[l] # None /\ (l[2] = e \/ l[1] = at)}
  <2>1. CASE Match = {}
    <3>1. StartTeardown(c, {<<p, e>>}) /\ leases' = leases
      BY <1>8, <2>1 DEF Disconnect
    <3> QED
      BY <1>8, <3>1, TeardownType DEF Disconnect, TypeOK, Items
  <2>2. CASE Match # {}
    <3>1. PICK l \in Links :
             /\ leases' = [leases EXCEPT ![l] = None]
             /\ StartTeardown(c, {<<IF p = None THEN l[1] ELSE p,
                                    IF e = None THEN l[2] ELSE e>>})
      BY <1>8, <2>2 DEF Disconnect
    <3>2. {<<IF p = None THEN l[1] ELSE p, IF e = None THEN l[2] ELSE e>>}
             \in SUBSET Items
      BY LinkParts DEF Items
    <3> QED
      BY <1>8, <3>1, <3>2, TeardownType DEF Disconnect, TypeOK
  <2> QED
    BY <2>1, <2>2
<1>9. CASE TeardownDrop(c)
  <2>1. hungUp' \in [Streams -> BOOLEAN]
    BY <1>9, DropSessionType DEF TeardownDrop
  <2> QED
    BY <1>9, <2>1 DEF TeardownDrop, TypeOK, KeysKnown, Key
<1>10. CASE TeardownForget(c)
  <2>1. pending' \in [Links -> Streams \cup {None}] /\ answer' \in [Streams -> Answers]
    BY <1>10, RemoveRowsType DEF TeardownForget
  <2> QED
    BY <1>10, <2>1 DEF TeardownForget, TypeOK, KeysKnown, Key
<1>11. CASE TeardownBury(c)
  <2>1. pending' \in [Links -> Streams \cup {None}] /\ answer' \in [Streams -> Answers]
    BY <1>11, RemoveRowsType DEF TeardownBury, TypeOK
  <2>2. ended' \in SUBSET Epochs
    BY <1>11, BuryType DEF TeardownBury, TypeOK
  <2>3. approved' \in SUBSET Links
    BY <1>11 DEF TeardownBury, TypeOK
  <2>4. phase' \in [Tasks -> StreamPhases \cup CallerPhases]
        /\ phase'[c] \in {"idle", "saving"}
        /\ \A x \in Tasks \ {c} : phase'[x] = phase[x]
    BY <1>11 DEF TeardownBury, TypeOK
  <2> QED
    BY <1>11, <2>1, <2>2, <2>3, <2>4 DEF TeardownBury, TypeOK, KeysKnown, Key
<1>12. CASE TeardownSaved(c)
  BY <1>12, TeardownType DEF TeardownSaved, TypeOK, Items
<1>13. ASSUME NEW e \in Epochs, EndLink(c, e) PROVE TypeOK'
  <2>1. pending' \in [Links -> Streams \cup {None}] /\ answer' \in [Streams -> Answers]
    BY <1>13, RemoveRowsType DEF EndLink
  <2>2. ended' \in SUBSET Epochs
    BY <1>13, BuryType DEF EndLink
  <2> QED
    BY <1>13, <2>1, <2>2 DEF EndLink, TypeOK, KeysKnown, Key
<1>14. ASSUME NEW p \in Peers, DropRequest(c, p) PROVE TypeOK'
  <2>1. pending' \in [Links -> Streams \cup {None}] /\ answer' \in [Streams -> Answers]
    BY <1>14, RemoveRowsType DEF DropRequest
  <2>2. hungUp' \in [Streams -> BOOLEAN]
    BY <1>14, DropSessionType DEF DropRequest
  <2> QED
    BY <1>14, <2>1, <2>2 DEF DropRequest, TypeOK, KeysKnown, Key
<1> QED
  BY <1>1, <1>2, <1>3, <1>4, <1>5, <1>6, <1>7, <1>8, <1>9, <1>10, <1>11, <1>12,
     <1>13, <1>14 DEF CallerStep

\* The state of inbound links keeps its type.
THEOREM TypeCorrect == Spec => []TypeOK
<1>1. Init => TypeOK
  BY LinkAssumption DEF Init, TypeOK, KeysKnown, Tasks, Answers, StreamPhases
<1>2. TypeOK /\ [Next]_vars => TypeOK'
  <2> SUFFICES ASSUME TypeOK, [Next]_vars PROVE TypeOK'
    OBVIOUS
  <2>1. CASE AppArrives
    BY <2>1 DEF AppArrives, queue, sessions, TypeOK, KeysKnown, Key
  <2>2. CASE Restart
    BY <2>2, LinkAssumption
    DEF Restart, TypeOK, KeysKnown, Tasks, Answers, StreamPhases
  <2>3. CASE UNCHANGED vars
    BY <2>3 DEF vars, trust, queue, sessions, TypeOK, KeysKnown, Key
  <2> QED
    BY <2>1, <2>2, <2>3, StreamType, TrustType, CallerType DEF Next
<1> QED
  BY <1>1, <1>2, PTL DEF Spec

----------------------------------------------------------------------------
(* What each kind of step leaves alone, and how it may change the queue.   *)

\* A row is answered: it leaves the queue, and a stream that still waits hears it.
RowAnswered(l, a) ==
    /\ pending[l] # None
    /\ pending' = [pending EXCEPT ![l] = None]
    /\ answer' = IF phase[pending[l]] = "waiting"
                 THEN [answer EXCEPT ![pending[l]] = a] ELSE answer

\* The queue stays, loses rows, or has one row answered.
QueueShrinks ==
    \/ UNCHANGED <<pending, answer>>
    \/ \E Gone \in SUBSET Links : RemoveRows(Gone)
    \/ \E l \in Links, a \in {"yes", "no"} : RowAnswered(l, a)

StreamsStay ==
    \A t \in Streams : phase'[t] = phase[t] /\ peer'[t] = peer[t] /\ epoch'[t] = epoch[t]

\* A caller leaves every stream where it stands; it may only signal sessions
\* and shrink the queue.
LEMMA CallerFrame ==
    ASSUME TypeOK, NEW c \in Callers, CallerStep(c)
    PROVE  /\ StreamsStay
           /\ \A t \in Streams : hungUp[t] => hungUp'[t]
           /\ links' = links /\ revoked' = revoked /\ pinned' = pinned
           /\ QueueShrinks
<1> USE LinkAssumption, RowsType DEF Tasks, Goto, trust, queue, sessions, StreamsStay
<1> DEFINE Signals == \A t \in Streams : hungUp[t] => hungUp'[t]
<1>0. ASSUME NEW p, DropSession(p) PROVE Signals
  BY <1>0 DEF DropSession
<1>1. ASSUME NEW l \in Links, Approve(c, l)
      PROVE  StreamsStay /\ hungUp' = hungUp /\ links' = links /\ revoked' = revoked
             /\ pinned' = pinned /\ RowAnswered(l, "yes")
  <2>1. RowAnswered(l, "yes")
    BY <1>1 DEF Approve, RowAnswered
  <2> QED
    BY <1>1, <2>1 DEF Approve, TypeOK
<1>2. ASSUME NEW l \in Links, Deny(c, l)
      PROVE  StreamsStay /\ hungUp' = hungUp /\ links' = links /\ revoked' = revoked
             /\ pinned' = pinned /\ RowAnswered(l, "no")
  BY <1>2 DEF Deny, RowAnswered
<1>3. ASSUME NEW l \in Links, LeaseBegin(c, l)
      PROVE  StreamsStay /\ UNCHANGED <<sessions, pinned, pending, answer>>
  BY <1>3 DEF LeaseBegin, TypeOK
<1>4. CASE Grant(c)
  BY <1>4 DEF Grant, TypeOK, QueueShrinks
<1>5. ASSUME NEW items \in SUBSET Items, StartTeardown(c, items)
      PROVE  StreamsStay
  BY <1>5, StartTeardownStep
<1>6. CASE AppGone(c)
  <2>1. {<<p, epoch[links[p]]>> : p \in {q \in Peers : links[q] # None}} \in SUBSET Items
    BY DEF TypeOK, Items
  <2> QED
    BY <1>5, <1>6, <2>1 DEF AppGone, QueueShrinks
<1>7. CASE LeaseReplied(c) \/ LeaseReplyFails(c)
  BY <1>7 DEF LeaseReplied, LeaseReplyFails, TypeOK, QueueShrinks
<1>8. CASE LeaseEnds(c)
  <2>1. {Key(c)} \in SUBSET Items
    BY DEF Key, TypeOK, Items
  <2>2. StreamsStay
    <3>1. CASE leases[Key(c)] = c
      BY <1>5, <1>8, <2>1, <3>1 DEF LeaseEnds
    <3>2. CASE leases[Key(c)] # c
      BY <1>8, <3>2 DEF LeaseEnds, TypeOK
    <3> QED
      BY <3>1, <3>2
  <2> QED
    BY <1>8, <2>2 DEF LeaseEnds, QueueShrinks
<1>9. ASSUME NEW p \in Peers \cup {None}, NEW e \in Epochs \cup {None},
             NEW at \in Peers \cup {None}, Disconnect(c, p, e, at)
      PROVE  StreamsStay /\ UNCHANGED <<sessions, pinned, pending, answer>>
  <2>1. PICK i \in Items : StartTeardown(c, {i})
    <3> DEFINE Match == {l \in Links : leases[l] # None /\ (l[2] = e \/ l[1] = at)}
    <3>1. CASE Match = {}
      BY <1>9, <3>1 DEF Disconnect, Items
    <3>2. CASE Match # {}
      <4>1. PICK l \in Links : StartTeardown(c, {<<IF p = None THEN l[1] ELSE p,
                                                   IF e = None THEN l[2] ELSE e>>})
        BY <1>9, <3>2 DEF Disconnect
      <4> QED
        BY <4>1, LinkParts DEF Items
    <3> QED
      BY <3>1, <3>2
  <2> QED
    BY <1>5, <1>9, <2>1 DEF Disconnect
<1>10. CASE TeardownDrop(c)
  BY <1>0, <1>10 DEF TeardownDrop, TypeOK, QueueShrinks
<1>11. CASE TeardownForget(c)
  BY <1>11 DEF TeardownForget, TypeOK, QueueShrinks
<1>12. CASE TeardownBury(c)
  <2>1. QueueShrinks
    BY <1>12 DEF TeardownBury, QueueShrinks
  <2>2. StreamsStay
    BY <1>12 DEF TeardownBury, TypeOK
  <2> QED
    BY <1>12, <2>1, <2>2 DEF TeardownBury
<1>13. CASE TeardownSaved(c)
  <2>1. todo[c] \in SUBSET Items
    BY DEF TypeOK, Items
  <2> QED
    BY <1>5, <1>13, <2>1 DEF TeardownSaved, QueueShrinks
<1>14. ASSUME NEW e \in Epochs, EndLink(c, e)
       PROVE  StreamsStay /\ UNCHANGED <<sessions, pinned>> /\ QueueShrinks
  <2>1. QueueShrinks
    BY <1>14 DEF EndLink, QueueShrinks
  <2> QED
    BY <1>14, <2>1 DEF EndLink, TypeOK
<1>15. ASSUME NEW p \in Peers, DropRequest(c, p)
       PROVE  StreamsStay /\ Signals /\ UNCHANGED <<links, revoked, pinned>> /\ QueueShrinks
  BY <1>0, <1>15 DEF DropRequest, QueueShrinks
<1> QED
  BY <1>1, <1>2, <1>3, <1>4, <1>6, <1>7, <1>8, <1>9, <1>10, <1>11, <1>12,
     <1>13, <1>14, <1>15 DEF CallerStep, QueueShrinks

\* A step of trust moves no task and no session; it may shrink the queue.
LEMMA TrustFrame ==
    ASSUME TrustStep
    PROVE  StreamsStay /\ phase' = phase /\ peer' = peer /\ epoch' = epoch
           /\ links' = links /\ hungUp' = hungUp /\ leases' = leases
           /\ (\E p \in Peers : Unpair(p) \/ UnpairSaveFails(p)
                 \/ (revoked' = revoked /\ pinned \subseteq pinned'))
           /\ QueueShrinks
<1> USE RowsType DEF trust, queue, sessions, QueueShrinks, StreamsStay
<1>1. CASE \E p \in Peers : Pair(p) \/ PairSaveFails(p) \/ PinPeer(p) \/ GraceExpires(p)
  BY <1>1 DEF Pair, PairSaveFails, PinPeer, GraceExpires
<1>2. CASE \E p \in Peers : Unpair(p) \/ UnpairSaveFails(p)
  BY <1>2 DEF Unpair, UnpairSaveFails
<1>3. CASE \E l \in Links : ApprovalExpires(l)
  BY <1>3, LinkParts DEF ApprovalExpires
<1> QED
  BY <1>1, <1>2, <1>3 DEF TrustStep

\* A stream that steps leaves the others where they stand.
LEMMA StreamFrame ==
    ASSUME TypeOK, NEW t \in Streams, StreamStep(t)
    PROVE  /\ \A x \in Tasks \ {t} : /\ phase'[x] = phase[x]
                                     /\ peer'[x] = peer[x]
                                     /\ epoch'[x] = epoch[x]
           /\ leases' = leases /\ approved' = approved /\ graced' = graced
           /\ consent' = consent
BY DEF StreamStep, Open, Hello, LinkEnded, Refuse, LinkEndedDrop, PassGate,
       Register, RegisterRefused, Decided, TimedOut, Settle, PeerVanishes,
       AcceptFails, Serve, HangUp, CutOff, PeerLeaves, EndSession, Goto, TypeOK,
       trust, queue, sessions, Tasks

----------------------------------------------------------------------------
(* The registry.                                                           *)

\* Steps of streams keep the registry exact: the one listed is the one served,
\* and a session that lost its row has been signalled.
LEMMA StreamRegistry ==
    ASSUME TypeOK, RegistryExact, NEW t \in Streams, StreamStep(t)
    PROVE  RegistryExact'
<1> USE LinkAssumption DEF TypeOK, KeysKnown, RegistryExact, Tasks, Goto, sessions
<1>1. ASSUME NEW p \in Peers, Open(t, p) PROVE RegistryExact'
  BY <1>1 DEF Open
<1>2. ASSUME NEW e \in Epochs \cup {None}, Hello(t, e) PROVE RegistryExact'
  BY <1>2 DEF Hello
<1>3. ASSUME NEW e \in Epochs \cup {None}, LinkEnded(t, e) PROVE RegistryExact'
  BY <1>3 DEF LinkEnded, DropSession
<1>4. CASE Refuse(t) \/ PassGate(t) \/ RegisterRefused(t) \/ Decided(t) \/ AcceptFails(t)
  BY <1>4 DEF Refuse, PassGate, RegisterRefused, Decided, AcceptFails
<1>5. CASE LinkEndedDrop(t)
  BY <1>5 DEF LinkEndedDrop, DropSession
<1>6. CASE Register(t) \/ TimedOut(t)
  BY <1>6 DEF Register, TimedOut
<1>7. CASE Settle(t) \/ PeerVanishes(t)
  BY <1>7 DEF Settle, PeerVanishes
<1>8. CASE Serve(t)
  <2>1. peer[t] \in Peers /\ links' = [links EXCEPT ![peer[t]] = t]
        /\ phase'[t] = "serving" /\ peer' = peer
    BY <1>8 DEF Serve
  <2>2. \A s \in Streams \ {t} : hungUp[s] \/ links[peer[t]] = s => hungUp'[s]
    BY <1>8 DEF Serve
  <2>3. \A s \in Streams : s # t => phase'[s] = phase[s]
    BY <1>8 DEF Serve
  <2>4. \A p \in Peers : links[p] # t
    BY <1>8 DEF Serve
  <2>5. \A p \in Peers : links'[p] # None =>
           phase'[links'[p]] = "serving" /\ peer'[links'[p]] = p
    BY <2>1, <2>3, <2>4
  <2>6. \A s \in Streams : phase'[s] = "serving" => hungUp'[s] \/ links'[peer'[s]] = s
    <3> SUFFICES ASSUME NEW s \in Streams \ {t}, phase[s] = "serving"
                 PROVE  hungUp'[s] \/ links'[peer[s]] = s
      BY <2>1, <2>3
    <3>1. CASE peer[s] = peer[t]
      BY <2>2, <3>1
    <3>2. CASE peer[s] # peer[t]
      BY <2>1, <2>2, <3>2
    <3> QED
      BY <3>1, <3>2
  <2> QED
    BY <2>5, <2>6
<1>9. CASE HangUp(t) \/ CutOff(t) \/ PeerLeaves(t)
  BY <1>9 DEF HangUp, CutOff, PeerLeaves, EndSession
<1> QED
  BY <1>1, <1>2, <1>3, <1>4, <1>5, <1>6, <1>7, <1>8, <1>9 DEF StreamStep

\* A session is listed exactly while it runs unsignalled or until it ends: no
\* session of a peer can escape a hang-up, whatever streams and callers do.
THEOREM RegistryAlwaysExact == Spec => []RegistryExact
<1>1. Init => RegistryExact
  BY LinkAssumption DEF Init, RegistryExact, Tasks
<1>2. TypeOK /\ RegistryExact /\ [Next]_vars => RegistryExact'
  <2> SUFFICES ASSUME TypeOK, RegistryExact, [Next]_vars PROVE RegistryExact'
    OBVIOUS
  <2>1. ASSUME NEW t \in Streams, StreamStep(t) PROVE RegistryExact'
    BY <2>1, StreamRegistry
  <2>2. CASE TrustStep
    BY <2>2, TrustFrame DEF RegistryExact
  <2>3. CASE AppArrives
    BY <2>3 DEF AppArrives, sessions, RegistryExact
  <2>4. ASSUME NEW c \in Callers, CallerStep(c) PROVE RegistryExact'
    <3>1. links' = links /\ StreamsStay /\ \A t \in Streams : hungUp[t] => hungUp'[t]
      BY <2>4, CallerFrame
    <3> QED
      BY <3>1, LinkAssumption DEF RegistryExact, TypeOK, StreamsStay
  <2>5. CASE Restart
    BY <2>5, LinkAssumption DEF Restart, RegistryExact, Tasks
  <2>6. CASE UNCHANGED vars
    BY <2>6 DEF vars, sessions, RegistryExact
  <2> QED
    BY <2>1, <2>2, <2>3, <2>4, <2>5, <2>6 DEF Next
<1> QED
  BY <1>1, <1>2, TypeCorrect, PTL DEF Spec
----------------------------------------------------------------------------
(* The approval queue.                                                     *)

\* Rows that go take the open channel of their waiters with them.
LEMMA RemoveRowsExact ==
    ASSUME TypeOK, QueueExact, NEW Gone \in SUBSET Links, RemoveRows(Gone)
    PROVE  /\ \A t \in Streams, l \in Links : pending'[l] = t => pending[l] = t /\ l \notin Gone
           /\ \A t \in Streams : phase[t] = "waiting" /\ answer'[t] = "open"
                                   => pending'[Key(t)] = t
<1>1. \A t \in Streams, l \in Links : pending'[l] = t => pending[l] = t /\ l \notin Gone
  BY LinkAssumption DEF RemoveRows
<1>2. ASSUME NEW t \in Streams, phase[t] = "waiting", answer'[t] = "open"
      PROVE  pending'[Key(t)] = t
  <2>1. Key(t) \in Links
    BY <1>2 DEF Links, Key, TypeOK, KeysKnown
  <2>2. answer[t] = "open" /\ \A l \in Gone : pending[l] # t
    BY <1>2 DEF RemoveRows
  <2>3. pending[Key(t)] = t
    BY <1>2, <2>2 DEF QueueExact
  <2> QED
    BY <2>1, <2>2, <2>3 DEF RemoveRows
<1> QED
  BY <1>1, <1>2

\* A queue that shrinks while the streams stay keeps rows and waiters matched.
LEMMA QueueShrinksExact ==
    ASSUME TypeOK, QueueExact, StreamsStay, QueueShrinks
    PROVE  QueueExact'
<1>0. \A t \in Streams : phase'[t] = phase[t] /\ Key(t)' = Key(t)
  BY DEF StreamsStay, Key
<1>1. CASE UNCHANGED <<pending, answer>>
  BY <1>0, <1>1 DEF QueueExact
<1>2. ASSUME NEW Gone \in SUBSET Links, RemoveRows(Gone) PROVE QueueExact'
  <2>1. \A t \in Streams, l \in Links : pending'[l] = t => pending[l] = t
    BY <1>2, RemoveRowsExact
  <2>2. \A t \in Streams : phase[t] = "waiting" /\ answer'[t] = "open"
                             => pending'[Key(t)] = t
    BY <1>2, RemoveRowsExact
  <2> QED
    BY <1>0, <2>1, <2>2 DEF QueueExact
<1>3. ASSUME NEW l \in Links, NEW a \in {"yes", "no"}, RowAnswered(l, a)
      PROVE  QueueExact'
  <2>1. \A k \in Links : pending'[k] = IF k = l THEN None ELSE pending[k]
    BY <1>3 DEF RowAnswered, TypeOK
  <2>2. \A t \in Streams : phase[t] = "waiting" /\ answer'[t] = "open"
                             => answer[t] = "open" /\ pending[l] # t
    BY <1>3 DEF RowAnswered, TypeOK
  <2>3. \A t \in Streams : phase[t] = "waiting" => Key(t) \in Links
    BY DEF Links, Key, TypeOK, KeysKnown
  <2> QED
    BY <1>0, <2>1, <2>2, <2>3, LinkAssumption DEF QueueExact
<1> QED
  BY <1>1, <1>2, <1>3 DEF QueueShrinks

\* A stream that is not in the queue and does not enter it changes nothing there.
LEMMA QuietStream ==
    ASSUME TypeOK, QueueExact, NEW t \in Streams, StreamStep(t),
           phase[t] \notin {"waiting", "deciding"}, phase'[t] # "waiting",
           UNCHANGED <<pending, answer>>
    PROVE  QueueExact'
<1>1. \A s \in Streams \ {t} : phase'[s] = phase[s] /\ Key(s)' = Key(s)
  BY StreamFrame DEF Key, Tasks
<1>2. \A l \in Links : pending[l] # t
  BY DEF QueueExact
<1> QED
  BY <1>1, <1>2 DEF QueueExact

\* Steps of streams keep rows and waiters matched.
LEMMA StreamQueue ==
    ASSUME TypeOK, QueueExact, NEW t \in Streams, StreamStep(t)
    PROVE  QueueExact'
<1> USE LinkAssumption DEF TypeOK, KeysKnown, QueueExact, Key, Tasks, Goto, queue, sessions
<1>1. CASE phase[t] \notin {"waiting", "deciding"} /\ phase'[t] # "waiting"
             /\ UNCHANGED <<pending, answer>>
  BY <1>1, QuietStream
<1>2. ASSUME NEW e \in Epochs \cup {None}, LinkEnded(t, e)
      PROVE  phase[t] = "hello" /\ phase'[t] \in {"idle", "saving"}
             /\ UNCHANGED <<pending, answer>>
  BY <1>2 DEF LinkEnded
<1>3. ASSUME NEW e \in Epochs \cup {None}, Hello(t, e)
      PROVE  phase[t] = "hello" /\ phase'[t] \in {"accepting", "gated"}
             /\ UNCHANGED <<pending, answer>>
  BY <1>3 DEF Hello
<1>4. CASE (\E p \in Peers : Open(t, p)) \/ Refuse(t) \/ PassGate(t)
           \/ RegisterRefused(t) \/ AcceptFails(t) \/ LinkEndedDrop(t) \/ Serve(t)
  <2>1. phase[t] \in {"idle", "hello", "gated", "accepting", "saving"}
        /\ phase'[t] # "waiting" /\ UNCHANGED <<pending, answer>>
    BY <1>4 DEF Open, Refuse, PassGate, RegisterRefused, AcceptFails,
                LinkEndedDrop, Serve
  <2> QED
    BY <2>1, QuietStream
<1>5. CASE Register(t)
  <2>1. Key(t) \in Links /\ pending[Key(t)] = None /\ phase[t] = "gated"
    BY <1>5 DEF Register, Links
  <2>2. pending' = [pending EXCEPT ![Key(t)] = t] /\ answer' = [answer EXCEPT ![t] = "open"]
        /\ phase' = [phase EXCEPT ![t] = "waiting"] /\ peer' = peer /\ epoch' = epoch
    BY <1>5 DEF Register
  <2>3. \A l \in Links : pending[l] # t
    BY <2>1
  <2> QED
    BY <2>1, <2>2, <2>3
<1>6. CASE Decided(t) \/ TimedOut(t)
  BY <1>6 DEF Decided, TimedOut
<1>7. CASE Settle(t) \/ PeerVanishes(t)
  <2>1. Key(t) \in Links
    BY <1>7 DEF Settle, PeerVanishes, Links
  <2>2. \A l \in Links : pending'[l] # t
    BY <1>7, <2>1 DEF Settle, PeerVanishes, RemoveRows
  <2>3. phase'[t] \notin {"waiting", "deciding"} /\ peer' = peer /\ epoch' = epoch
        /\ \A s \in Streams \ {t} : phase'[s] = phase[s]
    BY <1>7 DEF Settle, PeerVanishes
  <2>4. RemoveRows({Key(t)})
    BY <1>7 DEF Settle, PeerVanishes
  <2>5. \A s \in Streams, l \in Links : pending'[l] = s => pending[l] = s
    BY <2>1, <2>4, RemoveRowsExact
  <2>6. \A s \in Streams : phase[s] = "waiting" /\ answer'[s] = "open"
                             => pending'[Key(s)] = s
    BY <2>1, <2>4, RemoveRowsExact
  <2> QED
    BY <2>2, <2>3, <2>5, <2>6
<1>8. CASE HangUp(t) \/ CutOff(t) \/ PeerLeaves(t)
  BY <1>8 DEF HangUp, CutOff, PeerLeaves, EndSession
<1> QED
  BY <1>1, <1>2, <1>3, <1>4, <1>5, <1>6, <1>7, <1>8 DEF StreamStep

\* No request that nobody waits on, and no waiter that nobody can answer.
THEOREM QueueAlwaysExact == Spec => []QueueExact
<1>1. Init => QueueExact
  BY LinkAssumption DEF Init, QueueExact, Tasks
<1>2. TypeOK /\ QueueExact /\ [Next]_vars => QueueExact'
  <2> SUFFICES ASSUME TypeOK, QueueExact, [Next]_vars PROVE QueueExact'
    OBVIOUS
  <2>1. CASE AppArrives
    BY <2>1 DEF AppArrives, queue, QueueExact, Key
  <2>2. CASE Restart
    BY <2>2, LinkAssumption DEF Restart, QueueExact, Tasks
  <2>3. CASE UNCHANGED vars
    BY <2>3 DEF vars, queue, QueueExact, Key
  <2> QED
    BY <2>1, <2>2, <2>3, StreamQueue, TrustFrame, CallerFrame, QueueShrinksExact
    DEF Next
<1> QED
  BY <1>1, <1>2, TypeCorrect, PTL DEF Spec
----------------------------------------------------------------------------
(* Consent.                                                                *)

\* A caller that steps: consents and what rests on them grow together.
LEMMA CallerConsent ==
    ASSUME TypeOK, QueueExact, ConsentBasis, NEW c \in Callers, CallerStep(c)
    PROVE  ConsentBasis' /\ consent \subseteq consent'
<1> USE LinkAssumption
<1>1. StreamsStay /\ \A t \in Streams : Key(t)' = Key(t)
  BY CallerFrame DEF StreamsStay, Key
<1> DEFINE NewYes == \A t \in Streams : phase[t] \in {"waiting", "deciding"}
                       /\ answer'[t] = "yes" => answer[t] = "yes"
           Kept == \A x \in Callers \ {c} :
                      phase'[x] = phase[x] /\ Key(x)' = Key(x)
<1>2. ASSUME approved' \subseteq approved, graced' = graced, consent \subseteq consent',
             \A l \in Links : leases'[l] # None => leases[l] # None \/ l \in consent',
             NewYes, Kept, phase'[c] # "grant"
      PROVE  ConsentBasis'
  BY <1>1, <1>2 DEF ConsentBasis, StreamsStay
<1>3. ASSUME NEW Gone, RemoveRows(Gone) PROVE NewYes
  BY <1>3 DEF RemoveRows, TypeOK
<1>4. ASSUME NEW items \in SUBSET Items, StartTeardown(c, items)
      PROVE  Kept /\ phase'[c] # "grant"
  BY <1>4, StartTeardownStep DEF Key, Tasks
<1> USE DEF Goto, trust, queue, sessions
<1>5. ASSUME NEW l \in Links, Approve(c, l)
      PROVE  ConsentBasis' /\ consent \subseteq consent'
  <2>1. CASE phase[pending[l]] = "waiting"
    <3>1. Kept /\ Key(c)' = l
      BY <1>5, LinkParts DEF Approve, Key, TypeOK, Tasks
    <3>2. consent' = consent \cup {l} /\ answer' = [answer EXCEPT ![pending[l]] = "yes"]
          /\ phase' = [phase EXCEPT ![c] = "grant"]
          /\ UNCHANGED <<approved, graced, leases>>
      BY <1>5, <2>1 DEF Approve
    <3>3. Key(pending[l]) = l
      BY <1>5 DEF Approve, QueueExact, TypeOK
    <3>4. \A t \in Streams : phase[t] \in {"waiting", "deciding"} /\ answer'[t] = "yes"
                               => Key(t) \in consent'
      BY <3>2, <3>3 DEF ConsentBasis, TypeOK
    <3>5. \A x \in Callers : phase'[x] = "grant" => Key(x)' \in consent'
      BY <3>1, <3>2 DEF ConsentBasis
    <3> QED
      BY <1>1, <3>2, <3>4, <3>5 DEF ConsentBasis, StreamsStay
  <2>2. CASE phase[pending[l]] # "waiting"
    <3>1. Kept /\ phase'[c] # "grant" /\ NewYes
      BY <1>5, <2>2 DEF Approve, Key, TypeOK, Tasks
    <3> QED
      BY <1>2, <1>5, <2>2, <3>1 DEF Approve
  <2> QED
    BY <2>1, <2>2
<1>6. ASSUME NEW l \in Links, Deny(c, l)
      PROVE  ConsentBasis' /\ consent \subseteq consent'
  <2>1. NewYes /\ Kept /\ phase'[c] # "grant"
    BY <1>6 DEF Deny, TypeOK, Key
  <2> QED
    BY <1>2, <1>6, <2>1 DEF Deny
<1>7. ASSUME NEW l \in Links, LeaseBegin(c, l)
      PROVE  ConsentBasis' /\ consent \subseteq consent'
  <2>1. NewYes /\ Kept /\ phase'[c] # "grant"
    BY <1>7 DEF LeaseBegin, TypeOK, Key, Tasks
  <2>2. \A k \in Links : leases'[k] # None => leases[k] # None \/ k \in consent'
    BY <1>7 DEF LeaseBegin, TypeOK
  <2> QED
    BY <1>2, <1>7, <2>1, <2>2 DEF LeaseBegin
<1>8. CASE Grant(c)
  <2>1. Key(c) \in consent /\ approved' = approved \cup {Key(c)}
    BY <1>8 DEF Grant, ConsentBasis
  <2>2. Kept /\ phase'[c] # "grant"
    BY <1>8 DEF Grant, TypeOK, Key, Tasks
  <2> QED
    BY <1>1, <1>8, <2>1, <2>2 DEF Grant, ConsentBasis, StreamsStay
<1>9. CASE AppGone(c)
  <2>1. {<<p, epoch[links[p]]>> : p \in {q \in Peers : links[q] # None}} \in SUBSET Items
    BY DEF TypeOK, Items, Tasks
  <2> QED
    BY <1>2, <1>4, <1>9, <2>1 DEF AppGone
<1>10. CASE LeaseReplied(c) \/ LeaseReplyFails(c)
  <2>1. NewYes /\ Kept /\ phase'[c] # "grant"
    BY <1>10 DEF LeaseReplied, LeaseReplyFails, TypeOK, Key, Tasks
  <2> QED
    BY <1>2, <1>10, <2>1 DEF LeaseReplied, LeaseReplyFails
<1>11. CASE LeaseEnds(c)
  <2>1. {Key(c)} \in SUBSET Items
    BY DEF Key, TypeOK, Items, Tasks
  <2>2. CASE leases[Key(c)] = c
    <3>1. \A l \in Links : leases'[l] # None => leases[l] # None
      BY <1>11, <2>2 DEF LeaseEnds, TypeOK
    <3> QED
      BY <1>2, <1>4, <1>11, <2>1, <2>2, <3>1 DEF LeaseEnds
  <2>3. CASE leases[Key(c)] # c
    <3>1. Kept /\ phase'[c] # "grant"
      BY <1>11, <2>3 DEF LeaseEnds, TypeOK, Key, Tasks
    <3> QED
      BY <1>2, <1>11, <2>3, <3>1 DEF LeaseEnds
  <2> QED
    BY <2>2, <2>3
<1>12. ASSUME NEW p \in Peers \cup {None}, NEW e \in Epochs \cup {None},
              NEW at \in Peers \cup {None}, Disconnect(c, p, e, at)
       PROVE  ConsentBasis' /\ consent \subseteq consent'
  <2> DEFINE Match == {l \in Links : leases[l] # None /\ (l[2] = e \/ l[1] = at)}
  <2>1. CASE Match = {}
    <3>1. StartTeardown(c, {<<p, e>>}) /\ leases' = leases
      BY <1>12, <2>1 DEF Disconnect
    <3> QED
      BY <1>2, <1>4, <1>12, <3>1 DEF Disconnect, Items
  <2>2. CASE Match # {}
    <3>1. PICK l \in Links : /\ leases' = [leases EXCEPT ![l] = None]
                             /\ StartTeardown(c, {<<IF p = None THEN l[1] ELSE p,
                                                    IF e = None THEN l[2] ELSE e>>})
      BY <1>12, <2>2 DEF Disconnect
    <3>2. {<<IF p = None THEN l[1] ELSE p, IF e = None THEN l[2] ELSE e>>}
             \in SUBSET Items
      BY LinkParts DEF Items
    <3>3. \A k \in Links : leases'[k] # None => leases[k] # None
      BY <3>1 DEF TypeOK
    <3> QED
      BY <1>2, <1>4, <1>12, <3>1, <3>2, <3>3 DEF Disconnect
  <2> QED
    BY <2>1, <2>2
<1>13. CASE TeardownDrop(c)
  <2>1. Kept /\ phase'[c] # "grant"
    BY <1>13 DEF TeardownDrop, TypeOK, Key, Tasks
  <2> QED
    BY <1>2, <1>13, <2>1 DEF TeardownDrop
<1>14. CASE TeardownForget(c)
  <2>1. Kept /\ phase'[c] # "grant" /\ NewYes
    BY <1>3, <1>14 DEF TeardownForget, TypeOK, Key, Tasks
  <2> QED
    BY <1>2, <1>14, <2>1 DEF TeardownForget
<1>15. CASE TeardownBury(c)
  <2>1. NewYes
    BY <1>3, <1>15 DEF TeardownBury
  <2>2. Kept /\ phase'[c] # "grant"
    BY <1>15 DEF TeardownBury, TypeOK, Key, Tasks
  <2>3. approved' \subseteq approved
    BY <1>15 DEF TeardownBury
  <2> QED
    BY <1>2, <1>15, <2>1, <2>2, <2>3 DEF TeardownBury
<1>16. CASE TeardownSaved(c)
  <2>1. todo[c] \in SUBSET Items
    BY DEF TypeOK, Items
  <2> QED
    BY <1>2, <1>4, <1>16, <2>1 DEF TeardownSaved
<1>17. ASSUME NEW e \in Epochs, EndLink(c, e)
       PROVE  ConsentBasis' /\ consent \subseteq consent'
  <2>1. NewYes
    BY <1>3, <1>17 DEF EndLink
  <2>2. Kept /\ phase'[c] # "grant"
    BY <1>17 DEF EndLink, TypeOK, Key, Tasks
  <2> QED
    BY <1>2, <1>17, <2>1, <2>2 DEF EndLink
<1>18. ASSUME NEW p \in Peers, DropRequest(c, p)
       PROVE  ConsentBasis' /\ consent \subseteq consent'
  <2>1. NewYes
    BY <1>3, <1>18 DEF DropRequest
  <2>2. Kept /\ phase'[c] # "grant"
    BY <1>18 DEF DropRequest, TypeOK, Key, Tasks
  <2> QED
    BY <1>2, <1>18, <2>1, <2>2 DEF DropRequest
<1> QED
  BY <1>5, <1>6, <1>7, <1>8, <1>9, <1>10, <1>11, <1>12, <1>13, <1>14, <1>15,
     <1>16, <1>17, <1>18 DEF CallerStep

\* A stream passes the gate, or hears a yes, on a consent only.
LEMMA StreamConsent ==
    ASSUME TypeOK, ConsentBasis, OnlyConsentedLinksServe, NEW t \in Streams, StreamStep(t)
    PROVE  ConsentBasis' /\ OnlyConsentedLinksServe'
<1> USE LinkAssumption
<1>1. /\ \A s \in Streams \ {t} : phase'[s] = phase[s] /\ epoch'[s] = epoch[s]
                                  /\ Key(s)' = Key(s)
      /\ \A x \in Callers : phase'[x] = phase[x] /\ Key(x)' = Key(x)
      /\ UNCHANGED <<leases, approved, graced, consent>>
  BY StreamFrame DEF Key, Tasks
<1>2. ASSUME phase'[t] \in {"waiting", "deciding"} /\ answer'[t] = "yes"
                => Key(t)' \in consent,
             phase'[t] \in {"accepting", "serving"} /\ epoch'[t] # None
                => Key(t)' \in consent,
             \A s \in Streams \ {t} : answer'[s] = "yes" => answer[s] = "yes"
      PROVE  ConsentBasis' /\ OnlyConsentedLinksServe'
  BY <1>1, <1>2 DEF ConsentBasis, OnlyConsentedLinksServe
<1> USE DEF TypeOK, Tasks, Goto, queue, sessions
<1>3. CASE \/ \E p \in Peers : Open(t, p)
           \/ \E e \in Epochs \cup {None} : LinkEnded(t, e)
           \/ Refuse(t) \/ LinkEndedDrop(t) \/ RegisterRefused(t) \/ AcceptFails(t)
           \/ HangUp(t) \/ CutOff(t) \/ PeerLeaves(t)
  <2>1. phase'[t] \in {"hello", "idle", "saving"} /\ answer' = answer
    BY <1>3 DEF Open, LinkEnded, Refuse, LinkEndedDrop, RegisterRefused, AcceptFails,
                HangUp, CutOff, PeerLeaves, EndSession
  <2> QED
    BY <1>2, <2>1
<1>4. ASSUME NEW e \in Epochs \cup {None}, Hello(t, e)
      PROVE  ConsentBasis' /\ OnlyConsentedLinksServe'
  <2>1. /\ phase'[t] = "gated" \/ (phase'[t] = "accepting" /\ epoch'[t] = None)
        /\ answer' = answer
    BY <1>4 DEF Hello
  <2> QED
    BY <1>2, <2>1
<1>5. CASE PassGate(t)
  <2>1. Key(t) \in consent
    <3>1. Key(t) \in Links /\ Key(t) \in RowsOf(peer[t])
      BY <1>5 DEF PassGate, KeysKnown, Key, Links, RowsOf
    <3>2. CASE Key(t) \in approved \/ peer[t] \in graced
      BY <3>1, <3>2 DEF ConsentBasis
    <3>3. CASE Vouched(peer[t], epoch[t])
      <4>1. PICK l \in Links : l[2] = epoch[t] /\ leases[l] # None /\ l[1] = peer[t]
        BY <3>3 DEF Vouched, RowsAt
      <4>2. l = Key(t)
        BY <4>1, LinkParts DEF Key
      <4> QED
        BY <4>1, <4>2 DEF ConsentBasis
    <3> QED
      BY <1>5, <3>2, <3>3 DEF PassGate
  <2>2. phase'[t] = "accepting" /\ Key(t)' = Key(t) /\ answer' = answer
    BY <1>5 DEF PassGate, Key
  <2> QED
    BY <1>2, <2>1, <2>2
<1>6. CASE Register(t) \/ TimedOut(t)
  <2>1. phase'[t] \in {"waiting", "deciding"} /\ answer'[t] # "yes"
        /\ \A s \in Streams \ {t} : answer'[s] = answer[s]
    BY <1>6 DEF Register, TimedOut
  <2> QED
    BY <1>2, <2>1
<1>7. CASE Decided(t)
  <2>1. phase[t] = "waiting" /\ phase'[t] = "deciding" /\ answer' = answer /\ Key(t)' = Key(t)
    BY <1>7 DEF Decided, Key
  <2> QED
    BY <1>2, <2>1 DEF ConsentBasis
<1>8. CASE Settle(t) \/ PeerVanishes(t)
  <2>1. \A s \in Streams : answer'[s] = "yes" => answer[s] = "yes"
    BY <1>8 DEF Settle, PeerVanishes, RemoveRows
  <2>2. phase'[t] \in {"accepting", "idle"} /\ Key(t)' = Key(t)
        /\ (phase'[t] = "accepting" => phase[t] = "deciding" /\ answer[t] = "yes")
    BY <1>8 DEF Settle, PeerVanishes, Key
  <2> QED
    BY <1>2, <2>1, <2>2 DEF ConsentBasis
<1>9. CASE Serve(t)
  <2>1. phase[t] = "accepting" /\ phase'[t] = "serving" /\ answer' = answer
        /\ Key(t)' = Key(t) /\ epoch' = epoch
    BY <1>9 DEF Serve, Key
  <2> QED
    BY <1>2, <2>1 DEF OnlyConsentedLinksServe
<1> QED
  BY <1>3, <1>4, <1>5, <1>6, <1>7, <1>8, <1>9 DEF StreamStep

\* Steps of trust: a pairing is a consent to every link of the peer.
LEMMA TrustConsent ==
    ASSUME TypeOK, ConsentBasis, TrustStep
    PROVE  ConsentBasis' /\ consent \subseteq consent'
<1>1. phase' = phase /\ peer' = peer /\ epoch' = epoch /\ leases' = leases
  BY TrustFrame
<1>2. /\ consent \subseteq consent' /\ approved' \subseteq approved
      /\ \A p \in graced' : p \in graced \/ RowsOf(p) \subseteq consent'
      /\ \A t \in Streams : answer'[t] = "yes" => answer[t] = "yes"
  BY DEF TrustStep, Pair, PairSaveFails, PinPeer, GraceExpires, Unpair, UnpairSaveFails,
         ApprovalExpires, RemoveRows, TypeOK, trust, queue
<1> QED
  BY <1>1, <1>2 DEF ConsentBasis, Key

\* No epoch is served that this person has not allowed for this very peer,
\* whatever the streams, the callers and the failures.
THEOREM ServedLinksConsented == Spec => [](ConsentBasis /\ OnlyConsentedLinksServe)
<1> DEFINE Inv == ConsentBasis /\ OnlyConsentedLinksServe
<1>1. Init => Inv
  BY LinkAssumption DEF Init, ConsentBasis, OnlyConsentedLinksServe, Tasks
<1>2. TypeOK /\ QueueExact /\ Inv /\ [Next]_vars => Inv'
  <2> SUFFICES ASSUME TypeOK, QueueExact, Inv, [Next]_vars PROVE Inv'
    OBVIOUS
  <2>1. ASSUME NEW t \in Streams, StreamStep(t) PROVE Inv'
    BY <2>1, StreamConsent
  <2>2. CASE TrustStep
    <3>1. phase' = phase /\ peer' = peer /\ epoch' = epoch
      BY <2>2, TrustFrame
    <3> QED
      BY <2>2, <3>1, TrustConsent DEF OnlyConsentedLinksServe, Key
  <2>3. CASE AppArrives
    BY <2>3 DEF AppArrives, queue, ConsentBasis, OnlyConsentedLinksServe, Key
  <2>4. ASSUME NEW c \in Callers, CallerStep(c) PROVE Inv'
    <3>1. StreamsStay
      BY <2>4, CallerFrame
    <3> QED
      BY <2>4, <3>1, CallerConsent DEF OnlyConsentedLinksServe, StreamsStay, Key
  <2>5. CASE Restart
    BY <2>5, LinkAssumption DEF Restart, ConsentBasis, OnlyConsentedLinksServe, Tasks
  <2>6. CASE UNCHANGED vars
    BY <2>6 DEF vars, queue, ConsentBasis, OnlyConsentedLinksServe, Key
  <2> QED
    BY <2>1, <2>2, <2>3, <2>4, <2>5, <2>6 DEF Next
<1> QED
  BY <1>1, <1>2, TypeCorrect, QueueAlwaysExact, PTL DEF Spec
\* Whatever may let a stream through the gate later goes back to a consent to this
\* very link.
THEOREM ConsentAlwaysHasABasis == Spec => []ConsentBasis
<1>1. ConsentBasis /\ OnlyConsentedLinksServe => ConsentBasis
  OBVIOUS
<1> QED
  BY <1>1, ServedLinksConsented, PTL
----------------------------------------------------------------------------
(* Revocation.                                                             *)

\* An unpairing reaches every stream past the trust check, provided that no
\* machine has a second identity (retire_ghost_identities unpins without a
\* broadcast) and the book can be saved (a failed save unpins without one).
THEOREM RevocationAlwaysReaches ==
    ASSUME \A p \in Peers : Ghosts[p] = {}, "save" \notin Faults
    PROVE  Spec => []RevocationReaches
<1> DEFINE Trusted == {"gated", "waiting", "deciding", "accepting", "serving"}
<1>1. Init => RevocationReaches
  BY LinkAssumption DEF Init, RevocationReaches, Tasks
<1>2. TypeOK /\ RevocationReaches /\ [Next]_vars => RevocationReaches'
  <2> SUFFICES ASSUME TypeOK, RevocationReaches, [Next]_vars PROVE RevocationReaches'
    OBVIOUS
  <2> USE LinkAssumption
  <2>1. ASSUME NEW t \in Streams, StreamStep(t) PROVE RevocationReaches'
    <3>1. \A s \in Streams \ {t} : phase'[s] = phase[s] /\ peer'[s] = peer[s]
      BY <2>1, StreamFrame DEF Tasks
    <3>2. CASE \E p \in Peers : Open(t, p)
      BY <3>1, <3>2
      DEF Open, Goto, trust, RevocationReaches, TypeOK, Tasks
    <3>3. CASE \E e \in Epochs \cup {None} : LinkEnded(t, e)
      <4>1. phase'[t] \in {"idle", "saving"} /\ UNCHANGED <<pinned, revoked>>
        BY <3>3 DEF LinkEnded, Goto, trust, TypeOK, Tasks
      <4> QED
        BY <3>1, <4>1 DEF RevocationReaches
    <3>4. CASE \E e \in Epochs \cup {None} : Hello(t, e)
      <4>1. peer[t] \in pinned /\ peer' = peer /\ UNCHANGED <<pinned, revoked>>
        BY <3>4 DEF Hello, trust, sessions
      <4> QED
        BY <3>1, <4>1 DEF RevocationReaches
    <3>5. CASE Serve(t)
      <4>1. pinned' = pinned /\ revoked' = revoked /\ peer' = peer /\ phase[t] = "accepting"
        BY <3>5 DEF Serve, TypeOK, KeysKnown
      <4> QED
        BY <3>1, <4>1 DEF RevocationReaches
    <3>6. CASE \/ Refuse(t) \/ LinkEndedDrop(t) \/ PassGate(t) \/ Register(t)
               \/ RegisterRefused(t) \/ Decided(t) \/ TimedOut(t) \/ Settle(t)
               \/ PeerVanishes(t) \/ AcceptFails(t) \/ HangUp(t) \/ CutOff(t)
               \/ PeerLeaves(t)
      <4>1. /\ peer' = peer /\ pinned' = pinned /\ revoked' = revoked
            /\ phase[t] \in Trusted \/ phase'[t] = "idle"
        BY <3>6 DEF Refuse, LinkEndedDrop, PassGate, Register, RegisterRefused, Decided,
                    TimedOut, Settle, PeerVanishes, AcceptFails, HangUp, CutOff,
                    PeerLeaves, EndSession, Goto, trust, sessions, TypeOK, Tasks
      <4> QED
        BY <3>1, <4>1 DEF RevocationReaches
    <3> QED
      BY <2>1, <3>2, <3>3, <3>4, <3>5, <3>6 DEF StreamStep
  <2>2. CASE TrustStep
    <3>1. phase' = phase /\ peer' = peer
      BY <2>2, TrustFrame
    <3>2. CASE \E p \in Peers : Unpair(p)
      <4>1. PICK p \in Peers : /\ pinned' = pinned \ {p}
                               /\ \A t \in Streams : revoked[t] => revoked'[t]
                               /\ \A t \in Streams : phase[t] # "idle" /\ peer[t] = p
                                                        => revoked'[t]
        BY <3>2 DEF Unpair
      <4>2. ASSUME NEW t \in Streams, phase[t] \in Trusted, peer[t] \notin pinned'
            PROVE  revoked'[t]
        <5>1. CASE peer[t] = p
          BY <4>1, <4>2, <5>1
        <5>2. CASE peer[t] # p
          BY <4>1, <4>2, <5>2 DEF RevocationReaches
        <5> QED
          BY <5>1, <5>2
      <4> QED
        BY <3>1, <4>2 DEF RevocationReaches
    <3>3. CASE ~ \E p \in Peers : Unpair(p)
      <4>1. revoked' = revoked /\ pinned \subseteq pinned'
        BY <2>2, <3>3, TrustFrame DEF UnpairSaveFails
      <4> QED
        BY <3>1, <4>1 DEF RevocationReaches
    <3> QED
      BY <3>2, <3>3
  <2>3. CASE AppArrives
    BY <2>3 DEF AppArrives, sessions, RevocationReaches
  <2>4. ASSUME NEW c \in Callers, CallerStep(c) PROVE RevocationReaches'
    <3>1. StreamsStay /\ revoked' = revoked /\ pinned' = pinned
      BY <2>4, CallerFrame
    <3> QED
      BY <3>1 DEF StreamsStay, RevocationReaches
  <2>5. CASE Restart
    BY <2>5 DEF Restart, RevocationReaches, Tasks
  <2>6. CASE UNCHANGED vars
    BY <2>6 DEF vars, trust, sessions, RevocationReaches
  <2> QED
    BY <2>1, <2>2, <2>3, <2>4, <2>5, <2>6 DEF Next
<1> QED
  BY <1>1, <1>2, TypeCorrect, PTL DEF Spec
=============================================================================
