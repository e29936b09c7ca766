--------------------------- MODULE Desktop_proofs ---------------------------
(***************************************************************************)
(* Two computers with the app on each: what a child may be linked on, for  *)
(* any epochs, children and budget of faults, wherever a round of the poll *)
(* loop or a Disconnect is overtaken by the other threads.                 *)
(*                                                                         *)
(* The inductive invariant says where consent goes: a child is on a link   *)
(* that the person at its own computer consented to, whatever task         *)
(* launched it, and is let in on one that both did; approvals, leases and  *)
(* what the app's loops remember are consented links too.  Most steps only *)
(* end children (Keeps), so they are proved together.                      *)
(***************************************************************************)
EXTENDS Desktop, TLAPS

Own(m) == consent[m] \cup {None}

\* A child between a step's two states: reaped, or still on its link, neither
\* newly linked nor newly launched.
Keeps(old, new) ==
    \/ new = NoKid
    \/ /\ new.e = old.e
       /\ new.ph = "linked" => old.ph = "linked"
       /\ new.ph = "new" => old.ph = "new"
       /\ new.ph = "none" <=> old.ph = "none"

\* There are two computers.
LEMMA TwoMachines ==
    ASSUME NEW m \in Machines
    PROVE  /\ Peer(m) \in Machines /\ Peer(m) # m
           /\ \A n \in Machines : n = m \/ n = Peer(m)
           /\ Peer(Peer(m)) = m
<1>1. \A n \in Machines : Peer(n) \in Machines /\ Peer(n) # n
  BY DesktopAssumption DEF Peer
<1>2. \A n, o \in Machines : n = o \/ n = Peer(o)
  BY <1>1, DesktopAssumption
<1> QED
  BY <1>1, <1>2

LEMMA NoKidRecord == NoKid \in Record /\ NoKid.e = None /\ NoKid.ph = "none" /\ NoKid.by = None
BY DEF NoKid, Record

\* A child that changes its phase, or a field, and nothing else.
LEMMA Phase ==
    ASSUME NEW r \in Record, NEW x \in {"none", "new", "dialing", "asking", "linked", "dead"}
    PROVE  /\ [r EXCEPT !.ph = x] \in Record
           /\ [r EXCEPT !.ph = x].ph = x /\ [r EXCEPT !.ph = x].e = r.e
           /\ [r EXCEPT !.ph = x].by = r.by
BY DEF Record

LEMMA Fields ==
    ASSUME NEW r \in Record
    PROVE  /\ \A x \in Epochs \cup {None} :
                /\ [r EXCEPT !.word = x] \in Record /\ [r EXCEPT !.word = x].ph = r.ph
                /\ [r EXCEPT !.word = x].e = r.e /\ [r EXCEPT !.word = x].by = r.by
           /\ [r EXCEPT !.by = None] \in Record /\ [r EXCEPT !.by = None].ph = r.ph
           /\ [r EXCEPT !.by = None].e = r.e /\ [r EXCEPT !.by = None].by = None
           /\ [r EXCEPT !.leased = TRUE] \in Record /\ [r EXCEPT !.leased = TRUE].ph = r.ph
           /\ [r EXCEPT !.leased = TRUE].e = r.e /\ [r EXCEPT !.leased = TRUE].by = r.by
BY DEF Record

\* What a child keeps as it exits: it is dead, on the link it had.
LEMMA ExitedChild ==
    ASSUME NEW r \in Record
    PROVE  /\ Exited(r) \in Record /\ Exited(r).ph = "dead" /\ Exited(r).e = r.e
           /\ Exited(r).by = r.by
           /\ Ended(r) \in Record /\ Ended(r).ph = "dead" /\ Ended(r).e = r.e
           /\ Ended(r).by = r.by
<1> DEFINE q == [r EXCEPT !.ph = "dead"]
<1>1. q \in Record /\ q.ph = "dead" /\ q.e = r.e /\ q.by = r.by /\ r.e \in Epochs \cup {None}
  BY Phase DEF Record
<1>2. Exited(r) = [q EXCEPT !.word = None] /\ Ended(r) = [q EXCEPT !.word = r.e]
  BY DEF Exited, Ended
<1> HIDE DEF q
<1>3. /\ [q EXCEPT !.word = None] \in Record /\ [q EXCEPT !.word = None].ph = q.ph
      /\ [q EXCEPT !.word = None].e = q.e /\ [q EXCEPT !.word = None].by = q.by
  BY <1>1 DEF Record
<1>4. /\ [q EXCEPT !.word = r.e] \in Record /\ [q EXCEPT !.word = r.e].ph = q.ph
      /\ [q EXCEPT !.word = r.e].e = q.e /\ [q EXCEPT !.word = r.e].by = q.by
  BY <1>1 DEF Record
<1> QED
  BY <1>1, <1>2, <1>3, <1>4

\* A child dials, or is let in.
LEMMA EnteredChild ==
    ASSUME NEW r \in Record
    PROVE  LET a == [r EXCEPT !.ph = "dialing", !.by = None]
               b == [r EXCEPT !.ph = "linked", !.leased = TRUE]
           IN  /\ a \in Record /\ a.ph = "dialing" /\ a.e = r.e /\ a.by = None
               /\ b \in Record /\ b.ph = "linked" /\ b.e = r.e /\ b.by = r.by
<1> DEFINE p == [r EXCEPT !.ph = "dialing"]
           q == [r EXCEPT !.ph = "linked"]
<1>1. /\ p \in Record /\ p.ph = "dialing" /\ p.e = r.e
      /\ q \in Record /\ q.ph = "linked" /\ q.e = r.e /\ q.by = r.by
  BY Phase
<1>2. /\ [r EXCEPT !.ph = "dialing", !.by = None] = [p EXCEPT !.by = None]
      /\ [r EXCEPT !.ph = "linked", !.leased = TRUE] = [q EXCEPT !.leased = TRUE]
  OBVIOUS
<1> HIDE DEF p, q
<1>3. /\ [p EXCEPT !.by = None] \in Record /\ [p EXCEPT !.by = None].ph = p.ph
      /\ [p EXCEPT !.by = None].e = p.e /\ [p EXCEPT !.by = None].by = None
  BY <1>1 DEF Record
<1>4. /\ [q EXCEPT !.leased = TRUE] \in Record /\ [q EXCEPT !.leased = TRUE].ph = q.ph
      /\ [q EXCEPT !.leased = TRUE].e = q.e /\ [q EXCEPT !.leased = TRUE].by = q.by
  BY <1>1 DEF Record
<1> QED
  BY <1>1, <1>2, <1>3, <1>4

\* stop_session, and a link that is declined, only end children.
LEMMA StoppedKeeps ==
    ASSUME NEW m \in Machines, kid \in [Machines -> [Kids -> Record]]
    PROVE  /\ Stopped(m) \in [Kids -> Record]
           /\ \A k \in Kids : Keeps(kid[m][k], Stopped(m)[k]) /\ (k # slot[m] => Stopped(m)[k] = kid[m][k])
BY NoKidRecord DEF Stopped, Keeps

LEMMA DeclinedKeeps ==
    ASSUME NEW n \in Machines, kid \in [Machines -> [Kids -> Record]], NEW gone
    PROVE  /\ Declined(n, gone) \in [Kids -> Record]
           /\ \A k \in Kids : Keeps(kid[n][k], Declined(n, gone)[k])
                              /\ (Declined(n, gone)[k].ph = "none" => kid[n][k].ph = "none")
<1> SUFFICES ASSUME NEW k \in Kids
             PROVE  LET new == IF kid[n][k].ph = "asking" /\ kid[n][k].e \in gone
                               THEN Exited(kid[n][k]) ELSE kid[n][k]
                    IN  /\ new \in Record /\ Keeps(kid[n][k], new)
                        /\ new.ph = "none" => kid[n][k].ph = "none"
  BY DEF Declined
<1>1. kid[n][k] \in Record
  OBVIOUS
<1>2. CASE kid[n][k].ph = "asking" /\ kid[n][k].e \in gone
  BY <1>1, <1>2, ExitedChild DEF Keeps
<1>3. CASE ~(kid[n][k].ph = "asking" /\ kid[n][k].e \in gone)
  BY <1>1, <1>3 DEF Keeps
<1> QED
  BY <1>2, <1>3

KidInv ==
    /\ kid \in [Machines -> [Kids -> Record]]
    /\ slot \in [Machines -> Kids \cup {None}]
    /\ \A m \in Machines : slot[m] # None => kid[m][slot[m]].ph \notin {"none", "new"}
    /\ \A m \in Machines, k \in Kids :
        /\ kid[m][k].e \in Own(m)
        /\ kid[m][k].e = None => kid[m][k].ph = "none"
        /\ kid[m][k].ph = "linked" => kid[m][k].e \in consent[Peer(m)]

\* Machine n's children keep their links, and the supervised one is not reaped.
KidsKeep(n) ==
    \A k \in Kids :
        /\ Keeps(kid[n][k], kid'[n][k])
        /\ slot'[n] = k /\ kid'[n][k].ph = "none" => kid[n][k].ph = "none"

\* KidInv holds after a step that links no child and launches none, takes no
\* consent back and leaves in the slot what was there, or nothing.
LEMMA KeepStep ==
    ASSUME KidInv, kid' \in [Machines -> [Kids -> Record]],
           slot' \in [Machines -> Kids \cup {None}],
           \A n \in Machines : KidsKeep(n),
           \A n \in Machines : \/ slot'[n] \in {slot[n], None}
                              \/ kid'[n][slot'[n]].ph \notin {"none", "new"},
           \A n \in Machines : consent[n] \subseteq consent'[n]
    PROVE  KidInv'
<1>1. ASSUME NEW m \in Machines, slot'[m] # None
      PROVE  kid'[m][slot'[m]].ph \notin {"none", "new"}
  <2> SUFFICES ASSUME slot'[m] = slot[m] PROVE kid'[m][slot'[m]].ph \notin {"none", "new"}
    BY <1>1
  <2>1. slot'[m] = slot[m] /\ slot[m] \in Kids /\ kid[m][slot[m]].ph \notin {"none", "new"}
    BY <1>1 DEF KidInv
  <2>2. kid'[m][slot[m]].ph # "none"
    BY <2>1 DEF KidsKeep
  <2>3. kid'[m][slot[m]].ph # "new"
    BY <2>1, <2>2, NoKidRecord DEF KidsKeep, Keeps
  <2> QED
    BY <2>1, <2>2, <2>3
<1>2. ASSUME NEW m \in Machines, NEW k \in Kids
      PROVE  /\ kid'[m][k].e \in consent'[m] \cup {None}
             /\ kid'[m][k].e = None => kid'[m][k].ph = "none"
             /\ kid'[m][k].ph = "linked" => kid'[m][k].e \in consent'[Peer(m)]
  <2>1. Peer(m) \in Machines
    BY TwoMachines
  <2>2. CASE kid'[m][k] = NoKid
    BY <2>2, NoKidRecord
  <2>3. CASE kid'[m][k] # NoKid
    <3>1. /\ kid'[m][k].e = kid[m][k].e
          /\ kid'[m][k].ph = "none" <=> kid[m][k].ph = "none"
          /\ kid'[m][k].ph = "linked" => kid[m][k].ph = "linked"
      BY <2>3 DEF KidsKeep, Keeps
    <3>2. /\ kid[m][k].e \in consent[m] \cup {None}
          /\ kid[m][k].e = None => kid[m][k].ph = "none"
          /\ kid[m][k].ph = "linked" => kid[m][k].e \in consent[Peer(m)]
      BY DEF KidInv, Own
    <3> QED
      BY <2>1, <3>1, <3>2
  <2> QED
    BY <2>2, <2>3
<1> QED
  BY <1>1, <1>2 DEF KidInv, Own

\* The children after a notice of the end of link e.
LEMMA NotifyKeeps ==
    ASSUME KidInv, NEW m \in Machines, NEW e \in Epochs \cup {None},
           NEW mine \in [Kids -> Record], NEW theirs \in [Kids -> Record],
           \A k \in Kids : Keeps(kid[Peer(m)][k], theirs[k])
                           /\ (theirs[k].ph = "none" => kid[Peer(m)][k].ph = "none"),
           Notify(m, e, theirs, mine)
    PROVE  /\ kid' \in [Machines -> [Kids -> Record]] /\ kid'[m] = mine
           /\ KidsKeep(Peer(m))
<1> DEFINE n == Peer(m)
<1>1. n \in Machines /\ n # m /\ kid \in [Machines -> [Kids -> Record]]
  BY TwoMachines DEF KidInv
<1>2. CASE kid' = [kid EXCEPT ![m] = mine, ![n] = theirs]
  <2>1. kid'[m] = mine /\ kid'[n] = theirs /\ kid' \in [Machines -> [Kids -> Record]]
    BY <1>1, <1>2
  <2> QED
    BY <2>1 DEF KidsKeep
<1>3. ASSUME NEW k \in Kids, theirs[k].ph = "linked",
             kid' = [kid EXCEPT ![m] = mine, ![n] = [theirs EXCEPT ![k].word = e]]
      PROVE  kid' \in [Machines -> [Kids -> Record]] /\ kid'[m] = mine /\ KidsKeep(n)
  <2>1. [theirs[k] EXCEPT !.word = e] \in Record
    BY Fields
  <2> DEFINE told == [theirs EXCEPT ![k] = [theirs[k] EXCEPT !.word = e]]
  <2>2. told \in [Kids -> Record] /\ told = [theirs EXCEPT ![k].word = e]
    BY <2>1
  <2>3. kid'[m] = mine /\ kid'[n] = told /\ kid' \in [Machines -> [Kids -> Record]]
    BY <1>1, <1>3, <2>2
  <2>4. ASSUME NEW x \in Kids
        PROVE  /\ Keeps(kid[n][x], told[x])
               /\ told[x].ph = "none" => kid[n][x].ph = "none"
    <3>1. CASE x # k
      BY <3>1
    <3>2. CASE x = k
      <4>1. told[x] = [theirs[k] EXCEPT !.word = e]
        BY <3>2
      <4>2. theirs[k] \in Record
        OBVIOUS
      <4>3. told[x].ph = theirs[k].ph /\ told[x].e = theirs[k].e /\ told[x].by = theirs[k].by
        BY <4>1, <4>2 DEF Record
      <4>4. theirs[k] # NoKid
        BY <1>3, NoKidRecord
      <4> QED
        BY <1>3, <3>2, <4>3, <4>4 DEF Keeps
    <3> QED
      BY <3>1, <3>2
  <2> QED
    BY <2>3, <2>4 DEF KidsKeep
<1> QED
  BY <1>2, <1>3 DEF Notify

\* The same of a hang-up and of the end of a daemon's stream, at the peer.
LEMMA HangupKeeps ==
    ASSUME KidInv, NEW m \in Machines, NEW e \in Epochs \cup {None}, NEW fingerprint,
           NEW mine \in [Kids -> Record],
           Hangup(m, e, fingerprint, mine) \/ Teardown(m, e, mine)
    PROVE  /\ kid' \in [Machines -> [Kids -> Record]] /\ kid'[m] = mine
           /\ KidsKeep(Peer(m))
<1> DEFINE n == Peer(m)
<1>1. n \in Machines /\ n # m /\ kid \in [Machines -> [Kids -> Record]]
  BY TwoMachines DEF KidInv
<1>2. CASE Teardown(m, e, mine)
  <2>1. Notify(m, e, Declined(n, Epochs), mine)
    BY <1>2 DEF Teardown
  <2> QED
    BY <1>1, <2>1, DeclinedKeeps, NotifyKeeps
<1>3. CASE TeardownBlind(m, e, mine)
  <2>1. kid' = [kid EXCEPT ![m] = mine, ![n] = Declined(n, {e})]
    BY <1>3 DEF TeardownBlind
  <2>2. Declined(n, {e}) \in [Kids -> Record]
    BY <1>1, DeclinedKeeps
  <2>3. kid'[m] = mine /\ kid'[n] = Declined(n, {e}) /\ kid' \in [Machines -> [Kids -> Record]]
    BY <1>1, <2>1, <2>2
  <2> QED
    BY <1>1, <2>3, DeclinedKeeps DEF KidsKeep
<1> QED
  BY <1>2, <1>3 DEF Hangup

\* A step that changes no child, or one child of machine m to "new".
LEMMA Unmoved == ASSUME KidInv, kid' = kid, slot' = slot PROVE \A n \in Machines : KidsKeep(n)
BY DEF KidsKeep, Keeps

LEMMA OneMoves ==
    ASSUME KidInv, NEW m \in Machines, NEW k \in Kids, NEW new \in Record,
           kid' = [kid EXCEPT ![m][k] = new],
           Keeps(kid[m][k], new), new.ph # "none"
    PROVE  /\ kid' \in [Machines -> [Kids -> Record]]
           /\ \A n \in Machines : KidsKeep(n)
<1>1. kid \in [Machines -> [Kids -> Record]]
  BY DEF KidInv
<1>2. kid' \in [Machines -> [Kids -> Record]] /\ kid'[m][k] = new
  BY <1>1
<1>3. \A n \in Machines, x \in Kids : n # m \/ x # k => kid'[n][x] = kid[n][x]
  BY <1>1
<1> QED
  BY <1>2, <1>3 DEF KidsKeep, Keeps

\* The children that stop_session leaves.
LEMMA MineStopped ==
    ASSUME KidInv, NEW m \in Machines, slot'[m] = None,
           kid' \in [Machines -> [Kids -> Record]], kid'[m] = Stopped(m)
    PROVE  KidsKeep(m)
<1>1. None \notin Kids
  BY DesktopAssumption
<1> QED
  BY <1>1, StoppedKeeps DEF KidsKeep, KidInv

\* So such a step keeps the invariant.
LEMMA Kept ==
    ASSUME KidInv, kid' \in [Machines -> [Kids -> Record]],
           slot' = slot \/ \E m \in Machines : slot' = [slot EXCEPT ![m] = None],
           \A n \in Machines : KidsKeep(n),
           \A n \in Machines : consent[n] \subseteq consent'[n]
    PROVE  KidInv'
<1>1. slot' \in [Machines -> Kids \cup {None}] /\ \A n \in Machines : slot'[n] \in {slot[n], None}
  BY DEF KidInv
<1> QED
  BY <1>1, KeepStep

\* launch_child: the new child is on a link that the person here consented to.
LEMMA LaunchStep ==
    ASSUME KidInv, NEW m \in Machines, NEW e \in Epochs, NEW dialback \in BOOLEAN,
           NEW by \in {"flow", "person", "poll"},
           NEW kids \in [Machines -> [Kids -> Record]],
           \A k \in Kids : /\ Keeps(kid[Peer(m)][k], kids[Peer(m)][k])
                           /\ kids[Peer(m)][k].ph = "none" => kid[Peer(m)][k].ph = "none",
           Launched(m, e, dialback, by, kids), e \in consent'[m],
           \A n \in Machines : consent[n] \subseteq consent'[n]
    PROVE  KidInv' /\ slot' = [slot EXCEPT ![m] = None]
<1> DEFINE n == Peer(m)
           c == CHOOSE k \in Free(m) : TRUE
           new == [ph |-> "new", e |-> e, dialback |-> dialback, by |-> by, word |-> None,
                   leased |-> FALSE]
<1>1. n \in Machines /\ n # m /\ Peer(n) = m /\ \A x \in Machines : x = m \/ x = n
  BY TwoMachines
<1>2. c \in Kids /\ Stopped(m)[c].ph = "none"
  BY DEF Launched, Free
<1>3. /\ new \in Record /\ new.ph = "new" /\ new.e = e /\ new.by = by
  BY DEF Record
<1> HIDE DEF c, new
<1>4. kid' = [kids EXCEPT ![m] = [Stopped(m) EXCEPT ![c] = new]]
  BY DEF Launched, c, new
<1>5. Stopped(m) \in [Kids -> Record]
  BY StoppedKeeps DEF KidInv
<1>6. /\ kid' \in [Machines -> [Kids -> Record]]
      /\ kid'[n] = kids[n] /\ kid'[m] = [Stopped(m) EXCEPT ![c] = new]
  BY <1>1, <1>3, <1>4, <1>5
<1>7. /\ slot' = [slot EXCEPT ![m] = None] /\ slot' \in [Machines -> Kids \cup {None}]
      /\ slot'[m] = None /\ slot'[n] = slot[n]
  BY <1>1 DEF Launched, KidInv
<1>8. kid'[m][c] = new /\ \A k \in Kids : k # c => kid'[m][k] = Stopped(m)[k]
  BY <1>2, <1>3, <1>5, <1>6
<1>9. ASSUME NEW k \in Kids, k # c
      PROVE  /\ kid'[m][k].e \in consent'[m] \cup {None}
             /\ kid'[m][k].e = None => kid'[m][k].ph = "none"
             /\ kid'[m][k].ph = "linked" => kid'[m][k].e \in consent'[n]
  <2>1. kid'[m][k] = NoKid \/ kid'[m][k] = kid[m][k]
    BY <1>8, <1>9 DEF Stopped
  <2>2. CASE kid'[m][k] = NoKid
    BY <2>2, NoKidRecord, DesktopAssumption
  <2>3. CASE kid'[m][k] = kid[m][k]
    BY <1>1, <2>3 DEF KidInv, Own
  <2> QED
    BY <2>1, <2>2, <2>3
<1>10. e # None
  BY DesktopAssumption
<1>11. ASSUME NEW k \in Kids
       PROVE  /\ kid'[n][k].e \in consent'[n] \cup {None}
              /\ kid'[n][k].e = None => kid'[n][k].ph = "none"
              /\ kid'[n][k].ph = "linked" => kid'[n][k].e \in consent'[m]
  <2>1. Keeps(kid[n][k], kid'[n][k])
    BY <1>6
  <2>2. CASE kid'[n][k] = NoKid
    BY <2>2, NoKidRecord, DesktopAssumption
  <2>3. CASE kid'[n][k] # NoKid
    <3>1. /\ kid'[n][k].e = kid[n][k].e
          /\ kid'[n][k].ph = "none" <=> kid[n][k].ph = "none"
          /\ kid'[n][k].ph = "linked" => kid[n][k].ph = "linked"
      BY <2>1, <2>3 DEF Keeps
    <3>2. /\ kid[n][k].e \in consent[n] \cup {None}
          /\ kid[n][k].e = None => kid[n][k].ph = "none"
          /\ kid[n][k].ph = "linked" => kid[n][k].e \in consent[m]
      BY <1>1 DEF KidInv, Own
    <3> QED
      BY <1>1, <3>1, <3>2, DesktopAssumption
  <2> QED
    BY <2>2, <2>3
<1>12. slot'[n] # None => kid'[n][slot'[n]].ph \notin {"none", "new"}
  <2> SUFFICES ASSUME slot'[n] # None PROVE kid'[n][slot[n]].ph \notin {"none", "new"}
    BY <1>7
  <2>1. slot[n] \in Kids /\ kid[n][slot[n]].ph \notin {"none", "new"}
    BY <1>1, <1>7 DEF KidInv
  <2>2. Keeps(kid[n][slot[n]], kid'[n][slot[n]]) /\ kid'[n][slot[n]].ph # "none"
    BY <1>6, <2>1
  <2> QED
    BY <2>1, <2>2, NoKidRecord DEF Keeps
<1>13. ASSUME NEW k \in Kids
       PROVE  /\ kid'[m][k].e \in consent'[m] \cup {None}
              /\ kid'[m][k].e = None => kid'[m][k].ph = "none"
              /\ kid'[m][k].ph = "linked" => kid'[m][k].e \in consent'[n]
  <2>1. CASE k = c
    BY <1>3, <1>8, <1>10, <2>1
  <2> QED
    BY <1>9, <2>1
<1>14. KidInv'
  <2>1. ASSUME NEW x \in Machines, slot'[x] # None
        PROVE  kid'[x][slot'[x]].ph \notin {"none", "new"}
    BY <1>1, <1>7, <1>12, <2>1
  <2>2. ASSUME NEW x \in Machines, NEW k \in Kids
        PROVE  /\ kid'[x][k].e \in consent'[x] \cup {None}
               /\ kid'[x][k].e = None => kid'[x][k].ph = "none"
               /\ kid'[x][k].ph = "linked" => kid'[x][k].e \in consent'[Peer(x)]
    <3>1. CASE x = m
      BY <1>13, <3>1
    <3>2. CASE x = n
      BY <1>1, <1>11, <3>2
    <3> QED
      BY <1>1, <3>1, <3>2
  <2> QED
    BY <1>6, <1>7, <2>1, <2>2 DEF KidInv, Own
<1> QED
  BY <1>7, <1>14

\* A child is let in when both persons have consented to its link.
LEMMA LinkStep ==
    ASSUME KidInv, NEW m \in Machines, NEW k \in Kids, Links(m, k), slot' = slot,
           kid[m][k].ph \in {"asking", "dialing"}, kid[m][k].e \in consent'[Peer(m)],
           \A n \in Machines : consent[n] \subseteq consent'[n]
    PROVE  KidInv'
<1>1. kid \in [Machines -> [Kids -> Record]] /\ kid[m][k] \in Record
  BY DEF KidInv
<1>2. PICK new \in Record :
         /\ kid' = [kid EXCEPT ![m][k] = new]
         /\ new.ph = "linked" /\ new.e = kid[m][k].e /\ new.by = kid[m][k].by
  <2>1. CASE kid' = [kid EXCEPT ![m][k] = [@ EXCEPT !.ph = "linked", !.leased = TRUE]]
    BY <1>1, <2>1, EnteredChild
  <2>2. CASE kid' = [kid EXCEPT ![m][k].ph = "linked"]
    <3>1. kid' = [kid EXCEPT ![m][k] = [kid[m][k] EXCEPT !.ph = "linked"]]
      BY <1>1, <2>2
    <3> QED
      BY <1>1, <3>1, Phase
  <2> QED
    BY <2>1, <2>2 DEF Links
<1>3. /\ kid' \in [Machines -> [Kids -> Record]] /\ kid'[m][k] = new
      /\ \A n \in Machines, x \in Kids : n # m \/ x # k => kid'[n][x] = kid[n][x]
  BY <1>1, <1>2
<1>4. ASSUME NEW n \in Machines, NEW x \in Kids
      PROVE  /\ kid'[n][x].e \in consent'[n] \cup {None}
             /\ kid'[n][x].e = None => kid'[n][x].ph = "none"
             /\ kid'[n][x].ph = "linked" => kid'[n][x].e \in consent'[Peer(n)]
  <2>1. /\ kid[n][x].e \in consent[n] \cup {None}
        /\ kid[n][x].e = None => kid[n][x].ph = "none"
        /\ kid[n][x].ph = "linked" => kid[n][x].e \in consent[Peer(n)]
        /\ Peer(n) \in Machines
    BY TwoMachines DEF KidInv, Own
  <2>2. CASE n = m /\ x = k
    BY <1>2, <1>3, <2>1, <2>2
  <2>3. CASE n # m \/ x # k
    BY <1>3, <2>1, <2>3
  <2> QED
    BY <2>2, <2>3
<1>5. ASSUME NEW n \in Machines, slot[n] # None
      PROVE  kid'[n][slot[n]].ph \notin {"none", "new"}
  BY <1>2, <1>3, <1>5 DEF KidInv
<1>6. KidInv'
  BY <1>3, <1>4, <1>5 DEF KidInv, Own
<1> QED
  BY <1>6

\* Links are approved, leased, polled for and decided on by consent only.
TableInv ==
    \A m \in Machines :
        /\ ok[m] \subseteq consent[m]
        /\ \A e \in Epochs : lease[m][e] # None => e \in consent[m]
        /\ recent[m] \in Own(m) /\ decide[m] \in Own(m)
        /\ poll[m].e \in Own(m) /\ (poll[m].at = "dial" => poll[m].e # None)

\* The link a Disconnect is about to hang up is one that was dialled.
Hanging == \A m \in Machines : bye[m].at = "hangup" => bye[m].e \in Epochs

\* One case per action: what the children of both computers become.
LEMMA KidStep ==
    ASSUME DesktopTypeOK, KidInv, TableInv, [Next]_vars PROVE KidInv'
<1>1. /\ kid \in [Machines -> [Kids -> Record]] /\ slot \in [Machines -> Kids \cup {None}]
      /\ \A m \in Machines : consent[m] \subseteq Epochs
      /\ \A m \in Machines, k \in Kids : kid[m][k] \in Record /\ kid[m][k].e \in Epochs \cup {None}
  BY DEF DesktopTypeOK, Record
<1>2. CASE UNCHANGED <<kid, slot, consent>>
  BY <1>1, <1>2, Unmoved, Kept
<1>3. ASSUME NEW m \in Machines, slot' = [slot EXCEPT ![m] = None], consent' = consent,
             kid' = [kid EXCEPT ![m] = Stopped(m)]
      PROVE  KidInv'
  <2>1. Stopped(m) \in [Kids -> Record]
    BY <1>1, StoppedKeeps
  <2>2. /\ kid' \in [Machines -> [Kids -> Record]] /\ kid'[m] = Stopped(m) /\ slot'[m] = None
        /\ \A n \in Machines : n # m => kid'[n] = kid[n] /\ slot'[n] = slot[n]
    BY <1>1, <1>3, <2>1
  <2>3. KidsKeep(m)
    BY <2>2, MineStopped
  <2>4. \A n \in Machines : n # m => KidsKeep(n)
    BY <2>2 DEF KidsKeep, Keeps
  <2> QED
    BY <1>3, <2>2, <2>3, <2>4, Kept
<1>4. ASSUME NEW m \in Machines, NEW k \in Kids, NEW new \in Record,
             kid' = [kid EXCEPT ![m][k] = new], UNCHANGED <<slot, consent>>,
             Keeps(kid[m][k], new), new.ph # "none"
      PROVE  KidInv'
  BY <1>4, OneMoves, Kept
<1>5. ASSUME NEW m \in Machines, Connect(m) PROVE KidInv'
  <2>1. /\ consent' = consent
        /\ \/ UNCHANGED <<kid, slot>>
           \/ kid' = [kid EXCEPT ![m] = Stopped(m)] /\ slot' = [slot EXCEPT ![m] = None]
    BY <1>5 DEF Connect, Act, Flow
  <2> QED
    BY <1>2, <1>3, <2>1
<1>6. ASSUME NEW m \in Machines, Disconnect(m) PROVE KidInv'
  BY <1>2, <1>6 DEF Disconnect, Act
<1>7. ASSUME NEW m \in Machines, Settings(m) PROVE KidInv'
  <2>1. /\ consent' = consent /\ slot' = [slot EXCEPT ![m] = None]
        /\ slot'[m] = None /\ \A n \in Machines : n # m => slot'[n] = slot[n]
    BY <1>1, <1>7 DEF Settings, Act
  <2>2. CASE kid[m][slot[m]].dialback
    BY <1>3, <1>7, <2>1, <2>2 DEF Settings
  <2>3. CASE ~kid[m][slot[m]].dialback
    <3> DEFINE gone == {kid[m][slot[m]].e}
    <3>1. kid' = [kid EXCEPT ![m] = Stopped(m), ![Peer(m)] = Declined(Peer(m), gone)]
      BY <1>7, <2>3 DEF Settings
    <3>2. /\ Peer(m) \in Machines /\ Peer(m) # m
          /\ Stopped(m) \in [Kids -> Record] /\ Declined(Peer(m), gone) \in [Kids -> Record]
      BY <1>1, TwoMachines, StoppedKeeps, DeclinedKeeps
    <3> HIDE DEF gone
    <3>3. /\ kid' \in [Machines -> [Kids -> Record]] /\ kid'[m] = Stopped(m)
          /\ kid'[Peer(m)] = Declined(Peer(m), gone)
      BY <1>1, <3>1, <3>2
    <3>4. KidsKeep(Peer(m))
      BY <1>1, <3>2, <3>3, DeclinedKeeps DEF KidsKeep
    <3>5. KidsKeep(m)
      BY <2>1, <3>3, MineStopped
    <3> QED
      BY <2>1, <3>3, <3>4, <3>5, TwoMachines, Kept
  <2> QED
    BY <2>2, <2>3
<1>8. ASSUME NEW m \in Machines, NEW e \in Epochs \cup {None}, NEW fingerprint,
             Hangup(m, e, fingerprint, kid[m]), UNCHANGED <<slot, consent>>
      PROVE  KidInv'
  <2>1. /\ kid' \in [Machines -> [Kids -> Record]] /\ kid'[m] = kid[m]
        /\ KidsKeep(Peer(m))
    BY <1>1, <1>8, HangupKeeps
  <2>2. KidsKeep(m)
    BY <2>1 DEF KidsKeep, Keeps
  <2> QED
    BY <1>8, <2>1, <2>2, TwoMachines, Kept
<1>35. ASSUME NEW m \in Machines, DisconnectHangsUp(m) PROVE KidInv'
  <2>1. bye[m].e \in Epochs \cup {None}
    BY DEF DesktopTypeOK, Stage
  <2> QED
    BY <1>8, <1>35, <2>1 DEF DisconnectHangsUp, worldVars
<1>36. ASSUME NEW m \in Machines, DisconnectStops(m) PROVE KidInv'
  BY <1>3, <1>36 DEF DisconnectStops, worldVars
<1>37. ASSUME NEW m \in Machines, DisconnectRest(m) PROVE KidInv'
  <2>1. UNCHANGED <<slot, consent>>
    BY <1>37 DEF DisconnectRest, worldVars
  <2>2. recent[m] \in Epochs \cup {None}
    BY DEF DesktopTypeOK
  <2> QED
    BY <1>2, <1>8, <1>37, <2>1, <2>2 DEF DisconnectRest
<1>9. ASSUME NEW m \in Machines, NEW e \in Epochs, LeaseEnds(m, e) PROVE KidInv'
  <2>1. UNCHANGED <<slot, consent>> /\ Teardown(m, e, kid[m])
    BY <1>9 DEF LeaseEnds, appVars, worldVars
  <2>2. /\ kid' \in [Machines -> [Kids -> Record]] /\ kid'[m] = kid[m]
        /\ KidsKeep(Peer(m))
    BY <1>1, <2>1, HangupKeeps
  <2>3. KidsKeep(m)
    BY <2>2 DEF KidsKeep, Keeps
  <2> QED
    BY <2>1, <2>2, <2>3, TwoMachines, Kept
<1>10. ASSUME NEW m \in Machines PROVE Seen(m) \in Own(m)
  <2>1. Inbound(m) \in Own(m) /\ poll[m].e \in Own(m) /\ None \in Own(m)
    BY DEF Inbound, TableInv, Own
  <2> QED
    BY <2>1 DEF Seen
<1>11. ASSUME NEW m \in Machines, NEW e \in Epochs, NEW dialback \in BOOLEAN,
              NEW by \in {"flow", "person", "poll"}, Launched(m, e, dialback, by, kid),
              \A n \in Machines : consent[n] \subseteq consent'[n], e \in consent'[m]
       PROVE  KidInv'
  <2>1. \A k \in Kids : Keeps(kid[Peer(m)][k], kid[Peer(m)][k])
    BY DEF Keeps
  <2> QED
    BY <1>1, <1>11, <2>1, LaunchStep
<1>12. ASSUME NEW m \in Machines, FlowDials(m) PROVE KidInv'
  <2>1. PICK e \in Epochs : /\ consent' = [consent EXCEPT ![m] = @ \cup {e}]
                           /\ Launched(m, e, FALSE, "flow", kid)
    BY <1>12 DEF FlowDials
  <2>2. e \in consent'[m] /\ \A n \in Machines : consent[n] \subseteq consent'[n]
    BY <2>1 DEF DesktopTypeOK
  <2> QED
    BY <1>11, <2>1, <2>2
<1>13. ASSUME NEW m \in Machines, DecideDials(m) PROVE KidInv'
  <2>1. decide[m] \in Epochs /\ decide[m] \in consent[m] /\ consent' = consent
    BY <1>1, <1>13 DEF DecideDials, TableInv, Own, worldVars
  <2>2. CASE slot[m] = None
    BY <1>11, <1>13, <2>1, <2>2 DEF DecideDials
  <2>3. CASE slot[m] # None
    BY <1>2, <1>13, <2>1, <2>3 DEF DecideDials
  <2> QED
    BY <2>2, <2>3
\* A dial-back, at once or decided on for later, with some children of the
\* peer's declined.
<1>38. ASSUME NEW m \in Machines, NEW e \in Epochs, e \in consent[m], consent' = consent,
              NEW theirs \in [Kids -> Record],
              \A k \in Kids : /\ Keeps(kid[Peer(m)][k], theirs[k])
                              /\ theirs[k].ph = "none" => kid[Peer(m)][k].ph = "none",
              DialsBack(m, e, [kid EXCEPT ![Peer(m)] = theirs])
       PROVE  KidInv'
  <2> DEFINE n == Peer(m)
             kids == [kid EXCEPT ![n] = theirs]
  <2>1. n \in Machines /\ n # m /\ \A x \in Machines : x = m \/ x = n
    BY TwoMachines
  <2>2. kids \in [Machines -> [Kids -> Record]] /\ kids[n] = theirs /\ kids[m] = kid[m]
    BY <1>1, <2>1
  <2>3. \/ kid' = kids /\ slot' = slot
        \/ Launched(m, e, TRUE, "poll", kids)
    BY <1>38 DEF DialsBack
  <2> HIDE DEF kids
  <2>4. CASE kid' = kids /\ slot' = slot
    <3>1. KidsKeep(n)
      BY <1>38, <2>2, <2>4 DEF KidsKeep
    <3>2. KidsKeep(m)
      BY <2>2, <2>4 DEF KidsKeep, Keeps
    <3> QED
      BY <1>38, <2>1, <2>2, <2>4, <3>1, <3>2, Kept
  <2>5. CASE Launched(m, e, TRUE, "poll", kids)
    BY <1>38, <2>2, <2>5, LaunchStep
  <2> QED
    BY <2>3, <2>4, <2>5
<1>14. ASSUME NEW m \in Machines, PollDialsBack(m) PROVE KidInv'
  <2>1. Seen(m) \in Epochs /\ Seen(m) \in consent[m] /\ consent' = consent
    BY <1>1, <1>10, <1>14 DEF PollDialsBack, Own, worldVars
  <2>2. CASE UNCHANGED <<kid, slot>>
    BY <1>2, <2>1, <2>2
  <2>3. CASE DialsBack(m, Seen(m), kid)
    <3>1. kid = [kid EXCEPT ![Peer(m)] = kid[Peer(m)]] /\ kid[Peer(m)] \in [Kids -> Record]
      BY <1>1, TwoMachines
    <3>2. \A k \in Kids : Keeps(kid[Peer(m)][k], kid[Peer(m)][k])
      BY DEF Keeps
    <3> QED
      BY <1>38, <2>1, <2>3, <3>1, <3>2
  <2> QED
    BY <1>14, <2>2, <2>3 DEF PollDialsBack
<1>15. ASSUME NEW m \in Machines, PollAdopts(m) PROVE KidInv'
  <2> DEFINE theirs == Declined(Peer(m), {kid[m][slot[m]].e})
  <2>1. /\ Seen(m) \in Epochs /\ Seen(m) \in consent[m] /\ consent' = consent
        /\ DialsBack(m, Seen(m), [kid EXCEPT ![Peer(m)] = theirs])
    BY <1>1, <1>10, <1>15 DEF PollAdopts, Own, worldVars
  <2>2. /\ theirs \in [Kids -> Record]
        /\ \A k \in Kids : /\ Keeps(kid[Peer(m)][k], theirs[k])
                           /\ theirs[k].ph = "none" => kid[Peer(m)][k].ph = "none"
    BY <1>1, TwoMachines, DeclinedKeeps
  <2> HIDE DEF theirs
  <2> QED
    BY <1>38, <2>1, <2>2
<1>39. ASSUME NEW m \in Machines, PollLaunches(m) PROVE KidInv'
  <2>1. poll[m].e \in Epochs /\ poll[m].e \in consent[m] /\ consent' = consent
    BY <1>1, <1>39, DesktopAssumption DEF PollLaunches, TableInv, Own, worldVars
  <2> QED
    BY <1>11, <1>39, <2>1 DEF PollLaunches
<1>16. ASSUME NEW m \in Machines, PollReaps(m) PROVE KidInv'
  BY <1>3, <1>16 DEF PollReaps, worldVars
<1>17. ASSUME NEW m \in Machines, NEW k \in Kids, EnterSlot(m, k) PROVE KidInv'
  <2> DEFINE new == [kid[m][k] EXCEPT !.ph = "dialing", !.by = None]
  <2>1. /\ kid' = [kid EXCEPT ![m][k] = new] /\ kid[m][k].ph = "new"
        /\ slot' = [slot EXCEPT ![m] = k] /\ consent' = consent
    BY <1>1, <1>17 DEF EnterSlot, worldVars
  <2>2. new \in Record /\ new.ph = "dialing" /\ new.e = kid[m][k].e /\ new.by = None
    BY <1>1, EnteredChild
  <2> HIDE DEF new
  <2>3. Keeps(kid[m][k], new)
    BY <2>1, <2>2 DEF Keeps
  <2>4. /\ kid' \in [Machines -> [Kids -> Record]]
        /\ \A n \in Machines : KidsKeep(n)
    BY <2>1, <2>2, <2>3, OneMoves
  <2>5. /\ slot' \in [Machines -> Kids \cup {None}] /\ slot'[m] = k /\ kid'[m][k] = new
        /\ \A n \in Machines : n # m => slot'[n] = slot[n]
    BY <1>1, <2>1
  <2> QED
    BY <2>1, <2>2, <2>4, <2>5, KeepStep
<1>18. ASSUME NEW m \in Machines, NEW k \in Kids, Relay(m, k) PROVE KidInv'
  <2> DEFINE hit == slot[m] # None /\ \/ kid[m][slot[m]].e = kid[m][k].word
                                      \/ ~Alive(m, slot[m])
             left0 == IF hit THEN Stopped(m) ELSE kid[m]
  <2>1. /\ kid' = [kid EXCEPT ![m] = [left0 EXCEPT ![k] = NoKid]] /\ kid[m][k].ph = "dead"
        /\ slot' = [slot EXCEPT ![m] = IF hit THEN None ELSE @] /\ consent' = consent
    BY <1>18 DEF Relay, worldVars
  <2>2. slot[m] = k => hit
    BY <1>1, <2>1, DesktopAssumption DEF Alive, Living
  <2>3. /\ left0 \in [Kids -> Record] /\ \A x \in Kids : Keeps(kid[m][x], left0[x])
        /\ ~hit => left0 = kid[m]
    BY <1>1, StoppedKeeps DEF Keeps
  <2> HIDE DEF left0, hit
  <2>4. /\ kid' \in [Machines -> [Kids -> Record]]
        /\ \A n \in Machines : n # m => kid'[n] = kid[n]
        /\ \A x \in Kids : kid'[m][x] = IF x = k THEN NoKid ELSE left0[x]
    BY <1>1, <2>1, <2>3, NoKidRecord
  <2>5. /\ slot'[m] = IF hit THEN None ELSE slot[m]
        /\ \A n \in Machines : n # m => slot'[n] = slot[n]
        /\ slot' = slot \/ slot' = [slot EXCEPT ![m] = None]
    BY <1>1, <2>1
  <2>6. \A n \in Machines : n # m => KidsKeep(n)
    BY <2>4 DEF KidsKeep, Keeps
  <2>7. KidsKeep(m)
    <3> SUFFICES ASSUME NEW x \in Kids
                 PROVE  /\ Keeps(kid[m][x], kid'[m][x])
                        /\ slot'[m] = x /\ kid'[m][x].ph = "none" => kid[m][x].ph = "none"
      BY DEF KidsKeep
    <3>1. Keeps(kid[m][x], kid'[m][x])
      BY <2>3, <2>4 DEF Keeps
    <3>2. ASSUME slot'[m] = x PROVE ~hit /\ x # k
      BY <2>2, <2>5, <3>2, DesktopAssumption
    <3> QED
      BY <2>3, <2>4, <3>1, <3>2
  <2> QED
    BY <2>1, <2>4, <2>5, <2>6, <2>7, Kept
<1>19. ASSUME NEW m \in Machines, Approve(m) PROVE KidInv'
  <2>1. PICK k \in Kids : /\ kid[Peer(m)][k].ph = "asking" /\ LetIn(m, k)
                         /\ consent' = [consent EXCEPT ![m] = @ \cup {kid[Peer(m)][k].e}]
    BY <1>19 DEF Approve
  <2>2. /\ Peer(m) \in Machines /\ Peer(Peer(m)) = m /\ Links(Peer(m), k) /\ slot' = slot
        /\ kid[Peer(m)][k].e \in consent'[m]
        /\ \A n \in Machines : consent[n] \subseteq consent'[n]
    BY <1>19, <2>1, TwoMachines DEF Approve, LetIn, DesktopTypeOK
  <2> QED
    BY <2>1, <2>2, LinkStep
<1>20. ASSUME NEW m \in Machines, PollApproves(m) PROVE KidInv'
  <2>1. PICK k \in Kids : /\ kid[Peer(m)][k].ph = "asking" /\ LetIn(m, k)
                         /\ kid[Peer(m)][k].e = kid[m][slot[m]].e
    BY <1>20 DEF PollApproves
  <2>2. /\ Peer(m) \in Machines /\ Peer(Peer(m)) = m /\ Links(Peer(m), k) /\ slot' = slot
        /\ consent' = consent /\ slot[m] \in Kids
    BY <1>1, <1>20, <2>1, TwoMachines DEF PollApproves, LetIn
  <2>3. kid[Peer(m)][k].e # None /\ kid[m][slot[m]].e \in Own(m)
    BY <2>1, <2>2 DEF KidInv
  <2>4. kid[Peer(m)][k].e \in consent[m]
    BY <2>1, <2>3 DEF Own
  <2> QED
    BY <2>1, <2>2, <2>4, LinkStep
<1>21. ASSUME NEW m \in Machines, Decline(m) PROVE KidInv'
  <2>1. PICK k \in Kids : /\ kid[Peer(m)][k].ph = "asking"
                         /\ kid' = [kid EXCEPT ![Peer(m)][k] = Exited(kid[Peer(m)][k])]
    BY <1>1, <1>21, TwoMachines DEF Decline
  <2>2. Peer(m) \in Machines /\ UNCHANGED <<slot, consent>>
    BY <1>21, TwoMachines DEF Decline, appVars, worldVars
  <2> QED
    BY <1>1, <1>4, <2>1, <2>2, ExitedChild DEF Keeps
<1>22. ASSUME NEW m \in Machines, NEW k \in Kids, DialRefused(m, k) PROVE KidInv'
  <2>1. /\ kid' = [kid EXCEPT ![m][k] = Ended(kid[m][k])] /\ kid[m][k].ph = "dialing"
        /\ UNCHANGED <<slot, consent>>
    BY <1>1, <1>22 DEF DialRefused, appVars, worldVars
  <2> QED
    BY <1>1, <1>4, <2>1, ExitedChild DEF Keeps
<1>23. ASSUME NEW m \in Machines, NEW k \in Kids, DialLinks(m, k) PROVE KidInv'
  <2>1. /\ kid[m][k].ph = "dialing" /\ UNCHANGED <<slot, consent>> /\ Peer(m) \in Machines
    BY <1>23, TwoMachines DEF DialLinks, appVars
  <2>2. CASE Passes(Peer(m), kid[m][k].e)
    <3>1. Links(m, k)
      BY <1>23, <2>2 DEF DialLinks
    <3>2. kid[m][k].e # None
      BY <2>1 DEF KidInv
    <3>3. kid[m][k].e \in consent[Peer(m)]
      BY <1>1, <2>1, <2>2, <3>2 DEF Passes, TableInv
    <3> QED
      BY <2>1, <3>1, <3>3, LinkStep
  <2>3. CASE ~Passes(Peer(m), kid[m][k].e)
    <3>1. kid' = [kid EXCEPT ![m][k] = [kid[m][k] EXCEPT !.ph = "asking"]]
      BY <1>1, <1>23, <2>3 DEF DialLinks
    <3>2. [kid[m][k] EXCEPT !.ph = "asking"].ph = "asking"
      BY <1>1, Phase
    <3>3. Keeps(kid[m][k], [kid[m][k] EXCEPT !.ph = "asking"])
      BY <1>1, <2>1, Phase DEF Keeps
    <3> QED
      BY <1>1, <1>4, <2>1, <3>1, <3>2, <3>3, Phase
  <2> QED
    BY <2>2, <2>3
<1>24. ASSUME NEW m \in Machines, NEW k \in Kids, TakesLease(m, k) PROVE KidInv'
  <2> DEFINE new == [kid[m][k] EXCEPT !.leased = TRUE]
  <2>1. /\ kid' = [kid EXCEPT ![m][k] = new] /\ kid[m][k].ph = "linked"
        /\ UNCHANGED <<slot, consent>>
    BY <1>1, <1>24 DEF TakesLease, appVars, worldVars
  <2>2. new \in Record /\ new.ph = kid[m][k].ph /\ new.e = kid[m][k].e /\ new.by = kid[m][k].by
    BY <1>1, Fields
  <2> HIDE DEF new
  <2> QED
    BY <1>4, <2>1, <2>2 DEF Keeps
<1>25. ASSUME NEW m \in Machines, NEW k \in Kids, OpenEpisode(m, k) PROVE KidInv'
  <2>1. /\ kid[m][k].ph = "linked" /\ UNCHANGED <<slot, consent>>
        /\ kid' = kid \/ kid' = [kid EXCEPT ![m][k] = Ended(kid[m][k])]
    BY <1>1, <1>25 DEF OpenEpisode, appVars, worldVars
  <2> QED
    BY <1>1, <1>2, <1>4, <2>1, ExitedChild DEF Keeps
<1>26. ASSUME NEW m \in Machines, NEW k \in Kids, Hears(m, k) \/ Lost(m, k) PROVE KidInv'
  <2>1. /\ kid[m][k].ph \in {"linked", "asking"} /\ UNCHANGED <<slot, consent>>
        /\ \/ kid' = [kid EXCEPT ![m][k] = [kid[m][k] EXCEPT !.ph = "dead"]]
           \/ kid' = [kid EXCEPT ![m][k] = Exited(kid[m][k])]
           \/ kid' = [kid EXCEPT ![m][k] = [kid[m][k] EXCEPT !.ph = "dialing"]]
    BY <1>1, <1>26 DEF Hears, Lost, appVars, worldVars
  <2>2. PICK new \in Record : /\ kid' = [kid EXCEPT ![m][k] = new]
                             /\ new.ph \in {"dead", "dialing"}
                             /\ new.e = kid[m][k].e /\ new.by = kid[m][k].by
    <3>1. kid[m][k] \in Record
      BY <1>1
    <3>2. CASE kid' = [kid EXCEPT ![m][k] = [kid[m][k] EXCEPT !.ph = "dead"]]
      BY <3>1, <3>2, Phase
    <3>3. CASE kid' = [kid EXCEPT ![m][k] = Exited(kid[m][k])]
      BY <3>1, <3>3, ExitedChild
    <3>4. CASE kid' = [kid EXCEPT ![m][k] = [kid[m][k] EXCEPT !.ph = "dialing"]]
      BY <3>1, <3>4, Phase
    <3> QED
      BY <2>1, <3>2, <3>3, <3>4
  <2> QED
    BY <1>4, <2>1, <2>2 DEF Keeps
<1>27. ASSUME NEW m \in Machines,
              \/ FlowFails(m) \/ PollRead(m) \/ PollStays(m) \/ RecentExpires(m) \/ TombExpires(m)
              \/ \E e \in Epochs : MailArrives(m, e) \/ MailLost(m, e)
       PROVE  UNCHANGED <<kid, slot, consent>>
  BY <1>27 DEF FlowFails, PollRead, PollStays, RecentExpires, TombExpires, MailArrives, MailLost,
     appVars, worldVars
<1>28. CASE Cut \/ Heal
  BY <1>2, <1>28 DEF Cut, Heal, appVars
<1>29. CASE UNCHANGED vars
  BY <1>2, <1>29 DEF vars, appVars, worldVars
<1>30. ASSUME NEW m \in Machines, Person(m) \/ Answers(m) \/ TombExpires(m) PROVE KidInv'
  BY <1>2, <1>5, <1>6, <1>7, <1>19, <1>21, <1>27, <1>30 DEF Person, Answers
<1>31. ASSUME NEW m \in Machines, Threads(m) PROVE KidInv'
  BY <1>2, <1>12, <1>13, <1>17, <1>18, <1>27, <1>31, <1>35, <1>36, <1>37 DEF Threads
<1>32. ASSUME NEW m \in Machines, Poll(m) PROVE KidInv'
  BY <1>2, <1>14, <1>15, <1>16, <1>20, <1>27, <1>32, <1>39 DEF Poll, PollFollows
<1>33. ASSUME NEW m \in Machines, Child(m) PROVE KidInv'
  BY <1>22, <1>23, <1>24, <1>25, <1>26, <1>33 DEF Child
<1>34. ASSUME NEW m \in Machines, Daemon(m) PROVE KidInv'
  BY <1>2, <1>9, <1>27, <1>34 DEF Daemon
<1> QED
  BY <1>28, <1>29, <1>30, <1>31, <1>32, <1>33, <1>34 DEF Next

-----------------------------------------------------------------------------
(* The tables of the two daemons and the threads of the two apps.          *)

\* The rest of the type invariant, in two parts.
AppTypes ==
    /\ flow \in [Machines -> BOOLEAN] /\ tomb \in [Machines -> BOOLEAN]
    /\ bye \in [Machines -> Stage({"rest", "hangup", "stop", "sessions"})]
    /\ net \in BOOLEAN /\ left \in 0 .. Budget /\ minted \subseteq Epochs
TableTypes ==
    /\ poll \in [Machines -> Stage({"rest", "read", "dial"})]
    /\ decide \in [Machines -> Epochs \cup {None}]
    /\ recent \in [Machines -> Epochs \cup {None}]
    /\ ban \in [Machines -> [Epochs -> {None, "own", "peer"}]]
    /\ lease \in [Machines -> [Epochs -> Kids \cup {None}]]
    /\ ok \in [Machines -> SUBSET Epochs]
    /\ mail \in [Machines -> SUBSET Epochs]
    /\ consent \in [Machines -> SUBSET Epochs]

\* A ban is a ban.
LEMMA BannedType ==
    ASSUME NEW m, NEW e, NEW who \in {"own", "peer"}, Banned(m, e, who),
           ban \in [Machines -> [Epochs -> {None, "own", "peer"}]]
    PROVE  ban' \in [Machines -> [Epochs -> {None, "own", "peer"}]]
<1>1. CASE m \in Machines /\ e \in Epochs
  BY <1>1 DEF Banned
<1>2. CASE m \notin Machines
  BY <1>2 DEF Banned
<1>3. CASE m \in Machines /\ e \notin Epochs
  <2>1. ban[m] \in [Epochs -> {None, "own", "peer"}]
    BY <1>3
  <2>2. PICK x : ban' = [ban EXCEPT ![m] = [ban[m] EXCEPT ![e] = x]]
    BY DEF Banned
  <2>3. [ban[m] EXCEPT ![e] = x] = ban[m]
    BY <1>3, <2>1
  <2> QED
    BY <2>1, <2>2, <2>3
<1> QED
  BY <1>1, <1>2, <1>3

\* A hang-up only takes from the tables, but for the ban and the notice.
LEMMA HangupTables ==
    ASSUME TableTypes, TableInv, NEW m \in Machines, NEW e \in Epochs, NEW fingerprint, NEW mine,
           \/ Hangup(m, e, fingerprint, mine)
           \/ Teardown(m, e, mine) /\ lease' = [lease EXCEPT ![m][e] = None],
           UNCHANGED <<poll, decide, consent>>
    PROVE  TableTypes' /\ TableInv'
<1>0. Peer(m) \in Machines
  BY TwoMachines
<1>1. /\ lease' \in [Machines -> [Epochs -> Kids \cup {None}]]
      /\ \A n \in Machines, x \in Epochs : lease'[n][x] # None => lease[n][x] # None
  <2>1. CASE lease' = lease
    BY <2>1 DEF TableTypes
  <2>2. ASSUME NEW x \in Epochs, lease' = [lease EXCEPT ![m][x] = None]
        PROVE  /\ lease' \in [Machines -> [Epochs -> Kids \cup {None}]]
               /\ \A n \in Machines, y \in Epochs : lease'[n][y] # None => lease[n][y] # None
    BY <2>2 DEF TableTypes
  <2> QED
    BY <2>1, <2>2 DEF Hangup
<1>2. Teardown(m, e, mine) \/ TeardownBlind(m, e, mine)
  BY DEF Hangup
<1>3. Banned(m, e, "own")
  BY <1>2 DEF Teardown, TeardownBlind
<1>4. ban' \in [Machines -> [Epochs -> {None, "own", "peer"}]]
  BY <1>3, BannedType DEF TableTypes
<1>5. /\ ok' \in [Machines -> SUBSET Epochs] /\ \A n \in Machines : ok'[n] \subseteq ok[n]
      /\ recent' \in [Machines -> Epochs \cup {None}]
      /\ \A n \in Machines : recent'[n] \in {recent[n], None}
  <2>1. CASE ok' = [ok EXCEPT ![m] = {}] /\ recent' = [recent EXCEPT ![m] = None]
    BY <2>1 DEF TableTypes
  <2>2. CASE ok' = [ok EXCEPT ![m] = @ \ {e}] /\ recent' = recent
    BY <2>2 DEF TableTypes
  <2> QED
    BY <1>2, <2>1, <2>2 DEF Teardown, TeardownBlind
<1>6. mail' \in [Machines -> SUBSET Epochs]
  <2>1. mail' = mail \/ mail' = [mail EXCEPT ![Peer(m)] = @ \cup {e}]
    BY <1>2 DEF Teardown, TeardownBlind, Notify
  <2> QED
    BY <1>0, <2>1 DEF TableTypes
<1>7. TableTypes'
  BY <1>1, <1>4, <1>5, <1>6 DEF TableTypes
<1> QED
  BY <1>1, <1>5, <1>7 DEF TableInv, Own

\* A child is let in: its daemon may take the lease of its epoch.
LEMMA LinkTables ==
    ASSUME TableTypes, NEW m \in Machines, NEW k \in Kids, Links(m, k)
    PROVE  /\ lease' \in [Machines -> [Epochs -> Kids \cup {None}]]
           /\ \A n \in Machines, x \in Epochs :
                lease'[n][x] # None => lease[n][x] # None \/ (n = m /\ x = kid[m][k].e)
<1>1. CASE lease' = lease
  BY <1>1 DEF TableTypes
<1>2. CASE lease' = [lease EXCEPT ![m][kid[m][k].e] = k]
  <2>1. lease[m] \in [Epochs -> Kids \cup {None}]
    BY DEF TableTypes
  <2>2. lease' = [lease EXCEPT ![m] = [lease[m] EXCEPT ![kid[m][k].e] = k]]
    BY <1>2
  <2>3. [lease[m] EXCEPT ![kid[m][k].e] = k] \in [Epochs -> Kids \cup {None}]
    BY <2>1
  <2> QED
    BY <2>1, <2>2, <2>3 DEF TableTypes
<1> QED
  BY <1>1, <1>2 DEF Links

\* One case per action: what the tables of the daemons and the app become.
LEMMA TableStep ==
    ASSUME DesktopTypeOK, KidInv, TableInv, Hanging, [Next]_vars PROVE TableTypes' /\ TableInv'
<1>1. /\ TableTypes /\ kid \in [Machines -> [Kids -> Record]]
      /\ \A m \in Machines, k \in Kids : kid[m][k] \in Record /\ kid[m][k].e \in Epochs \cup {None}
      /\ \A m \in Machines : slot[m] # None => slot[m] \in Kids
  BY DEF DesktopTypeOK, TableTypes, Record
<1>2. CASE UNCHANGED <<poll, decide, recent, ban, lease, ok, mail, consent>>
  BY <1>1, <1>2 DEF TableTypes, TableInv, Own
\* The epoch of a child that was launched is one its person consented to.
<1>3. ASSUME NEW m \in Machines, NEW k \in Kids, kid[m][k].ph # "none"
      PROVE  kid[m][k].e \in Epochs /\ kid[m][k].e \in consent[m]
  BY <1>1, <1>3 DEF KidInv, Own
<1>4. ASSUME NEW m \in Machines, slot[m] # None
      PROVE  kid[m][slot[m]].e \in Epochs /\ kid[m][slot[m]].e \in consent[m]
  BY <1>1, <1>3, <1>4 DEF KidInv
\* What the poll thread remembers of a round is a link of its own, or nothing.
<1>5. ASSUME NEW m \in Machines, NEW e \in Own(m), e \in Epochs \cup {None}, NEW at \in {"rest", "read", "dial"},
             at = "dial" => e # None, poll' = [poll EXCEPT ![m] = [at |-> at, e |-> e]],
             consent' = consent
      PROVE  /\ poll' \in [Machines -> Stage({"rest", "read", "dial"})]
             /\ \A n \in Machines : /\ poll'[n].e \in consent'[n] \cup {None}
                                    /\ poll'[n].at = "dial" => poll'[n].e # None
  <2>1. poll'[m] = [at |-> at, e |-> e] /\ \A n \in Machines : n # m => poll'[n] = poll[n]
    BY <1>1, <1>5 DEF TableTypes
  <2>2. poll' \in [Machines -> Stage({"rest", "read", "dial"})]
    BY <1>1, <1>5 DEF TableTypes, Stage
  <2>3. \A n \in Machines : /\ poll[n].e \in consent[n] \cup {None}
                            /\ poll[n].at = "dial" => poll[n].e # None
    BY DEF TableInv, Own
  <2>4. e \in consent[m] \cup {None}
    BY DEF Own
  <2> QED
    BY <1>5, <2>1, <2>2, <2>3, <2>4
<1>28. ASSUME NEW m \in Machines
       PROVE  /\ Seen(m) \in Own(m) /\ Seen(m) \in Epochs \cup {None}
              /\ Inbound(m) \in Own(m) /\ Inbound(m) \in Epochs \cup {None}
  <2>1. Inbound(m) \in Own(m) /\ Inbound(m) \in Epochs \cup {None}
    BY <1>1 DEF Inbound, TableInv, TableTypes, Own
  <2>2. poll[m].e \in Own(m) /\ poll[m].e \in Epochs \cup {None} /\ None \in Own(m)
    BY <1>1 DEF TableInv, TableTypes, Stage, Own
  <2> QED
    BY <2>1, <2>2 DEF Seen
<1>6. ASSUME NEW m \in Machines,
             \/ Connect(m) \/ Disconnect(m) \/ DisconnectStops(m) \/ Decline(m)
             \/ FlowFails(m) \/ PollReaps(m) \/ TombExpires(m)
      PROVE  UNCHANGED <<poll, decide, recent, ban, lease, ok, mail, consent>>
  BY <1>6 DEF Connect, Disconnect, DisconnectStops, Act, Decline, FlowFails, PollReaps, TombExpires,
     appVars, trustVars, daemonVars, worldVars
<1>7. ASSUME NEW m \in Machines, NEW k \in Kids,
             EnterSlot(m, k) \/ Relay(m, k) \/ DialRefused(m, k) \/ Hears(m, k) \/ Lost(m, k)
      PROVE  UNCHANGED <<poll, decide, recent, ban, lease, ok, mail, consent>>
  BY <1>7 DEF EnterSlot, Relay, DialRefused, Hears, Lost, appVars, trustVars, daemonVars, worldVars
<1>8. CASE Cut \/ Heal
  BY <1>2, <1>8 DEF Cut, Heal, appVars, trustVars, daemonVars
<1>9. CASE UNCHANGED vars
  BY <1>2, <1>9 DEF vars, appVars, trustVars, daemonVars, worldVars
<1>10. ASSUME NEW m \in Machines, DisconnectHangsUp(m) PROVE TableTypes' /\ TableInv'
  <2>1. /\ UNCHANGED <<poll, decide, consent>> /\ Hangup(m, bye[m].e, FALSE, kid[m])
        /\ bye[m].e \in Epochs
    BY <1>10 DEF DisconnectHangsUp, worldVars, Hanging
  <2> QED
    BY <1>1, <2>1, HangupTables
<1>11. ASSUME NEW m \in Machines, DisconnectRest(m) PROVE TableTypes' /\ TableInv'
  <2>1. UNCHANGED <<poll, decide, consent>>
    BY <1>11 DEF DisconnectRest, worldVars
  <2>2. CASE \E k \in Kids : Serves(m, k) /\ Hangup(m, recent[m], TRUE, kid[m])
    <3>1. Peer(m) \in Machines
      BY TwoMachines
    <3>2. recent[m] \in Epochs
      BY <1>3, <2>2, <3>1 DEF Serves
    <3> QED
      BY <1>1, <2>1, <2>2, <3>2, HangupTables
  <2>3. CASE UNCHANGED <<kid, tomb, lease, ban, ok, recent, mail>>
    BY <1>2, <2>1, <2>3
  <2> QED
    BY <1>11, <2>2, <2>3 DEF DisconnectRest
<1>12. ASSUME NEW m \in Machines, NEW e \in Epochs, LeaseEnds(m, e) PROVE TableTypes' /\ TableInv'
  BY <1>1, <1>12, HangupTables DEF LeaseEnds, appVars, worldVars
<1>13. ASSUME NEW m \in Machines, NEW e \in Epochs, EndLink(m, e), UNCHANGED <<recent, lease, consent, decide>>,
              poll' \in [Machines -> Stage({"rest", "read", "dial"})],
              \A n \in Machines : /\ poll'[n].e \in consent'[n] \cup {None}
                                  /\ poll'[n].at = "dial" => poll'[n].e # None,
              mail' = mail \/ mail' = [mail EXCEPT ![Peer(m)] = @ \cup {e}]
       PROVE  TableTypes' /\ TableInv'
  <2>1. ban' \in [Machines -> [Epochs -> {None, "own", "peer"}]]
    BY <1>1, <1>13, BannedType DEF EndLink, TableTypes
  <2>2. ok' \in [Machines -> SUBSET Epochs] /\ \A n \in Machines : ok'[n] \subseteq ok[n]
    BY <1>1, <1>13 DEF EndLink, TableTypes
  <2>3. mail' \in [Machines -> SUBSET Epochs]
    <3>1. CASE mail' = mail
      BY <1>1, <3>1 DEF TableTypes
    <3>2. CASE mail' = [mail EXCEPT ![Peer(m)] = @ \cup {e}]
      BY <1>1, <3>2, TwoMachines DEF TableTypes
    <3> QED
      BY <1>13, <3>1, <3>2
  <2> QED
    BY <1>1, <1>13, <2>1, <2>2, <2>3 DEF TableTypes, TableInv, Own
<1>14. ASSUME NEW m \in Machines, Settings(m) PROVE TableTypes' /\ TableInv'
  <2>1. /\ UNCHANGED <<poll, decide, lease, recent, consent>>
        /\ slot[m] # None
    BY <1>14 DEF Settings, Act
  <2>2. CASE kid[m][slot[m]].dialback
    BY <1>2, <1>14, <2>1, <2>2 DEF Settings, trustVars
  <2>3. CASE ~kid[m][slot[m]].dialback
    <3>1. /\ poll' \in [Machines -> Stage({"rest", "read", "dial"})]
          /\ \A n \in Machines : /\ poll'[n].e \in consent'[n] \cup {None}
                                 /\ poll'[n].at = "dial" => poll'[n].e # None
      BY <1>1, <2>1 DEF TableTypes, TableInv, Own
    <3> QED
      BY <1>4, <1>13, <1>14, <2>1, <2>3, <3>1 DEF Settings
  <2> QED
    BY <2>2, <2>3
<1>15. ASSUME NEW m \in Machines, PollAdopts(m) PROVE TableTypes' /\ TableInv'
  <2>1. /\ slot[m] # None /\ EndLink(m, kid[m][slot[m]].e) /\ Seen(m) # None
        /\ \/ poll' = [poll EXCEPT ![m] = AtRest]
           \/ poll' = [poll EXCEPT ![m] = [at |-> "dial", e |-> Seen(m)]]
        /\ UNCHANGED <<recent, lease, consent, decide, mail>>
    BY <1>15 DEF PollAdopts, DialsBack, daemonVars, worldVars
  <2>2. /\ poll' \in [Machines -> Stage({"rest", "read", "dial"})]
        /\ \A n \in Machines : /\ poll'[n].e \in consent'[n] \cup {None}
                               /\ poll'[n].at = "dial" => poll'[n].e # None
    BY <1>5, <1>28, <2>1 DEF AtRest, Own
  <2> QED
    BY <1>4, <1>13, <2>1, <2>2
<1>16. ASSUME NEW m \in Machines, FlowDials(m) PROVE TableTypes' /\ TableInv'
  <2>1. PICK e \in Epochs : consent' = [consent EXCEPT ![m] = @ \cup {e}]
    BY <1>16 DEF FlowDials
  <2>2. UNCHANGED <<poll, decide, recent, ban, lease, ok, mail>>
    BY <1>16 DEF FlowDials, trustVars, daemonVars
  <2>3. /\ consent' \in [Machines -> SUBSET Epochs]
        /\ \A n \in Machines : consent[n] \subseteq consent'[n]
    BY <1>1, <2>1 DEF TableTypes
  <2> QED
    BY <1>1, <2>2, <2>3 DEF TableTypes, TableInv, Own
<1>17. ASSUME NEW m \in Machines, DecideDials(m) PROVE TableTypes' /\ TableInv'
  <2>1. /\ decide' = [decide EXCEPT ![m] = None]
        /\ UNCHANGED <<poll, recent, ban, lease, ok, mail, consent>>
    BY <1>17 DEF DecideDials, trustVars, daemonVars, worldVars
  <2> QED
    BY <1>1, <2>1 DEF TableTypes, TableInv, Own
<1>18. ASSUME NEW m \in Machines,
              PollRead(m) \/ PollDialsBack(m) \/ PollLaunches(m) \/ PollStays(m)
       PROVE  TableTypes' /\ TableInv'
  <2>1. /\ \/ poll' = [poll EXCEPT ![m] = AtRest]
           \/ poll' = [poll EXCEPT ![m] = [at |-> "read", e |-> Inbound(m)]]
           \/ poll' = [poll EXCEPT ![m] = [at |-> "dial", e |-> Seen(m)]] /\ Seen(m) # None
        /\ UNCHANGED <<decide, recent, ban, lease, ok, mail, consent>>
    BY <1>18 DEF PollRead, PollDialsBack, PollLaunches, PollStays, DialsBack, trustVars, daemonVars,
       worldVars
  <2>2. /\ poll' \in [Machines -> Stage({"rest", "read", "dial"})]
        /\ \A n \in Machines : /\ poll'[n].e \in consent'[n] \cup {None}
                               /\ poll'[n].at = "dial" => poll'[n].e # None
    BY <1>5, <1>28, <2>1 DEF AtRest, Own
  <2> QED
    BY <1>1, <2>1, <2>2 DEF TableTypes, TableInv, Own
\* The gate: the machine that lets the child in, and the child's own daemon.
<1>19. ASSUME NEW m \in Machines, NEW k \in Kids, kid[m][k].ph # "none", Links(m, k),
              kid[m][k].e \in consent'[Peer(m)],
              consent' \in [Machines -> SUBSET Epochs],
              \A n \in Machines : consent[n] \subseteq consent'[n],
              recent' = [recent EXCEPT ![Peer(m)] = kid[m][k].e],
              ok' = ok \/ ok' = [ok EXCEPT ![Peer(m)] = @ \cup {kid[m][k].e}],
              decide' = decide \/ decide' = [decide EXCEPT ![Peer(m)] = kid[m][k].e],
              UNCHANGED <<poll, ban, mail>>
       PROVE  TableTypes' /\ TableInv'
  <2>1. kid[m][k].e \in Epochs /\ kid[m][k].e \in consent'[m] /\ Peer(m) \in Machines
    BY <1>3, <1>19, TwoMachines
  <2>2. /\ lease' \in [Machines -> [Epochs -> Kids \cup {None}]]
        /\ \A n \in Machines, x \in Epochs : lease'[n][x] # None => x \in consent'[n]
    BY <1>1, <1>19, <2>1, LinkTables DEF TableInv
  <2>3. /\ recent' \in [Machines -> Epochs \cup {None}]
        /\ \A n \in Machines : recent'[n] \in consent'[n] \cup {None}
    BY <1>1, <1>19, <2>1 DEF TableTypes, TableInv, Own
  <2>4. /\ ok' \in [Machines -> SUBSET Epochs]
        /\ \A n \in Machines : ok'[n] \subseteq consent'[n]
    <3>1. CASE ok' = ok
      BY <1>1, <1>19, <2>1, <3>1 DEF TableTypes, TableInv
    <3>2. CASE ok' = [ok EXCEPT ![Peer(m)] = @ \cup {kid[m][k].e}]
      BY <1>1, <1>19, <2>1, <3>2 DEF TableTypes, TableInv
    <3> QED
      BY <1>19, <3>1, <3>2
  <2>5. /\ decide' \in [Machines -> Epochs \cup {None}]
        /\ \A n \in Machines : decide'[n] \in consent'[n] \cup {None}
    BY <1>1, <1>19, <2>1 DEF TableTypes, TableInv, Own
  <2>6. \A n \in Machines : /\ poll'[n].e \in consent'[n] \cup {None}
                            /\ poll'[n].at = "dial" => poll'[n].e # None
    BY <1>19 DEF TableInv, Own
  <2> QED
    BY <1>1, <1>19, <2>2, <2>3, <2>4, <2>5, <2>6 DEF TableTypes, TableInv, Own
<1>20. ASSUME NEW m \in Machines, Approve(m) PROVE TableTypes' /\ TableInv'
  <2>1. PICK k \in Kids : /\ kid[Peer(m)][k].ph = "asking" /\ LetIn(m, k)
                         /\ consent' = [consent EXCEPT ![m] = @ \cup {kid[Peer(m)][k].e}]
                         /\ decide' = [decide EXCEPT ![m] = kid[Peer(m)][k].e]
    BY <1>20 DEF Approve
  <2>2. Peer(m) \in Machines /\ Peer(Peer(m)) = m
    BY TwoMachines
  <2>3. kid[Peer(m)][k].e \in Epochs
    BY <1>3, <2>1, <2>2
  <2>4. /\ kid[Peer(m)][k].e \in consent'[m] /\ consent' \in [Machines -> SUBSET Epochs]
        /\ \A n \in Machines : consent[n] \subseteq consent'[n]
    BY <1>1, <2>1, <2>3 DEF TableTypes
  <2>5. /\ Links(Peer(m), k) /\ UNCHANGED <<poll, ban, mail>>
        /\ ok' = [ok EXCEPT ![m] = @ \cup {kid[Peer(m)][k].e}]
        /\ recent' = [recent EXCEPT ![m] = kid[Peer(m)][k].e]
    BY <1>20, <2>1 DEF Approve, LetIn
  <2> QED
    BY <1>19, <2>1, <2>2, <2>4, <2>5
<1>21. ASSUME NEW m \in Machines, PollApproves(m) PROVE TableTypes' /\ TableInv'
  <2>1. PICK k \in Kids : /\ kid[Peer(m)][k].ph = "asking" /\ LetIn(m, k)
                         /\ kid[Peer(m)][k].e = kid[m][slot[m]].e
    BY <1>21 DEF PollApproves
  <2>2. Peer(m) \in Machines /\ Peer(Peer(m)) = m
    BY TwoMachines
  <2>3. kid[Peer(m)][k].e \in consent[m]
    BY <1>4, <1>21, <2>1 DEF PollApproves
  <2>4. /\ Links(Peer(m), k) /\ UNCHANGED <<poll, ban, mail, decide, consent>>
        /\ ok' = [ok EXCEPT ![m] = @ \cup {kid[Peer(m)][k].e}]
        /\ recent' = [recent EXCEPT ![m] = kid[Peer(m)][k].e]
    BY <1>21, <2>1 DEF PollApproves, LetIn
  <2> QED
    BY <1>1, <1>19, <2>1, <2>2, <2>3, <2>4 DEF TableTypes
<1>22. ASSUME NEW m \in Machines, NEW k \in Kids, DialLinks(m, k) PROVE TableTypes' /\ TableInv'
  <2>1. /\ kid[m][k].ph = "dialing" /\ Peer(m) \in Machines
        /\ UNCHANGED <<poll, decide, ban, ok, mail, consent>>
    BY <1>22, TwoMachines DEF DialLinks, appVars, trustVars
  <2>2. CASE Passes(Peer(m), kid[m][k].e)
    <3>1. Links(m, k) /\ recent' = [recent EXCEPT ![Peer(m)] = kid[m][k].e]
      BY <1>22, <2>2 DEF DialLinks
    <3>2. kid[m][k].e \in consent[Peer(m)]
      BY <1>3, <2>1, <2>2 DEF Passes, TableInv
    <3> QED
      BY <1>1, <1>19, <2>1, <3>1, <3>2 DEF TableTypes
  <2>3. CASE ~Passes(Peer(m), kid[m][k].e)
    BY <1>2, <1>22, <2>1, <2>3 DEF DialLinks
  <2> QED
    BY <2>2, <2>3
<1>23. ASSUME NEW m \in Machines, NEW k \in Kids, TakesLease(m, k) PROVE TableTypes' /\ TableInv'
  <2>1. /\ lease' = [lease EXCEPT ![m][kid[m][k].e] = k]
        /\ UNCHANGED <<poll, decide, recent, ban, ok, mail, consent>>
        /\ kid[m][k].e \in Epochs /\ kid[m][k].e \in consent[m]
    BY <1>3, <1>23 DEF TakesLease, appVars, trustVars, worldVars
  <2>2. /\ lease' \in [Machines -> [Epochs -> Kids \cup {None}]]
        /\ \A n \in Machines, x \in Epochs :
             lease'[n][x] # None => lease[n][x] # None \/ (n = m /\ x = kid[m][k].e)
    BY <1>1, <2>1 DEF TableTypes
  <2> QED
    BY <1>1, <2>1, <2>2 DEF TableTypes, TableInv, Own
<1>24. ASSUME NEW m \in Machines, NEW k \in Kids, OpenEpisode(m, k) PROVE TableTypes' /\ TableInv'
  <2>1. /\ UNCHANGED <<poll, decide, ban, ok, mail, lease, consent>>
        /\ recent' = recent \/ recent' = [recent EXCEPT ![Peer(m)] = kid[m][k].e]
        /\ kid[m][k].ph = "linked" /\ Peer(m) \in Machines
    BY <1>24, TwoMachines DEF OpenEpisode, appVars, trustVars, worldVars
  <2>2. kid[m][k].e \in Epochs /\ kid[m][k].e \in consent[Peer(m)]
    BY <1>3, <2>1 DEF KidInv
  <2> QED
    BY <1>1, <2>1, <2>2 DEF TableTypes, TableInv, Own
<1>25. ASSUME NEW m \in Machines, NEW e \in Epochs, MailArrives(m, e) PROVE TableTypes' /\ TableInv'
  <2>1. /\ mail' = [mail EXCEPT ![m] = @ \ {e}] /\ recent' = [recent EXCEPT ![m] = None]
        /\ Banned(m, e, "peer") /\ UNCHANGED <<poll, decide, ok, lease, consent>>
    BY <1>25 DEF MailArrives, appVars, worldVars
  <2>2. ban' \in [Machines -> [Epochs -> {None, "own", "peer"}]]
    BY <1>1, <2>1, BannedType DEF TableTypes
  <2> QED
    BY <1>1, <2>1, <2>2 DEF TableTypes, TableInv, Own
<1>26. ASSUME NEW m \in Machines, NEW e \in Epochs, MailLost(m, e) PROVE TableTypes' /\ TableInv'
  BY <1>1, <1>26 DEF MailLost, appVars, trustVars, worldVars, TableTypes, TableInv, Own
<1>27. ASSUME NEW m \in Machines, RecentExpires(m) PROVE TableTypes' /\ TableInv'
  BY <1>1, <1>27 DEF RecentExpires, appVars, trustVars, worldVars, TableTypes, TableInv, Own
<1>30. ASSUME NEW m \in Machines, Person(m) \/ Answers(m) \/ TombExpires(m) PROVE TableTypes' /\ TableInv'
  BY <1>2, <1>6, <1>14, <1>20, <1>30 DEF Person, Answers
<1>31. ASSUME NEW m \in Machines, Threads(m) PROVE TableTypes' /\ TableInv'
  BY <1>2, <1>6, <1>7, <1>10, <1>11, <1>16, <1>17, <1>31 DEF Threads
<1>32. ASSUME NEW m \in Machines, Poll(m) PROVE TableTypes' /\ TableInv'
  BY <1>2, <1>6, <1>15, <1>18, <1>21, <1>32 DEF Poll, PollFollows
<1>33. ASSUME NEW m \in Machines, Child(m) PROVE TableTypes' /\ TableInv'
  BY <1>2, <1>7, <1>22, <1>23, <1>24, <1>33 DEF Child
<1>34. ASSUME NEW m \in Machines, Daemon(m) PROVE TableTypes' /\ TableInv'
  BY <1>12, <1>25, <1>26, <1>27, <1>34 DEF Daemon
<1> QED
  BY <1>8, <1>9, <1>30, <1>31, <1>32, <1>33, <1>34 DEF Next

\* And the app's own flags.
LEMMA AppStep ==
    ASSUME DesktopTypeOK, KidInv, Hanging, [Next]_vars PROVE AppTypes' /\ Hanging'
<1>1. AppTypes /\ Budget \in Nat /\ left \in Nat /\ left <= Budget
  BY DesktopAssumption DEF DesktopTypeOK, AppTypes
\* An act of a person, or a late lease, uses up the budget.
<1>2. left > 0 => left - 1 \in 0 .. Budget
  BY <1>1
<1>3. ASSUME NEW m \in Machines, NEW k \in Kids, Links(m, k) PROVE left' \in 0 .. Budget
  BY <1>1, <1>2, <1>3 DEF Links, AppTypes
\* on_disconnect moves on.
<1>12. ASSUME NEW m \in Machines, NEW at \in {"rest", "hangup", "stop", "sessions"},
              NEW e \in Epochs \cup {None}, bye' = [bye EXCEPT ![m] = [at |-> at, e |-> e]],
              at = "hangup" => e \in Epochs
       PROVE  bye' \in [Machines -> Stage({"rest", "hangup", "stop", "sessions"})] /\ Hanging'
  <2>1. [at |-> at, e |-> e] \in Stage({"rest", "hangup", "stop", "sessions"})
    BY DEF Stage
  <2>2. /\ bye' \in [Machines -> Stage({"rest", "hangup", "stop", "sessions"})]
        /\ bye'[m] = [at |-> at, e |-> e] /\ \A n \in Machines : n # m => bye'[n] = bye[n]
    BY <1>1, <1>12, <2>1 DEF AppTypes
  <2> QED
    BY <1>12, <2>2 DEF Hanging
<1>13. bye' = bye => Hanging'
  BY DEF Hanging
<1>4. ASSUME NEW m \in Machines, Person(m) PROVE AppTypes' /\ Hanging'
  <2>1. CASE Disconnect(m)
    <3>1. /\ left' \in 0 .. Budget /\ UNCHANGED <<flow, net, minted>>
          /\ tomb' = tomb \/ tomb' = [tomb EXCEPT ![m] = TRUE]
      BY <1>2, <2>1 DEF Disconnect, Act
    <3>2. slot[m] # None => kid[m][slot[m]].e \in Epochs
      BY DEF KidInv, Record
    <3>3. bye' \in [Machines -> Stage({"rest", "hangup", "stop", "sessions"})] /\ Hanging'
      BY <1>12, <2>1, <3>2 DEF Disconnect
    <3> QED
      BY <1>1, <3>1, <3>3 DEF AppTypes
  <2>2. CASE Connect(m) \/ Settings(m)
    BY <1>1, <1>2, <1>13, <2>2 DEF Connect, Settings, Act, Flow, AppTypes
  <2> QED
    BY <1>4, <2>1, <2>2 DEF Person
<1>5. ASSUME NEW m \in Machines, Answers(m) \/ TombExpires(m) PROVE AppTypes' /\ Hanging'
  <2>1. Peer(m) \in Machines
    BY TwoMachines
  <2>2. CASE Approve(m)
    BY <1>1, <1>3, <1>13, <2>1, <2>2 DEF Approve, LetIn, AppTypes
  <2> QED
    BY <1>1, <1>5, <1>13, <2>2 DEF Answers, Decline, TombExpires, appVars, worldVars, AppTypes
<1>6. ASSUME NEW m \in Machines, Threads(m) PROVE AppTypes' /\ Hanging'
  <2>1. CASE FlowDials(m)
    BY <1>1, <1>13, <2>1 DEF FlowDials, AppTypes
  <2>2. CASE DisconnectHangsUp(m) \/ DisconnectStops(m) \/ DisconnectRest(m)
    <3>1. /\ UNCHANGED <<flow, net, left, minted>>
          /\ tomb' = tomb \/ tomb' = [tomb EXCEPT ![m] = TRUE]
      BY <2>2 DEF DisconnectHangsUp, DisconnectStops, DisconnectRest, worldVars
    <3>2. bye' \in [Machines -> Stage({"rest", "hangup", "stop", "sessions"})] /\ Hanging'
      BY <1>12, <2>2 DEF DisconnectHangsUp, DisconnectStops, DisconnectRest, AtRest
    <3> QED
      BY <1>1, <3>1, <3>2 DEF AppTypes
  <2> QED
    BY <1>1, <1>6, <1>13, <2>1, <2>2 DEF Threads, FlowFails, DecideDials, EnterSlot, Relay, worldVars,
       AppTypes
<1>7. ASSUME NEW m \in Machines, Poll(m) PROVE AppTypes' /\ Hanging'
  <2>1. Peer(m) \in Machines
    BY TwoMachines
  <2>2. CASE PollApproves(m)
    BY <1>1, <1>3, <1>13, <2>1, <2>2 DEF PollApproves, LetIn, AppTypes
  <2> QED
    BY <1>1, <1>7, <1>13, <2>2 DEF Poll, PollFollows, PollRead, PollAdopts, PollDialsBack,
       PollLaunches, PollStays, PollReaps, worldVars, AppTypes
<1>8. ASSUME NEW m \in Machines, Child(m) PROVE AppTypes' /\ Hanging'
  <2>1. PICK k \in Kids : \/ DialRefused(m, k) \/ DialLinks(m, k) \/ TakesLease(m, k)
                         \/ OpenEpisode(m, k) \/ Hears(m, k) \/ Lost(m, k)
    BY <1>8 DEF Child
  <2>2. CASE DialLinks(m, k)
    BY <1>1, <1>3, <1>13, <2>2 DEF DialLinks, appVars, AppTypes
  <2> QED
    BY <1>1, <1>13, <2>1, <2>2 DEF DialRefused, TakesLease, OpenEpisode, Hears, Lost, appVars,
       worldVars, AppTypes
<1>9. ASSUME NEW m \in Machines, Daemon(m) PROVE AppTypes' /\ Hanging'
  BY <1>1, <1>9, <1>13 DEF Daemon, LeaseEnds, MailArrives, MailLost, RecentExpires, appVars, worldVars,
     AppTypes
<1>10. CASE Cut \/ Heal
  BY <1>1, <1>2, <1>10, <1>13 DEF Cut, Heal, appVars, AppTypes
<1>11. CASE UNCHANGED vars
  BY <1>1, <1>11, <1>13 DEF vars, appVars, worldVars, AppTypes
<1> QED
  BY <1>4, <1>5, <1>6, <1>7, <1>8, <1>9, <1>10, <1>11 DEF Next
-----------------------------------------------------------------------------
\* The inductive invariant.
DesktopInv == DesktopTypeOK /\ KidInv /\ TableInv /\ Hanging

LEMMA InvParts == DesktopTypeOK <=> /\ AppTypes /\ TableTypes
                                    /\ kid \in [Machines -> [Kids -> Record]]
                                    /\ slot \in [Machines -> Kids \cup {None}]
                                    /\ \A m \in Machines : slot[m] # None =>
                                           kid[m][slot[m]].ph \notin {"none", "new"}
BY DEF DesktopTypeOK, AppTypes, TableTypes

\* It holds at the start, after every step, and so always.
LEMMA InvInit == Init => DesktopInv
<1> SUFFICES ASSUME Init PROVE DesktopInv
  OBVIOUS
<1>1. kid = [m \in Machines |-> [k \in Kids |-> NoKid]] /\ slot = [m \in Machines |-> None]
  BY DEF Init
<1>2. KidInv
  BY <1>1, NoKidRecord DEF KidInv, Own
<1>3. \A S : "rest" \in S => AtRest \in Stage(S)
  BY DEF AtRest, Stage
<1>4. TableTypes /\ TableInv
  BY <1>3 DEF Init, TableTypes, TableInv, Own, AtRest
<1>5. AppTypes /\ Hanging
  BY <1>3, DesktopAssumption DEF Init, AppTypes, Hanging, AtRest
<1> QED
  BY <1>2, <1>4, <1>5, InvParts DEF DesktopInv, KidInv

LEMMA InvStep == DesktopInv /\ [Next]_vars => DesktopInv'
<1> SUFFICES ASSUME DesktopInv, [Next]_vars PROVE DesktopInv'
  OBVIOUS
<1>1. KidInv' /\ TableTypes' /\ TableInv' /\ AppTypes' /\ Hanging'
  BY KidStep, TableStep, AppStep DEF DesktopInv
<1>2. DesktopTypeOK'
  BY <1>1 DEF KidInv, AppTypes, TableTypes, DesktopTypeOK
<1> QED
  BY <1>1, <1>2 DEF DesktopInv

LEMMA InvAlways == Spec => []DesktopInv
BY InvInit, InvStep, PTL DEF Spec

\* Types and the bookkeeping of the supervised slot (session_state,
\* launch_child).
THEOREM DesktopTypes == Spec => []DesktopTypeOK
<1>1. DesktopInv => DesktopTypeOK
  BY DEF DesktopInv
<1> QED
  BY <1>1, InvAlways, PTL

\* No computer is driven on a link whose epoch a person on one of the two
\* neither started nor let in (LinkApprovals, follow_link, handle_connection).
THEOREM OnlyConsented == Spec => []Consented
<1>1. DesktopInv => Consented
  <2> SUFFICES ASSUME DesktopInv, NEW m \in Machines, NEW k \in Kids, kid[m][k].ph = "linked",
                      NEW n \in Machines
               PROVE  kid[m][k].e \in consent[n]
    BY DEF Consented
  <2>1. n = m \/ n = Peer(m)
    BY TwoMachines
  <2>2. kid[m][k].e \in consent[m] \cup {None} /\ kid[m][k].e # None
    BY DEF DesktopInv, KidInv, Own
  <2>3. kid[m][k].e \in consent[Peer(m)]
    BY DEF DesktopInv, KidInv
  <2> QED
    BY <2>1, <2>2, <2>3
<1> QED
  BY <1>1, InvAlways, PTL
=============================================================================
