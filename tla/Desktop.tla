------------------------------ MODULE Desktop ------------------------------
(***************************************************************************)
(* Two computers that are already paired, each with its desktop app        *)
(* (kvm-ui) over its daemon.  The app keeps one supervised `connect` child *)
(* in a slot; a poll thread follows what the daemon reports and dials back *)
(* on the peer's link epoch; a thread per child relays its last words; the *)
(* person connects, disconnects, approves and changes settings.  The child *)
(* holds a lease at its own daemon, and the end of the lease hangs the     *)
(* whole link up.  Which of these runs first is nobody's decision.         *)
(*                                                                         *)
(* The daemon here is what module LinkLifecycle models in detail, seen     *)
(* from the app: bans, approvals, leases and the sessions it lists.        *)
(***************************************************************************)
EXTENDS Naturals

CONSTANTS
    Machines,   \* the two computers
    Epochs,     \* the link ids a Connect may mint, in their numeric order
    Kids,       \* bound: child processes of one app at a time
    None,
    Slow,       \* bound: where a round of the poll loop may be overtaken, once: after
                \* it has read the status, or before it launches what it decided
    First,      \* bound: where Connect is pressed first; only the other presses it
                \* again, while the first one's child is there
    Budget,     \* bound: acts of the persons, outages of the network and late leases
    Expiry      \* bound: where RECENT_FALLBACK_MAX_SECS may pass

ASSUME DesktopAssumption ==
    /\ \A m \in Machines : \E n \in Machines : n # m
    /\ \A m, n, o \in Machines : m # n => o \in {m, n}
    /\ Epochs \subseteq Nat
    /\ None \notin Epochs \cup Kids
    /\ None \notin {"flow", "person", "poll", "own", "peer"}
    /\ Budget \in Nat

VARIABLES
    kid,        \* the child processes: phase, link, who is launching it, and
                \* the epoch of the ending it was told of and has printed, and
                \* whether its lease was taken
    slot,       \* session_state: the child the app supervises
    flow,       \* the thread of start_session_flow is preparing a dial
    poll,       \* the poll thread: where a round was overtaken, and the link it follows
    tomb,       \* the peer's address is in DIALBACK_TOMBSTONES
    decide,     \* the epoch the person's decision thread is to dial back
    bye,        \* on_disconnect: where it is, and the epoch it found in the slot
    ban,        \* ENDED_LINKS ("own") and PEER_ENDED_LINKS ("peer")
    ok,         \* LinkApprovals::approved, for the only peer there is
    lease,      \* OUTBOUND_LEASES: the child holding the lease of an epoch
    recent,     \* the epoch of the peer's session, or of its last one
    mail,       \* LinkEnded frames on their way to a daemon
    consent,    \* history: the epochs the person here dialled or let in
    net,        \* the network works
    left, minted \* bounds: what may still happen, epochs in use

appVars    == <<slot, flow, poll, tomb, decide, bye>>
trustVars  == <<ban, ok>>
daemonVars == <<lease, recent, mail>>
worldVars  == <<net, left, minted, consent>>
vars == <<kid, appVars, trustVars, daemonVars, worldVars>>

Peer(m) == CHOOSE n \in Machines : n # m

AtRest == [at |-> "rest", e |-> None]
NoKid == [ph |-> "none", e |-> None, dialback |-> FALSE, by |-> None, word |-> None,
          leased |-> FALSE]
Living == {"dialing", "asking", "linked"}

Init ==
    /\ kid = [m \in Machines |-> [k \in Kids |-> NoKid]]
    /\ slot = [m \in Machines |-> None]
    /\ flow = [m \in Machines |-> FALSE]
    /\ poll = [m \in Machines |-> AtRest]
    /\ tomb = [m \in Machines |-> FALSE]
    /\ decide = [m \in Machines |-> None]
    /\ bye = [m \in Machines |-> AtRest]
    /\ ban = [m \in Machines |-> [e \in Epochs |-> None]]
    /\ ok = [m \in Machines |-> {}]
    /\ lease = [m \in Machines |-> [e \in Epochs |-> None]]
    /\ recent = [m \in Machines |-> None]
    /\ mail = [m \in Machines |-> {}]
    /\ consent = [m \in Machines |-> {}]
    /\ net = TRUE /\ left = Budget /\ minted = {}
----------------------------------------------------------------------------
(* The slot and the processes behind it.                                   *)

Alive(m, k) == kid[m][k].ph \in Living

\* stop_session takes whatever child is in the slot: what it was still to hear
\* or to say is lost.
Stopped(m) == [k \in Kids |-> IF k = slot[m] THEN NoKid ELSE kid[m][k]]

\* A child exits by itself, with no word that stops anything.
Exited(child) == [child EXCEPT !.ph = "dead", !.word = None]

\* ... or because its link is over, which it prints.
Ended(child) == [child EXCEPT !.ph = "dead", !.word = child.e]

Free(m) == {k \in Kids : Stopped(m)[k].ph = "none"}

\* launch_child up to the spawn: the slot is emptied, the identity exported
\* and the process started; the slot is filled in a step of its own.
Launched(m, e, dialback, by, kids) ==
    /\ slot' = [slot EXCEPT ![m] = None]
    /\ Free(m) # {}
    /\ kid' = [kids EXCEPT ![m] = [Stopped(m) EXCEPT ![CHOOSE k \in Free(m) : TRUE] =
                 [ph |-> "new", e |-> e, dialback |-> dialback, by |-> by,
                  word |-> None, leased |-> FALSE]]]

\* The spawned child is put into the slot; a child another thread has put
\* there meanwhile loses its only handle and runs on unsupervised.
EnterSlot(m, k) ==
    /\ kid[m][k].ph = "new"
    /\ kid' = [kid EXCEPT ![m][k] = [@ EXCEPT !.ph = "dialing", !.by = None]]
    /\ slot' = [slot EXCEPT ![m] = k]
    /\ UNCHANGED <<flow, poll, tomb, decide, bye, trustVars, daemonVars, worldVars>>

Launching(m, by) == \E k \in Kids : kid[m][k].ph = "new" /\ kid[m][k].by = by
----------------------------------------------------------------------------
(* The hang-up of a link by the daemon.                                    *)

\* end_link and revoke_epoch: ours is recorded even if the peer ended it too.
Banned(m, e, who) ==
    ban' = [ban EXCEPT ![m][e] = IF @ = None \/ who = "peer" THEN who ELSE @]

\* Rows of the approval queue that are dropped decline the waiting child.
Declined(n, gone) ==
    [k \in Kids |-> IF kid[n][k].ph = "asking" /\ kid[n][k].e \in gone
                    THEN Exited(kid[n][k]) ELSE kid[n][k]]

\* notify_peer_ended_live writes to the newest association of the peer,
\* whatever link that is; one whose child is gone or still waits for its answer
\* swallows the frame, and the sender cannot tell.  With no association left
\* the notice goes out on a new one.
Notify(m, e, theirs, mine) ==
    LET n == Peer(m) IN
    \/ \E k \in Kids :
         /\ theirs[k].ph = "linked"
         /\ kid' = [kid EXCEPT ![m] = mine, ![n] = [theirs EXCEPT ![k].word = e]]
         /\ UNCHANGED mail
    \/ /\ kid' = [kid EXCEPT ![m] = mine, ![n] = theirs]
       /\ IF \A k \in Kids : theirs[k].ph # "linked"
          THEN UNCHANGED mail \/ mail' = [mail EXCEPT ![n] = @ \cup {e}]
          ELSE \E k \in Kids : kid[n][k].ph = "asking" /\ UNCHANGED mail

\* teardown_link with the peer's fingerprint: tell the peer, drop its session,
\* revoke its approvals, forget it, ban the epoch.
Teardown(m, e, mine) ==
    /\ Notify(m, e, Declined(Peer(m), Epochs), mine)
    /\ Banned(m, e, "own")
    /\ ok' = [ok EXCEPT ![m] = {}]
    /\ recent' = [recent EXCEPT ![m] = None]

\* teardown_link when no fingerprint is known: only the ban and the notice.
TeardownBlind(m, e, mine) ==
    LET n == Peer(m) IN
    /\ kid' = [kid EXCEPT ![m] = mine, ![n] = Declined(n, {e})]
    /\ Banned(m, e, "own")
    /\ ok' = [ok EXCEPT ![m] = @ \ {e}]
    /\ mail' = [mail EXCEPT ![n] = @ \cup {e}]
    /\ UNCHANGED recent

\* m may list a session of the peer's child k.
Serves(m, k) == kid[Peer(m)][k].ph = "linked" /\ kid[Peer(m)][k].e = recent[m]

\* DisconnectLink: the lease found by epoch or address names the peer and is
\* taken, so the child's end is no second teardown.
Hangup(m, e, fingerprint, mine) ==
    \/ \E x \in Epochs :
         /\ lease[m][x] # None
         /\ lease' = [lease EXCEPT ![m][x] = None]
         /\ Teardown(m, e, mine)
    \/ /\ \A x \in Epochs : lease[m][x] = None
       /\ UNCHANGED lease
       /\ IF fingerprint THEN Teardown(m, e, mine) ELSE TeardownBlind(m, e, mine)
----------------------------------------------------------------------------
(* The person.                                                             *)

Act ==
    /\ left > 0
    /\ left' = left - 1
    /\ UNCHANGED <<net, minted, consent>>

\* on_disconnect holds the window's thread, which every press needs.
Pressable(m) == bye[m].at \notin {"hangup", "stop"}

\* start_session_flow: an explicit Connect lifts the tombstone, takes a dead
\* child or an automatic dial-back out of the way, and is refused while a
\* child of an earlier Connect runs.
Flow(m) ==
    /\ tomb' = [tomb EXCEPT ![m] = FALSE]
    /\ IF slot[m] # None /\ Alive(m, slot[m]) /\ ~kid[m][slot[m]].dialback
       THEN UNCHANGED <<kid, slot, flow>>
       ELSE /\ kid' = [kid EXCEPT ![m] = Stopped(m)]
            /\ slot' = [slot EXCEPT ![m] = None]
            /\ flow' = [flow EXCEPT ![m] = TRUE]

Connect(m) ==
    /\ m = First <=> left = Budget
    /\ m = First \/ \E k \in Kids : kid[First][k].ph # "none"
    /\ Act
    /\ ~flow[m] /\ Pressable(m)
    /\ Flow(m)
    /\ UNCHANGED <<poll, decide, bye, trustVars, daemonVars>>

\* The peer answers the preparation: a fresh epoch is minted and dialled.
FlowDials(m) ==
    /\ flow[m] /\ net
    /\ flow' = [flow EXCEPT ![m] = FALSE]
    /\ \E e \in Epochs \ minted :
         /\ minted' = minted \cup {e}
         /\ consent' = [consent EXCEPT ![m] = @ \cup {e}]
         /\ Launched(m, e, FALSE, "flow", kid)
    /\ UNCHANGED <<poll, tomb, decide, bye, trustVars, daemonVars, net, left>>

FlowFails(m) ==
    /\ flow[m] /\ ~net
    /\ flow' = [flow EXCEPT ![m] = FALSE]
    /\ UNCHANGED <<kid, slot, poll, tomb, decide, bye, trustVars, daemonVars, worldVars>>

\* on_disconnect: the tombstone for the link in the slot ...
Disconnect(m) ==
    /\ Act
    /\ bye[m] = AtRest
    /\ IF slot[m] # None
       THEN /\ tomb' = [tomb EXCEPT ![m] = TRUE]
            /\ bye' = [bye EXCEPT ![m] = [at |-> "hangup", e |-> kid[m][slot[m]].e]]
       ELSE /\ bye' = [bye EXCEPT ![m] = [at |-> "stop", e |-> None]]
            /\ UNCHANGED tomb
    /\ UNCHANGED <<kid, slot, flow, poll, decide, trustVars, daemonVars>>

\* ... its hang-up, a round trip to the daemon ...
DisconnectHangsUp(m) ==
    /\ bye[m].at = "hangup"
    /\ Hangup(m, bye[m].e, FALSE, kid[m])
    /\ bye' = [bye EXCEPT ![m] = [at |-> "stop", e |-> None]]
    /\ UNCHANGED <<slot, flow, poll, tomb, decide, worldVars>>

\* ... and the end of whatever child is in the slot by then.
DisconnectStops(m) ==
    /\ bye[m].at = "stop"
    /\ kid' = [kid EXCEPT ![m] = Stopped(m)]
    /\ slot' = [slot EXCEPT ![m] = None]
    /\ bye' = [bye EXCEPT ![m] = [at |-> "sessions", e |-> None]]
    /\ UNCHANGED <<flow, poll, tomb, decide, trustVars, daemonVars, worldVars>>

\* Its thread hangs up every session the daemon still lists; a link between
\* two episodes has none.
DisconnectRest(m) ==
    /\ bye[m].at = "sessions"
    /\ bye' = [bye EXCEPT ![m] = AtRest]
    /\ \/ /\ \E k \in Kids : Serves(m, k)
          /\ tomb' = [tomb EXCEPT ![m] = TRUE]
          /\ Hangup(m, recent[m], TRUE, kid[m])
       \/ UNCHANGED <<kid, tomb, lease, ban, ok, recent, mail>>
    /\ UNCHANGED <<slot, flow, poll, decide, worldVars>>

\* ControlRequest::EndLink: the ban alone, and the rows of the epoch.
EndLink(m, e) ==
    /\ Banned(m, e, "own")
    /\ ok' = [ok EXCEPT ![m] = @ \ {e}]

\* relink_with_new_settings: a dial-back is stopped and left to the poll loop;
\* a link of an own Connect is ended and dialled again on a fresh epoch.
Settings(m) ==
    /\ Act
    /\ slot[m] # None /\ ~flow[m] /\ Pressable(m)
    /\ LET mine == kid[m][slot[m]] IN
       IF mine.dialback
       THEN /\ kid' = [kid EXCEPT ![m] = Stopped(m)]
            /\ UNCHANGED <<flow, tomb, trustVars, mail>>
       ELSE /\ EndLink(m, mine.e)
            /\ kid' = [kid EXCEPT ![m] = Stopped(m),
                                  ![Peer(m)] = Declined(Peer(m), {mine.e})]
            /\ mail' = [mail EXCEPT ![Peer(m)] = @ \cup {mine.e}]
            /\ tomb' = [tomb EXCEPT ![m] = FALSE]
            /\ flow' = [flow EXCEPT ![m] = TRUE]
    /\ slot' = [slot EXCEPT ![m] = None]
    /\ UNCHANGED <<poll, decide, bye, lease, recent>>

\* The gate lets child k of m in; its lease is taken on a task of its own
\* (spawn_link_lease), at once or late.
Links(m, k) ==
    \/ /\ kid' = [kid EXCEPT ![m][k] = [@ EXCEPT !.ph = "linked", !.leased = TRUE]]
       /\ lease' = [lease EXCEPT ![m][kid[m][k].e] = k]
       /\ UNCHANGED left
    \/ /\ kid' = [kid EXCEPT ![m][k].ph = "linked"]
       /\ left > 0 /\ left' = left - 1
       /\ UNCHANGED lease

\* decide_incoming_link, or the poll loop for the app's own epoch: the waiting
\* child is let in and its epoch remembered.
LetIn(m, k) ==
    LET n == Peer(m) IN
    /\ Links(n, k)
    /\ ok' = [ok EXCEPT ![m] = @ \cup {kid[n][k].e}]
    /\ recent' = [recent EXCEPT ![m] = kid[n][k].e]

Approve(m) ==
    /\ decide[m] = None
    /\ \E k \in Kids :
         /\ kid[Peer(m)][k].ph = "asking"
         /\ LetIn(m, k)
         /\ decide' = [decide EXCEPT ![m] = kid[Peer(m)][k].e]
         /\ consent' = [consent EXCEPT ![m] = @ \cup {kid[Peer(m)][k].e}]
    /\ UNCHANGED <<slot, flow, poll, tomb, bye, ban, mail, net, minted>>

\* The person declines, or LINK_APPROVAL_TIMEOUT does: the child exits.
Decline(m) ==
    /\ \E k \in Kids :
         /\ kid[Peer(m)][k].ph = "asking"
         /\ kid' = [kid EXCEPT ![Peer(m)][k] = Exited(@)]
    /\ UNCHANGED <<appVars, trustVars, daemonVars, worldVars>>

\* The decision's thread dials back unless a child runs by then.
DecideDials(m) ==
    /\ decide[m] # None
    /\ decide' = [decide EXCEPT ![m] = None]
    /\ IF slot[m] = None THEN Launched(m, decide[m], TRUE, "person", kid)
       ELSE UNCHANGED <<kid, slot>>
    /\ UNCHANGED <<flow, poll, tomb, bye, trustVars, daemonVars, worldVars>>
----------------------------------------------------------------------------
(* The poll thread, once a second.                                         *)

\* A session, or else a recent one that is not banned (recent_inbound_view).
Inbound(m) ==
    IF recent[m] # None /\ ban[m][recent[m]] = None THEN recent[m] ELSE None

\* Bound: a round is overtaken after its read only while another thread of the
\* app is at work, before its launch by anything.
AtWork(m) == flow[m] \/ decide[m] # None \/ bye[m] # AtRest

PollRead(m) ==
    /\ m \in Slow /\ AtWork(m)
    /\ poll[m] = AtRest /\ ~Launching(m, "poll")
    /\ Inbound(m) # None
    /\ poll' = [poll EXCEPT ![m] = [at |-> "read", e |-> Inbound(m)]]
    /\ UNCHANGED <<kid, slot, flow, tomb, decide, bye, trustVars, daemonVars, worldVars>>

\* What the round acts on: the status it read, or the present one.
Seen(m) ==
    CASE poll[m].at = "read" -> poll[m].e
      [] poll[m] = AtRest /\ ~Launching(m, "poll") -> Inbound(m)
      [] OTHER -> None

\* Mutant: a child that runs is never given up for the inbound epoch.
NeverAdopts(old, new) == TRUE

\* keep_live_epoch: of two Connects at once the lower epoch stays.
KeepLive(old, new) == old < new

\* spawn_dial_back, in place of whatever is in the slot by then: here and now,
\* or when the round goes on (PollLaunches).
DialsBack(m, e, kids) ==
    IF m \in Slow /\ poll[m] = AtRest
    THEN /\ poll' = [poll EXCEPT ![m] = [at |-> "dial", e |-> e]]
         /\ kid' = kids
         /\ UNCHANGED slot
    ELSE /\ poll' = [poll EXCEPT ![m] = AtRest]
         /\ Launched(m, e, TRUE, "poll", kids)

\* follow_link with a child in the slot: it stays on the inbound epoch or on
\* a lower live one; otherwise the app bans its epoch (end_link, a round trip)
\* to adopt the inbound one.
PollAdopts(m) ==
    LET e == Seen(m)
        mine == kid[m][slot[m]] IN
    /\ e # None /\ slot[m] # None
    /\ mine.e # e
    /\ ~(Alive(m, slot[m]) /\ KeepLive(mine.e, e))
    /\ EndLink(m, mine.e)
    /\ DialsBack(m, e, [kid EXCEPT ![Peer(m)] = Declined(Peer(m), {mine.e})])
    /\ UNCHANGED <<flow, tomb, decide, bye, daemonVars, worldVars>>

Suppressed(m) == tomb[m]

\* follow_link with an empty slot: a link not seen before is dialled back at
\* once, any other every 30 s, and none whose tombstone stands at this moment.
PollDialsBack(m) ==
    LET e == Seen(m) IN
    /\ e # None /\ slot[m] = None
    /\ IF Suppressed(m) THEN poll' = [poll EXCEPT ![m] = AtRest] /\ UNCHANGED <<kid, slot>>
       ELSE DialsBack(m, e, kid)
    /\ UNCHANGED <<flow, tomb, decide, bye, trustVars, daemonVars, worldVars>>

PollLaunches(m) ==
    /\ poll[m].at = "dial"
    /\ Launched(m, poll[m].e, TRUE, "poll", kid)
    /\ poll' = [poll EXCEPT ![m] = AtRest]
    /\ UNCHANGED <<flow, tomb, decide, bye, trustVars, daemonVars, worldVars>>

\* follow_link with nothing to do, or less than 30 s after its last attempt.
PollStays(m) ==
    LET e == Seen(m) IN
    /\ e # None
    /\ \/ slot[m] = None
       \/ /\ slot[m] # None
          /\ \/ kid[m][slot[m]].e = e
             \/ Alive(m, slot[m]) /\ KeepLive(kid[m][slot[m]].e, e)
    /\ poll' = [poll EXCEPT ![m] = AtRest]
    /\ UNCHANGED <<kid, slot, flow, tomb, decide, bye, trustVars, daemonVars, worldVars>>

\* The rest of the round: a child on an epoch the peer ended is stopped, and a
\* child that exited is reaped.
PollReaps(m) ==
    /\ poll[m] = AtRest
    /\ slot[m] # None
    /\ ban[m][kid[m][slot[m]].e] = "peer" \/ ~Alive(m, slot[m])
    /\ slot' = [slot EXCEPT ![m] = None]
    /\ kid' = [kid EXCEPT ![m] = Stopped(m)]
    /\ UNCHANGED <<flow, poll, tomb, decide, bye, trustVars, daemonVars, worldVars>>

\* ... and a prompt for the epoch of the app's own child is answered silently.
PollApproves(m) ==
    /\ poll[m] = AtRest
    /\ slot[m] # None
    /\ \E k \in Kids : /\ kid[Peer(m)][k].ph = "asking"
                       /\ kid[Peer(m)][k].e = kid[m][slot[m]].e
                       /\ LetIn(m, k)
    /\ UNCHANGED <<slot, flow, poll, tomb, decide, bye, ban, mail, net, minted, consent>>

\* Mutant: the reaped child keeps its place in the slot.
RelayKeepsSlot(m, k) ==
    /\ kid[m][k].ph = "dead"
    /\ kid' = [kid EXCEPT ![m][k] = NoKid]
    /\ UNCHANGED <<appVars, trustVars, daemonVars, worldVars>>

\* relay_session_progress: what a child printed before it went names an epoch;
\* the child in the slot is stopped if it carries it, and reaped if it is dead.
Relay(m, k) ==
    /\ kid[m][k].ph = "dead"
    /\ LET hit == slot[m] # None /\ \/ kid[m][slot[m]].e = kid[m][k].word
                                    \/ ~Alive(m, slot[m]) IN
       /\ kid' = [kid EXCEPT ![m] = [(IF hit THEN Stopped(m) ELSE kid[m]) EXCEPT ![k] = NoKid]]
       /\ slot' = [slot EXCEPT ![m] = IF hit THEN None ELSE @]
    /\ UNCHANGED <<flow, poll, tomb, decide, bye, trustVars, daemonVars, worldVars>>
----------------------------------------------------------------------------
(* The child: `connect`.                                                   *)

\* Mutant: every paired peer is let in without a prompt.
PassesAll(n, e) == TRUE

\* The gate lets an epoch in that was approved, or that this computer itself
\* dialled and holds a lease on.
Passes(n, e) ==
    e \in ok[n] \/ lease[n][e] # None

DialRefused(m, k) ==
    /\ kid[m][k].ph = "dialing" /\ net
    /\ ban[Peer(m)][kid[m][k].e] # None
    /\ kid' = [kid EXCEPT ![m][k] = Ended(@)]
    /\ UNCHANGED <<appVars, trustVars, daemonVars, worldVars>>

DialLinks(m, k) ==
    LET n == Peer(m)
        e == kid[m][k].e IN
    /\ kid[m][k].ph = "dialing" /\ net
    /\ ban[n][e] = None
    /\ IF Passes(n, e)
       THEN /\ Links(m, k)
            /\ recent' = [recent EXCEPT ![n] = e]
       ELSE /\ \A x \in Kids : ~(kid[m][x].ph = "asking" /\ kid[m][x].e = e)
            /\ kid' = [kid EXCEPT ![m][k].ph = "asking"]
            /\ UNCHANGED <<lease, recent, left>>
    /\ UNCHANGED <<appVars, trustVars, mail, net, minted, consent>>

TakesLease(m, k) ==
    /\ kid[m][k].ph = "linked" /\ ~kid[m][k].leased
    /\ kid' = [kid EXCEPT ![m][k].leased = TRUE]
    /\ lease' = [lease EXCEPT ![m][kid[m][k].e] = k]
    /\ UNCHANGED <<appVars, trustVars, recent, mail, worldVars>>

\* The topology driver opens an episode on the association, and a ban ends it.
OpenEpisode(m, k) ==
    LET n == Peer(m)
        e == kid[m][k].e IN
    /\ kid[m][k].ph = "linked" /\ net
    /\ IF ban[n][e] # None
       THEN /\ kid' = [kid EXCEPT ![m][k] = Ended(@)]
            /\ UNCHANGED recent
       ELSE /\ Passes(n, e)
            /\ recent[n] # e
            /\ recent' = [recent EXCEPT ![n] = e]
            /\ UNCHANGED kid
    /\ UNCHANGED <<appVars, trustVars, lease, mail, worldVars>>

\* A LinkEnded on the association ends the child, whatever epoch it names.
Hears(m, k) ==
    /\ kid[m][k].ph = "linked" /\ kid[m][k].word # None
    /\ kid' = [kid EXCEPT ![m][k].ph = "dead"]
    /\ UNCHANGED <<appVars, trustVars, daemonVars, worldVars>>

\* The association is lost: an established child exits, a waiting one retries.
Lost(m, k) ==
    /\ ~net
    /\ \/ kid[m][k].ph = "linked" /\ kid' = [kid EXCEPT ![m][k] = Exited(@)]
       \/ kid[m][k].ph = "asking" /\ kid' = [kid EXCEPT ![m][k].ph = "dialing"]
    /\ UNCHANGED <<appVars, trustVars, daemonVars, worldVars>>
----------------------------------------------------------------------------
(* The daemon.                                                             *)

\* Mutant: the lease's row is dropped and nothing more.
LeaseDropped(m, e) ==
    /\ lease[m][e] # None
    /\ ~(kid[m][lease[m][e]].ph = "linked" /\ kid[m][lease[m][e]].e = e)
    /\ lease' = [lease EXCEPT ![m][e] = None]
    /\ UNCHANGED <<kid, appVars, trustVars, recent, mail, worldVars>>

\* The lease's connection ends with its child: the daemon hangs the link up.
LeaseEnds(m, e) ==
    LET k == lease[m][e] IN
    /\ k # None
    /\ ~(kid[m][k].ph = "linked" /\ kid[m][k].e = e)
    /\ lease' = [lease EXCEPT ![m][e] = None]
    /\ Teardown(m, e, kid[m])
    /\ UNCHANGED <<appVars, worldVars>>

\* LinkEnded on an association of its own.
MailArrives(m, e) ==
    /\ net /\ e \in mail[m]
    /\ mail' = [mail EXCEPT ![m] = @ \ {e}]
    /\ Banned(m, e, "peer")
    /\ recent' = [recent EXCEPT ![m] = None]
    /\ UNCHANGED <<kid, appVars, ok, lease, worldVars>>

MailLost(m, e) ==
    /\ ~net /\ e \in mail[m]
    /\ mail' = [mail EXCEPT ![m] = @ \ {e}]
    /\ UNCHANGED <<kid, appVars, trustVars, lease, recent, worldVars>>

\* RECENT_FALLBACK_MAX_SECS.
RecentExpires(m) ==
    /\ m \in Expiry /\ recent[m] # None
    /\ ~\E k \in Kids : Serves(m, k)
    /\ recent' = [recent EXCEPT ![m] = None]
    /\ UNCHANGED <<kid, appVars, trustVars, lease, mail, worldVars>>
----------------------------------------------------------------------------
(* Time and the network.                                                   *)

\* 30 s after the Disconnect.
TombExpires(m) ==
    /\ tomb[m]
    /\ tomb' = [tomb EXCEPT ![m] = FALSE]
    /\ UNCHANGED <<kid, slot, flow, poll, decide, bye, trustVars, daemonVars, worldVars>>

Cut ==
    /\ net
    /\ net' = FALSE
    /\ left > 0
    /\ left' = left - 1
    /\ UNCHANGED <<kid, appVars, trustVars, daemonVars, minted, consent>>

Heal ==
    /\ ~net
    /\ net' = TRUE
    /\ UNCHANGED <<kid, appVars, trustVars, daemonVars, left, minted, consent>>

Person(m) == Connect(m) \/ Disconnect(m) \/ Settings(m)
Answers(m) == Approve(m) \/ Decline(m)
Threads(m) ==
    \/ FlowDials(m) \/ FlowFails(m) \/ DecideDials(m)
    \/ DisconnectHangsUp(m) \/ DisconnectStops(m) \/ DisconnectRest(m)
    \/ \E k \in Kids : EnterSlot(m, k) \/ Relay(m, k)
PollFollows(m) ==
    PollRead(m) \/ PollAdopts(m) \/ PollDialsBack(m) \/ PollLaunches(m) \/ PollStays(m)
Poll(m) == PollFollows(m) \/ PollReaps(m) \/ PollApproves(m)
Child(m) == \E k \in Kids :
    \/ DialRefused(m, k) \/ DialLinks(m, k) \/ TakesLease(m, k)
    \/ OpenEpisode(m, k) \/ Hears(m, k) \/ Lost(m, k)
Daemon(m) ==
    \/ \E e \in Epochs : LeaseEnds(m, e) \/ MailArrives(m, e) \/ MailLost(m, e)
    \/ RecentExpires(m)
Next ==
    \/ \E m \in Machines : Person(m) \/ Answers(m) \/ Threads(m) \/ Poll(m) \/ Child(m) \/ Daemon(m) \/ TombExpires(m)
    \/ Cut \/ Heal

Spec == Init /\ [][Next]_vars

\* Threads, children and the daemon go on when they can, and the poll loop reads
\* the status again and again and acts on it; nothing is asked of a person, nor
\* of the network.
FairSpec ==
    /\ Spec
    /\ \A m \in Machines :
         /\ WF_vars(PollFollows(m))
         /\ WF_vars(Child(m)) /\ WF_vars(Daemon(m)) /\ WF_vars(Threads(m))
----------------------------------------------------------------------------
(* Properties.                                                             *)

Record ==
    [ph : {"none", "new", "dialing", "asking", "linked", "dead"},
     e : Epochs \cup {None}, dialback : BOOLEAN,
     by : {"flow", "person", "poll", None}, word : Epochs \cup {None},
     leased : BOOLEAN]

Stage(S) == [at : S, e : Epochs \cup {None}]

\* Types, and the slot's bookkeeping: the supervised child is one that was
\* spawned and not yet waited for, and no lease is held by a process that was
\* never there (session_state and launch_child of the app).
DesktopTypeOK ==
    /\ kid \in [Machines -> [Kids -> Record]]
    /\ slot \in [Machines -> Kids \cup {None}]
    /\ flow \in [Machines -> BOOLEAN] /\ tomb \in [Machines -> BOOLEAN]
    /\ bye \in [Machines -> Stage({"rest", "hangup", "stop", "sessions"})]
    /\ poll \in [Machines -> Stage({"rest", "read", "dial"})]
    /\ decide \in [Machines -> Epochs \cup {None}]
    /\ recent \in [Machines -> Epochs \cup {None}]
    /\ ban \in [Machines -> [Epochs -> {None, "own", "peer"}]]
    /\ lease \in [Machines -> [Epochs -> Kids \cup {None}]]
    /\ ok \in [Machines -> SUBSET Epochs]
    /\ mail \in [Machines -> SUBSET Epochs]
    /\ consent \in [Machines -> SUBSET Epochs]
    /\ net \in BOOLEAN /\ left \in 0 .. Budget /\ minted \subseteq Epochs
    /\ \A m \in Machines : slot[m] # None => kid[m][slot[m]].ph \notin {"none", "new"}

\* A computer is driven only on a link whose epoch a person on each of the two
\* started or let in: neither the app's own approval of its dial-backs, nor the
\* lease pass of the gate, nor a dial-back on a remembered epoch lets through
\* more (LinkApprovals, follow_link, handle_connection).
Consented ==
    \A m \in Machines, k \in Kids :
        kid[m][k].ph = "linked" => \A n \in Machines : kid[m][k].e \in consent[n]

\* The end of a link reaches every process of both computers: an epoch that one
\* of them has banned is in the end served to no child on either side, whatever
\* dial-backs, adoptions, outages and lost notices ran meanwhile (teardown_link,
\* on_ui_gone, LinkEnded, relay_session_progress).  It is about one act after a
\* Connect (Budget = 2): of two hang-ups at once, or of one before the lease is
\* taken, it is not true.
Served(e) == \E m \in Machines, k \in Kids : kid[m][k].ph = "linked" /\ kid[m][k].e = e
HangUpLands ==
    <>[](\A e \in Epochs : (\E m \in Machines : ban[m][e] # None) => ~Served(e))

\* Two Connects at once end on one epoch: the two computers do not go on
\* driving each other on different links (keep_live_epoch).
Converges ==
    <>[](\A m \in Machines, j, k \in Kids :
           kid[m][j].ph = "linked" /\ kid[Peer(m)][k].ph = "linked"
             => kid[m][j].e = kid[Peer(m)][k].e)

\* A child is told of the end of its own link only: LinkEnded is the hang-up of
\* the link it names (wire.rs), so the side that keeps its child in an adoption
\* is not hung up by the end of the child the other side replaced.
OwnMessage ==
    [][\A m \in Machines, k \in Kids : kid'[m][k].word \in {None, kid[m][k].e}]_vars
=============================================================================
