--------------------------- MODULE LinkLifecycle ---------------------------
(***************************************************************************)
(* The life of an inbound link inside the daemon (kvm-daemon): the streams *)
(* that ask to be served, the approval queue a person answers, the leases  *)
(* of the outbound children, the bans of ended link epochs and their file, *)
(* the registry of live sessions, and the control requests that hang links *)
(* up.  A handler is split where another task can run between two of its   *)
(* effects and see or undo the first: at the awaits of the gate, of the    *)
(* decision, of a teardown, and between the two locks of an approval.      *)
(*                                                                         *)
(* A stream is one association of a peer: it serves one episode at a time. *)
(* A caller is one connection to the local control socket (the desktop     *)
(* app, a supervised child, the command line), or the presence janitor.    *)
(***************************************************************************)
EXTENDS Naturals, FiniteSets

CONSTANTS
    Peers,      \* certificate fingerprints
    Epochs,     \* link ids minted by a Connect
    Streams,    \* tasks that serve inbound associations
    Callers,    \* control connections and background tasks
    None,
    BanCap,     \* bound of the set of ended epochs (32 in the code)
    MaxPending, \* bound of the approval queue (MAX_PENDING_LINKS)
    Ghosts,     \* Ghosts[p]: other identities carrying p's machine name
    Faults      \* which I/O errors happen: "save" of the book, "reply"

Links == Peers \X Epochs
Tasks == Streams \cup Callers

ASSUME LinkAssumption ==
    /\ None \notin Peers \cup Epochs \cup Streams \cup Callers
    /\ Streams \cap Callers = {}
    /\ BanCap \in Nat \ {0}
    /\ MaxPending \in Nat
    /\ Ghosts \in [Peers -> SUBSET Peers]
    /\ Faults \subseteq {"save", "reply"}

VARIABLES
    pinned,     \* the peer book in memory
    book,       \* peers.json
    app,        \* ui_present(): the desktop app is here
    ended,      \* ENDED_LINKS and PEER_ENDED_LINKS (module EndedLinks tells
                \* them apart and models their file)
    leases,     \* OUTBOUND_LEASES: the connection holding each link's lease
    approved,   \* LinkApprovals::approved
    graced,     \* peers inside PAIRING_LINK_GRACE
    pending,    \* LinkApprovals::pending: the stream each row will answer
    links,      \* inbound_link_registry: the session listed for each peer
    phase,      \* where each task stands
    peer, epoch,\* the link each task works on
    answer,     \* the decision channel of a waiting stream
    hungUp,     \* the registry's drop channel has fired, or lost its sender
    revoked,    \* a revocation of the peer waits in the stream's broadcast
    todo,       \* sessions a caller still has to tear down
    consent     \* history: links some local act has allowed in this run

trust    == <<pinned, book, app>>
queue    == <<approved, graced, pending, answer, consent>>
sessions == <<links, hungUp, revoked>>
vars == <<trust, ended, leases, queue, sessions, phase, peer, epoch, todo>>

StreamPhases == {"idle", "hello", "gated", "waiting", "deciding", "accepting",
                 "serving", "saving"}
CallerPhases == {"idle", "lease", "leased", "grant", "hangup", "forget",
                 "bury", "saving"}
Answers == {"open", "yes", "no", "closed"}

Init ==
    /\ pinned = {} /\ book = {} /\ app = FALSE
    /\ ended = {}
    /\ leases = [l \in Links |-> None]
    /\ approved = {} /\ graced = {}
    /\ pending = [l \in Links |-> None]
    /\ links = [p \in Peers |-> None]
    /\ phase = [x \in Tasks |-> "idle"]
    /\ peer = [x \in Tasks |-> None]
    /\ epoch = [x \in Tasks |-> None]
    /\ answer = [t \in Streams |-> "open"]
    /\ hungUp = [t \in Streams |-> FALSE]
    /\ revoked = [t \in Streams |-> FALSE]
    /\ todo = [c \in Callers |-> {}]
    /\ consent = {}
----------------------------------------------------------------------------
(* The bans, the approval queue and the registry: the daemon's own helpers. *)

\* end_link: a full set forgets every older ban.
Bury(e) == ended' = IF Cardinality(ended) >= BanCap THEN {e} ELSE ended \cup {e}

Goto(x, ph) == phase' = [phase EXCEPT ![x] = ph]

\* Mutant: the row goes and its waiter is not told.
RemoveRowsSilently(Gone) ==
    /\ pending' = [l \in Links |-> IF l \in Gone THEN None ELSE pending[l]]
    /\ UNCHANGED answer

\* Drop every row of the queue that satisfies Gone: its waiter's channel closes.
RemoveRows(Gone) ==
    /\ pending' = [l \in Links |-> IF l \in Gone THEN None ELSE pending[l]]
    /\ answer' = [t \in Streams |->
                    IF answer[t] = "open" /\ \E l \in Gone : pending[l] = t
                    THEN "closed" ELSE answer[t]]

RowsOf(p) == {l \in Links : l[1] = p}
RowsAt(e) == {l \in Links : l[2] = e}

\* Signal the session listed for p, if any.
DropSession(p) ==
    hungUp' = [t \in Streams |-> hungUp[t] \/ (p \in Peers /\ links[p] = t)]

Queued == {l \in Links : pending[l] # None}
Key(t) == <<peer[t], epoch[t]>>
----------------------------------------------------------------------------
(* handle_connection: one stream from its first frame to its end.          *)

\* A stream arrives; the revocation broadcast is subscribed before any check.
Open(t, p) ==
    /\ phase[t] = "idle"
    /\ Goto(t, "hello")
    /\ peer' = [peer EXCEPT ![t] = p]
    /\ epoch' = [epoch EXCEPT ![t] = None]
    /\ revoked' = [revoked EXCEPT ![t] = FALSE]
    /\ UNCHANGED <<trust, ended, leases, queue, links, hungUp, todo>>

\* Hello on a pinned peer's stream whose epoch is alive while the app is here.
\* A Hello without an epoch is an administrative path and asks nobody.
Hello(t, e) ==
    /\ phase[t] = "hello"
    /\ peer[t] \in pinned
    /\ e # None => e \notin ended /\ app
    /\ Goto(t, IF e = None THEN "accepting" ELSE "gated")
    /\ epoch' = [epoch EXCEPT ![t] = e]
    /\ UNCHANGED <<trust, ended, leases, queue, sessions, peer, todo>>

\* Any refusal of the first frame: an unknown peer, a ban, the modes, no app,
\* a frame that is none of the three; and a stream that dies before it.
Refuse(t) ==
    /\ phase[t] = "hello"
    /\ Goto(t, "idle")
    /\ UNCHANGED <<trust, ended, leases, queue, sessions, peer, epoch, todo>>

\* Mutant: any link this machine dialled on the epoch vouches for the peer.
VouchedByEpoch(p, e) == \E l \in RowsAt(e) : leases[l] # None

Vouched(p, e) == \E l \in RowsAt(e) : leases[l] # None /\ l[1] = p

\* The approval gate: a remembered epoch, a pairing just made or a link this
\* machine dialled passes.
PassGate(t) ==
    /\ phase[t] = "gated"
    /\ Key(t) \in approved \/ peer[t] \in graced \/ Vouched(peer[t], epoch[t])
    /\ Goto(t, "accepting")
    /\ UNCHANGED <<trust, ended, leases, queue, sessions, peer, epoch, todo>>

\* Any other epoch queues for the person at this machine.
Register(t) ==
    /\ phase[t] = "gated"
    /\ Key(t) \notin approved /\ peer[t] \notin graced
    /\ ~Vouched(peer[t], epoch[t])
    /\ pending[Key(t)] = None
    /\ Cardinality(Queued) < MaxPending
    /\ pending' = [pending EXCEPT ![Key(t)] = t]
    /\ answer' = [answer EXCEPT ![t] = "open"]
    /\ Goto(t, "waiting")
    /\ UNCHANGED <<trust, ended, leases, approved, graced, consent, sessions,
                   peer, epoch, todo>>

\* The queue refuses: a duplicate row, a full queue, or a peer frozen after
\* repeated denials (the freeze itself is module Approvals).
RegisterRefused(t) ==
    /\ phase[t] = "gated"
    /\ Key(t) \notin approved /\ peer[t] \notin graced
    /\ Goto(t, "idle")
    /\ UNCHANGED <<trust, ended, leases, queue, sessions, peer, epoch, todo>>

\* wait(): the decision arrives, or the channel is closed under the waiter.
Decided(t) ==
    /\ phase[t] = "waiting"
    /\ answer[t] # "open"
    /\ Goto(t, "deciding")
    /\ UNCHANGED <<trust, ended, leases, queue, sessions, peer, epoch, todo>>

\* Mutant: nobody objected in time.
TimedOutYes(t) ==
    /\ phase[t] = "waiting"
    /\ answer[t] = "open"
    /\ answer' = [answer EXCEPT ![t] = "yes"]
    /\ Goto(t, "deciding")
    /\ UNCHANGED <<trust, ended, leases, approved, graced, pending, consent,
                   sessions, peer, epoch, todo>>

\* wait(): LINK_APPROVAL_TIMEOUT expires, which drops the receiver.
TimedOut(t) ==
    /\ phase[t] = "waiting"
    /\ answer[t] = "open"
    /\ answer' = [answer EXCEPT ![t] = "no"]
    /\ Goto(t, "deciding")
    /\ UNCHANGED <<trust, ended, leases, approved, graced, pending, consent,
                   sessions, peer, epoch, todo>>

\* Mutant: the row of a request that was not answered stays.
SettleKeepsRow(t) ==
    /\ phase[t] = "deciding"
    /\ Goto(t, IF answer[t] = "yes" THEN "accepting" ELSE "idle")
    /\ UNCHANGED <<trust, ended, leases, queue, sessions, peer, epoch, todo>>

\* Mutant: only an explicit no is a no.
SettleLenient(t) ==
    /\ phase[t] = "deciding"
    /\ RemoveRows({Key(t)})
    /\ Goto(t, IF answer[t] # "no" THEN "accepting" ELSE "idle")
    /\ UNCHANGED <<trust, ended, leases, approved, graced, consent, sessions,
                   peer, epoch, todo>>

\* wait(): the row is removed by its key, whoever's row it is by now.
Settle(t) ==
    /\ phase[t] = "deciding"
    /\ RemoveRows({Key(t)})
    /\ Goto(t, IF answer[t] = "yes" THEN "accepting" ELSE "idle")
    /\ UNCHANGED <<trust, ended, leases, approved, graced, consent, sessions,
                   peer, epoch, todo>>

\* The peer disconnects while its request waits: the row is cancelled.
PeerVanishes(t) ==
    /\ phase[t] \in {"waiting", "deciding"}
    /\ RemoveRows({Key(t)})
    /\ Goto(t, "idle")
    /\ UNCHANGED <<trust, ended, leases, approved, graced, consent, sessions,
                   peer, epoch, todo>>

\* A capability mismatch, no injector, or a failed Accepted frame.
AcceptFails(t) ==
    /\ phase[t] = "accepting"
    /\ Goto(t, "idle")
    /\ UNCHANGED <<trust, ended, leases, queue, sessions, peer, epoch, todo>>

\* Mutant: the broadcast is subscribed when the session starts.
ServeSubscribes(t) ==
    /\ phase[t] = "accepting"
    /\ links' = [links EXCEPT ![peer[t]] = t]
    /\ hungUp' = [s \in Streams |->
                    IF s = t THEN FALSE ELSE hungUp[s] \/ links[peer[t]] = s]
    /\ revoked' = [revoked EXCEPT ![t] = FALSE]
    /\ Goto(t, "serving")
    /\ UNCHANGED <<trust, ended, leases, queue, peer, epoch, todo>>

\* Accepted is written and the session is listed: a row of the same peer is
\* replaced, which drops its sender and so ends the older session.  Other
\* identities of the same machine leave the peer book.
Serve(t) ==
    /\ phase[t] = "accepting"
    /\ links' = [links EXCEPT ![peer[t]] = t]
    /\ hungUp' = [s \in Streams |->
                    IF s = t THEN FALSE ELSE hungUp[s] \/ links[peer[t]] = s]
    /\ pinned' = pinned \ Ghosts[peer[t]]
    /\ book' = book \ Ghosts[peer[t]]
    /\ Goto(t, "serving")
    /\ UNCHANGED <<app, ended, leases, queue, revoked, peer, epoch, todo>>

\* Mutant: the guard removes the peer's row without comparing ids.
EndSessionBlind(t) ==
    /\ phase[t] = "serving"
    /\ links' = [links EXCEPT ![peer[t]] = None]
    /\ Goto(t, "idle")
    /\ UNCHANGED <<trust, ended, leases, queue, hungUp, revoked, peer, epoch,
                   todo>>

\* The session ends and its guard removes its own row, never a successor's.
EndSession(t) ==
    /\ phase[t] = "serving"
    /\ links' = [links EXCEPT ![peer[t]] = IF @ = t THEN None ELSE @]
    /\ Goto(t, "idle")
    /\ UNCHANGED <<trust, ended, leases, queue, hungUp, revoked, peer, epoch,
                   todo>>

HangUp(t)    == hungUp[t]  /\ EndSession(t)
CutOff(t)    == revoked[t] /\ EndSession(t)
PeerLeaves(t) == EndSession(t)

\* LinkEnded as first frame: the peer's person pressed Disconnect.
LinkEnded(t, e) ==
    /\ phase[t] = "hello"
    /\ peer[t] \in pinned
    /\ epoch' = [epoch EXCEPT ![t] = e]
    /\ IF e = None
       THEN /\ DropSession(peer[t])
            /\ Goto(t, "idle")
            /\ UNCHANGED ended
       ELSE /\ Bury(e)
            /\ Goto(t, "saving")
            /\ UNCHANGED hungUp
    /\ UNCHANGED <<trust, leases, queue, links, revoked, peer, todo>>

\* The ban is written to its file; then the peer's session is dropped.
LinkEndedDrop(t) ==
    /\ phase[t] = "saving"
    /\ DropSession(peer[t])
    /\ Goto(t, "idle")
    /\ UNCHANGED <<trust, ended, leases, queue, links, revoked, peer, epoch, todo>>
----------------------------------------------------------------------------
(* The peer book and the approvals, from the control socket.               *)

\* A pairing completes: the peer is pinned and its next link passes silently.
Pair(p) ==
    /\ pinned' = pinned \cup {p}
    /\ book' = book \cup {p}
    /\ graced' = graced \cup {p}
    /\ consent' = consent \cup RowsOf(p)
    /\ UNCHANGED <<app, ended, leases, approved, pending, answer, sessions,
                   phase, peer, epoch, todo>>

\* The pairing's pin cannot be saved: the error ends the ceremony, but the
\* peer stays in the memory of the book.
PairSaveFails(p) ==
    /\ "save" \in Faults
    /\ p \notin pinned
    /\ pinned' = pinned \cup {p}
    /\ UNCHANGED <<book, app, ended, leases, queue, sessions, phase, peer, epoch,
                   todo>>

\* PinPeer: the desktop app pins a peer it paired on its own.
PinPeer(p) ==
    /\ p \notin pinned
    /\ pinned' = pinned \cup {p}
    /\ book' = book \cup {p}
    /\ UNCHANGED <<app, ended, leases, queue, sessions, phase, peer, epoch, todo>>

GraceExpires(p) ==
    /\ p \in graced
    /\ graced' = graced \ {p}
    /\ UNCHANGED <<trust, ended, leases, approved, pending, answer, consent,
                   sessions, phase, peer, epoch, todo>>

ApprovalExpires(l) ==
    /\ l \in approved
    /\ approved' = approved \ {l}
    /\ UNCHANGED <<trust, ended, leases, graced, pending, answer, consent,
                   sessions, phase, peer, epoch, todo>>

\* Unpair: the write lock of the book is held until the broadcast is sent and
\* the approvals are gone.
Unpair(p) ==
    /\ p \in pinned
    /\ pinned' = pinned \ {p}
    /\ book' = book \ {p}
    /\ revoked' = [t \in Streams |->
                     revoked[t] \/ (phase[t] # "idle" /\ peer[t] = p)]
    /\ approved' = approved \ RowsOf(p)
    /\ RemoveRows(RowsOf(p))
    /\ UNCHANGED <<app, ended, leases, graced, consent, links, hungUp, phase,
                   peer, epoch, todo>>

\* Unpair when the book cannot be saved: the peer is gone from memory, and
\* the error returns before the broadcast and the approvals.
UnpairSaveFails(p) ==
    /\ "save" \in Faults
    /\ p \in pinned
    /\ pinned' = pinned \ {p}
    /\ UNCHANGED <<book, app, ended, leases, queue, sessions, phase, peer, epoch,
                   todo>>

\* The lease of an epoch names its owner, and no other peer may be approved on
\* the epoch; of two leases on one epoch, either may be the one that is found.
ForeignEpoch(l) ==
    leases[l] = None /\ \E k \in RowsAt(l[2]) : leases[k] # None

\* ApproveLink: the row leaves the queue and the waiter hears yes ...
Approve(c, l) ==
    /\ phase[c] = "idle"
    /\ pending[l] # None
    /\ ~ForeignEpoch(l)
    /\ pending' = [pending EXCEPT ![l] = None]
    /\ IF phase[pending[l]] = "waiting"
       THEN /\ answer' = [answer EXCEPT ![pending[l]] = "yes"]
            /\ consent' = consent \cup {l}
            /\ Goto(c, "grant")
       ELSE UNCHANGED <<answer, consent, phase>>
    /\ peer' = [peer EXCEPT ![c] = l[1]]
    /\ epoch' = [epoch EXCEPT ![c] = l[2]]
    /\ UNCHANGED <<trust, ended, leases, approved, graced, sessions, todo>>

\* ... and only then, under another lock, is the epoch remembered.
Grant(c) ==
    /\ phase[c] = "grant"
    /\ approved' = approved \cup {Key(c)}
    /\ Goto(c, "idle")
    /\ UNCHANGED <<trust, ended, leases, graced, pending, answer, consent,
                   sessions, peer, epoch, todo>>

\* RejectLink: the row leaves the queue and a waiter that is still there hears no.
Deny(c, l) ==
    /\ phase[c] = "idle"
    /\ pending[l] # None
    /\ pending' = [pending EXCEPT ![l] = None]
    /\ answer' = IF phase[pending[l]] = "waiting"
                 THEN [answer EXCEPT ![pending[l]] = "no"] ELSE answer
    /\ UNCHANGED <<trust, ended, leases, approved, graced, consent, sessions,
                   phase, peer, epoch, todo>>
----------------------------------------------------------------------------
(* Presence, leases and the hang-up.                                       *)

AppArrives ==
    /\ ~app
    /\ app' = TRUE
    /\ UNCHANGED <<pinned, book, ended, leases, queue, sessions, phase, peer, epoch,
                   todo>>

\* Start tearing down the sessions of a set, one after the other.
StartTeardown(c, items) ==
    IF items = {}
    THEN /\ Goto(c, "idle")
         /\ UNCHANGED <<peer, epoch>>
         /\ todo' = [todo EXCEPT ![c] = {}]
    ELSE \E i \in items :
         /\ Goto(c, "hangup")
         /\ peer' = [peer EXCEPT ![c] = i[1]]
         /\ epoch' = [epoch EXCEPT ![c] = i[2]]
         /\ todo' = [todo EXCEPT ![c] = items \ {i}]

\* The app goes away: on_ui_gone tears down the sessions listed at this moment.
AppGone(c) ==
    /\ phase[c] = "idle"
    /\ app
    /\ app' = FALSE
    /\ StartTeardown(c, {<<p, epoch[links[p]]>> :
                            p \in {q \in Peers : links[q] # None}})
    /\ UNCHANGED <<pinned, book, ended, leases, queue, sessions>>

\* LinkLease: a child registers its link; an older record is replaced.
LeaseBegin(c, l) ==
    /\ phase[c] = "idle"
    /\ leases' = [leases EXCEPT ![l] = c]
    /\ consent' = consent \cup {l}
    /\ Goto(c, "lease")
    /\ peer' = [peer EXCEPT ![c] = l[1]]
    /\ epoch' = [epoch EXCEPT ![c] = l[2]]
    /\ UNCHANGED <<trust, ended, approved, graced, pending, answer, sessions,
                   todo>>

LeaseReplied(c) ==
    /\ phase[c] = "lease"
    /\ Goto(c, "leased")
    /\ UNCHANGED <<trust, ended, leases, queue, sessions, peer, epoch, todo>>

\* The first reply cannot be written: the handler returns on the spot.
LeaseReplyFails(c) ==
    /\ "reply" \in Faults
    /\ phase[c] = "lease"
    /\ Goto(c, "idle")
    /\ UNCHANGED <<trust, ended, leases, queue, sessions, peer, epoch, todo>>

\* The child dies or falls silent: the live lease tears its link down, a
\* replaced or taken one does nothing.
LeaseEnds(c) ==
    /\ phase[c] = "leased"
    /\ IF leases[Key(c)] = c
       THEN /\ leases' = [leases EXCEPT ![Key(c)] = None]
            /\ StartTeardown(c, {Key(c)})
       ELSE /\ Goto(c, "idle")
            /\ UNCHANGED <<leases, peer, epoch, todo>>
    /\ UNCHANGED <<trust, ended, queue, sessions>>

\* DisconnectLink: the lease matching the epoch or the address (here: the peer
\* that has it) is taken, and fills in what the request leaves out.
Disconnect(c, p, e, at) ==
    /\ phase[c] = "idle"
    /\ p # None \/ e # None \/ at # None
    /\ LET Match == {l \in Links : leases[l] # None /\ (l[2] = e \/ l[1] = at)}
       IN  IF Match = {}
           THEN /\ StartTeardown(c, {<<p, e>>})
                /\ UNCHANGED leases
           ELSE \E l \in Match :
                /\ leases' = [leases EXCEPT ![l] = None]
                /\ StartTeardown(c, {<<IF p = None THEN l[1] ELSE p,
                                       IF e = None THEN l[2] ELSE e>>})
    /\ UNCHANGED <<trust, ended, queue, sessions>>

\* Mutant: only a session of the same epoch is dropped.
TeardownDropSameEpoch(c) ==
    /\ phase[c] = "hangup"
    /\ hungUp' = [t \in Streams |-> hungUp[t] \/
                     (peer[c] # None /\ links[peer[c]] = t /\ epoch[t] = epoch[c])]
    /\ Goto(c, IF peer[c] = None THEN "bury" ELSE "forget")
    /\ UNCHANGED <<trust, ended, leases, queue, links, revoked, peer, epoch, todo>>

\* teardown_link: after the courtesy notice, drop the peer's session, whatever
\* epoch it carries.
TeardownDrop(c) ==
    /\ phase[c] = "hangup"
    /\ DropSession(peer[c])
    /\ Goto(c, IF peer[c] = None THEN "bury" ELSE "forget")
    /\ UNCHANGED <<trust, ended, leases, queue, links, revoked, peer, epoch, todo>>

\* teardown_link: forget the peer's approvals and queued requests.
TeardownForget(c) ==
    /\ phase[c] = "forget"
    /\ approved' = approved \ RowsOf(peer[c])
    /\ RemoveRows(RowsOf(peer[c]))
    /\ Goto(c, "bury")
    /\ UNCHANGED <<trust, ended, leases, graced, consent, sessions, peer, epoch,
                   todo>>

\* Mutant: bans whatever it is given, an epoch or none.
TeardownBuryUnchecked(c) ==
    /\ phase[c] = "bury"
    /\ Bury(epoch[c])
    /\ approved' = approved \ RowsAt(epoch[c])
    /\ RemoveRows(RowsAt(epoch[c]))
    /\ Goto(c, "saving")
    /\ UNCHANGED <<trust, leases, graced, consent, sessions, peer, epoch, todo>>

\* teardown_link: ban the epoch unless it is banned, forget its approvals.
TeardownBury(c) ==
    /\ phase[c] = "bury"
    /\ IF epoch[c] = None
       THEN UNCHANGED <<ended, approved, pending, answer>>
       ELSE /\ IF epoch[c] \in ended THEN UNCHANGED ended ELSE Bury(epoch[c])
            /\ approved' = approved \ RowsAt(epoch[c])
            /\ RemoveRows(RowsAt(epoch[c]))
    /\ Goto(c, IF peer[c] = None /\ epoch[c] = None THEN "idle" ELSE "saving")
    /\ UNCHANGED <<trust, leases, graced, consent, sessions, peer, epoch, todo>>

\* teardown_link: the bans are written; a list of sessions goes on.
TeardownSaved(c) ==
    /\ phase[c] = "saving"
    /\ StartTeardown(c, todo[c])
    /\ UNCHANGED <<trust, ended, leases, queue, sessions>>

\* EndLink: ban an epoch without touching the session that carries it.
EndLink(c, e) ==
    /\ phase[c] = "idle"
    /\ Bury(e)
    /\ approved' = approved \ RowsAt(e)
    /\ RemoveRows(RowsAt(e))
    /\ Goto(c, "saving")
    /\ peer' = [peer EXCEPT ![c] = None]
    /\ epoch' = [epoch EXCEPT ![c] = e]
    /\ UNCHANGED <<trust, leases, graced, consent, sessions, todo>>

\* DropSession: signal the peer's session and forget its approvals.
DropRequest(c, p) ==
    /\ phase[c] = "idle"
    /\ links[p] # None
    /\ DropSession(p)
    /\ approved' = approved \ RowsOf(p)
    /\ RemoveRows(RowsOf(p))
    /\ UNCHANGED <<trust, ended, leases, graced, consent, links, revoked, phase,
                   peer, epoch, todo>>
----------------------------------------------------------------------------
\* The process dies and starts again: the peer book is left, and what of the
\* bans their file still holds.
Restart ==
    /\ pinned' = book
    /\ app' = FALSE
    /\ ended' \in SUBSET ended
    /\ leases' = [l \in Links |-> None]
    /\ approved' = {} /\ graced' = {}
    /\ pending' = [l \in Links |-> None]
    /\ links' = [p \in Peers |-> None]
    /\ phase' = [x \in Tasks |-> "idle"]
    /\ peer' = [x \in Tasks |-> None]
    /\ epoch' = [x \in Tasks |-> None]
    /\ answer' = [t \in Streams |-> "open"]
    /\ hungUp' = [t \in Streams |-> FALSE]
    /\ revoked' = [t \in Streams |-> FALSE]
    /\ todo' = [c \in Callers |-> {}]
    /\ consent' = {}
    /\ UNCHANGED book
----------------------------------------------------------------------------
StreamStep(t) ==
    \/ \E p \in Peers : Open(t, p)
    \/ \E e \in Epochs \cup {None} : Hello(t, e) \/ LinkEnded(t, e)
    \/ Refuse(t) \/ LinkEndedDrop(t)
    \/ PassGate(t) \/ Register(t) \/ RegisterRefused(t)
    \/ Decided(t) \/ TimedOut(t) \/ Settle(t) \/ PeerVanishes(t)
    \/ AcceptFails(t) \/ Serve(t)
    \/ HangUp(t) \/ CutOff(t) \/ PeerLeaves(t)

TrustStep ==
    \/ \E p \in Peers : \/ Pair(p) \/ PairSaveFails(p)
                        \/ PinPeer(p) \/ GraceExpires(p)
                        \/ Unpair(p) \/ UnpairSaveFails(p)
    \/ \E l \in Links : ApprovalExpires(l)

CallerStep(c) ==
    \/ \E l \in Links : Approve(c, l) \/ Deny(c, l) \/ LeaseBegin(c, l)
    \/ Grant(c) \/ AppGone(c)
    \/ LeaseReplied(c) \/ LeaseReplyFails(c) \/ LeaseEnds(c)
    \/ \E p \in Peers \cup {None}, e \in Epochs \cup {None},
          at \in Peers \cup {None} : Disconnect(c, p, e, at)
    \/ TeardownDrop(c) \/ TeardownForget(c) \/ TeardownBury(c) \/ TeardownSaved(c)
    \/ \E e \in Epochs : EndLink(c, e)
    \/ \E p \in Peers : DropRequest(c, p)

Next ==
    \/ \E t \in Streams : StreamStep(t)
    \/ TrustStep
    \/ AppArrives
    \/ \E c \in Callers : CallerStep(c)
    \/ Restart

Spec == Init /\ [][Next]_vars

\* tokio runs every task that can run: a teardown goes on and a session that
\* was signalled ends.  Nothing is assumed of peers, persons or children.
Fairness ==
    /\ \A c \in Callers : WF_vars(TeardownDrop(c))
    /\ \A t \in Streams : WF_vars(HangUp(t))

FairSpec == Spec /\ Fairness
----------------------------------------------------------------------------
\* A task that works on a link knows it.
KeysKnown ==
    /\ \A t \in Streams : phase[t] # "idle" => peer[t] \in Peers
    /\ \A t \in Streams :
          phase[t] \in {"gated", "waiting", "deciding"} => epoch[t] \in Epochs
    /\ \A c \in Callers :
          phase[c] \in {"grant", "lease", "leased"} => Key(c) \in Links

TypeOK ==
    /\ KeysKnown
    /\ pinned \in SUBSET Peers /\ book \in SUBSET Peers /\ app \in BOOLEAN
    /\ ended \in SUBSET Epochs
    /\ leases \in [Links -> Callers \cup {None}]
    /\ approved \in SUBSET Links /\ graced \in SUBSET Peers
    /\ consent \in SUBSET Links
    /\ pending \in [Links -> Streams \cup {None}]
    /\ answer \in [Streams -> Answers]
    /\ links \in [Peers -> Streams \cup {None}]
    /\ hungUp \in [Streams -> BOOLEAN] /\ revoked \in [Streams -> BOOLEAN]
    /\ phase \in [Tasks -> StreamPhases \cup CallerPhases]
    /\ peer \in [Tasks -> Peers \cup {None}]
    /\ epoch \in [Tasks -> Epochs \cup {None}]
    /\ todo \in [Callers -> SUBSET ((Peers \cup {None}) \X (Epochs \cup {None}))]

\* The registry lists a session only while it runs, and a running session that
\* is not listed has been signalled to end: register_inbound_link replaces the
\* row of a peer and with it drops the older session's channel, and a session's
\* guard leaves its successor's row alone.  So no session of a peer escapes a
\* hang-up, and no row outlives its session.
RegistryExact ==
    /\ \A p \in Peers : links[p] # None =>
          phase[links[p]] = "serving" /\ peer[links[p]] = p
    /\ \A t \in Streams : phase[t] = "serving" =>
          hungUp[t] \/ links[peer[t]] = t

\* A row of the approval queue belongs to a stream that waits for its answer,
\* and a stream whose channel is open has its row: neither a cancel, a timeout,
\* a revocation nor the removal by key in wait() leaves a row that nobody waits
\* on, or a stream that nobody can answer.
QueueExact ==
    \A t \in Streams :
        /\ \A l \in Links : pending[l] = t =>
              phase[t] \in {"waiting", "deciding"} /\ Key(t) = l
        /\ phase[t] = "waiting" /\ answer[t] = "open" => pending[Key(t)] = t

\* A stream past the trust check whose peer has been unpaired since holds an
\* undelivered revocation, so its session ends: handle_connection subscribes
\* before it reads the first frame, long before it serves.
RevocationReaches ==
    \A t \in Streams :
        phase[t] \in {"gated", "waiting", "deciding", "accepting", "serving"}
        /\ peer[t] \notin pinned => revoked[t]

\* No link with an epoch is served unless this person has allowed exactly this
\* peer on exactly this epoch (or paired it, or dialled it) in this run of the
\* daemon: no timeout, revocation, replaced row or late answer amounts to a yes.
OnlyConsentedLinksServe ==
    \A t \in Streams :
        phase[t] \in {"accepting", "serving"} /\ epoch[t] # None
            => Key(t) \in consent

\* What a consent can rest on: whatever lets a stream through the gate later (a
\* remembered epoch, a fresh pairing, a lease, a yes still in its channel, an
\* approval about to be remembered) goes back to a consent to this very link.
ConsentBasis ==
    /\ approved \subseteq consent
    /\ \A p \in graced : RowsOf(p) \subseteq consent
    /\ \A l \in Links : leases[l] # None => l \in consent
    /\ \A t \in Streams :
          phase[t] \in {"waiting", "deciding"} /\ answer[t] = "yes"
              => Key(t) \in consent
    /\ \A c \in Callers : phase[c] = "grant" => Key(c) \in consent

\* The session listed for a peer when its hang-up starts comes to an end.
HangUpLands ==
    \A c \in Callers, t \in Streams, p \in Peers :
        (phase[c] = "hangup" /\ peer[c] = p /\ links[p] = t)
            ~> (phase[t] # "serving")
----------------------------------------------------------------------------
(* What the comments of the code promise and the code does not keep.       *)

\* "a stale redial can never resurrect a dead link as a zombie": no session
\* begins on an epoch that is banned at that moment.
NoZombie ==
    [][\A t \in Streams :
          phase[t] # "serving" /\ phase'[t] = "serving" => epoch[t] \notin ended]_vars

\* "the supervised child's death (any cause) ends this connection and tears the
\* whole link down": a lease is held by a live connection.
LeaseNeedsChild ==
    \A l \in Links : leases[l] # None =>
        phase[leases[l]] \in {"lease", "leased"} /\ Key(leases[l]) = l

\* "Trust gone means approvals gone too": no approval outlives the pairing.
ApprovalsNeedTrust == \A l \in approved : l[1] \in pinned

\* "hang up every live inbound session so no other computer keeps driving": once
\* the hang-up of a vanished app is over, no session is left but signalled ones.
NoSessionWithoutApp ==
    ~app /\ (\A c \in Callers : phase[c] = "idle")
        => \A t \in Streams :
             phase[t] = "serving" /\ epoch[t] # None => hungUp[t] \/ revoked[t]
============================================================================
