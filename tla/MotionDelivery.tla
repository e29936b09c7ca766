--------------------------- MODULE MotionDelivery ---------------------------
(***************************************************************************)
(* Pointer motion from one peer, from its children's counters to the       *)
(* sessions that apply it.  Motion travels as UDP datagrams to one         *)
(* listener of the daemon, which knows peers by keys derived from link     *)
(* epochs and hands each datagram to the session that registered last; or, *)
(* when the socket refuses it, on the session's own streams, with keys and *)
(* wheel.  One sequence number per child spans all of them.                *)
(*                                                                         *)
(* Whether a session may apply motion at all is module ReceiverDrive.      *)
(***************************************************************************)
EXTENDS Naturals, Sequences, FiniteSets

CONSTANTS
    Epochs,     \* link ids
    Sessions,   \* serving sessions of this peer, each used once
    None,
    MaxChild,   \* bound of the children the peer's app starts
    MaxSeq,     \* bound of the events a child sends
    MaxWire,    \* bound of the events on their way on a session's streams
    Channel,    \* datagrams a sink holds (1024)
    SeenCap,    \* sequence numbers a session remembers (4096)
    MotionFaults \* "dup": a datagram may come again; "expire": keys are dropped
                \* for age or number; "trim": the listener forgets a last_seq

ASSUME MotionAssumption ==
    /\ None \notin Epochs \cup Sessions
    /\ MaxChild \in Nat /\ MaxSeq \in Nat /\ MaxWire \in Nat
    /\ Channel \in Nat
    /\ SeenCap \in Nat \ {0}
    /\ MotionFaults \subseteq {"dup", "expire", "trim"}

VARIABLES
    link,       \* the epoch of each child; the last one is alive
    sequence,   \* its counter
    drive,      \* the session it drives on
    air,        \* datagrams on their way
    keys,       \* UDP_MOTION_KEYS: epochs whose key the daemon holds
    last,       \* the listener's last_seq; 0 is no entry
    sink,       \* UDP_MOTION_SINKS for this peer
    phase,      \* sessions: none, accepted, open, done
    owner,      \* the child each session serves
    wire,       \* events on a session's streams
    queue,      \* datagrams in a session's sink
    seen,       \* seen_sequences
    latest,     \* MotionSequence::latest; 0 is None
    applied,    \* history: the events applied, by any session
    again,      \* history: those applied more than once
    newest,     \* history: the session that registered last
    mixed,      \* history: sessions that took an event of another child
    forgotten   \* history: epochs whose last_seq was forgotten

dialer   == <<link, sequence, drive>>
listener == <<air, keys, last, sink, newest, forgotten>>
motionSession == <<phase, owner, wire, queue, seen, latest, applied, again, mixed>>
motionVars == <<dialer, listener, motionSession>>

Child == Len(link)
Event(kind) == [child |-> Child, n |-> sequence + 1, kind |-> kind]

MotionInit ==
    /\ link = <<>> /\ sequence = 0 /\ drive = None
    /\ air = {} /\ keys = {} /\ last = [e \in Epochs |-> 0] /\ sink = None
    /\ phase = [s \in Sessions |-> "none"]
    /\ owner = [s \in Sessions |-> 0]
    /\ wire = [s \in Sessions |-> <<>>] /\ queue = [s \in Sessions |-> <<>>]
    /\ seen = [s \in Sessions |-> {}] /\ latest = [s \in Sessions |-> 0]
    /\ applied = {} /\ again = {}
    /\ newest = None /\ mixed = {} /\ forgotten = {}
----------------------------------------------------------------------------
(* The peer: its app starts a child, the child opens a stream and drives.  *)

\* A Connect mints an epoch; a dial-back of a child that died reuses its epoch.
Dial(e) ==
    /\ Child < MaxChild
    /\ \A c \in 1..Child : link[c] = e => c = Child
    /\ link' = Append(link, e)
    /\ sequence' = 0
    /\ drive' = None
    /\ UNCHANGED <<listener, motionSession>>

\* A stream of the child is accepted, and the reply is on its way.
Open(s) ==
    /\ Child # 0
    /\ phase[s] = "none"
    /\ phase' = [phase EXCEPT ![s] = "accepted"]
    /\ owner' = [owner EXCEPT ![s] = Child]
    /\ UNCHANGED <<dialer, listener, wire, queue, seen, latest, applied, again, mixed>>

Drive(s) ==
    /\ phase[s] \in {"accepted", "open"}
    /\ owner[s] = Child
    /\ drive' = s
    /\ UNCHANGED <<link, sequence, listener, motionSession>>

Count == sequence < MaxSeq /\ sequence' = sequence + 1

\* send_motion_udp: what the socket accepts counts as delivered.
SendUdp ==
    /\ drive # None
    /\ Count
    /\ air' = air \cup {Event("move")}
    /\ UNCHANGED <<link, drive, keys, last, sink, newest, forgotten, motionSession>>

\* Keys, wheel, and motion that the socket refused; best-effort sends may drop.
SendStream(kind) ==
    /\ drive # None
    /\ Count
    /\ \/ /\ Len(wire[drive]) < MaxWire
          /\ wire' = [wire EXCEPT ![drive] = Append(@, Event(kind))]
       \/ kind = "move" /\ UNCHANGED wire
    /\ UNCHANGED <<link, drive, listener, phase, owner, queue, seen, latest,
                   applied, again, mixed>>
----------------------------------------------------------------------------
(* The daemon: keys, sinks and the listener.                               *)

\* Keys that any registration drops: those older than 15 minutes or beyond 64.
Dropped == IF "expire" \in MotionFaults THEN SUBSET keys ELSE {{}}

\* register_inbound_link, register_udp_motion_key, register_udp_motion_sink.
Register(s) ==
    /\ phase[s] = "accepted"
    /\ phase' = [phase EXCEPT ![s] = "open"]
    /\ \E gone \in Dropped : keys' = (keys \ gone) \cup {link[owner[s]]}
    /\ sink' = s
    /\ newest' = s
    /\ UNCHANGED <<dialer, air, last, forgotten, owner, wire, queue, seen,
                   latest, applied, again, mixed>>

\* Another peer's registration.
OtherRegisters ==
    /\ \E gone \in Dropped : keys' = keys \ gone
    /\ UNCHANGED <<dialer, air, last, sink, newest, forgotten, motionSession>>

\* Mutant: the guard removes the peer's sink whoever registered it.
EndBlind(s) ==
    /\ phase[s] \in {"accepted", "open"}
    /\ phase' = [phase EXCEPT ![s] = "done"]
    /\ wire' = [wire EXCEPT ![s] = <<>>]
    /\ queue' = [queue EXCEPT ![s] = <<>>]
    /\ drive' = IF drive = s THEN None ELSE drive
    /\ sink' = None
    /\ UNCHANGED <<link, sequence, air, keys, last, newest, forgotten, owner,
                   seen, latest, applied, again, mixed>>

\* The session ends, or never starts; its guard leaves a successor's sink alone.
End(s) ==
    /\ phase[s] \in {"accepted", "open"}
    /\ phase' = [phase EXCEPT ![s] = "done"]
    /\ wire' = [wire EXCEPT ![s] = <<>>]
    /\ queue' = [queue EXCEPT ![s] = <<>>]
    /\ drive' = IF drive = s THEN None ELSE drive
    /\ sink' = IF sink = s THEN None ELSE sink
    /\ UNCHANGED <<link, sequence, air, keys, last, newest, forgotten, owner,
                   seen, latest, applied, again, mixed>>

\* Mutant: the listener takes whatever its keys open.
FreshAny(m) == link[m.child] \in keys

\* The datagram opens with a key of the ring and is newer than all before it.
Fresh(m) == link[m.child] \in keys /\ m.n > last[link[m.child]]

\* Mutant: one number for a peer, whatever key its datagrams open with.
HeardByPeer(m) == [e \in Epochs |-> m.n]

Heard(m) == [last EXCEPT ![link[m.child]] = m.n]

\* Mutant: the sink grows.
ForwardAll(m) ==
    [s \in Sessions |-> IF s = sink THEN Append(queue[s], m) ELSE queue[s]]

\* forward_udp_motion: a missing sink, or a full one, drops the datagram.
Forward(m) ==
    [s \in Sessions |-> IF s = sink /\ Len(queue[s]) < Channel
                        THEN Append(queue[s], m) ELSE queue[s]]

\* spawn_udp_motion_listener.
Arrive(m) ==
    /\ m \in air
    /\ air' = IF "dup" \in MotionFaults THEN air ELSE air \ {m}
    /\ IF Fresh(m) THEN last' = Heard(m) /\ queue' = Forward(m)
                   ELSE UNCHANGED <<last, queue>>
    /\ UNCHANGED <<dialer, keys, sink, newest, forgotten, phase, owner, wire,
                   seen, latest, applied, again, mixed>>

\* More than 128 keys have sent motion: an arbitrary one is forgotten
\* (once here: bound).
Forget(e) ==
    /\ "trim" \in MotionFaults
    /\ last[e] # 0
    /\ forgotten = {}
    /\ last' = [last EXCEPT ![e] = 0]
    /\ forgotten' = forgotten \cup {e}
    /\ UNCHANGED <<dialer, air, keys, sink, newest, motionSession>>
----------------------------------------------------------------------------
(* The session: process_remote_input.                                      *)

KeepLargest(S) == {n \in S : Cardinality({i \in S : i >= n}) <= SeenCap}

Duplicate(s, ev) == ev.n \in seen[s]

\* Mutant: nothing may come out of order, on whatever path.
StaleOnAnyPath(s, ev) == ev.n <= latest[s]

\* MotionSequence::accept.  Keys and wheel come on ordered streams, beside which
\* motion may run ahead, and are not compared.
Stale(s, ev) == ev.kind = "move" /\ ev.n <= latest[s]

Handle(s, ev) ==
    /\ mixed' = IF ev.child = owner[s] THEN mixed ELSE mixed \cup {s}
    /\ \/ /\ Duplicate(s, ev)
          /\ UNCHANGED <<seen, latest, applied, again>>
       \/ /\ ~Duplicate(s, ev) /\ Stale(s, ev)
          /\ seen' = [seen EXCEPT ![s] = @ \cup {ev.n}]
          /\ UNCHANGED <<latest, applied, again>>
       \/ /\ ~Duplicate(s, ev) /\ ~Stale(s, ev)
          /\ seen' = [seen EXCEPT ![s] = KeepLargest(@ \cup {ev.n})]
          /\ latest' = [latest EXCEPT ![s] = IF ev.kind = "move" THEN ev.n ELSE @]
          /\ applied' = applied \cup {ev}
          /\ again' = IF ev \in applied THEN again \cup {ev} ELSE again

TakeUdp(s) ==
    /\ phase[s] = "open"
    /\ queue[s] # <<>>
    /\ queue' = [queue EXCEPT ![s] = Tail(@)]
    /\ Handle(s, Head(queue[s]))
    /\ UNCHANGED <<dialer, listener, phase, owner, wire>>

TakeStream(s) ==
    /\ phase[s] = "open"
    /\ wire[s] # <<>>
    /\ wire' = [wire EXCEPT ![s] = Tail(@)]
    /\ Handle(s, Head(wire[s]))
    /\ UNCHANGED <<dialer, listener, phase, owner, queue>>
----------------------------------------------------------------------------
MotionNext ==
    \/ \E e \in Epochs : Dial(e) \/ Forget(e)
    \/ \E s \in Sessions : \/ Open(s) \/ Drive(s) \/ Register(s) \/ End(s)
                           \/ TakeUdp(s) \/ TakeStream(s)
    \/ SendUdp
    \/ \E kind \in {"move", "key"} : SendStream(kind)
    \/ OtherRegisters
    \/ \E m \in air : Arrive(m)

MotionSpec == MotionInit /\ [][MotionNext]_motionVars
----------------------------------------------------------------------------
Events == [child : Nat, n : Nat, kind : {"move", "key"}]

MotionTypeOK ==
    /\ link \in Seq(Epochs) /\ sequence \in Nat
    /\ drive \in Sessions \cup {None} /\ sink \in Sessions \cup {None}
    /\ air \in SUBSET Events /\ keys \in SUBSET Epochs
    /\ last \in [Epochs -> Nat]
    /\ phase \in [Sessions -> {"none", "accepted", "open", "done"}]
    /\ owner \in [Sessions -> 0..Child]
    /\ \A s \in Sessions : owner[s] = 0 => phase[s] = "none"
    /\ wire \in [Sessions -> Seq(Events)] /\ queue \in [Sessions -> Seq(Events)]
    /\ \A s \in Sessions : Len(queue[s]) <= Channel
    /\ seen \in [Sessions -> SUBSET Nat] /\ latest \in [Sessions -> Nat]
    /\ applied \in SUBSET Events /\ again \in SUBSET applied
    /\ newest \in Sessions \cup {None} /\ mixed \in SUBSET Sessions
    /\ forgotten \in SUBSET Epochs

\* The sink of a peer is the one of the session that registered last, as long as
\* that session runs: no dead session swallows motion, and a session that ends
\* late does not take its successor's sink away.
SinkOfNewest ==
    sink = IF newest # None /\ phase[newest] = "open" THEN newest ELSE None

\* No movement of the peer's hand is applied twice, on whatever paths and to
\* whatever sessions its datagrams come, while the listener remembers the epoch.
AppliedOnce == \A ev \in again : link[ev.child] \in forgotten

\* A key or a scroll on its way to a session is never dropped, as a duplicate or
\* for the motion that overtook it, as long as the session has had events of its
\* own child only.
KeysGetThrough ==
    \A s \in Sessions \ mixed : \A i \in DOMAIN wire[s] :
        wire[s][i].kind = "key"
            => ~Duplicate(s, wire[s][i]) /\ ~Stale(s, wire[s][i])

Driven(s) == drive = s /\ newest = s /\ phase[s] = "open"

\* The listener and the session have seen no number beyond the child's own.
Glides(s) ==
    /\ last[link[Child]] <= sequence
    /\ latest[s] <= sequence
    /\ \A n \in seen[s] : n <= sequence

\* The next movement would reach the cursor, on either path, in
\* the session that registered last, with its key still held, if the child is the
\* first on its epoch and no other child's motion has come into the session.
NextDeltaGlides ==
    \A s \in Sessions \ mixed :
        Driven(s) /\ link[Child] \in keys /\ (\A c \in 1..(Child - 1) : link[c] # link[Child])
            => sink = s /\ Glides(s)
----------------------------------------------------------------------------
(* What the comments and the README promise and the code does not keep.    *)

\* "Old or replayed motion is dropped while the next fresh delta still glides the
\* cursor": for every session that is driven, registered last and open.
EveryDriveGlides ==
    \A s \in Sessions : Driven(s) => link[Child] \in keys /\ Glides(s)
=============================================================================
