--------------------------- MODULE EvdevCapture ---------------------------
(***************************************************************************)
(* The evdev capture backend (kvm-platform evdev_capture.rs): all input    *)
(* nodes of a Linux computer read by one thread and merged into one stream *)
(* of events.  Keyboards are plugged and unplugged while keys are down,    *)
(* two of them may hold the same key, and a grab may fail on some of them. *)
(***************************************************************************)
EXTENDS Naturals, Sequences

CONSTANTS
    LastNode,   \* the input nodes are 1 .. LastNode, in the order of their paths
    Loose,      \* those that can be unplugged
    Shy,        \* those whose grab may be refused
    Keys,       \* keys and mouse buttons
    MaxBuf      \* bound: events of each node in the kernel and in its queue

Devs == 1 .. LastNode

ASSUME EvdevAssumption == LastNode \in Nat /\ Loose \cup Shy \subseteq Devs /\ MaxBuf \in [Devs -> Nat]

VARIABLES
    down,       \* the keys the hand holds on each device
    plugged,    \* the devices that are there
    \* EvdevCapture
    nodes,      \* devices: the nodes that are open
    stale,      \* ... of which the device behind the file is gone
    buf,        \* what the kernel holds for the open file
    pressed,    \* Device::pressed_keys
    queue,      \* Device::queue
    keys,       \* EvdevCapture::pressed_keys
    pending,    \* pending_events
    grabbed,    \* Device::grabbed
    excl,       \* exclusive
    scan,       \* the node this poll round reads, 0 between rounds, and
                \* LastNode + 1 while dead nodes are removed
    polled,     \* the nodes the poll has reported and this round has still to read
    gone,       \* disconnected: the nodes this round found dead
    removed,    \* removed_keys: what the nodes removed so far held
    overtaken   \* history: keys of which a removed node's events, read after
                \* those that wait in another node's queue, come out before them

\* What only the thread that reads changes.
round == <<scan, polled, gone, removed>>
ledgers == <<pressed, queue, keys, pending, overtaken>>
evdevVars == <<nodes, stale, buf, grabbed, excl, ledgers, round>>

Event(k, kind) == [key |-> k, kind |-> kind]

Closed ==
    /\ nodes = {} /\ stale = {} /\ grabbed = {} /\ gone = {}
    /\ buf = [d \in Devs |-> <<>>] /\ queue = [d \in Devs |-> <<>>]
    /\ pressed = [d \in Devs |-> {}] /\ keys = {} /\ pending = <<>>
    /\ excl = FALSE /\ scan = 0 /\ polled = {} /\ removed = {} /\ overtaken = {}

\* The backend is dropped: every file is closed and ungrabbed, and what it
\* knew of held keys goes with it.
Close ==
    /\ nodes' = {} /\ stale' = {} /\ grabbed' = {} /\ gone' = {}
    /\ buf' = [d \in Devs |-> <<>>] /\ queue' = [d \in Devs |-> <<>>]
    /\ pressed' = [d \in Devs |-> {}] /\ keys' = {} /\ pending' = <<>>
    /\ excl' = FALSE /\ scan' = 0 /\ polled' = {} /\ removed' = {} /\ overtaken' = {}
----------------------------------------------------------------------------
(* The kernel.                                                             *)

\* An event of device d reaches the file the backend has open on it.
Deliver(d, k, kind) ==
    IF d \in nodes \ stale
    THEN /\ Len(buf[d]) + Len(queue[d]) < MaxBuf[d]
         /\ buf' = [buf EXCEPT ![d] = Append(@, Event(k, kind))]
    ELSE UNCHANGED buf

\* The device is pulled: a read of its file fails from now on, whatever was
\* still to be read.
Vanish(d) ==
    /\ stale' = stale \cup ({d} \cap nodes)
    /\ buf' = [buf EXCEPT ![d] = <<>>]
----------------------------------------------------------------------------
(* One call of next_event.                                                 *)

\* set_devices_exclusive: the nodes in `refuse` do not take the grab.
Grabs(open, had, x, refuse) ==
    IF x THEN had \cup (open \ (refuse \cup stale)) ELSE {}

\* reload, every second: nodes that can be opened now are added, and grabbed
\* if the backend grabs.  A node is known by its path: a device that came back
\* is not opened while the dead file of its path is still listed.
Reload(refuse) ==
    /\ scan = 0
    /\ \E new \in SUBSET (plugged \ nodes) :
         /\ nodes' = nodes \cup new
         /\ grabbed' = IF excl THEN Grabs(nodes', grabbed, TRUE, refuse) ELSE grabbed
         /\ excl' = (excl /\ grabbed' # {})
    /\ UNCHANGED <<stale, buf, ledgers, round>>

\* create: a backend with no node at all is an error.
Open ==
    /\ \E new \in SUBSET plugged \ {{}} : nodes' = new
    /\ UNCHANGED <<stale, buf, grabbed, excl, ledgers, round>>

Follow(want, refuse) ==
    /\ scan = 0
    /\ want # excl
    /\ grabbed' = Grabs(nodes, grabbed, want, refuse)
    /\ excl' = (want /\ grabbed' # {})
    /\ UNCHANGED <<nodes, stale, buf, ledgers, round>>

Queued == pending # <<>> \/ \E d \in nodes : queue[d] # <<>>

\* The event next_event returns: what unplugged nodes left behind comes first,
\* then the nodes' queues in their order.
Emits(e) ==
    /\ scan = 0
    /\ IF pending # <<>>
       THEN e = Head(pending) /\ pending' = Tail(pending) /\ UNCHANGED queue
       ELSE \E d \in nodes :
              /\ queue[d] # <<>>
              /\ \A c \in nodes : c < d => queue[c] = <<>>
              /\ e = Head(queue[d])
              /\ queue' = [queue EXCEPT ![d] = Tail(@)]
              /\ UNCHANGED pending
    /\ UNCHANGED <<nodes, stale, buf, pressed, keys, overtaken, grabbed, excl, round>>

\* The nodes with something to read, and the order in which nodes are visited.
Ready == {d \in nodes : buf[d] # <<>> \/ d \in stale}
Firsts(ds) == {d \in ds : \A c \in ds : d <= c}
Turn(ds) == IF ds = {} THEN {LastNode + 1} ELSE Firsts(ds)

\* With nothing queued the nodes are polled and read one after the other.
Poll ==
    /\ scan = 0 /\ ~Queued /\ Ready # {}
    /\ polled' = Ready /\ scan' \in Turn(Ready)
    /\ UNCHANGED <<nodes, stale, buf, grabbed, excl, ledgers, gone, removed>>

\* Mutant: a release is passed on although another node holds the key.
ForgetsOthers(d, k) == FALSE

HeldElsewhere(d, k) == \E c \in nodes \ {d} : k \in pressed[c]

\* push_key: a repeat of a key the node does not know to be down is a press.
Meant(d, e) == IF e.kind = "repeat" /\ e.key \notin pressed[d] THEN "down" ELSE e.kind

\* accept_event, which repeats pass by.
Accepted(d, k, kind) ==
    CASE kind = "repeat" -> TRUE
      [] kind = "down"   -> k \notin keys
      [] kind = "up"     -> k \in keys /\ ~HeldElsewhere(d, k)

\* One event is read from the node ...
ReadNode ==
    /\ scan \in nodes /\ buf[scan] # <<>>
    /\ LET d == scan
           k == Head(buf[d]).key
           kind == Meant(d, Head(buf[d]))
           accepted == Accepted(d, k, kind) IN
       /\ pressed' = [pressed EXCEPT ![d] = IF kind = "up" THEN @ \ {k} ELSE @ \cup {k}]
       /\ queue' = IF accepted THEN [queue EXCEPT ![d] = Append(@, Event(k, kind))] ELSE queue
       /\ keys' = CASE accepted /\ kind = "down" -> keys \cup {k}
                    [] accepted /\ kind = "up"   -> keys \ {k}
                    [] OTHER                     -> keys
       /\ overtaken' = IF accepted /\ kind # "repeat" THEN overtaken \ {k} ELSE overtaken
       /\ buf' = [buf EXCEPT ![d] = Tail(@)]
    /\ UNCHANGED <<nodes, stale, pending, grabbed, excl, round>>

\* ... until a read finds none, or that the node is dead.
LastRead ==
    /\ scan \in nodes /\ buf[scan] = <<>>
    /\ gone' = gone \cup ({scan} \cap stale)
    /\ polled' = polled \ {scan} /\ scan' \in Turn(polled')
    /\ UNCHANGED <<nodes, stale, buf, grabbed, excl, ledgers, removed>>

\* Mutant: what a removed node had queued is dropped with it.
DropsQueue(s) == <<>>

Rescued(s) == s

Waits(k, d) == \E i \in 1 .. Len(queue[d]) : queue[d][i].key = k

\* remove_devices, which takes a dead node's queue and what it held ...
RemoveNode ==
    /\ scan = LastNode + 1
    /\ \E d \in Firsts(gone) :
       /\ pending' = pending \o Rescued(queue[d]) /\ queue' = [queue EXCEPT ![d] = <<>>]
       /\ removed' = removed \cup pressed[d] /\ pressed' = [pressed EXCEPT ![d] = {}]
       /\ nodes' = nodes \ {d} /\ stale' = stale \ {d} /\ grabbed' = grabbed \ {d}
       /\ gone' = gone \ {d}
       /\ overtaken' = overtaken \cup
             {k \in Keys : Waits(k, d) /\ \E c \in nodes : c < d /\ Waits(k, c)}
    /\ UNCHANGED <<buf, excl, keys, scan, polled>>

\* ... and then releases what no node holds any more.
Orphans == removed \ UNION {pressed[d] : d \in nodes}
ReleaseOrphan(k) ==
    /\ scan = LastNode + 1 /\ gone = {} /\ k \in Orphans
    /\ removed' = removed \ {k}
    /\ keys' = keys \ {k}
    /\ pending' = IF k \in keys THEN Append(pending, Event(k, "up")) ELSE pending
    /\ overtaken' = IF k \in keys /\ \E d \in nodes : Waits(k, d) THEN overtaken \cup {k} ELSE overtaken
    /\ UNCHANGED <<nodes, stale, buf, pressed, queue, grabbed, excl, scan, polled, gone>>

EndRound ==
    /\ scan = LastNode + 1 /\ gone = {} /\ Orphans = {}
    /\ removed' = {} /\ scan' = 0
    /\ UNCHANGED <<nodes, stale, buf, grabbed, excl, ledgers, polled, gone>>

\* Everything the hand did has been read and passed on.
Drained ==
    /\ scan = 0 /\ ~Queued
    /\ stale = {}
    /\ \A d \in nodes : buf[d] = <<>>
============================================================================
