# A verification project for TheKVM

TheKVM shares one keyboard and mouse among computers. Each computer runs a
daemon (`kvm-daemon`, privileged) and a desktop app (`kvm-ui`) that supervises
one outbound child (`kvm-daemon connect`). Machines talk over QUIC, pointer
motion also over UDP; the app, the child and the command line talk to the daemon
over a local control socket. Paths below are relative to `src/`.

This directory holds TLA+ models of the parts of the program where several tasks,
machines or failures meet, the TLC instances that check them, and proofs of the
main safety results for every value of the constants.

## 1. The system and what is modelled

| Part | State it keeps | Operations | Interacts with | Modelled by |
|---|---|---|---|---|
| Inbound links, `kvm-daemon/src/service.rs` `handle_connection` | phase of each stream, registry of live sessions, ended epochs, presence and leases | accept, Hello, approval gate, serve, hang up, LinkEnded, revocation, teardown, restart | control socket (approve, unpair, disconnect), peer book, peers | `LinkLifecycle` |
| Ended epochs, `service.rs` `end_link` .. `persist_ended_links` | two sets in memory, `ended_links.json` | ban, save, load | every hang-up path | `EndedLinks` |
| Approval queue, peer book, pairing (`control.rs`, `kvm-protocol/src/pairing.rs`) | pending rows, approvals, `peers.json` | list, decide, cancel, time out, pin, unpin, save | streams, app | their use in `LinkLifecycle` |
| Receiver session, `service.rs` select loop | held keys, permit, `remote_idle` | StateSync, Input, Handoff, ReleaseAll, lane, UDP, end | driver, injector | `ReceiverDrive`, abstractly `InputOwnership` |
| Drivers, `service.rs` `handle_topology_event`, `start_capture` | captured state, queue, barrier, the active stream | record, cross, hand on, park, resume, end, reconcile | capture thread, receiver session | `HeldKeys` (keys), `TopologyDriver` (suppression), driver half of `ReceiverDrive` (frames) |
| Edge router, `kvm-core/src/layout.rs` | cursor, active screen, push run, pin | motion, resync, handoff, escape, park | drivers, receiver session | `EdgeRouter` |
| Episode frames, `kvm-protocol/src/wire.rs` | bytes of a frame written, bytes read | write_frame, read_frame, a write timed out, a read dropped by `select!` | driver, receiver session | `EpisodeFrames` |
| UDP motion, `service.rs` `spawn_udp_motion_listener` | keys, `last_seq`, sinks, sequence filters | arm, send, decode, forward, filter | receiver session, link epochs | `MotionDelivery` |
| Clipboard transfer (`service.rs`, `kvm-ui/src/main.rs`, `kvm-platform/src/clipboard.rs`) | revisions, last hashes, slot, offers | watch, send, stash, offer, poll, take, apply | driver, receiver, app | `Clipboard` |
| Capture on Linux (`service.rs`, `kvm-platform`) | backends, grabs, held-key ledgers, channel | next event, exclusive, rebuild, release | driver, kernel, X server | `Capture` over `EvdevCapture` and `X11Capture` |
| Capture on Windows (`kvm-platform/src/capture.rs`) | statics, layers, hook threads | hook, engage, release, watchdog | driver, capture thread | `WinCapture` |
| Windows service (`windows_helper.rs`, `inject.rs`) | helpers on each desktop, their channels and answers | capture bridge, injection bridge | driver, receiver session | `WinControl`, `WinInject` |
| Desktop app, `kvm-ui` | child, slot, tombstones, dial-backs | connect, disconnect, adopt, redial, approve | control socket, child | `Desktop` |
| Control socket, `control.rs` | none of its own | one request per line | all of the daemon | requests that change links: `LinkLifecycle`; the clipboard's: `Clipboard` |
| Configuration, discovery, invites, QUIC set-up, autostart, diagnostics, SnapText, packaging | none across calls | | | not modelled |

Behaviour that is hard here: several tokio tasks interleave at every `.await`;
hang-ups, approvals and revocations race with a link being accepted; a single
input permit is fought over by sessions that also receive keys and late motion;
writes time out half-way; local input is taken away from the user by one thread,
for another, and must come back whichever of them hangs; two apps may start,
end and repair the same link at once; files are rewritten in place and the
process may die; state is bounded (32 bans, 16 rows, 16 broadcast messages, 256
captured events, 4096 sequence numbers). `PROJECT.json` lists each hazard at its
line with the properties that cover it, or why none does.

What makes each part correct:

- *Links*: nobody is served that this computer's user has not allowed, a
  revocation or a hang-up reaches every session, the registry and the approval
  queue describe the tasks that exist, a link that was hung up stays hung up.
- *Receiver session*: one owner of the input at a time, no key held for anybody
  else, every key let go in the end.
- *Drivers*: what a peer holds down is what the user holds; local input is
  suppressed only to drive; two machines do not hold each other.
- *Router*: a fling does not cross, a driven screen can be left, an edge that refused
  a shove opens again, both machines name the same screen and edge for a hop.
- *Frames and motion*: what is injected is what was written, in order; no
  movement is applied twice, and the next one reaches the cursor.
- *Capture*: no key is reported that no hand holds, and input that is no longer
  to be suppressed comes back.
- *Clipboard*: a paste is one copy, echoes die, the only copy arrives.
- *App*: a link that was hung up is in the end served to nobody, two apps agree on one
  link.

## 2. Modules and their correspondence to the code

### `LinkLifecycle` (with `LinkLifecycle_proofs`)

A *stream* is one accepted association; `phase` is the point of
`handle_connection` it stands at: `hello` (accepted, subscribed to revocations),
`gated` (known and paired, epoch not banned), `waiting` (a row in
`LinkApprovals::pending`, blocked in `wait`), `deciding` (`wait` has returned, its row still
to be removed), `accepting` (replied, injector starting), `serving` (the select
loop, listed in `inbound_link_registry`). A *caller* is one control connection or
the presence janitor, and `phase` is the point of its handler between two
awaits: `lease`/`leased` for `LinkLease`, `grant` between the two locks of
`ApproveLink`, `hangup`, `forget` and `bury` for the teardown of `EndLink` and of
the janitor, `saving` inside a save of the book. One action is what a task does
from one such point to the next. `consent` is a history variable: the links a
local act (approval, pairing, dialling) has allowed.

`ended` joins `ENDED_LINKS` and `PEER_ENDED_LINKS`; the difference and the file
are `EndedLinks`. Unpairing takes two locks in a row with no await between them,
and is one step.

### `EndedLinks` (with `Stores_proofs`)

The two ban sets in memory, `ended_links.json` and the tasks that rewrite it. A
saver adds its ban to a set (`end_link`, `end_peer_link`), takes its own snapshot
of both sets (`persist_ended_links`), truncates the file, writes. A crash may come at
any point and loses the memory; a file caught between truncation and write does
not parse and loads as empty (`load_ended_links`).

### `ReceiverDrive` and `InputOwnership` (with `ReceiverDrive_proofs`)

One driver per episode stream, seen from both ends. The driver half: `off`,
`linked` (opened or pre-warmed), `driving`, `parked`, with the keys its person
holds down, and what `send_input`, `send_release` and `send_state_sync` do when a
write times out. The receiver half: one action per arm of the select loop and per
frame type. `slot` is the semaphore permit `input_session_slot`, `held` the keys
in the ledger of the session's injector, `idle` is `remote_idle`. `wire` is the
ordered episode stream; `loose` is motion on the lane and over UDP, which comes
in any order, late, or never.

`InputOwnership` is what the receiver promises its user, with no streams in it: an
owner takes the input when nobody has it, presses and releases keys, and gives
it up with all keys released. `OwnershipSpec` says that `ReceiverDrive` implements
it with `owner <- slot`, as long as every driver hands off.

### `EpisodeFrames` (with `Wire_proofs`)

One stream below the level of `ReceiverDrive`: a frame is a header and a payload,
`Write` puts out its next part, `Stall` is the timeout that drops `write_frame`
where it stands, `Take` is one more part read, `Cancel` is another arm of the
receiver's `select!` that drops `read_frame` with what it has already taken.
`Parses` is the JSON decoder's verdict: a payload parses when it is exactly one
frame's. The two ways a header itself can be cut are not told apart from a cut
between header and payload.

`ReceiverDrive` treats a frame as indivisible; `DeliveredInOrder` and
`NothingSkipped` are why it may, and `StallCostsOneClick` is where it may not (see
observations).

### `MotionDelivery` (with `Wire_proofs`)

Pointer motion of one peer. `link` is the list of the children its app has started, with
their epochs (`launch_child`: a Connect mints one, a dial-back reuses it);
`sequence` and `drive` belong to the last child. `air` is what may still arrive of its
datagrams and those of the children before it: nothing is taken out of it while
`"dup"` is a fault, so a datagram may come late, again, or not at all. `keys`, `last`
and `sink` are `UDP_MOTION_KEYS`, the listener's `last_seq` and this peer's row of
`UDP_MOTION_SINKS`; `seen` and `latest` are the two filters of `process_remote_input`.
Whether the session may apply motion at all (permit, `remote_idle`) is left to
`ReceiverDrive`. A `key` stands for keys, buttons and wheel, which are ordered by
their stream.

### `HeldKeys` (with `Input_proofs`)

The sending side of the keys. `fingers` is what the user holds; `keys` is
`CapturedState`, written by the capture thread together with the event it queues in
`captured`; `barrier` is `discarded_event_barrier`, the number up to which queued
events are dropped because a state already contains them. `task` is the drive task,
at rest or in the middle of a crossing: between the snapshot it takes and the stream
it writes it to, the user goes on typing. `session` is the one stream to a peer and
`held` what each peer holds down for us. `driver` is one of the three: the topology
driver, the console driver and the one of the Windows service, which differ in
what they forward, assert and keep. A write may give up; then a press is dropped, a
release is followed by the whole state, and when that gives up too the drive goes on
(`gaveUp` remembers it).

### `TopologyDriver` (with `Suppression_proofs`)

One child's drive task (`connect_topology`), the flag it sets for the capture
thread (`asked`), whether input is suppressed (`held`), the watchdogs, and a
peer that may drive back. A peer's input is seen in two places. The capture backend
counts what it diverts: `diverted` since the drive began, which an event of the user is
compared with, and `tick` since the last tick, which the ticks are compared with. Whether it
counts an event of the peer's at all is left open, because under an X11 core grab it never
does and on Windows not for motion. The other place is the receiver: `unread` is what a poller has
still to read of its totals, `cache` what it has read past the probe's baseline, `claims` and
`blank` what else its snapshot says, and `fresh` whether the probe has a baseline of this
drive with the peer in it. `Yields` compares growth since the last tick, with a threshold
that depends on the age of the drive and on the user's own input, and `TakesNote` moves
both baselines, so that what a tick absorbs never counts again. Timers are windows that are
open or closed (`windows`). A snapshot's age is not modelled: while the peer's totals grow
its claim is fresh, and without growth no tick asks for it. A peer whose session is
redialled within a drive starts its totals again; that too is left out.

### `EdgeRouter` (with `Input_proofs`)

`EdgeRouter` of `layout.rs` as one record, each method an operator from a record to
a record (and what it returns), each action a handler of the daemon, which often calls
several: a captured motion resynchronises to the system's pointer and then routes,
a `Handoff` of the peer resolves and restores. Coordinates are integers and every
threshold is a constant, constrained only by the order the code's values have
(`EdgePush + Slide <= PhantomGuard`, and so on). `HandoffForMotion` is the stateless
computation the driven machine makes for the same crossing. The code has it twice
(`layout.rs:331`, `1399`), and so has the model: it is written on what a session
stream knows, the layout and the sizes it last heard (`Views`), and shares with
`Route` only the functions the code shares too.

### `Clipboard` (with `Stores_proofs`)

A link with its driving machine D and driven machine R. Three handles watch a
clipboard: D's agent, R's agent (only where R's daemon has a desktop) and the relay in
R's app. `changes` and `commands` are the channels of an agent, `latest` the newest
text and image the driver re-sends at an open, the slot holds what R's app fetches in
two requests, `offers` go the other way. A copy is a number; text and images differ in
how they are kept. Chunks on the ordered stream are put together in one step, the
two requests of the take thread are not.

### `Desktop` (with `Desktop_proofs`)

Two apps (`kvm-ui`) on two computers that are paired. `kid` are the child processes
and `slot` the one the app supervises; `flow`, `poll`, `decide` and `bye` are the
threads that prepare a dial, follow the status, dial back after a decision, and
disconnect, each at the point where it may be overtaken. A round of the poll may be
overtaken between the status it reads and what it does with it (`PollRead`), and
between its check of tombstone and slot and the launch (`PollAdopts` or `PollDialsBack`, then
`PollLaunches`), in the machines of `Slow`; a Disconnect is the tombstone, the
link's hang-up (`DisconnectHangsUp`), the child's stop (`DisconnectStops`), and the clearing of what is
left (`DisconnectRest`). Reading the slot and sending the request that bans its epoch are one step
in both. `tomb` is the peer's tombstone, `lease` the lease whose end bans the epoch. The daemon is
`LinkLifecycle` reduced to what an app can see of it.

### `Capture`, `EvdevCapture`, `X11Capture` (with `Capture_proofs`)

`EvdevCapture` and `X11Capture` are the two Linux backends with their ledgers of held
keys and their grabs, one action per event read from a node and per event of the server.
`EvdevCapture` follows a turn of `next_event`: `Poll` finds the nodes with something to read
(`polled`), `ReadNode` reads them one event at a time and in order (`scan`), `LastRead` is
the read that finds nothing more or a dead node (`gone`), then `remove_devices` takes
each dead node's queue and held keys (`RemoveNode`, `removed`) and releases those that no
other node holds (`ReleaseOrphan`), in any order, which covers the order of the code's set.
`overtaken` is a history variable: the keys of which events were put ahead of older ones, because
what a removed node leaves goes before what waits in other nodes' queues.
`Capture` is the thread that owns one of them, rebuilds it when it fails, and hands
events to the driver through a bounded channel; the driver wishes (`want`), releases,
stops or hangs. `out` is what the driver is told is down, `missed` remembers the keys
whose release a dropped backend or a switch of the X11 grab has lost.

### `WinCapture`, `WinControl`, `WinInject` (the first with `Suppression_proofs`)

`WinCapture` is `win32_hooks`: the process-wide statics, the raw-input
registrations and the hook threads, with three setters that share no lock. A thread that
is not ready within 5 s is given up (`CreateTimesOut`): it comes up all the same, may take the channel
and the statics of the next one, and nobody tells it to quit. `WinControl` is
the service's capture bridge: a controller, a helper process per desktop, a reader
thread per helper, one bounded channel. `WinInject` is its injection bridge:
every helper gets every message, the one whose desktop owns the input injects, and
questions are answered or time out.

### Proof modules

A component's proofs are in a module of their own, or share one where two components
are of a kind and small: `Wire_proofs` (the two paths of a link), `Stores_proofs` (records
that several tasks copy and write back: pastes, and the bans' file), `Suppression_proofs` (the
drive task that asks for suppression, and a backend that does it) and `Input_proofs` (the
pointer and the keys of this machine on their way to a driven one). The parts of such a
module share no variable and no lemma.

### MC modules

A model-checking module instantiates one module, or two or three that share no variable.
The latter (`MCInput`, `MCLinkPeers`, `MCWire`, `MCLetGo`, `MCWinService`)
are a way to put several instances into one run: `view` is chosen at the
start and never changes, a behaviour steps only the component it names, and the others
rest in one state of theirs. The state space is the sum of the parts, not their
product, and nothing is claimed about the parts together. `MCLinkLifecycle` and
`MCReceiverDrive` hold the symmetry and the views of their modules, `MCOldInput` the history of
`TopologyDriver` that an observation of section 5 speaks of.

## 3. What the runs show

| Run | Instance | What it shows |
|---|---|---|
| `MCInput` | gate: 1 peer, 1 epoch, 2 streams, 1 caller; router: 2 screens of 2 sizes in 4 arrangements, 6 motions, 2 drifts | `RegistryExact`: the registry lists running sessions only, and a running session that is not listed is signalled. `QueueExact`: queue rows and waiting streams match. `RevocationReaches`: a stream of an unpaired peer holds an undelivered revocation. `PhantomRefused`: no single motion crosses from the middle of the screen, whatever drift the pin corrects. `RouterCanComeHome`: a driven screen can be left. `RouterHeldShoveStaysHome`: the shove that came home does not cross again. `RouterEdgeOpens`: an edge that refused a shove lets one pass that goes on, or comes back. |
| `MCLinkPeers` | gate: 2 identities of one machine, failing saves; keys: 2 keys, 2 targets, 3 drivers, 4 events, 2 drives, 2 faults | `OnlyConsentedLinksServe`, `ConsentBasis`: no session without consent, and consent to one identity never serves the other. `NoStuckKey`, `RemoteFollows`: a driven peer holds exactly what the user holds. |
| `MCEndedLinks` | 3 epochs, 2 savers, cap 2 | `SaveHolds`, `FinishedBansHold`: until saves overlap, one breaks, or the cap clears the set, every ban whose save is finished is in force in memory and in the file. |
| `MCWire` | ownership: 2 drivers, 1 key; frames: 5 frames of 2 lengths, window 3; motion: 2 children, 2 epochs, 2 sessions, 2 events per child | `OwnershipSpec`: the receiver implements `InputOwnership`. `DeliveredInOrder`, `NothingSkipped`: only whole frames, once each and in order, nothing skipped before a write was cut. `SinkOfNewest`, `AppliedOnce`, `KeysGetThrough`, `NextDeltaGlides`: the newest session hears its peer, no movement is applied twice, no key is dropped for motion that overtook it, on a fresh epoch the next movement passes every filter. |
| `MCLetGo` | a topology and a fixed driver, 1 key; stalls, parks, lost connections, injector rebuilds; fairness | `NoStuckKeys`: a stream that has run dry leaves no key down that is not down at the driver. `DriverLetsGo`: a driver that leaves, dies or parks lets go. `LinkHangUpLands`: the session listed when a hang-up starts does end. Deadlock is checked. |
| `MCClipboard` | 2 copies and 2 crossings without an agent; with one, a copy, a crossing and a restart | `PasteWhole`: a paste is one copy, as long as no link is dialled anew between its halves. `EchoDies`: no copy circles for ever. `SoleCopyLands`: one made with no drive open arrives with a later one, if no transfer failed. |
| `MCTopologyDriver` | 2 unanswered pings, thresholds 2, 3 and 3, 1 fault, a peer that drives back; fairness | `SuppressedOnlyToDrive`; `FreezeEnds`: suppression without a drive ends; `MutualDriveEnds`: this machine does not go on suppressing its own input while the peer drives it and pushes on: by runs of `Hot` events between two readings, or by any, from some time on, with no hand on the mouse here. |
| `MCDesktop` | 2 machines, 2 epochs, 1 child each, 2 acts, one poll loop that may be overtaken; fairness | `Consented`; `HangUpLands`: an epoch that was hung up is in the end served to nobody; `Converges`: two Connects at once end on one epoch. |
| `MCCapture` | 2 keyboards (the second can be unplugged and may refuse a grab), 1 key with its repeats, 2 events on the first and 1 on the second, room 1, 1 failure in a row; fairness | `NoGhost`: once everything is read, no key is held for the peer that no hand holds. `HeldStays`: a key stays down while an open keyboard reports it down. `LocalReturns`: input no longer to be suppressed comes back. |
| `MCWinCapture` | 2 hook threads, 1 toggle in a queue, 2 usages; fairness | `StaticsOwned`, `EngageReaches`, `WinLocalReturns`. No raw-input layer is refused in this run (`Refused = {}`). |
| `MCWinService` | capture bridge: 2 desktops, rooms 1; injection: 1 helper, 1 key; fairness | `WcLocalReturns`, with one bridge. `KeysLift`: keys held through a helper come up, unless the helper has failed. |
| `MCWinSession` | 1 desktop, 2 bridges, rooms 1; fairness | *Violation* of `NewSessionServed`, see section 5. |

**Bounds.** `BanCap` stands for 32 ended epochs and is 1 or 2, so the clearing of a
full set happens within a few steps. `MaxPending` stands for 16 rows; with 1 a full
queue and a refused row are reached. `MaxDriveWire` 3 lets a handoff, its sync and one
more frame be in flight. `MaxMotion` 1 gives each driver one motion that can arrive
before or after a return; `MCLetGo` has none, because motion touches no key.
`Window` 3 with frames of 2 and 4 parts makes a stall possible at every part of the
longer frame and lets a short frame fit in whole; 5 frames are enough for a cut frame to
be completed by the next ones and followed by whole ones. `Channel` 1 stands for
1024 and `SeenCap` 1 for 4096: a full sink and a trimmed set are reached. Four
captured events are a press and a release on each side of a crossing; two drives
are a crossing and a hand-on. In the router the thresholds keep the code's order,
the screens are a few pixels larger than the thresholds and the motions are one
pixel, one threshold and one fling. `PingLimit`, `Burst`, `Hot` and
`MinGrowth` stand for 12, 20, 10 and 5 and are 2, 3, 3 and 2: one unanswered ping is
forgiven and the second not; at rest one event ends the drive if the peer has taken
the cursor, and two if it has not; while the drive settles or the user's own input flows, two are
absorbed and three are not. A
channel of room 1 is full with one event, as one of 256 is with 256. One child per
app is a child and its successor; `Budget` 2
lets each person act once, or one of them twice; `Slow` has one machine, whose poll is
overtaken at most once in a round: before its launch by anything, after its read only while
another thread of the app is at work (`AtWork`).

**Symmetry and views.** Symmetry is used only in runs of invariants, action
properties and the refinement, all of which treat the permuted values alike; the
runs with fairness use none. `Live` leaves out what a task
has left in variables that are assigned before they are read again, the numbers of
a session that is not open, and the history `since`: no guard or property of the runs
that use it reads these values, so the states it merges have the same futures.

**Fairness.** Weak fairness of the steps a task takes on its own once it is past an
await: tokio runs every task that is ready, threads are scheduled, helper
processes run. Answers of persons, arrivals of peers, faults and drivers are never
fair; a wedged driver is allowed. Per module:

- `LinkLifecycle`: teardown and hang-up, which never wait on the network.
- `ReceiverDrive`: a session that has a frame to read or has left its loop; QUIC
  delivers what was written to a live stream and a broken one reads as its end.
- `TopologyDriver`: weak for the poller, the probe, the keep-alive, the reaper, the capture
  thread, the watchdog and the ends of windows. The probe and the keep-alive are arms of a
  biased `select!` below signals and input, which run dry; both stay enabled for as long as
  something is driven. What the peer sends is not fair: `MutualDriveEnds` says in its
  premise how often and how fast it pushes.
- `Clipboard`: every forwarding, polling, delivering and applying step; copies,
  crossings and restarts are not.
- `Desktop`: the app's threads, the poll, the child and the daemon; not the network, which may
  stay down, and no person.
- `Capture`: the thread, and a driver that is not wedged taking its events. `ReadsDrain` says
  that a hand is slower than the reads: the loop over one node ends, because again and
  again it finds the node empty. Without it a key that repeats for ever could keep the
  thread inside one `while` of `next_event`.
- `WinCapture`: hook threads, setters under way, the capture thread, the watchdog;
  strong for handing an event over and taking it, and for a driver that finds the channel closed to
  end (`service.rs:3587`, `3653`), because it may be wedged in between.
- `WinControl`, `WinInject`: controller, readers, helpers; strong for a helper's
  forwarding and injecting, which its commands interrupt.

**Deadlock.** Checking it is off where the system may rest: `EpisodeFrames` and `MotionDelivery`
when everything their bounds allow has been sent and taken, a router with no
more motion, the drivers, apps and captures when the people have done what the bounds
allow. The runs of `EndedLinks` and `MCLetGo` check it.

Besides the runs' configurations there are some that refute what a comment promises
(section 5).

## 4. What is proved

TLAPS proves these for every value of the constants (any sets of peers, keys, drivers,
screens, sizes and motions, any cap, limit and bound, every combination of faults), from the
named assumptions of each module. The assumptions only say that sentinels
(`None`, `NoScreen`, ...) are no proper value, that bounds are numbers, and which order the
code's thresholds have; what a theorem assumes beyond them is said below.

- `LinkLifecycle_proofs`: `TypeCorrect`; `RegistryAlwaysExact` (each step changes
  one row of `links` and signals what it replaces); `QueueAlwaysExact` (with
  `KeysKnown`, part of the type invariant: a task past its Hello has a peer and an
  epoch, so its key is a key of the queue); `ServedLinksConsented`, for which
  `OnlyConsentedLinksServe` alone is not inductive: what opens the gate is a remembered
  approval, a grace, a lease or a *yes* still in a channel, so `ConsentBasis` strengthens it
  (`ConsentAlwaysHasABasis`), and with `QueueExact` a decision is known to answer the stream
  whose row it took; `RevocationAlwaysReaches`, under the assumptions that no other
  identity carries a peer's name and that saves do not fail. Both are needed: retiring
  a ghost identity unpins it with no broadcast, and a failed save leaves before the broadcast.
- `Stores_proofs`, the bans: `EndedTyped`, `EndedInductive`, `SavesAlwaysHold`, `FinishedBansAlwaysHold`.
  The strengthening follows a save from snapshot to write: while no save has overlapped
  or broken, at most one is under way, and its snapshot holds every ban that is finished.
- `Stores_proofs`, the pastes: `ClipboardTypes`, `PastesWhole` (`PasteWhole`). A take mixes two copies
  if the slot is replaced between its two requests and the second chunk carries the revision of
  the first. `WholeInv` says that this cannot be: the revisions on the wire to the app rise,
  are above the slot's and not above the driver's counter (`SlotOrder`), and a first chunk in
  hand is of the slot's revision and then of its paste, or of an older one (`ChunkInHand`).
  A new driver child counts from one again while the slot keeps its paste, so the theorem is
  about links that are not dialled anew; the run `MCClipboard` had not shown it, because two copies,
  two crossings and a relink are beyond its bounds (`RevisionsOrder`, section 5).
- `ReceiverDrive_proofs`: `TypeCorrect`; `Inductive`, whose `DriveInv` says for each driver
  what its session and the frames in flight to it allow: a key frame comes to a session that
  may hold keys by then (it is behind the handoff that takes the permit, and before the
  release that gives it up), and a session that is idle or gone holds none. From it
  `PermitCoversKeys` and `ParkedIsSilent`, and `ImplementsOwnership`: if every driver hands off
  (`Fixed = {}`), the initial states map to `InputOwnership`'s under `owner <- slot`, and every
  step to one of its steps or a stutter. With a fixed driver it is false (`SingleController`, section 5).
  `NoneStuck` (`NoStuckKeys`): for a driving stream and each key that is up at its driver,
  `SettledInv` says that the frames still on the wire end with the key let go of, whether the
  session holds it now or a frame takes it down again. A stalled release keeps this true because the
  driver then sends its whole state; the theorem assumes, like the run, that this
  state sync does not stall as well (`"sync" \notin DriveFaults`), which is the condition
  the code's comment names.
- `Input_proofs`, the keys: `KeysInv` is a shape of the queue (numbered, in order), a pairing of the
  presses and releases in it with what the fingers do, and, for each place where a key may
  be kept (a peer, a snapshot, the service's own state), that its release is still owed; the
  three drivers differ in which place that is. `NoKeyIsLeftDown` (`NoStuckKey`) follows when the queue is empty.
  `FollowInv` is about the barrier: what was pressed up to it is in the snapshot, what is
  pressed after it passes it, so a press that races a crossing arrives once;
  `PressesArrive` (`RemoteFollows`).
- `Suppression_proofs`, the drive task: `DriverTyped`; `SuppressionIsOwed`, from an invariant that ties
  the task's belief, the flag and the backend to the stream in each phase of the task;
  `OneDriveAtATime`.
- `Suppression_proofs`, the Windows backend: `BackendOwnsStatics` (`StaticsOwned`), `WishReachesLayers`
  (`EngageReaches`). A thread is `Sole` when it has the backend's channel and every other thread
  has not begun or is gone. `WinInv` says where such a thread has published its number, window and
  registrations (`SoleOwns`), and that its layers are up or something that brings them up is
  still before it: the read of `BLOCK_LOCAL` at its start, or the toggle at the end of its
  queue (`SoleReaches`). `Owners` says that a static names a thread that will still reset
  it. The capture thread may leave a thread behind that starts beside the next one, so `Sole` is
  asked only of the thread it has or waits for (`Ours`). The invariant was not inductive with the wish as it was first
  recorded: with three threads, a toggle can be posted to a thread that a drop of the backend
  has told to quit. The drop has taken the wish back by then, so a wish counts (`armed`) if
  `BLOCK_LOCAL` still asks for suppression when its toggle is posted.
- `Desktop_proofs`: `DesktopTypes`; `OnlyConsented` (`Consented`). The
  invariant follows consent: every child carries an epoch that the person at its own computer
  consented to, a linked one an epoch of both; approvals and leases are given on consented epochs,
  and so is everything the app's loops remember between two steps (`poll`, `decide`, `bye`, `recent`):
  a round of the poll may be overtaken, and launches a child on what it read before. All but
  three kinds of steps only end children (`Keeps`). The exceptions are a launch, which takes
  its epoch from what a loop remembers, a child let in by an approval, a lease or a prompt, and a new consent.
- `Input_proofs`, the router: `RunsStayAtTheirEdge`, the inductive invariant `RouterInv`: at home
  the cursor is on its screen, and a run of pushes is short of `EdgePush` and kept only
  while the cursor is within `Slide` of the edge it was made against. Hence
  `FlingsAreRefused`: the pin to the system's pointer (`ResyncBase`) takes from the run what it
  moves, so what is left is a run within `PhantomGuard` of the edge, and a single motion
  that crosses started there. `CrossingsAgree` (`HopAgrees`, which is in no run): whenever the
  stateful route crosses, the stateless hop names the same screen and edges, whatever sizes it
  believes in, and the same pixel if it believes the right one. While a screen is driven, nothing
  is assumed of the cursor but that it is a pair of integers: with a fixed return edge and a
  screen arranged above, the entry point may lie outside the driven screen.
- `Capture_proofs`: `CaptureInductive`, from which `NoGhostKeys` (`NoGhost`) and `HeldKeysStay`
  (`HeldStays`). A key is kept in four places: a node's kernel buffer, the node's own set, the
  backend's set, and the events that `next_event` has still to return. The invariant ties each to the
  next: what a node takes for held and no hand holds is released by an event its buffer still
  has (`Lifts`, and `XLifts` for the X server's events); the backend's set is the union of its
  nodes' (`Ledger`); the last event of a key that waits says what that set says, and the record
  agrees once none waits (`Settled`). `Round` says how far the reading has come, which is
  what makes an event that joins the line the last of it. An overtaken key is excepted from
  `Settled` until its next press or release is accepted. `GrabsOnRecord` (`GrabsAreKnown`): the X server
  holds the grab the backend has on record and none once it is dropped. `CaptureTypes`.
- `Wire_proofs`, the frames: `FramesTyped`, `OrderHolds`, `SkipsNothing`. `OrderInv` says what the
  log tells about frames: the last part of a frame is there only if it was written to
  its end, frames do not overlap, and everything delivered lies behind everything still to
  be read. `SkipInv` adds that, before the first cut, parts follow one another without
  a gap, that the reader is either inside the frame it began at a boundary or stuck
  just after a dropped read, and that every written frame is delivered or ahead.
- `Wire_proofs`, the motion: `MotionTyped`; `NewestHasSink`; `Gliding`, which proves
  `NextDeltaGlides` from `CountInv`: whatever is in the air, in a sink or on a stream was
  sent by a child of the peer and, if by the last one, with a number it has reached; hence
  the sessions fed by that child alone, and the listener when the epoch is the child's own, are
  behind its counter. `KeysAreNew` (`KeysGetThrough`), from `Numbered`: a number on a
  stream is nowhere else and not known to the session it goes to. `NothingTwice`
  (`AppliedOnce`), from an invariant that follows a number over
  the air, a sink and a stream: a movement applied once is behind the listener's `last_seq`, or in the
  session's `seen`, wherever a copy of it may still be.

Every strengthened invariant was first checked by TLC on an instance
(`KeysInv` and `FollowInv` with three events, `WireInv` and `OnceInv` on the motion part of `MCWire`,
`RouterInv` on the router part of `MCInput`, `CaptureInv` on `MCCapture` and in simulation with three
keyboards and two keys, `WinInv` on `MCWinCapture` with two toggles in a queue
and, as far as 12 million states, with three threads).

**Only model-checked.** Liveness, which is out of the prover's reach, as is ENABLED:
`LinkHangUpLands`, `DriverLetsGo`, `FreezeEnds`, `MutualDriveEnds`, `EchoDies`,
`SoleCopyLands`, `Converges`, `HangUpLands`, `LocalReturns`, `WinLocalReturns`, `WcLocalReturns`, `KeysLift`.
Of the invariants, `RouterCanComeHome`, `RouterHeldShoveStaysHome` and `RouterEdgeOpens`: they iterate
`Route` an unbounded number of times, which needs induction over data. `RouterCanComeHome` leaves out
`return_hold` (`layout.rs:1142`), which delays a return and does not refuse it.

Three proofs did not go through at first, and the reason was a state no run had reached. `PasteWhole`
needs that no relink comes between the two requests; a toggle may be posted to a thread that is
about to quit (`EngageReaches`); and `NoGhost` and `HeldStays` held of a model that read a keyboard's whole
buffer in one step, but not of the order in which the code lets events of a pulled keyboard
overtake others. In each case the definitions now say what the code does, and what it does not
keep is among the observations of section 5.

No module with theorems declares or reaches a RECURSIVE operator.

## 5. Findings

`NewSessionServed` (`windows_helper.rs:579`, run `MCWinSession`). After a change of the
console session the controller drops its bridge; `Drop for ServiceCaptureProxy` joins the
helpers' reader threads, and a reader may be blocked in `blocking_send` on the full
channel whose receiver the proxy still holds and nobody reads. The drop then never
returns, where the comment at `windows_helper.rs:561` says that the bridge is torn
down so that helpers can be created for the new session.

### Observations

Each of these definitions is in its module under "what the comments promise", and TLC
refutes it. Where a configuration is named `MC...` it is in this directory; otherwise
add the definition to the configuration given after a plus sign.

| Definition | Configuration | What happens |
|---|---|---|
| `NoZombie` | `MCLinkZombie` (with `MCLinkLifecycle`) | `service.rs:9651`: the epoch is compared with the bans when Hello arrives; up to 150 s of approval follow, and a session then starts on an epoch banned meanwhile (comment at `service.rs:557`). |
| `BansSurviveRestarts` | `MCEndedCrash` (with `MCEndedLinks`) | `service.rs:1280`: `ended_links.json` is rewritten in place; a crash between truncation and write leaves a file that loads as empty (comment at 9189). |
| `SingleController` | `MCDriveFixed` (with `MCReceiverDrive`) | `service.rs:10207`: keys and state syncs are injected without the permit, so a driver that never hands off presses keys while another owns the input (`README.md:176`). |
| `StallCostsOneClick` | `MCFramesStall` (with `EpisodeFrames`) | `service.rs:13115`: a write that times out half-way leaves part of a frame; the next one completes it, does not parse, and the session ends, where the comment at 13102 promises the loss of one click. |
| `OldInputNeverYields` | `MCOldInput` (with `MCOldInput`) | `service.rs:4901`: input of before the drive that the poller reads after the first probe has taken its baseline ends the drive (comment at 6272). |
| `SidewaysLanding` | + `MCInput`, `Setups` with `Top`/`double`/`left` only and tall `Sizes` | `layout.rs` `entry_target_coords`: the place along the edge maps in proportion. With a fixed entry edge, entered from a top or bottom edge, a place along the width is used as a height, which a lower screen does not have. |
| `HangUpLands` | + `MCDesktop`, `Budget = 3`, `Slow = {}` | `kvm-ui/src/main.rs:2424`: an approval given while a Disconnect is still clearing sessions dials back without a look at the tombstone, on the epoch that the clearing bans; its own child and the other computer's consent then keep that epoch served (comment at 1255). |
| `RevisionsOrder` | + `MCClipboard`, `MaxCopies <- OnlyWithout`, `MaxOpens <- OnlyWithout`, `MaxClipFaults <- OneCrossing` | `kvm-ui/src/main.rs:5750`: the take compares revisions, and a new driver child counts from one again (`service.rs:8149`: "Revisions order it"); with a relink between the two requests two halves of one revision can be of two pastes. |
| `LatestCopyWins` | `MCClipboardLatest` (with `MCClipboard`) | Of two copies made about the same time the older one may be the last to arrive (`AGENT-HANDOFF.md`). |
| `OwnMessage` | `MCDesktopOwn` (with `MCDesktop`) | `service.rs:2337`: the child's watcher does not look at the link id of the message that ends it. |
| `LeaseNeedsChild` | + `MCLetGo` | `control.rs:656`: the lease row is listed before its first reply; a failed write leaves by `?` without removing it. |
| `ApprovalsNeedTrust` | + `MCLinkZombie` (with `MCLinkLifecycle`) | `control.rs:957`: an approval between its two locks is remembered after `revoke_peer` has removed the peer's approvals. |
| `NoSessionWithoutApp` | + `MCLinkZombie` (with `MCLinkLifecycle`) | `service.rs:1072`: a stream past the gate registers after the hang-up of a vanished app has listed the sessions. |
| `LateMotionFenced` | + `MCDriveFixed`, `Fixed = {}` | `service.rs:10651`: the only fence is `remote_idle`; motion of before a return is applied once the next drive has begun. |
| `VerifyHoldsNoSlot` | + `MCDriveFixed`, `Fixed = {}` | `service.rs:10747`: UDP motion that comes late claims the permit for a stream that was opened and has not driven. |
| `EveryDriveGlides` | + `MCWire` | `kvm-ui/src/main.rs:3904`: a child redialled on its epoch counts from 1 under a key whose `last_seq` is higher; its motion is dropped until it has caught up. |
| `SyntheticCtrlIsNotState` | + `MCLinkPeers` | `service.rs:2572`: the Ctrl that a pinch holds can remain in the service's captured state (comment at 8641). |
| `PulledKeyboardLetsGo` | + `MCCapture` | `evdev_capture.rs:674`: the release of a key that a pulled keyboard held goes ahead of what waits in another keyboard's queue; a repeat of the key that waits there comes out after it, and the key is down for the driver with nobody holding it (the comment there promises the opposite). |
| `SurvivorsHold` | + `MCCapture`, `LastNode = 3` one event on each keyboard, `Loose = {1, 2}` | `evdev_capture.rs:677`: likewise a release that waits in a queue comes out after a press that was read later, and a key that an open keyboard reports down is up for the driver. |
| `Unhooked` | + `MCWinCapture` | `capture.rs:682`: a hook thread that takes more than 5 s to start is given up and comes up later; no `WM_QUIT` is sent to it, so its hooks stay after the guard is dropped (comment at 688). |
| `HalfDeadEnds`, `WarpTruth` | + `MCWinService`, the first with `InjDesks <- TwoDesks`, `MaxFailed = 1` | A helper that gives up leaves the session running on the other helpers, also when its desktop owns the input (comment at `windows_helper.rs:620`); a warp counts as placed when no helper placed the cursor (comment at `windows_helper.rs:302`). |

Three more behaviours met while modelling, on which no property rests: suppression that the
topology driver's watchdog lifted stays lifted when the wedged task recovers, until its
next transition; on Linux a driver that lets go while its channel is full, and hangs,
keeps the grab, because the watchdog returns early when a release was asked for
(`service.rs:4590`); a paste whose revision is not above the last the relay saw is not
applied after a relink, which starts the revisions again.

## 6. Not modelled, and the plan

Left out for good: configuration types, discovery, invites, QUIC set-up, control message encodings,
daemon entry points, autostart, diagnostics, SnapText and packaging keep no state that outlives a call or that
another part reads; the operating systems' input APIs and formats are outside the program.

Left out of the parts that are modelled: the Status snapshot and the recent-inbound
rows, denial records and their 60 s freeze, the two-sided pairing exchange, the clock of
presence leases (the app's arrival and departure are one flag), the Wayland backend and
gesture recognition, geometry and pinch inside `ReceiverDrive`, the deferred
signals' queue and the dial cooldowns of the topology driver, the time a return is held back
(`return_hold`), the reconnect loops
of fixed-peer drivers, the chunk assembly of pastes, encryption of UDP motion, widgets, tray and settings pages.
Every component of `PROJECT.json` says which of these apply to it.

What comes next, the most important first:

1. A composition of `LinkLifecycle`'s sessions with `ReceiverDrive`'s: a hang-up lets go of the keys.
2. Denial records and the freeze of a peer, with the clock as a bounded counter.
