----------------------------- MODULE Clipboard -----------------------------
(***************************************************************************)
(* The shared clipboard of one link, on the machine D that drives and the  *)
(* machine R that is driven (kvm-daemon/src/service.rs, kvm-ui/src/main.rs *)
(* and kvm-platform/src/clipboard.rs).                                     *)
(*                                                                         *)
(* Three handles watch an OS clipboard: the agent of D's driver child, the *)
(* agent of R's session (only where R's daemon runs inside a desktop       *)
(* session) and the relay thread of R's desktop UI.  A copy seen by an     *)
(* agent goes out on the episode stream; one seen by the relay is offered  *)
(* to R's daemon, which forwards it.  A paste that reaches R is handed to  *)
(* its agent and left in a one-place slot, from which the UI's take thread *)
(* fetches it in two chunks for the relay to apply.                        *)
(*                                                                         *)
(* A copy is its number: copy n is the n-th the users made, kinds[n] says  *)
(* whether it is text or an image.  Nothing is an empty clipboard, Mixed a *)
(* paste put together from the chunks of two.                              *)
(***************************************************************************)
EXTENDS Integers, Sequences, FiniteSets

\* The bounds, each for R's sessions with an agent (TRUE) and without (FALSE).
CONSTANTS MaxCopies,    \* copies the users make, both machines together
          MaxOpens,     \* episodes opened and resumed
          MaxRev,       \* revision numbers a stream may use
          MaxClipFaults,    \* restarts
          Faults,       \* which restarts: subset of FaultKinds
          Coalescing    \* the machines whose watcher only says that it was notified

Nothing == 0
Mixed == -1
Machines == {"D", "R"}
Agents == {"child", "agent"}
Handles == Agents \cup {"relay"}
HomeOf(h) == IF h = "child" THEN "D" ELSE "R"
Clips == {Nothing, Mixed} \cup Nat
Flavours == {"text", "image"}
FaultKinds == {"relink", "ui"}

VARIABLES
  os,        \* what each machine's clipboard holds
  kinds,     \* kinds[n]: the flavour of the n-th copy
  handle,    \* what each handle knows of its clipboard
  changes,   \* copies an agent saw, on the way to its daemon
  commands,  \* pastes a daemon gave its agent, not yet applied
  latest,    \* the driver's newest text and newest image
  clipSession,   \* "none", "active" or "parked", as the driver has it
  hasAgent,  \* whether R's sessions get an agent
  rev,       \* revision last sent, per sender
  remote,    \* revision last taken from the other side, per receiver
  wire,      \* frames on the way to a machine
  slot,      \* R's CLIPBOARD_RELAY: the newest paste for the UI
  take,      \* the UI's take thread
  relay,     \* the UI's relay thread: where it is and its queue of pastes
  offer,     \* LOCAL_CLIPBOARD_OFFERS: the newest offer of R's UI
  sent,      \* what R's session knows of the offers
  opens, clipFaults

hands == <<handle, changes, commands, latest>>
link == <<clipSession, rev, remote, wire, opens>>
ui == <<slot, take, relay, offer, sent>>
world == <<os, kinds, hasAgent, clipFaults>>
clipVars == <<os, kinds, handle, changes, commands, latest, clipSession, hasAgent, rev,
          remote, wire, slot, take, relay, offer, sent, opens, clipFaults>>

FreshHandle == [seen |-> Nothing, absorb |-> FALSE, notices |-> 0]
\* "overtaken": CLIPBOARD_OFFER_EPOCH is no longer what the take thread loaded.
FirstTake == [at |-> "idle", rev |-> 0, clip |-> Nothing, overtaken |-> FALSE,
              lastSeen |-> 0]
TakeIdle(lastSeen) == [FirstTake EXCEPT !.lastSeen = lastSeen]
FirstRelay == [at |-> "loop", queue |-> <<>>, gen |-> 0]
NoOffer == [gen |-> 0, clip |-> Nothing]

ClipInit ==
  /\ os = [m \in Machines |-> Nothing]
  /\ kinds = <<>>
  /\ handle = [h \in Handles |-> FreshHandle]
  /\ changes = [a \in Agents |-> <<>>]
  /\ commands = [a \in Agents |-> <<>>]
  /\ latest = [k \in Flavours |-> Nothing]
  /\ clipSession = "none"
  /\ hasAgent \in BOOLEAN
  /\ rev = [m \in Machines |-> 0]
  /\ remote = [m \in Machines |-> 0]
  /\ wire = [m \in Machines |-> <<>>]
  /\ slot = [rev |-> 0, clip |-> Nothing]
  /\ take = FirstTake
  /\ relay = FirstRelay
  /\ offer = NoOffer
  /\ sent = [gen |-> 0, fresh |-> FALSE]
  /\ opens = 0
  /\ clipFaults = [k \in FaultKinds |-> 0]

-----------------------------------------------------------------------------
(* The operating system's clipboard and the handles that watch it.          *)

Alive(h) == h # "agent" \/ (hasAgent /\ clipSession # "none")
Watching(m) == {h \in Handles : HomeOf(h) = m /\ Alive(h)}
KindOf(clip) == IF clip = Mixed THEN "text" ELSE kinds[clip]

\* Every write of the clipboard is an ownership notice for each of its watchers:
\* an event each on X11, one flag on Windows.
Counted(m, n) == IF m \in Coalescing THEN 1 ELSE n + 1
Notify(hs, m) ==
  [h \in Handles |-> IF h \in Watching(m)
                     THEN [hs[h] EXCEPT !.notices = Counted(m, @)] ELSE hs[h]]

\* SystemClipboard::set_text and set_image_data: the handle remembers what it
\* wrote and will take the next notice (its text poll and its image poll, hence
\* the count of two in the code) for its own.
SetOwn(h, clip) ==
  /\ os' = [os EXCEPT ![HomeOf(h)] = clip]
  /\ handle' = Notify([handle EXCEPT ![h].seen = clip, ![h].absorb = TRUE], HomeOf(h))

\* poll_user_text then poll_user_image, after wait_notice: an own notice only
\* refreshes the memory, any other is a copy even when the content is the same.
Reports(h) ==
  LET noticed == handle[h].notices > 0 IN
  /\ ~(noticed /\ handle[h].absorb)
  /\ os[HomeOf(h)] # Nothing
  /\ noticed \/ os[HomeOf(h)] # handle[h].seen
AfterPoll(h) ==
  LET noticed == handle[h].notices > 0 IN
  [handle EXCEPT ![h] = [seen |-> os[HomeOf(h)],
                         absorb |-> @.absorb /\ ~noticed,
                         notices |-> IF noticed THEN @.notices - 1 ELSE 0]]
Due(h) == Alive(h) /\ (handle[h].notices > 0 \/ handle[h].seen # os[HomeOf(h)])

\* A user copies on machine m.
UserCopies(m) ==
  /\ Len(kinds) < MaxCopies[hasAgent]
  /\ \E k \in Flavours : kinds' = Append(kinds, k)
  /\ os' = [os EXCEPT ![m] = Len(kinds) + 1]
  /\ handle' = Notify(handle, m)
  /\ UNCHANGED <<changes, commands, latest, hasAgent, clipFaults, link, ui>>

-----------------------------------------------------------------------------
(* The clipboard agent of the driver child and of a session on R.           *)

\* The loop's drain of its commands: a peer paste is written unconditionally.
AgentApplies(a) ==
  /\ Alive(a) /\ commands[a] # <<>>
  /\ SetOwn(a, Head(commands[a]))
  /\ commands' = [commands EXCEPT ![a] = Tail(@)]
  /\ UNCHANGED <<kinds, hasAgent, clipFaults, changes, latest, link, ui>>

AgentPolls(a) ==
  /\ Due(a)
  /\ handle' = AfterPoll(a)
  /\ changes' = IF Reports(a) THEN [changes EXCEPT ![a] = Append(@, os[HomeOf(a)])]
                              ELSE changes
  /\ UNCHANGED <<world, commands, latest, link, ui>>

\* Pastes for the wire: each takes the sender's next revision.
NumberedFromZero(m, clips) ==
  [i \in 1..Len(clips) |-> [rev |-> rev[m] + i - 1, clip |-> clips[i]]]
Numbered(m, clips) == [i \in 1..Len(clips) |-> [rev |-> rev[m] + i, clip |-> clips[i]]]
Other(m) == IF m = "D" THEN "R" ELSE "D"
Sends(m, clips) ==
  /\ rev[m] + Len(clips) <= MaxRev[hasAgent]
  /\ rev' = [rev EXCEPT ![m] = @ + Len(clips)]
  /\ wire' = [wire EXCEPT ![Other(m)] = @ \o Numbered(m, clips)]

\* A copy made while nobody is driven is forgotten.
RemembersLive(clip) ==
  IF clipSession = "active" THEN [latest EXCEPT ![KindOf(clip)] = clip] ELSE latest
Remembers(clip) == [latest EXCEPT ![KindOf(clip)] = clip]

\* The driver's clipboard arm: remember the copy, send it if a peer is driven.
ChildForwards ==
  /\ changes["child"] # <<>>
  /\ latest' = Remembers(Head(changes["child"]))
  /\ changes' = [changes EXCEPT !["child"] = Tail(@)]
  /\ IF clipSession = "active" THEN Sends("D", <<Head(changes["child"])>>)
                           ELSE UNCHANGED <<rev, wire>>
  /\ UNCHANGED <<world, handle, commands, clipSession, remote, opens, ui>>

\* The receiver session's agent arm.
AgentForwards ==
  /\ Alive("agent") /\ changes["agent"] # <<>>
  /\ Sends("R", <<Head(changes["agent"])>>)
  /\ changes' = [changes EXCEPT !["agent"] = Tail(@)]
  /\ UNCHANGED <<world, handle, commands, latest, clipSession, remote, opens, ui>>

-----------------------------------------------------------------------------
(* The episode stream.                                                      *)

\* send_initial_clipboard: the newest text, then the newest image.
Known(clip) == IF clip = Nothing THEN <<>> ELSE <<clip>>
Initial == Known(latest["text"]) \o Known(latest["image"])

\* open_topology_session and the start of the receiver's session, which sends
\* the offer it finds pending; both number their frames afresh but for the
\* driver, whose clipboard_revision outlives the stream.
Open ==
  /\ clipSession = "none" /\ opens < MaxOpens[hasAgent]
  /\ opens' = opens + 1
  /\ clipSession' = "active"
  /\ LET pending == Known(offer.clip) IN
     /\ rev["D"] + Len(Initial) <= MaxRev[hasAgent]
     /\ rev' = [D |-> rev["D"] + Len(Initial), R |-> Len(pending)]
     /\ wire' = [R |-> Numbered("D", Initial),
                 D |-> [i \in 1..Len(pending) |-> [rev |-> i, clip |-> pending[i]]]]
  /\ remote' = [m \in Machines |-> 0]
  /\ sent' = [gen |-> offer.gen, fresh |-> FALSE]
  /\ handle' = [handle EXCEPT !["agent"] = FreshHandle]
  /\ UNCHANGED <<world, changes, commands, latest, slot, take, relay, offer>>

\* The pointer comes home: the stream is kept, and resumed by the next crossing.
Park ==
  /\ clipSession = "active"
  /\ clipSession' = "parked"
  /\ UNCHANGED <<world, hands, ui, rev, remote, wire, opens>>

\* resume_parked_session sends the initial clipboard again.
Resume ==
  /\ clipSession = "parked" /\ opens < MaxOpens[hasAgent]
  /\ opens' = opens + 1
  /\ clipSession' = "active"
  /\ Sends("D", Initial)
  /\ UNCHANGED <<world, hands, ui, remote>>

\* The stream ends, with whatever is on it and the agent of R's session.
Close ==
  /\ clipSession # "none"
  /\ clipSession' = "none"
  /\ wire' = [m \in Machines |-> <<>>]
  /\ changes' = [changes EXCEPT !["agent"] = <<>>]
  /\ commands' = [commands EXCEPT !["agent"] = <<>>]
  /\ sent' = [sent EXCEPT !.fresh = FALSE]
  /\ UNCHANGED <<world, handle, latest, rev, remote, opens, slot, take, relay, offer>>

\* clipboard_frame_current: only a revision newer than the last one taken.
Current(m) == Head(wire[m]).rev > remote[m]
Received(m) ==
  /\ wire[m] # <<>>
  /\ wire' = [wire EXCEPT ![m] = Tail(@)]
  /\ remote' = IF Current(m) THEN [remote EXCEPT ![m] = Head(wire[m]).rev] ELSE remote

\* apply_inbound_clipboard on R: to the agent if there is one, and to the slot.
StashInbound(frame) == slot' = [rev |-> frame.rev, clip |-> frame.clip]
DeliverToR ==
  /\ Received("R")
  /\ IF Current("R")
     THEN /\ StashInbound(Head(wire["R"]))
          /\ commands' = IF Alive("agent")
                         THEN [commands EXCEPT !["agent"] = Append(@, Head(wire["R"]).clip)]
                         ELSE commands
     ELSE UNCHANGED <<slot, commands>>
  /\ UNCHANGED <<world, handle, changes, latest, clipSession, rev, opens, take, relay,
                 offer, sent>>

\* apply_inbound_clipboard on D, whose own slot no UI reads: to the agent, and
\* to the clipboard the next episode opens with.
DeliverToD ==
  /\ Received("D")
  /\ IF Current("D")
     THEN /\ commands' = [commands EXCEPT !["child"] = Append(@, Head(wire["D"]).clip)]
          /\ latest' = Remembers(Head(wire["D"]).clip)
     ELSE UNCHANGED <<commands, latest>>
  /\ UNCHANGED <<world, handle, changes, clipSession, rev, opens, ui>>

-----------------------------------------------------------------------------
(* R's desktop UI: the take thread.                                         *)

\* poll_inbound_clipboard and the take thread's own test of the answer.
Fetchable == slot.rev # 0 /\ slot.rev > take.lastSeen
TakeFirst ==
  /\ take.at = "idle" /\ Fetchable
  /\ take' = [take EXCEPT !.at = "first", !.rev = slot.rev, !.clip = slot.clip]
  /\ UNCHANGED <<world, hands, link, slot, relay, offer, sent>>

TakeLoadsEpoch ==
  /\ take.at = "first"
  /\ take' = [take EXCEPT !.at = "rest", !.overtaken = FALSE]
  /\ UNCHANGED <<world, hands, link, slot, relay, offer, sent>>

\* Any second chunk is good if the slot holds a paste.
StillAPaste == slot.rev # 0
\* The second chunk is good if the slot still has the revision of the first.
SamePaste == slot.rev = take.rev
TakeRest ==
  /\ take.at = "rest"
  /\ take' = IF SamePaste
             THEN [take EXCEPT !.at = "whole",
                               !.clip = IF @ = slot.clip THEN @ ELSE Mixed]
             ELSE TakeIdle(take.lastSeen)
  /\ UNCHANGED <<world, hands, link, slot, relay, offer, sent>>

\* A paste that is sent on without its revision counting as seen.
TakeChecksAgain ==
  /\ take.at = "whole"
  /\ take' = IF take.overtaken THEN TakeIdle(take.rev) ELSE [take EXCEPT !.at = "send"]
  /\ UNCHANGED <<world, hands, link, slot, relay, offer, sent>>

\* A paste a local copy has overtaken is dropped.
TakeChecks ==
  /\ take.at = "whole"
  /\ take' = IF take.overtaken THEN TakeIdle(take.rev)
             ELSE [take EXCEPT !.at = "send", !.lastSeen = take.rev]
  /\ UNCHANGED <<world, hands, link, slot, relay, offer, sent>>

TakeSends ==
  /\ take.at = "send"
  /\ relay' = [relay EXCEPT !.queue = Append(@, take.clip)]
  /\ take' = TakeIdle(take.lastSeen)
  /\ UNCHANGED <<world, hands, link, slot, offer, sent>>

-----------------------------------------------------------------------------
(* R's desktop UI: the relay thread.                                        *)

\* apply_relay_paste: skipped if the handle already holds it.
RelayApplies ==
  /\ relay.at = "loop" /\ relay.queue # <<>>
  /\ IF handle["relay"].seen = Head(relay.queue)
     THEN UNCHANGED <<os, handle>>
     ELSE SetOwn("relay", Head(relay.queue))
  /\ relay' = [relay EXCEPT !.queue = Tail(@)]
  /\ UNCHANGED <<kinds, hasAgent, clipFaults, changes, commands, latest, link, slot, take,
                 offer, sent>>

RelayPolls ==
  /\ relay.at = "loop" /\ Due("relay")
  /\ handle' = AfterPoll("relay")
  /\ relay' = IF Reports("relay")
              THEN [relay EXCEPT !.at = "offering", !.gen = @ + 1] ELSE relay
  /\ UNCHANGED <<world, changes, commands, latest, link, slot, take, offer, sent>>

\* submit_local_clipboard_chunk on the last chunk: the offer replaces the one
\* before it and wakes the session.
RelayOffers ==
  /\ relay.at = "offering"
  /\ offer' = [gen |-> relay.gen, clip |-> handle["relay"].seen]
  /\ sent' = [sent EXCEPT !.fresh = clipSession # "none"]
  /\ relay' = [relay EXCEPT !.at = "offered"]
  /\ UNCHANGED <<world, hands, link, slot, take>>

\* The copy is newer than every paste fetched before it.
RelayDropsStale ==
  /\ relay.at = "offered"
  /\ take' = [take EXCEPT !.overtaken = take.at # "idle"]
  /\ relay' = [relay EXCEPT !.at = "loop", !.queue = <<>>]
  /\ UNCHANGED <<world, hands, link, slot, offer, sent>>

\* The receiver session's offer arm.
OfferForwards ==
  /\ clipSession # "none" /\ sent.fresh
  /\ IF offer.gen > sent.gen
     THEN /\ Sends("R", <<offer.clip>>)
          /\ sent' = [gen |-> offer.gen, fresh |-> FALSE]
     ELSE /\ sent' = [sent EXCEPT !.fresh = FALSE]
          /\ UNCHANGED <<rev, wire>>
  /\ UNCHANGED <<world, hands, clipSession, remote, opens, slot, take, relay, offer>>

-----------------------------------------------------------------------------
(* Restarts.                                                                *)

MayFault(kind) ==
  /\ kind \in Faults /\ clipFaults["relink"] + clipFaults["ui"] < MaxClipFaults[hasAgent]
  /\ clipFaults' = [clipFaults EXCEPT ![kind] = @ + 1]

\* D's link is taken down and dialled again: a new driver child, whose agent has
\* seen nothing and whose revisions start over.  R's daemon and UI live on.
Relink ==
  /\ MayFault("relink")
  /\ clipSession' = "none"
  /\ wire' = [m \in Machines |-> <<>>]
  /\ changes' = [a \in Agents |-> <<>>]
  /\ commands' = [a \in Agents |-> <<>>]
  /\ sent' = [sent EXCEPT !.fresh = FALSE]
  /\ handle' = [handle EXCEPT !["child"] = FreshHandle]
  /\ latest' = [k \in Flavours |-> Nothing]
  /\ rev' = [rev EXCEPT !["D"] = 0]
  /\ UNCHANGED <<os, kinds, hasAgent, remote, opens, slot, take, relay, offer>>

\* R's UI is started again: the relay takes what the clipboard holds as seen, the
\* take thread has seen no revision, the offers count from one.
RestartUI ==
  /\ MayFault("ui")
  /\ handle' = [handle EXCEPT !["relay"] = [FreshHandle EXCEPT !.seen = os["R"]]]
  /\ take' = FirstTake
  /\ relay' = FirstRelay
  /\ UNCHANGED <<os, kinds, hasAgent, changes, commands, latest, link, slot, offer, sent>>

-----------------------------------------------------------------------------

Take == TakeFirst \/ TakeLoadsEpoch \/ TakeRest \/ TakeChecks \/ TakeSends

Users == (\E m \in Machines : UserCopies(m)) \/ Open \/ Park \/ Resume \/ Close
Restarts == Relink \/ RestartUI

ClipNext ==
  \/ Users \/ Restarts
  \/ \E a \in Agents : AgentApplies(a) \/ AgentPolls(a)
  \/ ChildForwards \/ AgentForwards \/ DeliverToR \/ DeliverToD
  \/ Take \/ RelayApplies \/ RelayPolls \/ RelayOffers \/ RelayDropsStale
  \/ OfferForwards

ClipSpec == ClipInit /\ [][ClipNext]_clipVars

\* Every thread is scheduled and a stream that stays up delivers; nobody has to
\* copy, cross, come home, or take the link down.
ClipFairSpec ==
  /\ ClipSpec
  /\ \A a \in Agents : WF_clipVars(AgentApplies(a)) /\ WF_clipVars(AgentPolls(a))
  /\ WF_clipVars(ChildForwards) /\ WF_clipVars(AgentForwards)
  /\ WF_clipVars(DeliverToR) /\ WF_clipVars(DeliverToD)
  /\ WF_clipVars(Take) /\ WF_clipVars(RelayApplies) /\ WF_clipVars(RelayPolls)
  /\ WF_clipVars(RelayOffers) /\ WF_clipVars(RelayDropsStale) /\ WF_clipVars(OfferForwards)

-----------------------------------------------------------------------------
(* Properties.                                                              *)

Handling(clips) == [seen : clips, absorb : BOOLEAN, notices : Nat]
FrameOf(clips) == [rev : Nat \ {0}, clip : clips]
Taking(clips) == [at : {"idle", "first", "rest", "whole", "send"}, rev : Nat,
                  clip : clips, overtaken : BOOLEAN, lastSeen : Nat]
Relaying(clips) ==
  [at : {"loop", "offering", "offered"}, queue : Seq(clips), gen : Nat]
\* The state of both machines' clipboard tasks (ClipboardAgent, the episode loops,
\* CLIPBOARD_RELAY and the UI's two threads) when every clipboard they hold or
\* hand on is one of "clips".
Holds(clips) ==
  /\ os \in [Machines -> clips]
  /\ handle \in [Handles -> Handling(clips)]
  /\ changes \in [Agents -> Seq(clips)]
  /\ commands \in [Agents -> Seq(clips)]
  /\ latest \in [Flavours -> clips]
  /\ wire \in [Machines -> Seq(FrameOf(clips))]
  /\ slot \in [rev : Nat, clip : clips]
  /\ take \in Taking(clips)
  /\ relay \in Relaying(clips)
  /\ offer \in [gen : Nat, clip : clips]
Counts ==
  /\ kinds \in Seq(Flavours)
  /\ clipSession \in {"none", "active", "parked"}
  /\ hasAgent \in BOOLEAN
  /\ rev \in [Machines -> Nat]
  /\ remote \in [Machines -> Nat]
  /\ sent \in [gen : Nat, fresh : BOOLEAN]
  /\ opens \in Nat
  /\ clipFaults \in [FaultKinds -> Nat]
\* The shape of the state: any of the pastes may be a mixed one.
ClipboardTypeOK == Holds(Clips) /\ Counts

\* The take thread never pastes half of one copy and half of the next, although
\* the slot may be replaced between its two requests (clipboard_take_loop): two
\* pastes in the slot have two revisions, as long as the link has not been dialled
\* again.
PasteWhole == clipFaults["relink"] = 0 => \A m \in Machines : os[m] # Mixed

\* The comment at RelayPaste says that revisions order the slot.  A new driver
\* child counts from one again, and the slot keeps the paste of the old one.
RevisionsOrder == \A m \in Machines : os[m] # Mixed

\* A paste is not sent back for ever as if it were a copy: once the users stop,
\* both machines' clipboards come to rest (absorb_own_owner_event).  It is said
\* of a receiver without an agent of its own.
Quiet ==
  /\ \A a \in Agents : changes[a] = <<>> /\ commands[a] = <<>>
  /\ \A m \in Machines : wire[m] = <<>>
  /\ \A h \in Handles : ~Due(h)
  /\ take.at = "idle" /\ ~Fetchable
  /\ relay.at = "loop" /\ relay.queue = <<>> /\ ~sent.fresh
EchoDies == ~hasAgent => <>[]Quiet

NeverFaulted == clipFaults = [k \in FaultKinds |-> 0]

\* The only copy there is reaches the other machine, whichever made it and
\* whenever, if an episode is at last open for good: watched, stashed, sent at
\* the open or forwarded, fetched and applied.
SoleCopyLands ==
  <>[](Len(kinds) = 1 /\ clipSession = "active" /\ NeverFaulted)
    => <>[](\A m \in Machines : os[m] = 1)

\* AGENT-HANDOFF.md's contract: the latest copy on either machine wins
\* everywhere.
LatestCopyWins ==
  <>[](kinds # <<>> /\ clipSession = "active" /\ NeverFaulted)
    => <>[](\A m \in Machines : os[m] = Len(kinds))
=============================================================================
