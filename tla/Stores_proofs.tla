--------------------------- MODULE Stores_proofs ----------------------------
(***************************************************************************)
(* Records that several tasks read, keep a copy of and write back.         *)
(*                                                                         *)
(* The pastes (Clipboard), for any machines, copies and faults: short of a *)
(* relink, no clipboard ever mixes two copies.                             *)
(*                                                                         *)
(* The ended epochs and their file (EndedLinks), for any number of epochs, *)
(* hang-ups and any bound: a finished ban holds, in memory and on disk.    *)
(***************************************************************************)
EXTENDS Clipboard, EndedLinks, SequenceTheorems, TLAPS

\* A list with one element more is a list.
LEMMA Appends == ASSUME NEW S, NEW s \in Seq(S), NEW x \in S PROVE Append(s, x) \in Seq(S)
BY AppendProperties

\* A list without its first element.
LEMMA Shortened ==
    ASSUME NEW S, NEW s \in Seq(S), s # <<>>
    PROVE  /\ Head(s) \in S /\ Head(s) = s[1] /\ Tail(s) \in Seq(S) /\ Len(s) \in Nat \ {0}
           /\ Len(Tail(s)) = Len(s) - 1
           /\ \A i \in 1..Len(Tail(s)) : Tail(s)[i] = s[i + 1]
BY HeadTailProperties, LenProperties, EmptySeq

\* A value for each of the two machines.
LEMMA PairType ==
    ASSUME NEW S, NEW r \in S, NEW d \in S PROVE [R |-> r, D |-> d] \in [Machines -> S]
BY DEF Machines

\* A take goes on: its fields keep their types.
LEMMA TakeMoves ==
    ASSUME NEW C, NEW t \in Taking(C)
    PROVE  /\ \A x \in {"idle", "first", "rest", "whole", "send"} : [t EXCEPT !.at = x] \in Taking(C)
           /\ \A n \in Nat : [t EXCEPT !.rev = n] \in Taking(C)
           /\ \A c \in C : [t EXCEPT !.clip = c] \in Taking(C)
           /\ \A b \in BOOLEAN : [t EXCEPT !.overtaken = b] \in Taking(C)
           /\ \A n \in Nat : [t EXCEPT !.lastSeen = n] \in Taking(C)
BY DEF Taking

\* The task that takes pastes, before a take.
LEMMA TakeIdleType ==
    ASSUME NEW C, 0 \in C, NEW n \in Nat PROVE FirstTake \in Taking(C) /\ TakeIdle(n) \in Taking(C)
<1>1. FirstTake \in Taking(C)
  BY DEF FirstTake, Taking, Nothing
<1> QED
  BY <1>1, TakeMoves DEF TakeIdle

\* The same of the task that relays copies ...
LEMMA RelayMoves ==
    ASSUME NEW C, NEW t \in Relaying(C)
    PROVE  /\ \A x \in {"loop", "offering", "offered"} : [t EXCEPT !.at = x] \in Relaying(C)
           /\ \A q \in Seq(C) : [t EXCEPT !.queue = q] \in Relaying(C)
           /\ \A n \in Nat : [t EXCEPT !.gen = n] \in Relaying(C)
BY DEF Relaying

\* ... of what the clipboard handles learn of a change ...
LEMMA NotifyType ==
    ASSUME NEW C, NEW hs \in [Handles -> Handling(C)], NEW m
    PROVE  Notify(hs, m) \in [Handles -> Handling(C)]
<1> SUFFICES ASSUME NEW h \in Handles
             PROVE  (IF h \in Watching(m) THEN [hs[h] EXCEPT !.notices = Counted(m, @)]
                                          ELSE hs[h]) \in Handling(C)
  BY DEF Notify
<1>1. hs[h] \in Handling(C)
  OBVIOUS
<1>2. Counted(m, hs[h].notices) \in Nat
  BY <1>1 DEF Counted, Handling
<1> QED
  BY <1>1, <1>2 DEF Handling

\* ... of a handle that writes its clipboard ...
LEMMA SetOwnType ==
    ASSUME NEW C, NEW h \in Handles, NEW clip \in C, SetOwn(h, clip),
           os \in [Machines -> C], handle \in [Handles -> Handling(C)]
    PROVE  os' \in [Machines -> C] /\ handle' \in [Handles -> Handling(C)]
<1>1. os' \in [Machines -> C]
  BY DEF SetOwn
<1>2. [handle EXCEPT ![h].seen = clip, ![h].absorb = TRUE] \in [Handles -> Handling(C)]
  BY DEF Handling
<1> QED
  BY <1>1, <1>2, NotifyType DEF SetOwn

\* ... and of one that polls it.
LEMMA AfterPollType ==
    ASSUME NEW C, NEW h \in Handles,
           os \in [Machines -> C], handle \in [Handles -> Handling(C)]
    PROVE  AfterPoll(h) \in [Handles -> Handling(C)]
<1>1. os[HomeOf(h)] \in C
  BY DEF HomeOf, Machines
<1>2. /\ handle[h] \in Handling(C)
      /\ handle[h].notices > 0 => handle[h].notices - 1 \in Nat
  BY DEF Handling
<1>3. [seen |-> os[HomeOf(h)], absorb |-> handle[h].absorb /\ ~(handle[h].notices > 0),
       notices |-> IF handle[h].notices > 0 THEN handle[h].notices - 1 ELSE 0] \in Handling(C)
  BY <1>1, <1>2 DEF Handling
<1> QED
  BY <1>3 DEF AfterPoll

\* What the session sends of one paste, and at its start.
LEMMA KnownType ==
    ASSUME NEW C, NEW clip \in C
    PROVE  Known(clip) \in Seq(C) /\ Len(Known(clip)) \in Nat
<1>1. <<clip>> \in Seq(C) /\ <<>> \in Seq(C)
  OBVIOUS
<1> QED
  BY <1>1 DEF Known

\* What a new session sends.
LEMMA InitialType ==
    ASSUME NEW C, latest \in [Flavours -> C]
    PROVE  Initial \in Seq(C)
<1>1. latest["text"] \in C /\ latest["image"] \in C
  BY DEF Flavours
<1> QED
  BY <1>1, KnownType, ConcatProperties DEF Initial

\* The frames of a list of pastes have the next revisions, in their order.
LEMMA NumberedType ==
    ASSUME NEW C, NEW m \in Machines, NEW clips \in Seq(C), rev \in [Machines -> Nat]
    PROVE  /\ Numbered(m, clips) \in Seq(FrameOf(C))
           /\ Len(Numbered(m, clips)) = Len(clips)
           /\ \A i \in 1..Len(clips) : Numbered(m, clips)[i].rev = rev[m] + i
<1> DEFINE n == Numbered(m, clips)
<1>1. Len(clips) \in Nat /\ rev[m] \in Nat /\ \A i \in 1..Len(clips) : clips[i] \in C
  BY LenProperties, ElementOfSeq
<1>2. n \in [1..Len(clips) -> FrameOf(C)]
  BY <1>1 DEF Numbered, FrameOf
<1>3. n \in Seq(FrameOf(C)) /\ Len(n) = Len(clips)
  BY <1>1, <1>2, IsASeq, LenProperties
<1>4. \A i \in 1..Len(clips) : n[i].rev = rev[m] + i
  BY <1>1 DEF Numbered
<1> QED
  BY <1>3, <1>4

\* Sending keeps the types of the wire and of the counter of revisions.
LEMMA SendsType ==
    ASSUME NEW C, NEW m \in Machines, NEW clips \in Seq(C), rev \in [Machines -> Nat],
           wire \in [Machines -> Seq(FrameOf(C))], Sends(m, clips)
    PROVE  /\ rev' \in [Machines -> Nat] /\ wire' \in [Machines -> Seq(FrameOf(C))]
<1>1. Other(m) \in Machines /\ Len(clips) \in Nat
  BY LenProperties DEF Other, Machines
<1>2. wire[Other(m)] \o Numbered(m, clips) \in Seq(FrameOf(C))
  BY <1>1, NumberedType, ConcatProperties
<1> QED
  BY <1>1, <1>2 DEF Sends

\* The counters, the places of the tasks and the faults that are left.
LEMMA CountsStep == ASSUME Counts, [ClipNext]_clipVars, NEW C, Holds(C) PROVE Counts'
<1> USE DEF Counts
<1>1. ASSUME NEW m \in Machines, UserCopies(m) PROVE Counts'
  BY <1>1, AppendProperties DEF UserCopies, link, ui
<1>2. CASE Open
  <2>1. Initial \in Seq(C) /\ Known(offer.clip) \in Seq(C)
    BY InitialType, KnownType DEF Holds
  <2>2. rev' \in [Machines -> Nat]
    BY <1>2, <2>1, LenProperties DEF Open, Machines
  <2>3. offer.gen \in Nat
    BY DEF Holds
  <2> QED
    BY <1>2, <2>2, <2>3 DEF Open, world, Machines
<1>3. CASE Park
  BY <1>3 DEF Park, world, ui
<1>4. CASE Resume
  <2>1. Initial \in Seq(C)
    BY InitialType DEF Holds
  <2>2. rev' \in [Machines -> Nat]
    BY <1>4, <2>1, LenProperties DEF Resume, Sends, Machines
  <2> QED
    BY <1>4, <2>2 DEF Resume, world, ui
<1>5. CASE Close
  BY <1>5 DEF Close, world
<1>6. CASE Relink
  <2>1. clipFaults' \in [FaultKinds -> Nat]
    BY <1>6 DEF Relink, MayFault, FaultKinds
  <2>2. rev' \in [Machines -> Nat]
    BY <1>6 DEF Relink, Machines
  <2>3. /\ clipSession' = "none" /\ sent' = [sent EXCEPT !.fresh = FALSE]
        /\ UNCHANGED <<kinds, hasAgent, remote, opens>>
    BY <1>6 DEF Relink
  <2> QED
    BY <2>1, <2>2, <2>3
<1>7. CASE RestartUI
  BY <1>7 DEF RestartUI, MayFault, link, FaultKinds
<1>8. ASSUME NEW a \in Agents, AgentApplies(a) \/ AgentPolls(a) PROVE Counts'
  BY <1>8 DEF AgentApplies, AgentPolls, world, link, ui
<1>9. CASE ChildForwards
  <2>1. <<Head(changes["child"])>> \in Seq(C) /\ wire \in [Machines -> Seq(FrameOf(C))]
    BY <1>9, Shortened DEF ChildForwards, Holds, Agents
  <2>2. rev' \in [Machines -> Nat]
    BY <1>9, <2>1, SendsType DEF ChildForwards, Machines
  <2> QED
    BY <1>9, <2>2 DEF ChildForwards, world, ui
<1>10. CASE AgentForwards
  <2>1. <<Head(changes["agent"])>> \in Seq(C) /\ wire \in [Machines -> Seq(FrameOf(C))]
    BY <1>10, Shortened DEF AgentForwards, Holds, Agents
  <2>2. rev' \in [Machines -> Nat]
    BY <1>10, <2>1, SendsType DEF AgentForwards, Machines
  <2> QED
    BY <1>10, <2>2 DEF AgentForwards, world, ui
<1>11. ASSUME NEW m \in Machines, Received(m) PROVE remote' \in [Machines -> Nat]
  <2>1. Head(wire[m]) \in FrameOf(C)
    BY <1>11, Shortened DEF Received, Holds, FrameOf
  <2> QED
    BY <1>11, <2>1 DEF Received, FrameOf
<1>12. CASE DeliverToR
  BY <1>11, <1>12 DEF DeliverToR, world, Machines
<1>13. CASE DeliverToD
  BY <1>11, <1>13 DEF DeliverToD, world, ui, Machines
<1>14. CASE Take
  BY <1>14 DEF Take, TakeFirst, TakeLoadsEpoch, TakeRest, TakeChecks, TakeSends, world, link
<1>15. CASE RelayApplies \/ RelayPolls \/ RelayDropsStale
  BY <1>15 DEF RelayApplies, RelayPolls, RelayDropsStale, world, link
<1>16. CASE RelayOffers
  BY <1>16 DEF RelayOffers, world, link
<1>17. CASE OfferForwards
  <2>1. /\ <<offer.clip>> \in Seq(C) /\ wire \in [Machines -> Seq(FrameOf(C))]
        /\ offer.gen \in Nat
    BY DEF Holds
  <2>2. rev' \in [Machines -> Nat]
    BY <1>17, <2>1, SendsType DEF OfferForwards, Machines
  <2>3. sent' \in [gen : Nat, fresh : BOOLEAN]
    <3>1. \/ sent' = [gen |-> offer.gen, fresh |-> FALSE]
          \/ sent' = [sent EXCEPT !.fresh = FALSE]
      BY <1>17 DEF OfferForwards
    <3>2. CASE sent' = [gen |-> offer.gen, fresh |-> FALSE]
      BY <2>1, <3>2
    <3>3. CASE sent' = [sent EXCEPT !.fresh = FALSE]
      BY <3>3
    <3> QED
      BY <3>1, <3>2, <3>3
  <2>4. UNCHANGED <<kinds, clipSession, hasAgent, remote, opens, clipFaults>>
    BY <1>17 DEF OfferForwards, world
  <2> QED
    BY <2>2, <2>3, <2>4
<1>18. CASE UNCHANGED clipVars
  BY <1>18 DEF clipVars
<1> QED
  BY <1>1, <1>2, <1>3, <1>4, <1>5, <1>6, <1>7, <1>8, <1>9, <1>10, <1>12, <1>13, <1>14,
     <1>15, <1>16, <1>17, <1>18 DEF ClipNext, Users, Restarts

\* No step brings a paste that is not in C, where C holds every whole copy:
\* only the step that ends a take could (take_paste), by mixing two.
LEMMA HoldsStep ==
    ASSUME NEW C, Nat \subseteq C, Holds(C), Counts, [ClipNext]_clipVars,
           TakeRest => take'.clip \in C
    PROVE  Holds(C)'
<1> USE DEF Holds, Counts
<1>1. ASSUME NEW m \in Machines, UserCopies(m) PROVE Holds(C)'
  <2>1. Len(kinds) + 1 \in C
    BY LenProperties
  <2>2. handle' \in [Handles -> Handling(C)]
    BY <1>1, NotifyType DEF UserCopies
  <2> QED
    BY <1>1, <2>1, <2>2 DEF UserCopies, link, ui
<1>2. CASE Open
  <2>1. wire' \in [Machines -> Seq(FrameOf(C))]
    <3>1. Numbered("D", Initial) \in Seq(FrameOf(C))
      BY InitialType, NumberedType DEF Machines
    <3>2. /\ Known(offer.clip) \in Seq(C) /\ Len(Known(offer.clip)) \in Nat
          /\ \A i \in 1..Len(Known(offer.clip)) : Known(offer.clip)[i] \in C
      BY KnownType, ElementOfSeq
    <3>3. [i \in 1..Len(Known(offer.clip)) |-> [rev |-> i, clip |-> Known(offer.clip)[i]]]
             \in Seq(FrameOf(C))
      BY <3>2, IsASeq DEF FrameOf
    <3>4. wire' = [R |-> Numbered("D", Initial),
                   D |-> [i \in 1..Len(Known(offer.clip)) |->
                            [rev |-> i, clip |-> Known(offer.clip)[i]]]]
      BY <1>2 DEF Open
    <3> QED
      BY <3>1, <3>3, <3>4, PairType
  <2>2. handle' \in [Handles -> Handling(C)]
    BY <1>2 DEF Open, FreshHandle, Handling, Nothing
  <2> QED
    BY <1>2, <2>1, <2>2 DEF Open, world
<1>3. CASE Park
  BY <1>3 DEF Park, world, hands, ui
<1>4. CASE Resume
  <2>1. Initial \in Seq(C)
    BY InitialType
  <2>2. wire' \in [Machines -> Seq(FrameOf(C))]
    BY <1>4, <2>1, SendsType DEF Resume, Machines
  <2> QED
    BY <1>4, <2>2 DEF Resume, world, hands, ui
<1>5. CASE Close
  <2>1. /\ wire' \in [Machines -> Seq(FrameOf(C))]
        /\ changes' \in [Agents -> Seq(C)] /\ commands' \in [Agents -> Seq(C)]
    <3>1. <<>> \in Seq(C) /\ <<>> \in Seq(FrameOf(C))
      OBVIOUS
    <3>2. /\ wire' = [m \in Machines |-> <<>>]
          /\ changes' = [changes EXCEPT !["agent"] = <<>>]
          /\ commands' = [commands EXCEPT !["agent"] = <<>>]
      BY <1>5 DEF Close
    <3> QED
      BY <3>1, <3>2
  <2> QED
    BY <1>5, <2>1 DEF Close, world
<1>6. CASE Relink
  <2>1. /\ wire' \in [Machines -> Seq(FrameOf(C))] /\ latest' \in [Flavours -> C]
        /\ changes' \in [Agents -> Seq(C)] /\ commands' \in [Agents -> Seq(C)]
    BY <1>6 DEF Relink, Nothing
  <2>2. handle' \in [Handles -> Handling(C)]
    BY <1>6 DEF Relink, FreshHandle, Handling, Nothing
  <2> QED
    BY <1>6, <2>1, <2>2 DEF Relink
<1>7. CASE RestartUI
  <2>1. handle' \in [Handles -> Handling(C)]
    BY <1>7 DEF RestartUI, FreshHandle, Handling, Machines
  <2>2. take' = FirstTake /\ relay' = FirstRelay
    BY <1>7 DEF RestartUI
  <2>3. take' \in Taking(C) /\ relay' \in Relaying(C)
    BY <2>2, TakeIdleType DEF FirstRelay, Relaying
  <2> QED
    BY <1>7, <2>1, <2>3 DEF RestartUI, link
<1>8. ASSUME NEW a \in Agents, AgentApplies(a) PROVE Holds(C)'
  <2>1. a \in Handles /\ Head(commands[a]) \in C /\ Tail(commands[a]) \in Seq(C)
    BY <1>8, Shortened DEF AgentApplies, Handles
  <2>2. os' \in [Machines -> C] /\ handle' \in [Handles -> Handling(C)]
    BY <1>8, <2>1, SetOwnType DEF AgentApplies
  <2> QED
    BY <1>8, <2>1, <2>2 DEF AgentApplies, link, ui
<1>9. ASSUME NEW a \in Agents, AgentPolls(a) PROVE Holds(C)'
  <2>1. a \in Handles /\ os[HomeOf(a)] \in C
    BY DEF Handles, HomeOf, Machines
  <2>2. handle' \in [Handles -> Handling(C)]
    BY <1>9, <2>1, AfterPollType DEF AgentPolls
  <2>3. changes' \in [Agents -> Seq(C)]
    BY <1>9, <2>1, Appends DEF AgentPolls
  <2> QED
    BY <1>9, <2>2, <2>3 DEF AgentPolls, world, link, ui
<1>10. CASE ChildForwards
  <2>1. Head(changes["child"]) \in C /\ Tail(changes["child"]) \in Seq(C)
    BY <1>10, Shortened DEF ChildForwards, Agents
  <2>2. wire' \in [Machines -> Seq(FrameOf(C))]
    <3>1. <<Head(changes["child"])>> \in Seq(C)
      BY <2>1
    <3> QED
      BY <1>10, <3>1, SendsType DEF ChildForwards, Machines
  <2>3. latest' \in [Flavours -> C] /\ changes' \in [Agents -> Seq(C)]
    BY <1>10, <2>1 DEF ChildForwards, Remembers
  <2> QED
    BY <1>10, <2>2, <2>3 DEF ChildForwards, world, ui
<1>11. CASE AgentForwards
  <2>1. Head(changes["agent"]) \in C /\ Tail(changes["agent"]) \in Seq(C)
    BY <1>11, Shortened DEF AgentForwards, Agents
  <2>2. wire' \in [Machines -> Seq(FrameOf(C))]
    <3>1. <<Head(changes["agent"])>> \in Seq(C)
      BY <2>1
    <3> QED
      BY <1>11, <3>1, SendsType DEF AgentForwards, Machines
  <2>3. changes' \in [Agents -> Seq(C)]
    BY <1>11, <2>1 DEF AgentForwards
  <2> QED
    BY <1>11, <2>2, <2>3 DEF AgentForwards, world, ui
<1>12. ASSUME NEW m \in Machines, Received(m)
       PROVE  /\ Head(wire[m]) \in FrameOf(C) /\ Head(wire[m]).clip \in C
              /\ wire' \in [Machines -> Seq(FrameOf(C))]
  <2>1. Head(wire[m]) \in FrameOf(C) /\ Tail(wire[m]) \in Seq(FrameOf(C))
    BY <1>12, Shortened DEF Received
  <2> QED
    BY <1>12, <2>1 DEF Received, FrameOf
<1>13. CASE DeliverToR
  <2>1. /\ Head(wire["R"]) \in FrameOf(C) /\ Head(wire["R"]).clip \in C
        /\ wire' \in [Machines -> Seq(FrameOf(C))]
    BY <1>12, <1>13 DEF DeliverToR, Machines
  <2>2. slot' \in [rev : Nat, clip : C]
    BY <1>13, <2>1 DEF DeliverToR, StashInbound, FrameOf
  <2>3. commands' \in [Agents -> Seq(C)]
    <3>1. Append(commands["agent"], Head(wire["R"]).clip) \in Seq(C)
      BY <2>1, Appends DEF Agents
    <3> QED
      BY <1>13, <3>1 DEF DeliverToR, Agents
  <2> QED
    BY <1>13, <2>1, <2>2, <2>3 DEF DeliverToR, world
<1>14. CASE DeliverToD
  <2>1. /\ Head(wire["D"]).clip \in C /\ wire' \in [Machines -> Seq(FrameOf(C))]
    BY <1>12, <1>14 DEF DeliverToD, Machines
  <2>2. Append(commands["child"], Head(wire["D"]).clip) \in Seq(C)
    BY <2>1, Appends DEF Agents
  <2>3. commands' \in [Agents -> Seq(C)] /\ latest' \in [Flavours -> C]
    <3>1. CASE Current("D")
      <4>1. /\ commands' = [commands EXCEPT !["child"] = Append(@, Head(wire["D"]).clip)]
            /\ latest' = [latest EXCEPT ![KindOf(Head(wire["D"]).clip)] = Head(wire["D"]).clip]
        BY <1>14, <3>1 DEF DeliverToD, Remembers
      <4> QED
        BY <2>1, <2>2, <4>1 DEF Agents
    <3>2. CASE ~Current("D")
      BY <1>14, <3>2 DEF DeliverToD
    <3> QED
      BY <3>1, <3>2
  <2> QED
    BY <1>14, <2>1, <2>3 DEF DeliverToD, world, ui
<1>15. CASE TakeFirst \/ TakeLoadsEpoch \/ TakeChecks
  <2>1. UNCHANGED <<world, hands, link, slot, relay, offer, sent>>
    BY <1>15 DEF TakeFirst, TakeLoadsEpoch, TakeChecks
  <2>2. take \in Taking(C) /\ take.rev \in Nat /\ 0 \in C
    BY DEF Taking
  <2>3. take' \in Taking(C)
    <3>1. CASE TakeFirst
      <4>1. /\ take' = [[[take EXCEPT !.at = "first"] EXCEPT !.rev = slot.rev]
                                 EXCEPT !.clip = slot.clip]
        BY <3>1 DEF TakeFirst
      <4> QED
        BY <2>2, <4>1, TakeMoves
    <3>2. CASE TakeLoadsEpoch
      <4>1. take' = [[take EXCEPT !.at = "rest"] EXCEPT !.overtaken = FALSE]
        BY <3>2 DEF TakeLoadsEpoch
      <4> QED
        BY <2>2, <4>1, TakeMoves
    <3>3. CASE TakeChecks
      <4>1. \/ take' = TakeIdle(take.rev)
            \/ take' = [[take EXCEPT !.at = "send"] EXCEPT !.lastSeen = take.rev]
        BY <3>3 DEF TakeChecks
      <4> QED
        <5>1. CASE take' = TakeIdle(take.rev)
          BY <2>2, <5>1, TakeIdleType
        <5>2. CASE take' = [[take EXCEPT !.at = "send"] EXCEPT !.lastSeen = take.rev]
          BY <2>2, <5>2, TakeMoves
        <5> QED
          BY <4>1, <5>1, <5>2
    <3> QED
      BY <1>15, <3>1, <3>2, <3>3
  <2> QED
    BY <2>1, <2>3 DEF world, hands, link
<1>16. CASE TakeRest
  <2>1. take'.clip \in C /\ UNCHANGED <<world, hands, link, slot, relay, offer, sent>>
    BY <1>16 DEF TakeRest
  <2>2. take \in Taking(C) /\ take.lastSeen \in Nat /\ 0 \in C
    BY DEF Taking
  <2>3. PICK c : \/ take' = [[take EXCEPT !.at = "whole"] EXCEPT !.clip = c]
                 \/ take' = TakeIdle(take.lastSeen)
    BY <1>16 DEF TakeRest
  <2>4. take' \in Taking(C)
    <3>1. CASE take' = [[take EXCEPT !.at = "whole"] EXCEPT !.clip = c]
      <4>1. take'.clip = c
        BY <2>2, <3>1 DEF Taking
      <4> QED
        BY <2>1, <2>2, <3>1, <4>1, TakeMoves
    <3> QED
      BY <2>2, <2>3, <3>1, TakeIdleType
  <2> QED
    BY <2>1, <2>4 DEF world, hands, link
<1>17. CASE TakeSends
  <2>1. /\ take \in Taking(C) /\ take.lastSeen \in Nat /\ take.clip \in C /\ 0 \in C
        /\ relay \in Relaying(C) /\ relay.queue \in Seq(C)
    BY DEF Taking, Relaying
  <2>2. relay' \in Relaying(C) /\ take' \in Taking(C)
    BY <1>17, <2>1, Appends, RelayMoves, TakeIdleType DEF TakeSends
  <2> QED
    BY <1>17, <2>2 DEF TakeSends, world, hands, link
<1>18. CASE RelayApplies
  <2>1. Head(relay.queue) \in C /\ Tail(relay.queue) \in Seq(C) /\ "relay" \in Handles
    BY <1>18, Shortened DEF RelayApplies, Handles, Relaying
  <2>2. os' \in [Machines -> C] /\ handle' \in [Handles -> Handling(C)]
    BY <1>18, <2>1, SetOwnType DEF RelayApplies
  <2>3. relay' \in Relaying(C)
    BY <1>18, <2>1, RelayMoves DEF RelayApplies
  <2> QED
    BY <1>18, <2>2, <2>3 DEF RelayApplies, link
<1>19. CASE RelayPolls
  <2>1. handle' \in [Handles -> Handling(C)]
    BY <1>19, AfterPollType DEF RelayPolls, Handles
  <2>2. \/ relay' = [[relay EXCEPT !.at = "offering"] EXCEPT !.gen = relay.gen + 1]
        \/ relay' = relay
    BY <1>19 DEF RelayPolls
  <2>3. relay \in Relaying(C) /\ relay.gen + 1 \in Nat
    BY DEF Relaying
  <2>4. relay' \in Relaying(C)
    <3>1. CASE relay' = [[relay EXCEPT !.at = "offering"] EXCEPT !.gen = relay.gen + 1]
      BY <2>3, <3>1, RelayMoves
    <3> QED
      BY <2>2, <2>3, <3>1
  <2> QED
    BY <1>19, <2>1, <2>4 DEF RelayPolls, world, link
<1>20. CASE RelayOffers
  <2>1. handle["relay"].seen \in C
    BY DEF Handles, Handling
  <2>2. relay.gen \in Nat /\ relay' \in Relaying(C)
    BY <1>20, RelayMoves DEF RelayOffers, Relaying
  <2> QED
    BY <1>20, <2>1, <2>2 DEF RelayOffers, world, hands, link
<1>21. CASE RelayDropsStale
  <2>1. PICK b \in BOOLEAN : take' = [take EXCEPT !.overtaken = b]
    BY <1>21 DEF RelayDropsStale
  <2>2. take' \in Taking(C)
    BY <2>1, TakeMoves
  <2>3. relay' = [[relay EXCEPT !.at = "loop"] EXCEPT !.queue = <<>>]
    BY <1>21 DEF RelayDropsStale
  <2>4. relay' \in Relaying(C)
    <3>1. <<>> \in Seq(C)
      OBVIOUS
    <3> QED
      BY <2>3, <3>1, RelayMoves
  <2>5. UNCHANGED <<world, hands, link, slot, offer, sent>>
    BY <1>21 DEF RelayDropsStale
  <2> QED
    BY <2>2, <2>4, <2>5 DEF world, hands, link
<1>22. CASE OfferForwards
  <2>1. <<offer.clip>> \in Seq(C)
    OBVIOUS
  <2>2. wire' \in [Machines -> Seq(FrameOf(C))]
    BY <1>22, <2>1, SendsType DEF OfferForwards, Machines
  <2> QED
    BY <1>22, <2>2 DEF OfferForwards, world, hands
<1>23. CASE UNCHANGED clipVars
  BY <1>23 DEF clipVars
<1> QED
  BY <1>1, <1>2, <1>3, <1>4, <1>5, <1>6, <1>7, <1>8, <1>9, <1>10, <1>11, <1>13, <1>14,
     <1>15, <1>16, <1>17, <1>18, <1>19, <1>20, <1>21, <1>22, <1>23
     DEF ClipNext, Users, Restarts, Take

\* The state of the tasks keeps its type.
THEOREM ClipboardTypes == ClipSpec => []ClipboardTypeOK
<1>1. ClipInit => ClipboardTypeOK
  <2> SUFFICES ASSUME ClipInit PROVE ClipboardTypeOK
    OBVIOUS
  <2>1. Nothing \in Clips
    BY DEF Clips
  <2>2. [m \in Machines |-> <<>>] \in [Machines -> Seq(FrameOf(Clips))]
    OBVIOUS
  <2>3. handle \in [Handles -> Handling(Clips)]
    BY <2>1 DEF ClipInit, FreshHandle, Handling
  <2>4. take \in Taking(Clips) /\ relay \in Relaying(Clips)
    BY <2>1, TakeIdleType DEF ClipInit, FirstRelay, Relaying, Nothing
  <2>5. Holds(Clips)
    BY <2>1, <2>2, <2>3, <2>4 DEF ClipInit, Holds, NoOffer
  <2>6. Counts
    BY DEF ClipInit, Counts
  <2> QED
    BY <2>5, <2>6 DEF ClipboardTypeOK
<1>2. ClipboardTypeOK /\ [ClipNext]_clipVars => ClipboardTypeOK'
  <2> SUFFICES ASSUME ClipboardTypeOK, [ClipNext]_clipVars PROVE ClipboardTypeOK'
    OBVIOUS
  <2>1. Nat \subseteq Clips /\ Holds(Clips) /\ Counts
    BY DEF ClipboardTypeOK, Clips
  <2>2. TakeRest => take'.clip \in Clips
    <3> SUFFICES ASSUME TakeRest PROVE take'.clip \in Clips
      OBVIOUS
    <3>1. take \in Taking(Clips) /\ Mixed \in Clips /\ slot.clip \in Clips
      BY <2>1 DEF Holds, Clips
    <3>2. PICK c \in Clips : \/ take' = [[take EXCEPT !.at = "whole"] EXCEPT !.clip = c]
                            \/ take' = TakeIdle(take.lastSeen)
      BY <3>1 DEF TakeRest, Taking
    <3>3. CASE take' = [[take EXCEPT !.at = "whole"] EXCEPT !.clip = c]
      BY <3>1, <3>3 DEF Taking
    <3>4. CASE take' = TakeIdle(take.lastSeen)
      BY <3>1, <3>4, TakeIdleType, <2>1 DEF Taking
    <3> QED
      BY <3>2, <3>3, <3>4
  <2>3. Holds(Clips)'
    BY <2>1, <2>2, HoldsStep
  <2>4. Counts'
    BY <2>1, CountsStep
  <2> QED
    BY <2>3, <2>4 DEF ClipboardTypeOK
<1> QED
  BY <1>1, <1>2, PTL DEF ClipSpec

-----------------------------------------------------------------------------
(* The revisions of R's slot and of the frames on their way to it.         *)

\* The frames' revisions rise, above "low" and up to "high".
Rising(frames, low, high) ==
  /\ low <= high
  /\ \A i \in 1..Len(frames) : low < frames[i].rev /\ frames[i].rev <= high
  /\ \A i, j \in 1..Len(frames) : i < j => frames[i].rev < frames[j].rev

SlotOrder == Rising(wire["R"], slot.rev, rev["D"])

\* A first chunk still in hand is of the paste in the slot or of an older one.
ChunkInHand ==
  take.at \in {"first", "rest"} =>
    /\ take.rev <= slot.rev
    /\ take.rev = slot.rev => take.clip = slot.clip

\* Until the link is dialled again nothing that a task holds is mixed, because a
\* revision names one paste.
WholeInv == clipFaults["relink"] = 0 => Holds(Nat) /\ SlotOrder /\ ChunkInHand

\* What rising revisions become: with nothing under way, with a frame read,
LEMMA RisingEmpty ==
    ASSUME NEW low \in Nat, NEW high \in Nat, low <= high PROVE Rising(<<>>, low, high)
BY DEF Rising

LEMMA RisingTail ==
    ASSUME NEW C, NEW w \in Seq(FrameOf(C)), NEW low \in Nat, NEW high \in Nat,
           w # <<>>, Rising(w, low, high)
    PROVE  /\ Rising(Tail(w), low, high)
           /\ Rising(Tail(w), Head(w).rev, high) /\ low < Head(w).rev
<1>1. /\ Head(w) = w[1] /\ Tail(w) \in Seq(FrameOf(C)) /\ Len(w) \in Nat \ {0}
      /\ Len(Tail(w)) = Len(w) - 1
      /\ \A i \in 1..Len(Tail(w)) : Tail(w)[i] = w[i + 1]
  BY Shortened
<1>2. \A i \in 1..Len(Tail(w)) : i + 1 \in 1..Len(w) /\ 1 < i + 1
  BY <1>1
<1>3. 1 \in 1..Len(w)
  BY <1>1
<1> QED
  BY <1>1, <1>2, <1>3 DEF Rising

\* and with frames sent behind the others.
LEMMA RisingConcat ==
    ASSUME NEW C, NEW w \in Seq(FrameOf(C)), NEW n \in Seq(FrameOf(C)),
           NEW low \in Nat, NEW high \in Nat, Rising(w, low, high),
           \A i \in 1..Len(n) : n[i].rev = high + i
    PROVE  Rising(w \o n, low, high + Len(n))
<1>1. /\ w \o n \in Seq(FrameOf(C)) /\ Len(w \o n) = Len(w) + Len(n)
      /\ Len(w) \in Nat /\ Len(n) \in Nat
      /\ \A i \in 1..(Len(w) + Len(n)) :
           (w \o n)[i] = IF i <= Len(w) THEN w[i] ELSE n[i - Len(w)]
  BY ConcatProperties, LenProperties
<1>2. \A i \in 1..Len(w) : w[i].rev \in Nat
  <2> SUFFICES ASSUME NEW i \in 1..Len(w) PROVE w[i].rev \in Nat
    OBVIOUS
  <2>1. w[i] \in FrameOf(C)
    BY ElementOfSeq
  <2> QED
    BY <2>1 DEF FrameOf
<1>3. \A i \in 1..(Len(w) + Len(n)) :
        /\ i <= Len(w) => (w \o n)[i].rev = w[i].rev /\ i \in 1..Len(w)
        /\ i > Len(w) => (w \o n)[i].rev = high + (i - Len(w)) /\ i - Len(w) \in 1..Len(n)
  BY <1>1
<1> DEFINE r(i) == (w \o n)[i].rev
<1>4. \A i \in 1..(Len(w) + Len(n)) : r(i) \in Int /\ low < r(i) /\ r(i) <= high + Len(n)
  <2> TAKE i \in 1..(Len(w) + Len(n))
  <2>1. CASE i <= Len(w)
    BY <1>1, <1>2, <1>3, <2>1 DEF Rising
  <2>2. CASE i > Len(w)
    BY <1>1, <1>3, <2>2 DEF Rising
  <2> QED
    BY <1>1, <2>1, <2>2
<1>5. \A i, j \in 1..(Len(w) + Len(n)) : i < j => r(i) < r(j)
  <2> TAKE i, j \in 1..(Len(w) + Len(n))
  <2> HAVE i < j
  <2>1. CASE j <= Len(w)
    BY <1>1, <1>3, <2>1 DEF Rising
  <2>2. CASE j > Len(w) /\ i <= Len(w)
    <3>1. r(j) = high + (j - Len(w)) /\ r(i) <= high
      BY <1>1, <1>2, <1>3, <2>2 DEF Rising
    <3> QED
      BY <1>1, <1>4, <2>2, <3>1
  <2>3. CASE i > Len(w)
    BY <1>1, <1>3, <2>3
  <2> QED
    BY <1>1, <2>1, <2>2, <2>3
<1> QED
  BY <1>1, <1>4, <1>5 DEF Rising

\* The driver's session sends: its revisions go on rising.
LEMMA SendsOrder ==
    ASSUME NEW C, NEW clips \in Seq(C), Holds(C), Counts, SlotOrder, Sends("D", clips),
           slot' = slot
    PROVE  SlotOrder'
<1>1. /\ wire["R"] \in Seq(FrameOf(C)) /\ rev["D"] \in Nat /\ slot.rev \in Nat
      /\ rev \in [Machines -> Nat]
  BY DEF Holds, Counts, Machines
<1>2. /\ Numbered("D", clips) \in Seq(FrameOf(C))
      /\ Len(Numbered("D", clips)) = Len(clips)
      /\ \A i \in 1..Len(clips) : Numbered("D", clips)[i].rev = rev["D"] + i
  BY <1>1, NumberedType DEF Machines
<1>3. /\ wire'["R"] = wire["R"] \o Numbered("D", clips)
      /\ rev'["D"] = rev["D"] + Len(clips)
  BY DEF Sends, Other, Holds, Counts, Machines
<1> QED
  BY <1>1, <1>2, <1>3, RisingConcat DEF SlotOrder

\* What the receiver sends is not on the receiver's wire.
LEMMA OtherWay ==
    ASSUME NEW clips, Sends("R", clips), Counts, wire \in [Machines -> Seq(FrameOf(Nat))]
    PROVE  wire'["R"] = wire["R"] /\ rev'["D"] = rev["D"]
BY DEF Sends, Other, Machines, Counts

\* One case per action that sends to the receiver, or stores what it read.
LEMMA OrderStep ==
    ASSUME Holds(Nat), Counts, SlotOrder, [ClipNext]_clipVars, ~Relink
    PROVE  SlotOrder'
<1>1. /\ wire \in [Machines -> Seq(FrameOf(Nat))] /\ wire["R"] \in Seq(FrameOf(Nat))
      /\ rev["D"] \in Nat /\ slot.rev \in Nat /\ rev["D"] >= slot.rev
  BY DEF Holds, Counts, Machines, SlotOrder, Rising
<1>2. CASE Open
  <2>1. Initial \in Seq(Nat)
    BY InitialType DEF Holds
  <2>2. /\ Numbered("D", Initial) \in Seq(FrameOf(Nat))
        /\ Len(Numbered("D", Initial)) = Len(Initial)
        /\ \A i \in 1..Len(Initial) : Numbered("D", Initial)[i].rev = rev["D"] + i
    BY <2>1, NumberedType DEF Counts, Machines
  <2>3. /\ rev'["D"] = rev["D"] + Len(Initial) /\ wire'["R"] = Numbered("D", Initial)
        /\ slot' = slot
    BY <1>2 DEF Open
  <2>4. Rising(<<>> \o Numbered("D", Initial), slot.rev, rev["D"] + Len(Initial))
    <3>1. <<>> \in Seq(FrameOf(Nat))
      OBVIOUS
    <3> QED
      BY <1>1, <2>2, <3>1, RisingEmpty, RisingConcat
  <2> QED
    BY <2>2, <2>3, <2>4, ConcatEmptySeq DEF SlotOrder
<1>3. CASE Resume
  BY <1>3, InitialType, SendsOrder DEF Resume, Holds, ui
<1>4. CASE Close
  <2>1. wire'["R"] = <<>> /\ rev' = rev /\ slot' = slot
    BY <1>4 DEF Close, Machines
  <2> QED
    BY <1>1, <2>1, RisingEmpty DEF SlotOrder
<1>5. CASE ChildForwards
  <2>1. changes["child"] \in Seq(Nat) /\ changes["child"] # <<>> /\ slot' = slot
    BY <1>5 DEF ChildForwards, Holds, Agents, ui
  <2>2. <<Head(changes["child"])>> \in Seq(Nat)
    BY <2>1, Shortened
  <2>3. CASE clipSession = "active"
    BY <1>5, <2>1, <2>2, <2>3, SendsOrder DEF ChildForwards
  <2>4. CASE clipSession # "active"
    BY <1>5, <2>1, <2>4 DEF ChildForwards, SlotOrder
  <2> QED
    BY <2>3, <2>4
<1>6. CASE AgentForwards
  BY <1>1, <1>6, OtherWay DEF AgentForwards, SlotOrder, ui
<1>7. CASE OfferForwards
  <2>1. slot' = slot
    BY <1>7 DEF OfferForwards
  <2>2. CASE offer.gen > sent.gen
    BY <1>1, <1>7, <2>1, <2>2, OtherWay DEF OfferForwards, SlotOrder
  <2>3. CASE ~(offer.gen > sent.gen)
    BY <1>7, <2>1, <2>3 DEF OfferForwards, SlotOrder
  <2> QED
    BY <2>2, <2>3
<1>8. CASE DeliverToR
  <2>1. /\ wire["R"] # <<>> /\ wire'["R"] = Tail(wire["R"]) /\ rev' = rev
        /\ \/ slot' = slot \/ slot'.rev = Head(wire["R"]).rev
    BY <1>1, <1>8 DEF DeliverToR, Received, StashInbound, Machines
  <2> QED
    BY <1>1, <2>1, RisingTail DEF SlotOrder
<1>9. CASE DeliverToD
  <2>1. wire'["R"] = wire["R"] /\ rev' = rev /\ slot' = slot
    BY <1>1, <1>9 DEF DeliverToD, Received, Machines, ui
  <2> QED
    BY <2>1 DEF SlotOrder
<1>10. CASE UNCHANGED <<wire, rev, slot>>
  BY <1>10 DEF SlotOrder
<1>11. CASE Park
  BY <1>10, <1>11 DEF Park, ui
<1>12. ASSUME NEW m \in Machines, UserCopies(m) PROVE UNCHANGED <<wire, rev, slot>>
  BY <1>12 DEF UserCopies, link, ui
<1>13. ASSUME NEW a \in Agents, AgentApplies(a) \/ AgentPolls(a) PROVE UNCHANGED <<wire, rev, slot>>
  BY <1>13 DEF AgentApplies, AgentPolls, link, ui
<1>14. CASE RestartUI \/ Take
  BY <1>10, <1>14 DEF RestartUI, Take, TakeFirst, TakeLoadsEpoch, TakeRest, TakeChecks,
     TakeSends, link
<1>15. CASE RelayApplies \/ RelayPolls \/ RelayOffers \/ RelayDropsStale
  BY <1>10, <1>15 DEF RelayApplies, RelayPolls, RelayOffers, RelayDropsStale, link
<1>16. CASE UNCHANGED clipVars
  BY <1>10, <1>16 DEF clipVars
<1> QED
  BY <1>2, <1>3, <1>4, <1>5, <1>6, <1>7, <1>8, <1>9, <1>10, <1>11, <1>12, <1>13, <1>14,
     <1>15, <1>16 DEF ClipNext, Users, Restarts

\* The slot moves only to a newer revision while a take is under way.
LEMMA ChunkStep ==
    ASSUME Holds(Nat), Counts, SlotOrder, ChunkInHand, [ClipNext]_clipVars, ~Relink
    PROVE  ChunkInHand'
<1>1. slot.rev \in Nat /\ take \in Taking(Nat) /\ take.rev \in Nat
  BY DEF Holds, Taking
<1>2. CASE UNCHANGED <<take, slot>>
  BY <1>2 DEF ChunkInHand
<1>3. ASSUME take'.at = "idle" PROVE ChunkInHand'
  BY <1>3 DEF ChunkInHand
<1>4. CASE TakeFirst
  <2>1. take'.rev = slot.rev /\ take'.clip = slot.clip /\ slot' = slot
    BY <1>1, <1>4 DEF TakeFirst, Taking
  <2> QED
    BY <1>1, <2>1 DEF ChunkInHand
<1>5. CASE TakeLoadsEpoch
  <2>1. /\ take'.rev = take.rev /\ take'.clip = take.clip /\ slot' = slot
        /\ take.at = "first"
    BY <1>1, <1>5 DEF TakeLoadsEpoch, Taking
  <2> QED
    BY <1>1, <2>1 DEF ChunkInHand
<1>6. CASE TakeRest
  <2>1. take'.at \in {"whole", "idle"}
    BY <1>1, <1>6 DEF TakeRest, TakeIdle, FirstTake, Taking
  <2> QED
    BY <2>1 DEF ChunkInHand
<1>7. CASE TakeChecks
  <2>1. take'.at \in {"send", "idle"}
    BY <1>1, <1>7 DEF TakeChecks, TakeIdle, FirstTake, Taking
  <2> QED
    BY <2>1 DEF ChunkInHand
<1>8. CASE TakeSends \/ RestartUI
  BY <1>3, <1>8 DEF TakeSends, RestartUI, TakeIdle, FirstTake
<1>9. CASE DeliverToR
  <2>1. wire["R"] \in Seq(FrameOf(Nat)) /\ rev["D"] \in Nat /\ wire["R"] # <<>>
    BY <1>9 DEF DeliverToR, Received, Holds, Counts, Machines
  <2>2. Head(wire["R"]).rev \in Nat /\ slot.rev < Head(wire["R"]).rev
    <3>1. Head(wire["R"]) \in FrameOf(Nat)
      BY <2>1, Shortened
    <3>2. slot.rev < Head(wire["R"]).rev
      BY <1>1, <2>1, RisingTail DEF SlotOrder
    <3> QED
      BY <3>1, <3>2 DEF FrameOf
  <2>3. /\ take' = take
        /\ slot' = slot \/ slot'.rev = Head(wire["R"]).rev
    BY <1>9 DEF DeliverToR, StashInbound
  <2> QED
    BY <1>1, <2>2, <2>3 DEF ChunkInHand
<1>10. CASE RelayDropsStale
  <2>1. PICK b \in BOOLEAN : take' = [take EXCEPT !.overtaken = b] /\ slot' = slot
    BY <1>10 DEF RelayDropsStale
  <2>2. take'.at = take.at /\ take'.rev = take.rev /\ take'.clip = take.clip
    BY <1>1, <2>1 DEF Taking
  <2> QED
    BY <2>1, <2>2 DEF ChunkInHand
<1>11. CASE RelayApplies \/ RelayPolls \/ RelayOffers \/ OfferForwards
  BY <1>2, <1>11 DEF RelayApplies, RelayPolls, RelayOffers, OfferForwards
<1>12. CASE Open \/ Park \/ Resume \/ Close
  BY <1>2, <1>12 DEF Open, Park, Resume, Close, ui
<1>13. CASE ChildForwards \/ AgentForwards \/ DeliverToD
  BY <1>2, <1>13 DEF ChildForwards, AgentForwards, DeliverToD, ui
<1>14. ASSUME NEW m \in Machines, UserCopies(m) PROVE UNCHANGED <<take, slot>>
  BY <1>14 DEF UserCopies, ui
<1>15. ASSUME NEW a \in Agents, AgentApplies(a) \/ AgentPolls(a) PROVE UNCHANGED <<take, slot>>
  BY <1>15 DEF AgentApplies, AgentPolls, ui
<1>16. CASE UNCHANGED clipVars
  BY <1>2, <1>16 DEF clipVars
<1> QED
  BY <1>2, <1>4, <1>5, <1>6, <1>7, <1>8, <1>9, <1>10, <1>11, <1>12, <1>13, <1>14, <1>15,
     <1>16 DEF ClipNext, Users, Restarts, Take

\* Faults are counted and never given back.
LEMMA FaultsOnlyCount ==
    ASSUME Counts, [ClipNext]_clipVars, clipFaults'["relink"] = 0
    PROVE  clipFaults["relink"] = 0 /\ ~Relink
<1>1. clipFaults \in [FaultKinds -> Nat] /\ clipFaults["relink"] \in Nat
  BY DEF Counts, FaultKinds
<1>2. ~Relink
  BY <1>1 DEF Relink, MayFault, FaultKinds
<1>3. CASE RestartUI
  BY <1>1, <1>2, <1>3 DEF RestartUI, MayFault, FaultKinds
<1>4. CASE clipFaults' = clipFaults
  BY <1>2, <1>4
<1>5. ASSUME NEW m \in Machines, UserCopies(m) PROVE clipFaults' = clipFaults
  BY <1>5 DEF UserCopies
<1>6. ASSUME NEW a \in Agents, AgentApplies(a) \/ AgentPolls(a) PROVE clipFaults' = clipFaults
  BY <1>6 DEF AgentApplies, AgentPolls, world
<1>7. CASE Open \/ Park \/ Resume \/ Close \/ ChildForwards \/ AgentForwards
  BY <1>4, <1>7 DEF Open, Park, Resume, Close, ChildForwards, AgentForwards, world
<1>8. CASE DeliverToR \/ DeliverToD \/ OfferForwards \/ Take
  BY <1>4, <1>8 DEF DeliverToR, DeliverToD, OfferForwards, Take, TakeFirst, TakeLoadsEpoch,
     TakeRest, TakeChecks, TakeSends, world
<1>9. CASE RelayApplies \/ RelayPolls \/ RelayOffers \/ RelayDropsStale
  BY <1>4, <1>9 DEF RelayApplies, RelayPolls, RelayOffers, RelayDropsStale, world
<1>10. CASE UNCHANGED clipVars
  BY <1>4, <1>10 DEF clipVars
<1> QED
  BY <1>2, <1>3, <1>4, <1>5, <1>6, <1>7, <1>8, <1>9, <1>10 DEF ClipNext, Users, Restarts

\* No paste is put together from the chunks of two copies unless the driver's
\* link was dialled again: the test of the revision in clipboard_take_loop is
\* enough as long as a revision names one paste.
THEOREM PastesWhole == ClipSpec => []PasteWhole
<1>1. ClipInit => WholeInv
  <2> SUFFICES ASSUME ClipInit PROVE WholeInv
    OBVIOUS
  <2>1. Nothing \in Nat
    BY DEF Nothing
  <2>2. handle \in [Handles -> Handling(Nat)]
    BY <2>1 DEF ClipInit, FreshHandle, Handling
  <2>3. take \in Taking(Nat) /\ relay \in Relaying(Nat)
    BY TakeIdleType DEF ClipInit, FirstRelay, Relaying
  <2>4. Holds(Nat)
    BY <2>1, <2>2, <2>3 DEF ClipInit, Holds, NoOffer
  <2>5. SlotOrder
    BY RisingEmpty DEF ClipInit, SlotOrder, Machines
  <2>6. ChunkInHand
    BY DEF ClipInit, ChunkInHand, FirstTake
  <2> QED
    BY <2>4, <2>5, <2>6 DEF WholeInv
<1>2. ClipboardTypeOK /\ WholeInv /\ [ClipNext]_clipVars => WholeInv'
  <2> SUFFICES ASSUME ClipboardTypeOK, WholeInv, [ClipNext]_clipVars,
                      clipFaults'["relink"] = 0
               PROVE  Holds(Nat)' /\ SlotOrder' /\ ChunkInHand'
    BY DEF WholeInv
  <2>1. Counts
    BY DEF ClipboardTypeOK
  <2>2. ~Relink /\ Holds(Nat) /\ SlotOrder /\ ChunkInHand
    BY <2>1, FaultsOnlyCount DEF WholeInv
  <2>3. TakeRest => take'.clip \in Nat
    <3> SUFFICES ASSUME TakeRest PROVE take'.clip \in Nat
      OBVIOUS
    <3>1. take \in Taking(Nat) /\ take.at = "rest" /\ take.clip \in Nat
      BY <2>2 DEF Holds, TakeRest, Taking
    <3>2. CASE SamePaste
      <4>1. take.clip = slot.clip
        BY <2>2, <3>1, <3>2 DEF ChunkInHand, SamePaste
      <4>2. take' = [[take EXCEPT !.at = "whole"] EXCEPT !.clip = take.clip]
        BY <3>2, <4>1 DEF TakeRest
      <4> QED
        BY <3>1, <4>2 DEF Taking
    <3>3. CASE ~SamePaste
      <4>1. take' = TakeIdle(take.lastSeen) /\ take.lastSeen \in Nat
        BY <3>1, <3>3 DEF TakeRest, Taking
      <4> QED
        BY <4>1, TakeIdleType DEF Taking
    <3> QED
      BY <3>2, <3>3
  <2>4. Holds(Nat)'
    BY <2>1, <2>2, <2>3, HoldsStep
  <2> QED
    BY <2>1, <2>2, <2>4, OrderStep, ChunkStep
<1>3. WholeInv => PasteWhole
  BY DEF WholeInv, PasteWhole, Holds, Mixed
<1> QED
  BY <1>1, <1>2, <1>3, ClipboardTypes, PTL DEF ClipSpec

-----------------------------------------------------------------------------
\* Banning an epoch yields sets of epochs again.
LEMMA BanType ==
    ASSUME NEW b \in Bans, NEW k \in Kinds, NEW e \in Epochs
    PROVE  Ban(b, k, e) \in Bans
BY DEF Ban, Bans, Kinds

\* Both sets together are epochs.
LEMMA AllType == ASSUME NEW b \in Bans PROVE All(b) \in SUBSET Epochs
BY DEF All, Bans, Kinds

LEMMA NoBansType == NoBans \in Bans /\ All(NoBans) = {}
BY DEF NoBans, Bans, All, Kinds

\* The state of the daemon keeps its type.
THEOREM EndedTyped == Spec => []TypeOK
<1>1. Init => TypeOK
  BY NoBansType DEF Init, TypeOK, Steps
<1>2. TypeOK /\ [Next]_vars => TypeOK'
  <2> SUFFICES ASSUME TypeOK, [Next]_vars PROVE TypeOK'
    OBVIOUS
  <2> USE DEF TypeOK, Steps
  <2>1. CASE \E x \in Savers, k \in Kinds, e \in Epochs : EndLink(x, k, e)
    BY <2>1, BanType DEF EndLink
  <2>2. CASE \E x \in Savers, e \in Epochs \cup {None} : TeardownAgain(x, e)
    BY <2>2 DEF TeardownAgain
  <2>3. CASE \E x \in Savers : Read(x)
    BY <2>3 DEF Read
  <2>4. CASE \E x \in Savers : Truncate(x)
    BY <2>4, NoBansType DEF Truncate
  <2>5. CASE \E x \in Savers : Write(x)
    <3> PICK x \in Savers : Write(x)
      BY <2>5
    <3>1. finished' \in SUBSET Epochs
      BY AllType DEF Write
    <3> QED
      BY <3>1, NoBansType DEF Write, Return
  <2>6. CASE \E x \in Savers : WriteFails(x)
    BY <2>6, NoBansType DEF WriteFails, Return
  <2>7. CASE Crash
    BY <2>7, NoBansType DEF Crash
  <2>8. CASE UNCHANGED vars
    BY <2>8 DEF vars
  <2> QED
    BY <2>1, <2>2, <2>3, <2>4, <2>5, <2>6, <2>7, <2>8 DEF Next
<1> QED
  BY <1>1, <1>2, PTL DEF Spec

\* The strengthened invariant: besides, a save under way will write every
\* finished ban, and without a clash there is one such save at most.
THEOREM EndedInductive == Spec => []IInv
<1>1. Init => IInv
  BY NoBansType DEF Init, IInv, TypeOK, Steps, SaveHolds, FinishedBansHold
<1>2. IInv /\ TypeOK' /\ [Next]_vars => IInv'
  <2> SUFFICES ASSUME IInv, TypeOK', [Next]_vars PROVE SaveHolds' /\ FinishedBansHold'
    BY DEF IInv
  <2> USE DEF IInv, TypeOK
  <2>1. ASSUME NEW x \in Savers, NEW k \in Kinds, NEW e \in Epochs, EndLink(x, k, e)
        PROVE  SaveHolds' /\ FinishedBansHold'
    <3>1. finished' \subseteq finished /\ finished' \subseteq All(bans')
      BY <2>1 DEF EndLink
    <3>2. \A y \in Savers : step'[y] \in {"read", "truncated"}
            => step[y] \in {"read", "truncated"} /\ step'[y] = step[y] /\ y # x
      BY <2>1 DEF EndLink, Steps
    <3>3. (\A y \in Savers : step'[y] # "truncated")
            => (\A y \in Savers : step[y] # "truncated")
      BY <2>1 DEF EndLink, Steps
    <3>4. snap' = snap /\ file' = file /\ clash' = clash
      BY <2>1 DEF EndLink
    <3> QED
      BY <3>1, <3>2, <3>3, <3>4 DEF SaveHolds, FinishedBansHold
  <2>2. ASSUME NEW x \in Savers, NEW e \in Epochs \cup {None}, TeardownAgain(x, e)
        PROVE  SaveHolds' /\ FinishedBansHold'
    <3>1. \A y \in Savers : (step'[y] = step[y]) \/ (y = x /\ step[y] = "idle"
                                                     /\ step'[y] = "banned")
      BY <2>2 DEF TeardownAgain, Steps
    <3>2. UNCHANGED <<bans, file, snap, finished, clash>>
      BY <2>2 DEF TeardownAgain
    <3> QED
      BY <3>1, <3>2 DEF SaveHolds, FinishedBansHold
  <2>3. ASSUME NEW x \in Savers, Read(x)
        PROVE  SaveHolds' /\ FinishedBansHold'
    <3>1. \A y \in Savers : y # x => step'[y] = step[y] /\ snap'[y] = snap[y]
      BY <2>3 DEF Read
    <3>2. step[x] = "banned" /\ step'[x] = "read" /\ snap'[x] = bans
      BY <2>3 DEF Read
    <3>3. ~clash' => ~clash /\ \A y \in Savers : step[y] \notin {"read", "truncated"}
      BY <2>3 DEF Read
    <3>4. UNCHANGED <<bans, file, finished>>
      BY <2>3 DEF Read
    <3> QED
      BY <3>1, <3>2, <3>3, <3>4 DEF SaveHolds, FinishedBansHold
  <2>4. ASSUME NEW x \in Savers, Truncate(x)
        PROVE  SaveHolds' /\ FinishedBansHold'
    <3>1. \A y \in Savers : y # x => step'[y] = step[y]
      BY <2>4 DEF Truncate
    <3>2. step[x] = "read" /\ step'[x] = "truncated"
      BY <2>4 DEF Truncate
    <3>3. UNCHANGED <<bans, snap, finished, clash>>
      BY <2>4 DEF Truncate
    <3> QED
      BY <3>1, <3>2, <3>3 DEF SaveHolds, FinishedBansHold
  <2>5. ASSUME NEW x \in Savers, Write(x)
        PROVE  SaveHolds' /\ FinishedBansHold'
    <3>1. \A y \in Savers : y # x => step'[y] = step[y] /\ snap'[y] = snap[y]
      BY <2>5 DEF Write, Return
    <3>2. step[x] = "truncated" /\ step'[x] = "idle"
      BY <2>5 DEF Write, Return
    <3>3. file' = snap[x] /\ bans' = bans /\ clash' = clash
      BY <2>5 DEF Write
    <3>4. finished' \subseteq finished \cup (All(snap[x]) \cap All(bans))
      BY <2>5 DEF Write
    <3>5. SUFFICES ASSUME ~clash PROVE SaveHolds' /\ FinishedBansHold'
      BY <3>3 DEF SaveHolds, FinishedBansHold
    <3>6. finished \subseteq All(snap[x]) /\ finished \subseteq All(bans)
      BY <3>2, <3>5 DEF SaveHolds, FinishedBansHold
    <3>7. \A y \in Savers : step'[y] \notin {"read", "truncated"}
      BY <3>1, <3>2, <3>5 DEF SaveHolds
    <3> QED
      BY <3>3, <3>4, <3>6, <3>7 DEF SaveHolds, FinishedBansHold
  <2>6. ASSUME NEW x \in Savers, WriteFails(x)
        PROVE  SaveHolds' /\ FinishedBansHold'
    <3>1. \A y \in Savers : y # x => step'[y] = step[y] /\ snap'[y] = snap[y]
      BY <2>6 DEF WriteFails, Return
    <3>2. step'[x] = "idle" /\ (~clash' => ~clash /\ step[x] = "read")
      BY <2>6 DEF WriteFails, Return
    <3>3. UNCHANGED <<bans, file, finished>>
      BY <2>6 DEF WriteFails
    <3> QED
      BY <3>1, <3>2, <3>3 DEF SaveHolds, FinishedBansHold
  <2>7. CASE Crash
    <3>1. \A y \in Savers : step'[y] = "idle"
      BY <2>7 DEF Crash
    <3>2. ~clash' => ~clash /\ \A y \in Savers : step[y] # "truncated"
      BY <2>7 DEF Crash
    <3>3. bans' = file /\ file' = file /\ finished' = finished
      BY <2>7 DEF Crash
    <3> QED
      BY <3>1, <3>2, <3>3 DEF SaveHolds, FinishedBansHold
  <2>8. CASE UNCHANGED vars
    BY <2>8 DEF vars, SaveHolds, FinishedBansHold
  <2> QED
    BY <2>1, <2>2, <2>3, <2>4, <2>5, <2>6, <2>7, <2>8 DEF Next
<1> QED
  BY <1>1, <1>2, EndedTyped, PTL DEF Spec

\* A finished hang-up stays in force across restarts, whatever the number of
\* hang-ups, as long as no two saves overlap and none breaks off half done.
THEOREM FinishedBansAlwaysHold == Spec => []FinishedBansHold
<1>1. IInv => FinishedBansHold
  BY DEF IInv
<1> QED
  BY <1>1, EndedInductive, PTL

\* A save under way has read every ban that is in force for good, so that whatever it
\* writes forgets none of them.
THEOREM SavesAlwaysHold == Spec => []SaveHolds
<1>1. IInv => SaveHolds
  BY DEF IInv
<1> QED
  BY <1>1, EndedInductive, PTL
=============================================================================
