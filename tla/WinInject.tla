------------------------------ MODULE WinInject ------------------------------
(***************************************************************************)
(* Injection by the Windows service: a receiver session hands every event  *)
(* to helper processes, one on each desktop of the console session         *)
(* (ServiceInputProxy, fan_out and run_helper in kvm-daemon                *)
(* windows_helper.rs, the Windows Injector in kvm-platform inject.rs).     *)
(* All helpers get all messages; the one whose desktop owns the input      *)
(* injects, the others let go of what they hold.  Questions (the entry     *)
(* warp, the display's size, the receipts) are answered on the same        *)
(* connection, and each answer is awaited for a bounded time.              *)
(***************************************************************************)
EXTENDS Naturals, Sequences, FiniteSets, SequencesExt

CONSTANTS
    InjDesks,   \* the desktops with a helper, in the order of the streams
    Owners,     \* the desktops that may own the input
    InjKeys,    \* keys and buttons
    MaxFailed,  \* CONSECUTIVE_FAILURE_BOUND (50 in the code)
    MaxInbox,   \* bound: messages on their way to a helper
    MaxAsked    \* bound: questions over a run

VARIABLES
    receiver,   \* the session: "on", "closing", "over"
    asking,     \* the question in hand: its kind, its number, the streams left, the answers
    questions,      \* questions so far
    bridged,    \* the helpers fan_out still writes to
    alive,      \* the helper processes
    failed,     \* helpers that ended other than by the end of their stream
    inbox,      \* messages on their way to each helper
    outbox,     \* answers on their way back
    injected,       \* pressed_keys and pressed_buttons of each injector
    down,       \* what Windows holds down on each desktop
    fails,      \* CONSECUTIVE_FAILURES of each helper
    owner,      \* the desktop that owns the input
    lastWarp    \* the verdict of the last warp, and whether a helper placed the cursor for it

InjHelpers == Range(InjDesks)
service == <<receiver, asking, questions, bridged, lastWarp>>
helpers == <<alive, failed, inbox, outbox, injected, down, fails>>
winInjectVars == <<service, helpers, owner>>

NoQuestion == [kind |-> "none", n |-> 0, left |-> <<>>, got |-> {}]

WinInjectInit ==
    /\ receiver = "on" /\ asking = NoQuestion /\ questions = 0
    /\ bridged = InjHelpers /\ alive = InjHelpers /\ failed = {}
    /\ inbox = [d \in InjHelpers |-> <<>>] /\ outbox = [d \in InjHelpers |-> <<>>]
    /\ injected = [d \in InjHelpers |-> {}] /\ down = [d \in InjHelpers |-> {}]
    /\ fails = [d \in InjHelpers |-> 0] /\ owner \in Owners
    /\ lastWarp = [verdict |-> "none", placed |-> FALSE]
----------------------------------------------------------------------------
(* The service.                                                            *)

Message(kind, k, n) == [kind |-> kind, k |-> k, n |-> n]
Plain(kind) == Message(kind, "none", 0)

\* fan_out: a stream whose write fails is dropped; with none left the caller
\* gets an error.  A write to a helper that has just gone may be taken.
FanOut(messages) ==
    /\ \A d \in bridged \cap alive : Len(inbox[d]) < MaxInbox
    /\ \E dead \in SUBSET (bridged \ alive) : bridged' = bridged \ dead
    /\ inbox' = [d \in InjHelpers |-> IF d \in bridged \cap alive THEN inbox[d] \o messages ELSE inbox[d]]

Idle == receiver = "on" /\ asking = NoQuestion
NobodyLeft == IF bridged' = {} THEN receiver' = "closing" ELSE UNCHANGED receiver

\* send.
SendsInput ==
    /\ Idle
    /\ \E k \in InjKeys, kind \in {"press", "release"} : FanOut(<<Message(kind, k, 0)>>)
    /\ NobodyLeft
    /\ UNCHANGED <<asking, questions, alive, failed, outbox, injected, down, fails, owner, lastWarp>>

\* sync_state: everything is let go, then what is held is pressed.
SyncsState ==
    /\ Idle
    /\ \E k \in InjKeys : FanOut(<<Plain("all"), Message("press", k, 0)>>)
    /\ NobodyLeft
    /\ UNCHANGED <<asking, questions, alive, failed, outbox, injected, down, fails, owner, lastWarp>>

\* warp_cursor, primary_dims, take_receipts.
AsksHelpers(kind) ==
    /\ Idle /\ questions < MaxAsked /\ questions' = questions + 1
    /\ FanOut(<<Message(kind, "none", questions')>>)
    /\ IF bridged' = {} THEN receiver' = "closing" /\ UNCHANGED asking
       ELSE /\ asking' = [kind |-> kind, n |-> questions', got |-> {},
                          left |-> SelectSeq(InjDesks, LAMBDA d : d \in bridged')]
            /\ UNCHANGED receiver
    /\ UNCHANGED <<alive, failed, outbox, injected, down, fails, owner, lastWarp>>

\* collect_warp_acks, collect_receipts: one frame of each stream, of the
\* right kind or not, or nothing within the bound.
Collects ==
    /\ asking.left # <<>>
    /\ LET d == Head(asking.left) IN
       \/ /\ outbox[d] # <<>> /\ outbox' = [outbox EXCEPT ![d] = Tail(@)]
          /\ asking' = [asking EXCEPT !.left = Tail(@),
                           !.got = IF Head(outbox[d]).kind = asking.kind THEN @ \cup {Head(outbox[d])} ELSE @]
       \/ outbox[d] = <<>> /\ asking' = [asking EXCEPT !.left = Tail(@)] /\ UNCHANGED outbox
    /\ UNCHANGED <<receiver, questions, bridged, alive, failed, inbox, injected, down, fails, owner, lastWarp>>

Collected ==
    /\ asking # NoQuestion /\ asking.left = <<>> /\ asking' = NoQuestion
    /\ IF asking.kind # "warp" THEN UNCHANGED lastWarp
       ELSE lastWarp' = [verdict |-> IF \E r \in asking.got : r.k = "placed" THEN "placed"
                                     ELSE IF asking.got = {} THEN "silent" ELSE "refused",
                         placed |-> \E r \in asking.got : r.k = "placed" /\ r.n = asking.n]
    /\ UNCHANGED <<receiver, questions, bridged, helpers, owner>>

\* The session ends: the peer leaves, or the console session is another one.
SessionStops ==
    /\ Idle /\ FanOut(<<Plain("all")>>) /\ receiver' = "closing"
    /\ UNCHANGED <<asking, questions, alive, failed, outbox, injected, down, fails, owner, lastWarp>>

\* The streams are closed; the helpers read what is left, then the end.
ClosesStreams ==
    /\ receiver = "closing" /\ receiver' = "over"
    /\ UNCHANGED <<asking, questions, bridged, lastWarp, helpers, owner>>

\* The service dies, or its session returns early.
ServiceDies ==
    /\ receiver = "on" /\ receiver' = "over" /\ asking' = NoQuestion
    /\ UNCHANGED <<questions, bridged, lastWarp, helpers, owner>>
----------------------------------------------------------------------------
(* A helper.  SendInput works on the desktop that owns the input, but for  *)
(* a failure of its own; on another desktop it fails.                      *)

Takes(d) == inbox' = [inbox EXCEPT ![d] = Tail(@)]
Fails(d) == alive' = alive \ {d} /\ failed' = failed \cup {d} /\ injected' = [injected EXCEPT ![d] = {}]

\* release_all of the injector; its error ends the helper.
LetsGoOf(d) ==
    \/ /\ injected[d] = {} \/ d = owner
       /\ injected' = [injected EXCEPT ![d] = {}] /\ down' = [down EXCEPT ![d] = @ \ injected[d]]
       /\ UNCHANGED <<alive, failed>>
    \/ injected[d] # {} /\ Fails(d) /\ UNCHANGED down

Injects(d, m) ==
    \/ /\ injected' = [injected EXCEPT ![d] = IF m.kind = "press" THEN @ \cup {m.k} ELSE @ \ {m.k}]
       /\ down' = [down EXCEPT ![d] = IF m.kind = "press" THEN @ \cup {m.k} ELSE @ \ {m.k}]
       /\ fails' = [fails EXCEPT ![d] = 0]
       /\ UNCHANGED <<alive, failed>>
    \/ /\ fails' = [fails EXCEPT ![d] = @ + 1] /\ UNCHANGED down
       /\ IF fails'[d] >= MaxFailed THEN Fails(d) ELSE UNCHANGED <<alive, failed, injected>>

TakesInput(d) ==
    /\ d \in alive /\ inbox[d] # <<>> /\ Takes(d)
    /\ LET m == Head(inbox[d]) IN
       /\ m.kind \in {"press", "release"}
       /\ IF d = owner THEN Injects(d, m) ELSE LetsGoOf(d) /\ UNCHANGED fails
    /\ UNCHANGED <<service, outbox, owner>>

TakesReleaseAll(d) ==
    /\ d \in alive /\ inbox[d] # <<>> /\ Takes(d)
    /\ Head(inbox[d]).kind = "all" /\ LetsGoOf(d)
    /\ UNCHANGED <<service, outbox, fails, owner>>

\* The receipts reset the count of failures; a warp on the desktop that owns
\* the input is read back and may not have placed the cursor.
AnswersAsked(d) ==
    /\ d \in alive /\ inbox[d] # <<>> /\ Takes(d)
    /\ LET m == Head(inbox[d]) IN
       /\ m.kind \in {"warp", "dims", "receipts"}
       /\ \E outcome \in IF m.kind = "warp" /\ d = owner THEN {"placed", "not"} ELSE {"not"} :
             outbox' = [outbox EXCEPT ![d] = Append(@, [m EXCEPT !.k = outcome])]
       /\ fails' = IF m.kind = "receipts" THEN [fails EXCEPT ![d] = 0] ELSE fails
    /\ UNCHANGED <<service, alive, failed, injected, down, owner>>

LeavesAsIs(d) == UNCHANGED <<down, failed>>
LetsGoAtEnd(d) ==
    \/ (injected[d] = {} \/ d = owner) /\ down' = [down EXCEPT ![d] = @ \ injected[d]] /\ UNCHANGED failed
    \/ injected[d] # {} /\ failed' = failed \cup {d} /\ UNCHANGED down

\* The end of the stream.
EndOfStream(d) ==
    /\ d \in alive /\ receiver = "over" /\ inbox[d] = <<>>
    /\ alive' = alive \ {d} /\ LetsGoAtEnd(d) /\ injected' = [injected EXCEPT ![d] = {}]
    /\ UNCHANGED <<service, inbox, outbox, fails, owner>>

HelperDies(d) ==
    /\ d \in alive /\ Fails(d)
    /\ UNCHANGED <<service, inbox, outbox, down, fails, owner>>

OwnerChanges ==
    /\ owner' \in Owners \ {owner}
    /\ UNCHANGED <<service, helpers>>

InjHelper(d) == TakesInput(d) \/ TakesReleaseAll(d) \/ AnswersAsked(d) \/ EndOfStream(d)

WinInjectNext ==
    \/ SendsInput \/ SyncsState \/ (\E kind \in {"warp", "dims", "receipts"} : AsksHelpers(kind))
    \/ Collects \/ Collected \/ SessionStops \/ ClosesStreams \/ ServiceDies
    \/ \E d \in InjHelpers : InjHelper(d) \/ HelperDies(d)
    \/ OwnerChanges

\* The helpers and the service run, and the peer goes on typing.
WinInjectFair ==
    /\ \A d \in InjHelpers : WF_winInjectVars(InjHelper(d))
    /\ WF_winInjectVars(Collects) /\ WF_winInjectVars(Collected) /\ WF_winInjectVars(ClosesStreams)
    /\ SF_winInjectVars(SendsInput)

WinInjectSpec == WinInjectInit /\ [][WinInjectNext]_winInjectVars /\ WinInjectFair
----------------------------------------------------------------------------
(* Properties.                                                             *)

\* run_helper, release_all: when the session is over, a helper that did not
\* fail leaves nothing held down, whatever the desktops did meanwhile.
KeysLift ==
    \A d \in InjHelpers : (receiver = "over") ~> (down[d] = {} \/ d \in failed)

\* windows_helper.rs:620: a helper whose injector is dead ends "so the
\* session tears down and re-dials instead of sitting half-dead forever".
HalfDeadEnds ==
    \A d \in InjHelpers : (d \in failed /\ receiver = "on") ~> (receiver # "on" \/ owner # d)

\* collect_warp_acks (windows_helper.rs:302): "Fails only when helpers
\* explicitly report the cursor was NOT placed, so the receiver logs a
\* truthful warning ... instead of a fake success".
WarpTruth == lastWarp.verdict = "placed" => lastWarp.placed
=============================================================================
