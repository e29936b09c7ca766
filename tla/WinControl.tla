----------------------------- MODULE WinControl -----------------------------
(***************************************************************************)
(* The privileged controller of the Windows service: a task without a      *)
(* desktop of its own (run_windows_service_controller and                  *)
(* run_windows_service_capture_stream in kvm-daemon service.rs) drives one *)
(* peer through helper processes, one on each desktop of the console       *)
(* session, that run the hooks (ServiceCaptureProxy and run_capture_helper *)
(* in windows_helper.rs).  Each helper has one loopback connection:        *)
(* events come up it, SetExclusive commands go down.  A reader thread per  *)
(* helper moves the events to the bounded channel of the controller.       *)
(* The hooks of a helper are its flag here; WinCapture has their detail.   *)
(***************************************************************************)
EXTENDS Naturals, Sequences, FiniteSets, SequencesExt

CONSTANTS
    Desks,      \* the desktops in the order their helpers were accepted
    MaxBridges, \* bound: bridges over a run
    ChanRoom,   \* bound: events in the channel (256 in the code)
    PipeRoom,   \* bound: frames in a connection's buffers
    MaxCmds     \* bound: commands on their way down a connection

Bridges == 1 .. MaxBridges
Helpers == Bridges \X Range(Desks)

VARIABLES
    ctl,        \* where the controller is
    why,        \* how the stream ended
    bridge,     \* the number of the bridge in hand
    chan,       \* the channel: "event" and "closed" (HelpersClosed)
    rd,         \* each helper's reader thread
    proc,       \* the helper processes
    excl,       \* the flag of each helper's hooks
    cmds,       \* the commands on their way to it
    pipe,       \* the frames on their way up
    link,       \* its connection: "open" or "cut"
    desk,       \* the desktop that receives the input
    console,    \* the console session
    home        \* the session of each bridge

wcController == <<ctl, why, bridge, home>>
wcHelpers == <<proc, excl, cmds, pipe, link>>
winControlVars == <<wcController, chan, rd, wcHelpers, desk, console>>

WinControlInit ==
    /\ ctl = "create" /\ why = "none" /\ bridge = 0 /\ chan = <<>>
    /\ rd = [h \in Helpers |-> "none"] /\ proc = [h \in Helpers |-> "none"]
    /\ excl = [h \in Helpers |-> FALSE] /\ cmds = [h \in Helpers |-> <<>>]
    /\ pipe = [h \in Helpers |-> 0] /\ link = [h \in Helpers |-> "open"]
    /\ desk \in Range(Desks) /\ console = 1 /\ home = [b \in Bridges |-> 0]

Mine == {bridge} \X Range(Desks)
Running(h) == proc[h] = "run"

\* The helper whose hooks the input passes.
AtHand(h) == Running(h) /\ h[2] = desk /\ home[h[1]] = console
----------------------------------------------------------------------------
(* The controller.                                                         *)

CtlGoes(from, to) == ctl = from /\ ctl' = to

\* ServiceCaptureProxy::create: the helpers are started, connect and have their readers.
CreatesBridge ==
    /\ bridge < MaxBridges /\ CtlGoes("create", "dial")
    /\ bridge' = bridge + 1 /\ home' = [home EXCEPT ![bridge'] = console] /\ chan' = <<>>
    /\ proc' = [h \in Helpers |-> IF h[1] = bridge' THEN "run" ELSE proc[h]]
    /\ rd' = [h \in Helpers |-> IF h[1] = bridge' THEN "reads" ELSE rd[h]]
    /\ UNCHANGED <<why, excl, cmds, pipe, link, desk, console>>

Dials ==
    /\ CtlGoes("dial", "sync") \/ CtlGoes("dial", "wait") \/ CtlGoes("wait", "dial")
    /\ UNCHANGED <<why, bridge, home, chan, rd, wcHelpers, desk, console>>

\* set_exclusive stops at the first connection that refuses.  A write to a
\* helper that has gone may still be taken.
Written(n, b) ==
    [h \in Helpers |->
        IF \E i \in 1 .. n : h = <<bridge, Desks[i]>> THEN
           IF Running(h) THEN Append(cmds[h], b) ELSE cmds[h]
        ELSE cmds[h]]

Writes(b, n) ==
    /\ \A h \in Mine : Len(cmds[h]) < MaxCmds
    /\ n < Len(Desks) => ~Running(<<bridge, Desks[n + 1]>>)
    /\ cmds' = Written(n, b)

\* The state goes to the peer, then the helpers are told to suppress.
Engages ==
    /\ \/ CtlGoes("sync", "stream") /\ Writes(TRUE, Len(Desks)) /\ UNCHANGED why
       \/ \E n \in 0 .. Len(Desks) - 1 :
             CtlGoes("sync", "drop") /\ Writes(TRUE, n) /\ why' = "failed"
       \/ CtlGoes("sync", "drop") /\ why' = "failed" /\ UNCHANGED cmds
    /\ UNCHANGED <<bridge, home, chan, rd, proc, excl, pipe, link, desk, console>>

\* The stream's biased select: an event first; a send that fails ends it.
Receives ==
    /\ ctl = "stream" /\ chan # <<>> /\ chan' = Tail(chan)
    /\ IF Head(chan) = "closed" THEN CtlGoes("stream", "after") /\ why' = "closed"
       ELSE \/ ctl = "stream" /\ UNCHANGED <<ctl, why>>
            \/ CtlGoes("stream", "after") /\ why' = "lost"
    /\ UNCHANGED <<bridge, home, rd, wcHelpers, desk, console>>

\* The other branches; a Ping that stalls skips the farewell.
StreamEnds ==
    /\ chan = <<>>
    /\ \/ CtlGoes("stream", "after") /\ why' \in {"lost", "revoked", "stopped"}
       \/ CtlGoes("stream", "lift") /\ why' = "lost"
    /\ UNCHANGED <<bridge, home, chan, rd, wcHelpers, desk, console>>

ChecksSession ==
    /\ CtlGoes("stream", "after") /\ chan = <<>> /\ console # home[bridge]
    /\ why' = "session"
    /\ UNCHANGED <<bridge, home, chan, rd, wcHelpers, desk, console>>

\* ReleaseAll is written without a bound.
Farewell ==
    /\ CtlGoes("after", "lift")
    /\ UNCHANGED <<why, bridge, home, chan, rd, wcHelpers, desk, console>>

Lifts ==
    /\ CtlGoes("lift", IF why = "lost" THEN "wait" ELSE "drop")
    /\ \E n \in 0 .. Len(Desks) : Writes(FALSE, n)
    /\ UNCHANGED <<why, bridge, home, chan, rd, proc, excl, pipe, link, desk, console>>

StopsWaiting ==
    /\ CtlGoes("wait", "drop") /\ why' = "stopped"
    /\ UNCHANGED <<bridge, home, chan, rd, wcHelpers, desk, console>>

KeepsLinks(h) == link[h]

\* shutdown(Both) on every connection.
CutLinks(h) == IF h \in Mine THEN "cut" ELSE link[h]

\* Drop for ServiceCaptureProxy: the helpers are freed, the readers told to
\* stop, the connections shut down; then the readers are joined.
DropsProxy ==
    /\ CtlGoes("drop", "join")
    /\ \E n \in 0 .. Len(Desks) : Writes(FALSE, n)
    /\ link' = [h \in Helpers |-> CutLinks(h)]
    /\ UNCHANGED <<why, bridge, home, chan, rd, proc, excl, pipe, desk, console>>

Joins ==
    /\ CtlGoes("join", IF why \in {"closed", "session"} THEN "create" ELSE "over")
    /\ \A h \in Mine : rd[h] = "over"
    /\ chan' = <<>>
    /\ UNCHANGED <<why, bridge, home, rd, wcHelpers, desk, console>>
----------------------------------------------------------------------------
(* A reader thread: blocking_send waits for room in the channel.           *)

Rd(h, from, to) == rd[h] = from /\ rd' = [rd EXCEPT ![h] = to]

Reads(h) ==
    /\ pipe[h] > 0 /\ link[h] # "cut" /\ Rd(h, "reads", "sends") /\ pipe' = [pipe EXCEPT ![h] = @ - 1]
    /\ UNCHANGED <<wcController, chan, proc, excl, cmds, link, desk, console>>

ReadsEnd(h) ==
    /\ \/ link[h] = "cut"
       \/ pipe[h] = 0 /\ ~Running(h)
    /\ Rd(h, "reads", "closes")
    /\ UNCHANGED <<wcController, chan, wcHelpers, desk, console>>

\* A write that timed out may have left half a frame: the next length is wrong.
ReadFails(h) ==
    /\ link[h] = "open" /\ Running(h)
    /\ Rd(h, "reads", "closes")
    /\ UNCHANGED <<wcController, chan, wcHelpers, desk, console>>

Sends(h) ==
    /\ Len(chan) < ChanRoom
    /\ \/ Rd(h, "sends", "reads") /\ chan' = Append(chan, "event")
       \/ Rd(h, "closes", "over") /\ chan' = Append(chan, "closed")
    /\ UNCHANGED <<wcController, wcHelpers, desk, console>>
----------------------------------------------------------------------------
(* A helper.                                                               *)

\* Its command reader.
Obeys(h) ==
    /\ Running(h) /\ cmds[h] # <<>>
    /\ cmds' = [cmds EXCEPT ![h] = Tail(@)] /\ excl' = [excl EXCEPT ![h] = Head(cmds[h])]
    /\ UNCHANGED <<wcController, chan, rd, proc, pipe, link, desk, console>>

\* A connection that is shut down with frames unread loses what is on its way.
LosesCommands(h) ==
    /\ link[h] = "cut" /\ cmds[h] # <<>>
    /\ cmds' = [cmds EXCEPT ![h] = <<>>]
    /\ UNCHANGED <<wcController, chan, rd, proc, excl, pipe, link, desk, console>>

StallKeeps(h) == UNCHANGED excl
StallFrees(h) == excl' = [excl EXCEPT ![h] = FALSE]

\* The user goes on, on the desktop this helper is attached to: the event is
\* written within five seconds, or the hooks are freed, or the helper ends.
Forwards(h) ==
    /\ AtHand(h)
    /\ CASE link[h] = "cut" -> /\ proc' = [proc EXCEPT ![h] = "over"] /\ excl' = [excl EXCEPT ![h] = FALSE]
                                  /\ cmds' = [cmds EXCEPT ![h] = <<>>] /\ UNCHANGED <<pipe, link>>
         [] link[h] # "cut" /\ pipe[h] < PipeRoom ->
              pipe' = [pipe EXCEPT ![h] = @ + 1] /\ UNCHANGED <<proc, excl, cmds, link>>
         [] link[h] # "cut" /\ pipe[h] = PipeRoom ->
              StallFrees(h) /\ UNCHANGED <<proc, cmds, pipe, link>>
    /\ UNCHANGED <<wcController, chan, rd, desk, console>>

\* The hooks or the process fail.
HelperEnds(h) ==
    /\ Running(h) /\ proc' = [proc EXCEPT ![h] = "over"]
    /\ excl' = [excl EXCEPT ![h] = FALSE] /\ cmds' = [cmds EXCEPT ![h] = <<>>]
    /\ UNCHANGED <<wcController, chan, rd, pipe, link, desk, console>>

\* The lock screen, a consent prompt, or another session at the console.
SwitchesDesk ==
    /\ desk' \in Range(Desks) \ {desk}
    /\ UNCHANGED <<wcController, chan, rd, wcHelpers, console>>

SwitchesSession ==
    /\ console = 1 /\ console' = 2
    /\ UNCHANGED <<wcController, chan, rd, wcHelpers, desk>>

WcController ==
    \/ CreatesBridge \/ Dials \/ Engages \/ Receives \/ StreamEnds \/ ChecksSession \/ Farewell
    \/ Lifts \/ StopsWaiting \/ DropsProxy \/ Joins

WinControlNext ==
    \/ WcController
    \/ \E h \in Helpers : \/ Reads(h) \/ ReadsEnd(h) \/ ReadFails(h) \/ Sends(h) \/ Obeys(h)
                          \/ LosesCommands(h) \/ Forwards(h) \/ HelperEnds(h)
    \/ SwitchesDesk \/ SwitchesSession

\* The threads of the bridge run, the controller finishes what does not wait
\* for the peer, and the user goes on; nothing is asked of the peer.
WinControlFair ==
    /\ WF_winControlVars(Lifts \/ DropsProxy \/ Joins \/ CreatesBridge \/ ChecksSession \/ Receives)
    /\ \A h \in Helpers :
          /\ WF_winControlVars(Reads(h)) /\ WF_winControlVars(ReadsEnd(h)) /\ WF_winControlVars(Sends(h))
          /\ WF_winControlVars(Obeys(h)) /\ SF_winControlVars(Forwards(h))

WinControlSpec == WinControlInit /\ [][WinControlNext]_winControlVars /\ WinControlFair

\* The same where a connection to a silent peer times out in the end.
WinControlTimedSpec == WinControlSpec /\ WF_winControlVars(Farewell)
----------------------------------------------------------------------------
(* Properties.                                                             *)

Swallows == \E h \in Helpers : AtHand(h) /\ excl[h]

\* run_capture_helper, set_exclusive, Drop for ServiceCaptureProxy: when the
\* controller no longer drives, for whatever reason and wherever it waits,
\* even for a peer that never takes its ReleaseAll or for a reader thread
\* that never ends, a user who goes on has the local input back for good.
WcLocalReturns == <>[](ctl # "stream") => <>[]~Swallows

\* windows_helper.rs:561, "a console switch, fast-user switch, or RDP handoff
\* must tear down this bridge so the outer controller loop can create helpers
\* for the new session": a stream that ends for it leads to a new bridge.
NewSessionServed == (ctl = "after" /\ why = "session") ~> ctl \in {"create", "dial"}
=============================================================================
