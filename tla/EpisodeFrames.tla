--------------------------- MODULE EpisodeFrames ---------------------------
(***************************************************************************)
(* The frames of one episode stream, as write_frame and read_frame handle  *)
(* them.  A frame is a header, which holds the size, and a payload; the    *)
(* stream delivers what was written in order, and accepts no more than a   *)
(* window ahead of the reader.  The driver gives up a write that takes too *)
(* long and drives on; the receiver reads inside a select, where any other *)
(* event drops the read with what it had already taken from the stream.    *)
(*                                                                         *)
(* The stream is a log of the parts written so far.  Part 1 of a frame is  *)
(* its header; a header cut in two ends the session at once, like a        *)
(* payload taken for a header, and is not modelled apart.                  *)
(***************************************************************************)
EXTENDS Naturals, Sequences

CONSTANTS
    Sizes,      \* lengths of frames, in parts
    MaxFrames,  \* bound of the frames a driver writes
    Window,     \* parts the stream takes ahead of the reader
    FrameFaults \* "stall": writes time out; "cancel": reads are dropped

ASSUME FrameAssumption ==
    /\ Sizes \subseteq Nat \ {0, 1}
    /\ MaxFrames \in Nat
    /\ Window \in Nat
    /\ FrameFaults \subseteq {"stall", "cancel"}

VARIABLES
    frame, size,\* the frame last begun, and its length
    at,         \* parts of it written; all of them when it is given up
    log,        \* every part written to the stream
    pos,        \* parts the receiver has taken
    from,       \* where the frame it is reading began, as far as it knows
    reading,    \* "on", or "ended" by InvalidData
    delivered,  \* frames handed to the session's loop
    dropped,    \* history: frames given up before their header went out
    cut         \* history: frames given up half-way

writer == <<frame, size, at, log, dropped, cut>>
reader == <<pos, from, reading, delivered>>
framesVars == <<writer, reader>>

Part == [frame : Nat, part : Nat, size : Nat]

FramesInit ==
    /\ frame = 0 /\ size = 0 /\ at = 0
    /\ log = <<>> /\ pos = 0 /\ from = 0
    /\ reading = "on"
    /\ delivered = <<>> /\ dropped = {} /\ cut = {}
----------------------------------------------------------------------------
(* write_frame, inside the timeouts of send_input, send_release,           *)
(* send_motion_best_effort and send_state_sync.                            *)

Start(n) ==
    /\ at = size
    /\ frame < MaxFrames
    /\ frame' = frame + 1
    /\ size' = n
    /\ at' = 0
    /\ UNCHANGED <<log, dropped, cut, reader>>

Write ==
    /\ at < size
    /\ Len(log) < pos + Window
    /\ at' = at + 1
    /\ log' = Append(log, [frame |-> frame, part |-> at + 1, size |-> size])
    /\ UNCHANGED <<frame, size, dropped, cut, reader>>

\* The stream takes nothing for too long: the write is dropped where it stands,
\* a strike is counted, and the drive continues.
Stall ==
    /\ "stall" \in FrameFaults
    /\ at < size
    /\ Len(log) = pos + Window
    /\ at' = size
    /\ dropped' = IF at = 0 THEN dropped \cup {frame} ELSE dropped
    /\ cut' = IF at = 0 THEN cut ELSE cut \cup {frame}
    /\ UNCHANGED <<frame, size, log, reader>>
----------------------------------------------------------------------------
(* read_frame, inside the select of the session's loop.                    *)

\* Mutant: as many bytes as the header says make a frame.
ParsesAnything(a, b) == b - a = log[a + 1].size

\* The parts taken from a to b are one frame, from its header to its end.
\* Anything else of that length is no JSON: it has a header's zero byte in it.
Parses(a, b) ==
    /\ b - a = log[a + 1].size
    /\ \A k \in 1..(b - a) :
          log[a + k] = [log[a + 1] EXCEPT !.part = k]

\* Mutant: what cannot be a header is passed over until one comes.
TakeResyncs ==
    /\ reading = "on"
    /\ pos < Len(log)
    /\ pos' = pos + 1
    /\ IF pos = from /\ log[pos'].part # 1
       THEN from' = pos' /\ UNCHANGED <<reading, delivered>>
       ELSE IF pos' - from < log[from + 1].size
       THEN UNCHANGED <<from, reading, delivered>>
       ELSE IF Parses(from, pos')
       THEN /\ delivered' = Append(delivered, log[pos'].frame)
            /\ from' = pos'
            /\ UNCHANGED reading
       ELSE reading' = "ended" /\ UNCHANGED <<from, delivered>>
    /\ UNCHANGED writer

\* One more part.  A payload read as a header announces more than any frame may
\* hold, and as many bytes as the header said must parse, or the session ends.
TakeFrame ==
    /\ reading = "on"
    /\ pos < Len(log)
    /\ pos' = pos + 1
    /\ \/ /\ pos = from /\ log[pos'].part # 1
          /\ reading' = "ended"
          /\ UNCHANGED <<from, delivered>>
       \/ /\ pos = from => log[pos'].part = 1
          /\ pos' - from < log[from + 1].size
          /\ UNCHANGED <<from, reading, delivered>>
       \/ /\ pos = from => log[pos'].part = 1
          /\ pos' - from = log[from + 1].size
          /\ IF Parses(from, pos')
             THEN /\ delivered' = Append(delivered, log[pos'].frame)
                  /\ from' = pos'
                  /\ UNCHANGED reading
             ELSE reading' = "ended" /\ UNCHANGED <<from, delivered>>
    /\ UNCHANGED writer

\* Mutant: the next part goes, too.
CancelSkips ==
    /\ reading = "on"
    /\ from < pos
    /\ from' = pos + 1
    /\ UNCHANGED <<writer, pos, reading, delivered>>

\* Another arm of the select is ready while the read waits for more: motion, the
\* lane, a tick, the clipboard.  What the read had taken is gone.
Cancel ==
    /\ "cancel" \in FrameFaults
    /\ reading = "on"
    /\ from < pos
    /\ from' = pos
    /\ UNCHANGED <<writer, pos, reading, delivered>>
----------------------------------------------------------------------------
FramesNext == Write \/ Stall \/ TakeFrame \/ Cancel \/ \E n \in Sizes : Start(n)

FramesSpec == FramesInit /\ [][FramesNext]_framesVars
----------------------------------------------------------------------------
\* The frames that have been written to their end.
Written == {i \in 1..frame : i \notin dropped \cup cut /\ (i = frame => at = size)}

FramesTypeOK ==
    /\ frame \in Nat /\ size \in Sizes \cup {0} /\ at \in 0..size
    /\ log \in Seq(Part) /\ Len(log) <= pos + Window
    /\ pos \in 0..Len(log) /\ from \in 0..pos
    /\ reading \in {"on", "ended"}
    /\ delivered \in Seq(Nat)
    /\ dropped \subseteq Nat /\ cut \subseteq Nat

\* Whatever is cut off and thrown away on either side, the session's loop only
\* gets frames that were written whole, each once and in the order they were
\* written: halves never add up to a key that nobody pressed.
DeliveredInOrder ==
    /\ \A m \in DOMAIN delivered : delivered[m] \in Written
    /\ \A m, n \in DOMAIN delivered : m < n => delivered[m] < delivered[n]

\* As long as no write was given up half-way, a session that goes on has skipped
\* nothing: a read that was dropped with a header in its hands costs the session,
\* never a key that is lost without a word.
NothingSkipped ==
    cut = {} =>
        \A m \in DOMAIN delivered : \A i \in Written :
            i < delivered[m] => \E n \in DOMAIN delivered : delivered[n] = i

\* "A timed-out write DROPS the event and counts a strike instead of ending the
\* episode (a dead peer then costs one click, never every future click)": once
\* the reader has taken all there is, every frame written to its end is there.
StallCostsOneClick ==
    pos = Len(log) \/ reading = "ended" =>
        \A i \in Written : \E n \in DOMAIN delivered : delivered[n] = i
============================================================================
