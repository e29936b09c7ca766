---------------------------- MODULE Wire_proofs -----------------------------
(***************************************************************************)
(* What crosses a link.  The first part is about EpisodeFrames, for        *)
(* any frame sizes, window and faults: the log keeps the order of the      *)
(* frames, and a reader resumes at a boundary.  The second is about        *)
(* MotionDelivery, for any epochs, sessions, bounds and faults: what a     *)
(* session applies was numbered by the driver of its own episode, and is   *)
(* applied once.                                                           *)
(***************************************************************************)
EXTENDS EpisodeFrames, MotionDelivery, SequenceTheorems, TLAPS

LEMMA LogPart ==
    ASSUME FramesTypeOK, NEW k \in 1..Len(log)
    PROVE  /\ log[k] \in Part
           /\ log[k].frame \in Nat /\ log[k].part \in Nat /\ log[k].size \in Nat
<1>1. log \in Seq(Part)
  BY DEF FramesTypeOK
<1>2. log[k] \in Part
  BY <1>1, ElementOfSeq
<1> QED
  BY <1>2 DEF Part

\* A step of the writer appends one part.
LEMMA WriteAppends ==
    ASSUME FramesTypeOK, Write
    PROVE  /\ log' \in Seq(Part) /\ Len(log') = Len(log) + 1
           /\ \A k \in 1..Len(log) : log'[k] = log[k]
           /\ log'[Len(log) + 1] = [frame |-> frame, part |-> at + 1, size |-> size]
<1> DEFINE new == [frame |-> frame, part |-> at + 1, size |-> size]
<1>1. new \in Part /\ log \in Seq(Part) /\ log' = Append(log, new)
  BY FrameAssumption DEF FramesTypeOK, Part, Write
<1> QED
  BY <1>1, AppendProperties

\* The part just taken is the last of a frame, which is handed to the session's loop.
Hands ==
    /\ Parses(from, pos')
    /\ delivered' = Append(delivered, log[pos'].frame)
    /\ from' = pos'

\* Every part the reader takes comes from the log, and what the reader
\* hands over is appended to what it has handed over.
LEMMA TakesAPart ==
    ASSUME FramesTypeOK, TakeFrame
    PROVE  /\ pos' \in 1..Len(log) /\ pos' = pos + 1
           /\ UNCHANGED <<frame, size, at, log, dropped, cut>>
           /\ reading = "on" /\ reading' \in {"on", "ended"}
           /\ UNCHANGED <<from, delivered>> \/ Hands
<1>1. pos' \in 1..Len(log) /\ pos' = pos + 1
  BY DEF TakeFrame, FramesTypeOK
<1>2. /\ UNCHANGED <<frame, size, at, log, dropped, cut>>
      /\ reading = "on" /\ reading' \in {"on", "ended"}
  BY DEF TakeFrame, writer
<1>3. UNCHANGED <<from, delivered>> \/ Hands
  BY Zenon DEF TakeFrame, Hands
<1> QED
  BY <1>1, <1>2, <1>3

LEMMA HandsAppends ==
    ASSUME FramesTypeOK, pos' \in 1..Len(log), Hands
    PROVE  /\ delivered' \in Seq(Nat) /\ Len(delivered') = Len(delivered) + 1
           /\ \A m \in 1..Len(delivered) : delivered'[m] = delivered[m]
           /\ delivered'[Len(delivered) + 1] = log[pos'].frame
<1>1. log[pos'].frame \in Nat /\ delivered \in Seq(Nat)
  BY LogPart DEF FramesTypeOK
<1> QED
  BY <1>1, AppendProperties DEF Hands

\* The state of a stream keeps its type.
THEOREM FramesTyped == FramesSpec => []FramesTypeOK
<1>1. FramesInit => FramesTypeOK
  BY FrameAssumption DEF FramesInit, FramesTypeOK
<1>2. FramesTypeOK /\ [FramesNext]_framesVars => FramesTypeOK'
  <2> SUFFICES ASSUME FramesTypeOK, [FramesNext]_framesVars PROVE FramesTypeOK'
    OBVIOUS
  <2> USE FrameAssumption DEF FramesTypeOK
  <2>1. ASSUME NEW n \in Sizes, Start(n) PROVE FramesTypeOK'
    BY <2>1 DEF Start, reader
  <2>2. CASE Write
    <3>1. log' \in Seq(Part) /\ Len(log') = Len(log) + 1 /\ Len(log) \in Nat
      BY <2>2, WriteAppends, LenProperties
    <3>2. /\ at' \in 0..size /\ Len(log) < pos + Window
          /\ UNCHANGED <<frame, size, dropped, cut, pos, from, reading, delivered>>
      BY <2>2 DEF Write, reader
    <3> QED
      BY <3>1, <3>2
  <2>3. CASE Stall
    BY <2>3 DEF Stall, reader
  <2>4. CASE TakeFrame
    <3>1. /\ pos' \in 1..Len(log) /\ UNCHANGED <<frame, size, at, log, dropped, cut>>
          /\ pos' = pos + 1 /\ reading' \in {"on", "ended"}
      BY <2>4, TakesAPart
    <3>2. from' \in 0..pos' /\ delivered' \in Seq(Nat)
      BY <2>4, <3>1, TakesAPart, HandsAppends DEF Hands
    <3> QED
      BY <3>1, <3>2
  <2>5. CASE Cancel
    BY <2>5 DEF Cancel, writer
  <2>6. CASE UNCHANGED framesVars
    BY <2>6 DEF framesVars, writer, reader
  <2> QED
    BY <2>1, <2>2, <2>3, <2>4, <2>5, <2>6 DEF FramesNext
<1> QED
  BY <1>1, <1>2, PTL DEF FramesSpec

-----------------------------------------------------------------------------
(* What the log says about the frames.                                     *)

\* Only a frame is written.  The last part of a frame is there only when the frame is, no part of a dropped
\* frame is, and the parts of the frame being written end where the writer stands.
LogTells ==
    /\ at # size => frame # 0
    /\ frame \in dropped \cup cut => at = size
    /\ \A i \in dropped \cup cut : i <= frame
    /\ \A k \in 1..Len(log) :
        /\ log[k].frame \in 1..frame
        /\ log[k].part \in 1..log[k].size
        /\ log[k].frame \notin dropped
        /\ log[k].part = log[k].size => log[k].frame \notin cut
        /\ log[k].frame = frame => log[k].size = size /\ log[k].part <= at

\* Frames follow one another, and nothing of a frame follows its last part.
LogOrdered ==
    \A j, k \in 1..Len(log) :
        j < k => /\ log[j].frame <= log[k].frame
                 /\ log[j].part = log[j].size => log[j].frame < log[k].frame

\* What has been delivered is behind everything the reader has still to take.
Behind ==
    \A m \in DOMAIN delivered : \A k \in (from + 1)..Len(log) :
        delivered[m] < log[k].frame

OrderInv == LogTells /\ LogOrdered /\ Behind /\ DeliveredInOrder

LEMMA StartOrder ==
    ASSUME FramesTypeOK, OrderInv, NEW n \in Sizes, Start(n)
    PROVE  OrderInv'
<1> USE FrameAssumption DEF FramesTypeOK, Start, reader
<1>1. LogTells'
  BY LogPart DEF OrderInv, LogTells
<1>2. LogOrdered' /\ Behind'
  BY DEF OrderInv, LogOrdered, Behind
<1>3. Written \subseteq Written'
  BY DEF Written, OrderInv, LogTells
<1>4. DeliveredInOrder'
  BY <1>3 DEF OrderInv, DeliveredInOrder
<1> QED
  BY <1>1, <1>2, <1>4 DEF OrderInv

LEMMA StallOrder ==
    ASSUME FramesTypeOK, OrderInv, Stall
    PROVE  OrderInv'
<1> USE FrameAssumption DEF FramesTypeOK, Stall, reader
<1>1. LogTells'
  <2>1. /\ frame' = frame /\ size' = size /\ log' = log /\ at' = size
        /\ dropped' \cup cut' = (dropped \cup cut) \cup {frame}
        /\ dropped' = dropped \/ (at = 0 /\ dropped' = dropped \cup {frame})
    OBVIOUS
  <2>2. \A k \in 1..Len(log) : log[k].frame = frame => log[k].part \in Nat /\ log[k].part <= at
    BY LogPart DEF OrderInv, LogTells
  <2>3. \A k \in 1..Len(log) : log[k].frame = frame => at # 0 /\ log[k].part # log[k].size
    BY LogPart, <2>2 DEF OrderInv, LogTells
  <2>4. \A i \in dropped' \cup cut' : i <= frame'
    BY <2>1 DEF OrderInv, LogTells
  <2>5. \A k \in 1..Len(log') :
           /\ log'[k].frame \in 1..frame' /\ log'[k].part \in 1..log'[k].size
           /\ log'[k].frame \notin dropped'
           /\ log'[k].part = log'[k].size => log'[k].frame \notin cut'
           /\ log'[k].frame = frame' => log'[k].size = size' /\ log'[k].part <= at'
    BY LogPart, <2>1, <2>2, <2>3 DEF OrderInv, LogTells
  <2> QED
    BY <2>1, <2>4, <2>5 DEF OrderInv, LogTells
<1>2. LogOrdered' /\ Behind'
  BY DEF OrderInv, LogOrdered, Behind
<1>3. Written \subseteq Written'
  BY DEF Written
<1>4. DeliveredInOrder'
  BY <1>3 DEF OrderInv, DeliveredInOrder
<1> QED
  BY <1>1, <1>2, <1>4 DEF OrderInv

LEMMA WriteOrder ==
    ASSUME FramesTypeOK, OrderInv, Write
    PROVE  OrderInv'
<1> DEFINE new == [frame |-> frame, part |-> at + 1, size |-> size]
<1>1. /\ Len(log') = Len(log) + 1
      /\ \A k \in 1..Len(log) : log'[k] = log[k]
      /\ log'[Len(log) + 1] = new
  BY WriteAppends
<1>0. log \in Seq(Part) /\ Len(log) \in Nat /\ frame \in Nat
  BY LenProperties DEF FramesTypeOK
<1>2. \A k \in 1..Len(log) :
        /\ log[k].frame \in 1..frame
        /\ log[k].part = log[k].size => log[k].frame < frame
  BY LogPart DEF OrderInv, LogTells, FramesTypeOK, Write
<1>3. Written \subseteq Written'
  BY DEF Written, FramesTypeOK, Write
<1>4. \A m \in DOMAIN delivered : delivered[m] < frame
  BY DEF OrderInv, DeliveredInOrder, Written, FramesTypeOK, Write
<1>5. frame \in 1..frame
  BY FrameAssumption DEF OrderInv, LogTells, FramesTypeOK, Write
<1>6. LogTells'
  BY <1>1, <1>5, LogPart, FrameAssumption DEF OrderInv, LogTells, FramesTypeOK, Write, reader
<1>7. LogOrdered'
  <2> SUFFICES ASSUME NEW j \in 1..Len(log'), NEW k \in 1..Len(log'), j < k
               PROVE  /\ log'[j].frame <= log'[k].frame
                      /\ log'[j].part = log'[j].size => log'[j].frame < log'[k].frame
    BY DEF LogOrdered
  <2>0. Len(log) \in Nat /\ k \in 1..(Len(log) + 1) /\ j \in 1..Len(log)
    BY <1>0, <1>1
  <2>1. log'[j] = log[j]
    BY <1>1, <2>0
  <2>2. CASE k \in 1..Len(log)
    <3>1. log'[k] = log[k]
      BY <1>1, <2>2
    <3> QED
      BY <2>0, <2>1, <2>2, <3>1 DEF OrderInv, LogOrdered
  <2>3. CASE k = Len(log) + 1
    <3>1. log'[k].frame = frame
      BY <1>1, <2>3
    <3>2. log[j].frame \in 1..frame /\ (log[j].part = log[j].size => log[j].frame < frame)
      BY <1>2, <2>0
    <3> QED
      BY <1>0, <2>1, <3>1, <3>2
  <2> QED
    BY <2>0, <2>2, <2>3
<1>8. Behind'
  BY <1>1, <1>4 DEF OrderInv, Behind, FramesTypeOK, Write, reader
<1>9. DeliveredInOrder'
  BY <1>3 DEF OrderInv, DeliveredInOrder, Write, reader
<1> QED
  BY <1>6, <1>7, <1>8, <1>9 DEF OrderInv

\* What the reader hands over ends with the last part of a frame.
LEMMA HandsLast ==
    ASSUME FramesTypeOK, pos' \in 1..Len(log), pos' = pos + 1, Hands
    PROVE  log[pos'].part = log[pos'].size
<1>1. from + 1 \in 1..Len(log) /\ pos' - from \in Nat \ {0} /\ from + (pos' - from) = pos'
  BY DEF FramesTypeOK
<1>2. log[pos'] = [log[from + 1] EXCEPT !.part = pos' - from]
  BY <1>1 DEF Hands, Parses
<1>3. log[from + 1] \in Part
  BY <1>1, LogPart
<1> QED
  BY <1>2, <1>3 DEF Hands, Parses, Part

\* What the reader hands over is a frame written to its end, and it comes after
\* all it has handed over before.
LEMMA HandsWritten ==
    ASSUME FramesTypeOK, OrderInv, pos' \in 1..Len(log), pos' = pos + 1, Hands
    PROVE  /\ log[pos'].frame \in Written
           /\ \A m \in DOMAIN delivered : delivered[m] < log[pos'].frame
<1>1. from + 1 \in 1..Len(log) /\ pos' - from >= 1 /\ pos' - from \in Nat
  BY DEF FramesTypeOK
<1>2. log[pos'].part = log[pos'].size
  BY HandsLast
<1>4. log[pos'].frame \in Written
  BY <1>2, LogPart DEF OrderInv, LogTells, Written, FramesTypeOK
<1>5. \A m \in DOMAIN delivered : delivered[m] < log[pos'].frame
  BY <1>1 DEF OrderInv, Behind, FramesTypeOK
<1> QED
  BY <1>4, <1>5

LEMMA TakeOrder ==
    ASSUME FramesTypeOK, OrderInv, TakeFrame
    PROVE  OrderInv'
<1>1. /\ pos' \in 1..Len(log) /\ pos' = pos + 1
      /\ UNCHANGED <<frame, size, at, log, dropped, cut>>
  BY TakesAPart
<1>2. LogTells' /\ LogOrdered' /\ Written' = Written
  BY <1>1 DEF OrderInv, LogTells, LogOrdered, Written
<1>3. CASE UNCHANGED <<from, delivered>>
  BY <1>1, <1>2, <1>3 DEF OrderInv, Behind, DeliveredInOrder
<1>4. CASE Hands
  <2>1. /\ Len(delivered') = Len(delivered) + 1 /\ delivered' \in Seq(Nat)
        /\ \A m \in 1..Len(delivered) : delivered'[m] = delivered[m]
        /\ delivered'[Len(delivered) + 1] = log[pos'].frame
    BY <1>1, <1>4, HandsAppends
  <2>2. /\ log[pos'].frame \in Written
        /\ \A m \in DOMAIN delivered : delivered[m] < log[pos'].frame
    BY <1>1, <1>4, HandsWritten
  <2>3. delivered \in Seq(Nat) /\ DOMAIN delivered = 1..Len(delivered)
        /\ Len(delivered) \in Nat /\ DOMAIN delivered' = 1..(Len(delivered) + 1)
    BY <2>1 DEF FramesTypeOK
  <2>4. DeliveredInOrder'
    <3>1. \A m \in DOMAIN delivered' : delivered'[m] \in Written'
      BY <1>2, <2>1, <2>2, <2>3 DEF OrderInv, DeliveredInOrder
    <3>2. \A m, n \in DOMAIN delivered' : m < n => delivered'[m] < delivered'[n]
      <4> SUFFICES ASSUME NEW m \in DOMAIN delivered', NEW n \in DOMAIN delivered', m < n
                   PROVE  delivered'[m] < delivered'[n]
        OBVIOUS
      <4>1. m \in 1..Len(delivered) /\ delivered'[m] = delivered[m]
        BY <2>1, <2>3
      <4>2. CASE n \in 1..Len(delivered)
        BY <2>1, <2>3, <4>1, <4>2 DEF OrderInv, DeliveredInOrder
      <4>3. CASE n = Len(delivered) + 1
        BY <2>1, <2>2, <2>3, <4>1, <4>3
      <4> QED
        BY <2>3, <4>2, <4>3
    <3> QED
      BY <3>1, <3>2 DEF DeliveredInOrder
  <2>5. Behind'
    <3> SUFFICES ASSUME NEW m \in DOMAIN delivered', NEW k \in (pos' + 1)..Len(log)
                 PROVE  delivered'[m] < log[k].frame
      BY <1>1, <1>4 DEF Behind, Hands
    <3>1. k \in 1..Len(log) /\ pos' < k /\ k \in (from + 1)..Len(log)
      BY <1>1 DEF FramesTypeOK
    <3>2. log[pos'].frame < log[k].frame
      BY <1>1, <1>4, <3>1, HandsLast DEF OrderInv, LogOrdered
    <3>3. CASE m \in 1..Len(delivered)
      BY <2>1, <2>3, <3>1, <3>3 DEF OrderInv, Behind
    <3>4. CASE m = Len(delivered) + 1
      BY <2>1, <3>2, <3>4
    <3> QED
      BY <2>3, <3>3, <3>4
  <2> QED
    BY <1>2, <2>4, <2>5 DEF OrderInv
<1> QED
  BY <1>3, <1>4, TakesAPart

\* A read that is dropped leaves less of the log to what comes after.
LEMMA CancelOrder ==
    ASSUME FramesTypeOK, OrderInv, Cancel
    PROVE  OrderInv'
<1>1. /\ UNCHANGED <<frame, size, at, log, dropped, cut, delivered>>
      /\ from' \in Nat /\ from < from'
  BY DEF Cancel, writer, FramesTypeOK
<1>2. LogTells' /\ LogOrdered' /\ DeliveredInOrder'
  BY <1>1 DEF OrderInv, LogTells, LogOrdered, DeliveredInOrder, Written
<1>3. Behind'
  BY <1>1 DEF OrderInv, Behind, FramesTypeOK
<1> QED
  BY <1>2, <1>3 DEF OrderInv

LEMMA OrderStep == FramesTypeOK /\ OrderInv /\ [FramesNext]_framesVars => OrderInv'
<1> SUFFICES ASSUME FramesTypeOK, OrderInv, [FramesNext]_framesVars PROVE OrderInv'
  OBVIOUS
<1>1. CASE UNCHANGED framesVars
  BY <1>1 DEF framesVars, writer, reader, OrderInv, LogTells, LogOrdered, Behind,
              DeliveredInOrder, Written
<1> QED
  BY <1>1, StartOrder, WriteOrder, StallOrder, TakeOrder, CancelOrder DEF FramesNext

\* DeliveredInOrder: only whole frames reach the session's loop (read_frame,
\* write_frame), each once, in the order they were written.
THEOREM OrderHolds == FramesSpec => []DeliveredInOrder
<1>1. FramesInit => OrderInv
  BY DEF FramesInit, OrderInv, LogTells, LogOrdered, Behind, DeliveredInOrder
<1>2. FramesTypeOK /\ OrderInv /\ [FramesNext]_framesVars => OrderInv'
  BY OrderStep
<1>3. OrderInv => DeliveredInOrder
  BY DEF OrderInv
<1> QED
  BY <1>1, <1>2, <1>3, FramesTyped, PTL DEF FramesSpec
-----------------------------------------------------------------------------
(* Nothing is skipped while every frame that is begun is written to its end. *)

\* Every part follows the one before it, and the writer stands at the last.
Continues ==
    cut = {} =>
        /\ \A k \in 1..Len(log) :
            /\ log[k].size >= 2
            /\ k = 1 => log[k].part = 1
            /\ k = Len(log) /\ log[k].part # log[k].size => at = log[k].part /\ at < size
        /\ \A j, k \in 1..Len(log) :
            k = j + 1 => IF log[j].part = log[j].size
                         THEN log[k].part = 1
                         ELSE log[k] = [log[j] EXCEPT !.part = log[j].part + 1]
        /\ at # 0 /\ at # size =>
            /\ Len(log) # 0
            /\ log[Len(log)] = [frame |-> frame, part |-> at, size |-> size]

Boundary(p) == p # 0 => log[p].part = log[p].size

\* The parts read so far are the beginning of a frame, unless a read was dropped.
Reads ==
    cut = {} /\ reading = "on" =>
        /\ Boundary(from) => \A k \in 1..(pos - from) :
                                /\ log[from + k] = [log[from + 1] EXCEPT !.part = k]
                                /\ k < log[from + 1].size
        /\ Boundary(from) \/ pos = from

\* A frame that is written is delivered or ahead of the reader.
Ahead ==
    cut = {} /\ reading = "on" /\ Boundary(from) =>
        \A i \in Written : \/ \E n \in DOMAIN delivered : delivered[n] = i
                           \/ \E k \in (from + 1)..Len(log) : log[k].frame = i

SkipInv == Continues /\ Reads /\ Ahead /\ NothingSkipped

LEMMA StartSkip ==
    ASSUME FramesTypeOK, OrderInv, SkipInv, NEW n \in Sizes, Start(n)
    PROVE  SkipInv'
<1>1. /\ UNCHANGED <<log, dropped, cut, pos, from, reading, delivered>>
      /\ at = size /\ at' = 0
      /\ frame \in Nat /\ frame' = frame + 1 /\ size' \in Nat \ {0}
  BY FrameAssumption DEF Start, reader, FramesTypeOK
<1>2. Continues'
  BY <1>1, LogPart DEF SkipInv, Continues
<1>3. Written' = Written
  BY <1>1 DEF Written, OrderInv, LogTells
<1>4. Reads' /\ Ahead' /\ NothingSkipped'
  BY <1>1, <1>3 DEF SkipInv, Reads, Ahead, NothingSkipped, Boundary
<1> QED
  BY <1>2, <1>4 DEF SkipInv

LEMMA StallSkip ==
    ASSUME FramesTypeOK, OrderInv, SkipInv, Stall
    PROVE  SkipInv'
<1>1. SUFFICES ASSUME cut' = {} PROVE SkipInv'
  BY DEF SkipInv, Continues, Reads, Ahead, NothingSkipped
<1>2. /\ UNCHANGED <<frame, size, log, cut, pos, from, reading, delivered>>
      /\ cut = {} /\ at = 0 /\ at' = size /\ size # 0 /\ dropped' = dropped \cup {frame}
  BY <1>1 DEF Stall, reader, FramesTypeOK
<1>3. Continues'
  BY <1>2, LogPart DEF SkipInv, Continues, OrderInv, LogTells
<1>4. Written' = Written
  BY <1>2 DEF Written
<1>5. Reads' /\ Ahead' /\ NothingSkipped'
  BY <1>2, <1>4 DEF SkipInv, Reads, Ahead, NothingSkipped, Boundary
<1> QED
  BY <1>3, <1>5 DEF SkipInv

LEMMA WriteSkip ==
    ASSUME FramesTypeOK, OrderInv, SkipInv, Write
    PROVE  SkipInv'
<1>0. SUFFICES ASSUME cut = {} PROVE SkipInv'
  BY DEF SkipInv, Continues, Reads, Ahead, NothingSkipped, Write
<1>1. /\ log' \in Seq(Part) /\ Len(log') = Len(log) + 1 /\ Len(log) \in Nat
      /\ \A k \in 1..Len(log) : log'[k] = log[k]
      /\ log'[Len(log) + 1] = [frame |-> frame, part |-> at + 1, size |-> size]
  BY WriteAppends, LenProperties DEF FramesTypeOK
<1>2. /\ UNCHANGED <<frame, size, dropped, cut, pos, from, reading, delivered>>
      /\ at \in Nat /\ size \in Nat /\ at < size /\ at' = at + 1 /\ size >= 2
      /\ pos \in 0..Len(log) /\ from \in 0..pos
  BY FrameAssumption DEF Write, reader, FramesTypeOK
<1>3. Continues'
  <2>1. \A k \in 1..Len(log') :
            /\ log'[k].size >= 2
            /\ k = 1 => log'[k].part = 1
            /\ k = Len(log') /\ log'[k].part # log'[k].size
                 => at' = log'[k].part /\ at' < size'
    <3> SUFFICES ASSUME NEW k \in 1..Len(log')
                 PROVE  /\ log'[k].size >= 2
                        /\ k = 1 => log'[k].part = 1
                        /\ k = Len(log') /\ log'[k].part # log'[k].size
                             => at' = log'[k].part /\ at' < size'
      OBVIOUS
    <3>1. CASE k \in 1..Len(log)
      BY <1>0, <1>1, <3>1 DEF SkipInv, Continues
    <3>2. CASE k = Len(log) + 1
      <4>1. k = 1 => at = 0
        BY <1>0, <1>2, <3>2, <1>1 DEF SkipInv, Continues
      <4> QED
        BY <1>1, <1>2, <3>2, <4>1
    <3> QED
      BY <1>1, <3>1, <3>2
  <2>2. ASSUME NEW j \in 1..Len(log'), NEW k \in 1..Len(log'), k = j + 1
        PROVE  IF log'[j].part = log'[j].size
               THEN log'[k].part = 1
               ELSE log'[k] = [log'[j] EXCEPT !.part = log'[j].part + 1]
    <3>1. j \in 1..Len(log) /\ log'[j] = log[j]
      BY <1>1, <2>2
    <3>2. CASE k \in 1..Len(log)
      BY <1>0, <1>1, <2>2, <3>1, <3>2 DEF SkipInv, Continues
    <3>3. CASE k = Len(log) + 1
      <4>1. j = Len(log) /\ log[j] \in Part /\ log[j].part \in Nat
        BY <1>1, <2>2, <3>1, <3>3, LogPart
      <4>2. CASE log[j].part = log[j].size
        <5>1. at = 0
          BY <1>0, <1>2, <4>1, <4>2 DEF SkipInv, Continues
        <5> QED
          BY <1>1, <1>2, <3>1, <3>3, <4>2, <5>1
      <4>3. CASE log[j].part # log[j].size
        <5>1. at = log[j].part /\ log[j].part # 0
          BY <1>0, <1>2, <3>1, <4>1, <4>3 DEF SkipInv, Continues, OrderInv, LogTells
        <5>2. log[j] = [frame |-> frame, part |-> at, size |-> size]
          BY <1>0, <1>2, <4>1, <5>1 DEF SkipInv, Continues
        <5> QED
          BY <1>1, <1>2, <3>1, <3>3, <4>3, <5>2
      <4> QED
        BY <4>2, <4>3
    <3> QED
      BY <1>1, <3>2, <3>3
  <2>3. at' # 0 /\ at' # size' =>
            /\ Len(log') # 0
            /\ log'[Len(log')] = [frame |-> frame', part |-> at', size |-> size']
    BY <1>1, <1>2
  <2> QED
    BY <2>1, <2>2, <2>3 DEF Continues
<1>4. Boundary(from)' = Boundary(from)
  BY <1>1, <1>2 DEF Boundary
<1>5. Reads'
  <2>1. \A k \in 1..(pos - from) : log'[from + k] = log[from + k] /\ log'[from + 1] = log[from + 1]
    <3> SUFFICES ASSUME NEW k \in 1..(pos - from)
                 PROVE  log'[from + k] = log[from + k] /\ log'[from + 1] = log[from + 1]
      OBVIOUS
    <3>1. from + k \in 1..Len(log) /\ from + 1 \in 1..Len(log)
      BY <1>1, <1>2
    <3> QED
      BY <1>1, <3>1
  <2> QED
    BY <1>2, <1>4, <2>1 DEF SkipInv, Reads
<1>6. \A i \in Written' : i \in Written \/ i = frame
  BY <1>2 DEF Written
<1>7. Ahead'
  <2> SUFFICES ASSUME reading = "on", Boundary(from), NEW i \in Written'
               PROVE  \/ \E n \in DOMAIN delivered : delivered[n] = i
                      \/ \E k \in (from + 1)..Len(log') : log'[k].frame = i
    BY <1>2, <1>4 DEF Ahead
  <2>1. CASE i \in Written
    BY <1>0, <1>1, <1>2, <2>1 DEF SkipInv, Ahead
  <2>2. CASE i = frame
    BY <1>1, <1>2, <2>2
  <2> QED
    BY <1>6, <2>1, <2>2
<1>8. NothingSkipped'
  <2>1. \A m \in DOMAIN delivered : delivered[m] \in 1..(frame - 1)
    BY <1>2 DEF OrderInv, DeliveredInOrder, Written, FramesTypeOK
  <2> QED
    BY <1>0, <1>2, <1>6, <2>1 DEF SkipInv, NothingSkipped, FramesTypeOK
<1> QED
  BY <1>3, <1>5, <1>7, <1>8 DEF SkipInv

\* The reader hands over a frame only from its header on.
LEMMA HandsFromHeader ==
    ASSUME FramesTypeOK, SkipInv, TakeFrame, Hands, cut = {}
    PROVE  Boundary(from)
<1> SUFFICES ASSUME ~Boundary(from) PROVE FALSE
  OBVIOUS
<1>1. pos' \in 1..Len(log) /\ pos' = pos + 1 /\ reading = "on"
  BY TakesAPart
<1>2. pos = from
  BY <1>1 DEF SkipInv, Reads
<1>3. log[pos'].size >= 2
  BY <1>1 DEF SkipInv, Continues
<1>4. pos' - from = 1 /\ from + 1 = pos'
  BY <1>1, <1>2 DEF FramesTypeOK
<1> QED
  BY <1>3, <1>4 DEF Hands, Parses

\* What the reader hands over is all of what it has read since the header.
LEMMA HandsAll ==
    ASSUME FramesTypeOK, pos' \in 1..Len(log), pos' = pos + 1, Hands,
           NEW k \in (from + 1)..pos'
    PROVE  log[k].frame = log[pos'].frame
<1>1. /\ from + 1 \in 1..Len(log) /\ k - from \in 1..(pos' - from)
      /\ pos' - from \in 1..(pos' - from)
      /\ from + (k - from) = k /\ from + (pos' - from) = pos'
  BY DEF FramesTypeOK
<1>2. /\ log[k] = [log[from + 1] EXCEPT !.part = k - from]
      /\ log[pos'] = [log[from + 1] EXCEPT !.part = pos' - from]
  BY <1>1 DEF Hands, Parses
<1>3. log[from + 1] \in Part
  BY <1>1, LogPart
<1> QED
  BY <1>2, <1>3 DEF Part

LEMMA TakeSkip ==
    ASSUME FramesTypeOK, OrderInv, SkipInv, TakeFrame
    PROVE  SkipInv'
<1>0. SUFFICES ASSUME cut = {} PROVE SkipInv'
  BY DEF SkipInv, Continues, Reads, Ahead, NothingSkipped, TakeFrame, writer
<1>1. /\ pos' \in 1..Len(log) /\ pos' = pos + 1 /\ reading = "on"
      /\ UNCHANGED <<frame, size, at, log, dropped, cut>>
      /\ pos \in Nat /\ from \in 0..pos
  BY TakesAPart DEF FramesTypeOK
<1>2. Continues' /\ Written' = Written
  BY <1>1 DEF SkipInv, Continues, Written
<1>3. Boundary(from) => \A i \in Written :
                           \/ \E n \in DOMAIN delivered : delivered[n] = i
                           \/ \E k \in (from + 1)..Len(log) : log[k].frame = i
  BY <1>0, <1>1 DEF SkipInv, Ahead
<1>4. CASE UNCHANGED <<from, delivered>> /\ reading' = "ended"
  BY <1>1, <1>2, <1>4 DEF SkipInv, Reads, Ahead, NothingSkipped
<1>5. CASE /\ UNCHANGED <<from, delivered, reading>>
           /\ pos = from => log[pos'].part = 1
           /\ pos' - from < log[from + 1].size
  <2>1. Boundary(from)' = Boundary(from)
    BY <1>1, <1>5 DEF Boundary
  <2>2. Boundary(from)
    <3> SUFFICES ASSUME ~Boundary(from) PROVE FALSE
      OBVIOUS
    <3>1. pos = from /\ from # 0 /\ from \in 1..Len(log) /\ log[from].part # log[from].size
      BY <1>0, <1>1 DEF SkipInv, Reads, Boundary
    <3>2. log[pos'] = [log[from] EXCEPT !.part = log[from].part + 1]
      BY <1>0, <1>1, <3>1 DEF SkipInv, Continues
    <3>3. log[from] \in Part /\ log[from].part \in Nat \ {0}
      BY <3>1, LogPart DEF OrderInv, LogTells
    <3> QED
      BY <1>5, <3>1, <3>2, <3>3 DEF Part
  <2>3. \A k \in 1..(pos' - from) : /\ log[from + k] = [log[from + 1] EXCEPT !.part = k]
                                    /\ k < log[from + 1].size
    <3> SUFFICES ASSUME NEW k \in 1..(pos' - from)
                 PROVE  /\ log[from + k] = [log[from + 1] EXCEPT !.part = k]
                        /\ k < log[from + 1].size
      OBVIOUS
    <3>0. from + 1 \in 1..Len(log) /\ log[from + 1] \in Part /\ log[from + 1].size \in Nat
      BY <1>1, LogPart
    <3>1. k < log[from + 1].size
      BY <1>1, <1>5, <3>0
    <3>2. CASE k \in 1..(pos - from)
      BY <1>0, <1>1, <2>2, <3>1, <3>2 DEF SkipInv, Reads
    <3>3. CASE k = pos' - from /\ pos = from
      <4>1. from + k = from + 1 /\ k = 1
        BY <1>1, <3>3
      <4> QED
        BY <1>5, <1>1, <3>0, <3>1, <3>3, <4>1 DEF Part
    <3>4. CASE k = pos' - from /\ pos # from
      <4>1. pos - from \in 1..(pos - from) /\ from + (pos - from) = pos /\ pos \in 1..Len(log)
            /\ k = (pos - from) + 1 /\ from + k = pos'
        BY <1>1, <3>4
      <4>2. log[pos] = [log[from + 1] EXCEPT !.part = pos - from] /\ pos - from < log[from + 1].size
        BY <1>0, <1>1, <2>2, <4>1 DEF SkipInv, Reads
      <4>3. log[pos].part = pos - from /\ log[pos].size = log[from + 1].size
        BY <3>0, <4>2 DEF Part
      <4>4. log[pos'] = [log[pos] EXCEPT !.part = log[pos].part + 1]
        <5>1. log[pos].part # log[pos].size
          BY <3>0, <4>1, <4>2, <4>3
        <5>2. pos \in 1..Len(log) /\ pos' \in 1..Len(log) /\ pos' = pos + 1
          BY <1>1, <4>1
        <5> QED
          BY <1>0, <5>1, <5>2 DEF SkipInv, Continues
      <4>5. [log[pos] EXCEPT !.part = k] = [log[from + 1] EXCEPT !.part = k]
        BY <3>0, <4>2 DEF Part
      <4> QED
        BY <3>1, <4>1, <4>3, <4>4, <4>5
    <3> QED
      BY <1>1, <3>2, <3>3, <3>4
  <2> QED
    BY <1>1, <1>2, <1>3, <1>5, <2>1, <2>2, <2>3 DEF SkipInv, Reads, Ahead, NothingSkipped
<1>6. CASE Hands /\ reading' = reading
  <2>1. /\ delivered \in Seq(Nat) /\ Len(delivered) \in Nat
        /\ DOMAIN delivered = 1..Len(delivered)
        /\ DOMAIN delivered' = 1..(Len(delivered) + 1)
        /\ \A m \in 1..Len(delivered) : delivered'[m] = delivered[m]
        /\ delivered'[Len(delivered) + 1] = log[pos'].frame
    BY <1>1, <1>6, HandsAppends, LenProperties DEF FramesTypeOK
  <2>2. Boundary(from) /\ from' = pos'
    BY <1>0, <1>6, HandsFromHeader DEF Hands
  <2>3. \A k \in (from + 1)..pos' : log[k].frame = log[pos'].frame
    BY <1>1, <1>6, HandsAll
  <2>4. Reads'
    <3>1. log[pos'].part = log[pos'].size
      BY <1>1, <1>6, HandsLast
    <3> QED
      BY <1>1, <2>2, <3>1 DEF Reads, Boundary
  <2>5. \A i \in Written : \/ \E n \in DOMAIN delivered' : delivered'[n] = i
                           \/ \E k \in (pos' + 1)..Len(log) : log[k].frame = i
    <3> SUFFICES ASSUME NEW i \in Written
                 PROVE  \/ \E n \in DOMAIN delivered' : delivered'[n] = i
                        \/ \E k \in (pos' + 1)..Len(log) : log[k].frame = i
      OBVIOUS
    <3>1. CASE \E n \in DOMAIN delivered : delivered[n] = i
      BY <2>1, <3>1
    <3>2. ASSUME NEW k \in (from + 1)..Len(log), log[k].frame = i
          PROVE  \/ \E n \in DOMAIN delivered' : delivered'[n] = i
                 \/ \E q \in (pos' + 1)..Len(log) : log[q].frame = i
      <4>1. CASE k \in (from + 1)..pos'
        <5>1. Len(delivered) + 1 \in DOMAIN delivered' /\ delivered'[Len(delivered) + 1] = i
          BY <2>1, <2>3, <3>2, <4>1
        <5> QED
          BY <5>1
      <4>2. CASE k \in (pos' + 1)..Len(log)
        BY <3>2, <4>2
      <4> QED
        BY <1>1, <4>1, <4>2
    <3> QED
      BY <1>3, <2>2, <3>1, <3>2
  <2>6. Ahead'
    BY <1>1, <1>2, <2>2, <2>5 DEF Ahead
  <2>7. NothingSkipped'
    <3> SUFFICES ASSUME NEW m \in DOMAIN delivered', NEW i \in Written, i < delivered'[m]
                 PROVE  \E n \in DOMAIN delivered' : delivered'[n] = i
      BY <1>2 DEF NothingSkipped
    <3>1. CASE m \in 1..Len(delivered)
      BY <1>0, <2>1, <3>1 DEF SkipInv, NothingSkipped
    <3>2. CASE m = Len(delivered) + 1
      <4>1. i < log[pos'].frame /\ log[pos'].frame \in Nat /\ i \in Nat
        BY <1>1, <2>1, <3>2, LogPart DEF Written
      <4>2. \A k \in (pos' + 1)..Len(log) : log[pos'].frame <= log[k].frame /\ log[k].frame \in Nat
        BY <1>1, LogPart DEF OrderInv, LogOrdered
      <4> QED
        BY <2>5, <4>1, <4>2
    <3> QED
      BY <2>1, <3>1, <3>2
  <2> QED
    BY <1>2, <2>4, <2>6, <2>7 DEF SkipInv
<1> QED
  BY <1>4, <1>5, <1>6, Zenon DEF TakeFrame, Hands

\* A read that is dropped leaves the reader inside a frame, where it gets no further.
LEMMA CancelSkip ==
    ASSUME FramesTypeOK, OrderInv, SkipInv, Cancel
    PROVE  SkipInv'
<1>0. SUFFICES ASSUME cut = {} PROVE SkipInv'
  BY DEF SkipInv, Continues, Reads, Ahead, NothingSkipped, Cancel, writer
<1>1. /\ UNCHANGED <<frame, size, at, log, pos, dropped, cut, reading, delivered>>
      /\ reading = "on" /\ from' = pos /\ from < pos
      /\ pos \in 1..Len(log) /\ from \in Nat
  BY DEF Cancel, writer, FramesTypeOK
<1>2. Continues' /\ NothingSkipped'
  BY <1>1 DEF SkipInv, Continues, NothingSkipped, Written
<1>3. log[pos].part # log[pos].size
  <2>1. /\ pos - from \in 1..(pos - from) /\ from + (pos - from) = pos
        /\ from + 1 \in 1..Len(log)
    BY <1>1
  <2>2. /\ log[pos] = [log[from + 1] EXCEPT !.part = pos - from]
        /\ pos - from < log[from + 1].size
    BY <1>0, <1>1, <2>1 DEF SkipInv, Reads
  <2>3. log[from + 1] \in Part
    BY <2>1, LogPart
  <2> QED
    BY <1>1, <2>2, <2>3 DEF Part
<1>4. ~Boundary(from')
  BY <1>1, <1>3 DEF Boundary
<1>5. Reads' /\ Ahead'
  BY <1>1, <1>4 DEF Reads, Ahead, Boundary
<1> QED
  BY <1>2, <1>5 DEF SkipInv

\* NothingSkipped: as long as no write is given up half-way, a read dropped by the
\* session's select never loses a frame that later frames are delivered after.
THEOREM SkipsNothing == FramesSpec => []NothingSkipped
<1>1. FramesInit => OrderInv /\ SkipInv
  BY DEF FramesInit, OrderInv, LogTells, LogOrdered, Behind, DeliveredInOrder, SkipInv,
         Continues, Reads, Ahead, NothingSkipped, Boundary, Written
<1>2. FramesTypeOK /\ OrderInv /\ [FramesNext]_framesVars => OrderInv'
  BY OrderStep
<1>3. FramesTypeOK /\ OrderInv /\ SkipInv /\ [FramesNext]_framesVars => SkipInv'
  <2> SUFFICES ASSUME FramesTypeOK, OrderInv, SkipInv, [FramesNext]_framesVars PROVE SkipInv'
    OBVIOUS
  <2>1. CASE UNCHANGED framesVars
    BY <2>1 DEF framesVars, writer, reader, SkipInv, Continues, Reads, Ahead, NothingSkipped,
                Written, Boundary
  <2> QED
    BY <2>1, StartSkip, WriteSkip, StallSkip, TakeSkip, CancelSkip DEF FramesNext
<1>4. SkipInv => NothingSkipped
  BY DEF SkipInv
<1> QED
  BY <1>1, <1>2, <1>3, <1>4, FramesTyped, PTL DEF FramesSpec

-----------------------------------------------------------------------------
\* One event more at the end, or one less at the front, and it is still a list.
LEMMA Extended ==
    ASSUME NEW q \in Seq(Events), NEW ev \in Events
    PROVE  /\ Append(q, ev) \in Seq(Events) /\ Len(Append(q, ev)) = Len(q) + 1
           /\ \A i \in DOMAIN Append(q, ev) :
                 Append(q, ev)[i] = ev \/ \E j \in DOMAIN q : Append(q, ev)[i] = q[j]
BY AppendProperties

LEMMA Shortened ==
    ASSUME NEW q \in Seq(Events), q # <<>>
    PROVE  /\ Head(q) \in Events /\ 1 \in DOMAIN q /\ Head(q) = q[1]
           /\ Tail(q) \in Seq(Events) /\ Len(Tail(q)) = Len(q) - 1
           /\ \A i \in DOMAIN Tail(q) : i + 1 \in DOMAIN q /\ Tail(q)[i] = q[i + 1]
BY HeadTailProperties

\* The epoch of a child is known.
LEMMA Linked ==
    ASSUME MotionTypeOK, NEW c \in 1..Child
    PROVE  link[c] \in Epochs
BY DEF MotionTypeOK, Child

\* A session that handles an event keeps its types.
LEMMA HandleType ==
    ASSUME MotionTypeOK, NEW s \in Sessions, NEW ev \in Events, Handle(s, ev)
    PROVE  /\ seen' \in [Sessions -> SUBSET Nat] /\ latest' \in [Sessions -> Nat]
           /\ applied' \in SUBSET Events /\ again' \in SUBSET applied'
           /\ mixed' \in SUBSET Sessions
<1>1. ev.n \in Nat
  BY DEF Events
<1>2. \A S \in SUBSET Nat : KeepLargest(S) \in SUBSET Nat
  BY DEF KeepLargest
<1>3. mixed' \in SUBSET Sessions
  BY DEF Handle, MotionTypeOK
<1>4. seen' \in [Sessions -> SUBSET Nat]
  <2>1. seen[s] \cup {ev.n} \in SUBSET Nat
    BY <1>1 DEF MotionTypeOK
  <2>2. /\ [seen EXCEPT ![s] = @ \cup {ev.n}] \in [Sessions -> SUBSET Nat]
        /\ [seen EXCEPT ![s] = KeepLargest(@ \cup {ev.n})] \in [Sessions -> SUBSET Nat]
    BY <1>2, <2>1 DEF MotionTypeOK
  <2> QED
    BY <2>2 DEF Handle, MotionTypeOK
<1>5. latest' \in [Sessions -> Nat]
  BY <1>1 DEF Handle, MotionTypeOK
<1>6. applied' \in SUBSET Events /\ again' \in SUBSET applied'
  BY DEF Handle, MotionTypeOK
<1> QED
  BY <1>3, <1>4, <1>5, <1>6

\* The children, the listener and the sessions keep their types, and no sink
\* holds more than its channel takes.
THEOREM MotionTyped == MotionSpec => []MotionTypeOK
<1>1. MotionInit => MotionTypeOK
  BY MotionAssumption DEF MotionInit, MotionTypeOK, Child
<1>2. MotionTypeOK /\ [MotionNext]_motionVars => MotionTypeOK'
  <2> SUFFICES ASSUME MotionTypeOK, [MotionNext]_motionVars PROVE MotionTypeOK'
    OBVIOUS
  <2> USE MotionAssumption
  <2>1. ASSUME NEW e \in Epochs, Dial(e) PROVE MotionTypeOK'
    <3>1. link' \in Seq(Epochs) /\ Len(link') = Len(link) + 1
      BY <2>1, AppendProperties DEF Dial, MotionTypeOK
    <3>2. owner' \in [Sessions -> 0..Child']
      BY <2>1, <3>1 DEF Dial, motionSession, MotionTypeOK, Child
    <3> QED
      BY <2>1, <3>1, <3>2 DEF Dial, listener, motionSession, MotionTypeOK
  <2>2. ASSUME NEW e \in Epochs, Forget(e) PROVE MotionTypeOK'
    BY <2>2 DEF Forget, dialer, motionSession, MotionTypeOK, Child
  <2>3. ASSUME NEW s \in Sessions, Open(s) PROVE MotionTypeOK'
    <3>1. /\ Child' = Child /\ Child \in Nat \ {0}
          /\ owner' = [owner EXCEPT ![s] = Child]
          /\ phase' = [phase EXCEPT ![s] = "accepted"]
      BY <2>3 DEF Open, dialer, MotionTypeOK, Child
    <3>2. owner' \in [Sessions -> 0..Child']
      <4>1. Child \in 0..Child
        BY <3>1
      <4> QED
        BY <3>1, <4>1 DEF MotionTypeOK
    <3>3. phase' \in [Sessions -> {"none", "accepted", "open", "done"}]
      BY <3>1 DEF MotionTypeOK
    <3>4. ASSUME NEW t \in Sessions, owner'[t] = 0 PROVE phase'[t] = "none"
      <4>1. t # s /\ owner[t] = 0
        BY <3>1, <3>4 DEF MotionTypeOK
      <4> QED
        BY <3>1, <4>1 DEF MotionTypeOK
    <3> QED
      BY <2>3, <3>2, <3>3, <3>4 DEF Open, dialer, listener, MotionTypeOK
  <2>4. ASSUME NEW s \in Sessions, Drive(s) PROVE MotionTypeOK'
    BY <2>4 DEF Drive, listener, motionSession, MotionTypeOK, Child
  <2>5. ASSUME NEW s \in Sessions, Register(s) PROVE MotionTypeOK'
    <3>1. keys' \in SUBSET Epochs
      <4>1. owner[s] \in 1..Child
        BY <2>5 DEF Register, MotionTypeOK, Child
      <4> QED
        BY <2>5, <4>1, Linked DEF Register, MotionTypeOK
    <3> QED
      BY <2>5, <3>1 DEF Register, dialer, MotionTypeOK, Child
  <2>6. ASSUME NEW s \in Sessions, End(s) PROVE MotionTypeOK'
    <3>1. /\ phase' \in [Sessions -> {"none", "accepted", "open", "done"}]
          /\ \A t \in Sessions : owner[t] = 0 => phase'[t] = "none"
      BY <2>6 DEF End, MotionTypeOK
    <3>2. /\ wire' \in [Sessions -> Seq(Events)] /\ queue' \in [Sessions -> Seq(Events)]
          /\ \A t \in Sessions : Len(queue'[t]) <= Channel
      BY <2>6, EmptySeq DEF End, MotionTypeOK
    <3> QED
      BY <2>6, <3>1, <3>2 DEF End, MotionTypeOK, Child
  <2>7. ASSUME NEW s \in Sessions, TakeUdp(s) PROVE MotionTypeOK'
    <3>1. /\ Head(queue[s]) \in Events /\ Tail(queue[s]) \in Seq(Events)
          /\ Len(Tail(queue[s])) <= Channel
      BY <2>7, Shortened, LenProperties DEF TakeUdp, MotionTypeOK
    <3>2. /\ queue' \in [Sessions -> Seq(Events)]
          /\ \A t \in Sessions : Len(queue'[t]) <= Channel
      BY <2>7, <3>1 DEF TakeUdp, MotionTypeOK
    <3> QED
      BY <2>7, <3>1, <3>2, HandleType DEF TakeUdp, dialer, listener, MotionTypeOK, Child
  <2>8. ASSUME NEW s \in Sessions, TakeStream(s) PROVE MotionTypeOK'
    <3>1. Head(wire[s]) \in Events /\ Tail(wire[s]) \in Seq(Events)
      BY <2>8, Shortened DEF TakeStream, MotionTypeOK
    <3>2. wire' \in [Sessions -> Seq(Events)]
      BY <2>8, <3>1 DEF TakeStream, MotionTypeOK
    <3> QED
      BY <2>8, <3>1, <3>2, HandleType DEF TakeStream, dialer, listener, MotionTypeOK, Child
  <2>9. CASE SendUdp
    <3>1. Event("move") \in Events /\ sequence' \in Nat
      BY <2>9 DEF SendUdp, Count, Event, Events, MotionTypeOK, Child
    <3>2. air' \in SUBSET Events
      BY <2>9, <3>1 DEF SendUdp, MotionTypeOK
    <3> QED
      BY <2>9, <3>1, <3>2 DEF SendUdp, motionSession, MotionTypeOK, Child
  <2>10. ASSUME NEW kind \in {"move", "key"}, SendStream(kind) PROVE MotionTypeOK'
    <3>1. Event(kind) \in Events /\ sequence' \in Nat
      BY <2>10 DEF SendStream, Count, Event, Events, MotionTypeOK, Child
    <3>2. wire' \in [Sessions -> Seq(Events)]
      <4>1. drive \in Sessions
        BY <2>10 DEF SendStream, MotionTypeOK
      <4>2. Append(wire[drive], Event(kind)) \in Seq(Events)
        BY <3>1, <4>1, Extended DEF MotionTypeOK
      <4> QED
        BY <2>10, <4>1, <4>2 DEF SendStream, MotionTypeOK
    <3> QED
      BY <2>10, <3>1, <3>2 DEF SendStream, listener, MotionTypeOK, Child
  <2>11. CASE OtherRegisters
    BY <2>11 DEF OtherRegisters, dialer, motionSession, MotionTypeOK, Child
  <2>12. ASSUME NEW m \in air, Arrive(m) PROVE MotionTypeOK'
    <3>1. m \in Events /\ m.n \in Nat
      BY DEF MotionTypeOK, Events
    <3>2. Forward(m) \in [Sessions -> Seq(Events)]
          /\ \A s \in Sessions : Len(Forward(m)[s]) <= Channel
      BY <3>1, Extended DEF Forward, MotionTypeOK
    <3>3. Heard(m) \in [Epochs -> Nat]
      BY <3>1 DEF Heard, MotionTypeOK
    <3> QED
      BY <2>12, <3>2, <3>3 DEF Arrive, dialer, MotionTypeOK, Child
  <2>13. CASE UNCHANGED motionVars
    BY <2>13 DEF motionVars, dialer, listener, motionSession, MotionTypeOK, Child
  <2> QED
    BY <2>1, <2>2, <2>3, <2>4, <2>5, <2>6, <2>7, <2>8, <2>9, <2>10, <2>11, <2>12,
       <2>13 DEF MotionNext
<1> QED
  BY <1>1, <1>2, PTL DEF MotionSpec
----------------------------------------------------------------------------
\* Motion of a peer goes to the session that registered last, as long as it runs.
THEOREM NewestHasSink == MotionSpec => []SinkOfNewest
<1>1. MotionInit => SinkOfNewest
  BY DEF MotionInit, SinkOfNewest
<1>2. MotionTypeOK /\ SinkOfNewest /\ [MotionNext]_motionVars => SinkOfNewest'
  <2> SUFFICES ASSUME MotionTypeOK, SinkOfNewest, [MotionNext]_motionVars PROVE SinkOfNewest'
    OBVIOUS
  <2> USE MotionAssumption DEF SinkOfNewest
  <2>1. ASSUME NEW e \in Epochs, Dial(e) \/ Forget(e) PROVE SinkOfNewest'
    BY <2>1 DEF Dial, Forget, listener, motionSession
  <2>2. ASSUME NEW s \in Sessions, Open(s) PROVE SinkOfNewest'
    BY <2>2 DEF Open, listener, MotionTypeOK
  <2>3. ASSUME NEW s \in Sessions, Register(s) PROVE SinkOfNewest'
    BY <2>3 DEF Register, MotionTypeOK
  <2>4. ASSUME NEW s \in Sessions, End(s) PROVE SinkOfNewest'
    BY <2>4 DEF End, MotionTypeOK
  <2>5. ASSUME NEW s \in Sessions, Drive(s) \/ TakeUdp(s) \/ TakeStream(s)
        PROVE  SinkOfNewest'
    BY <2>5 DEF Drive, TakeUdp, TakeStream, listener, motionSession
  <2>6. ASSUME NEW kind \in {"move", "key"}, SendUdp \/ SendStream(kind) \/ OtherRegisters
        PROVE  SinkOfNewest'
    BY <2>6 DEF SendUdp, SendStream, OtherRegisters, listener, motionSession
  <2>7. ASSUME NEW m \in air, Arrive(m) PROVE SinkOfNewest'
    BY <2>7 DEF Arrive
  <2>8. CASE UNCHANGED motionVars
    BY <2>8 DEF motionVars, listener, motionSession
  <2> QED
    BY <2>1, <2>2, <2>3, <2>4, <2>5, <2>6, <2>7, <2>8 DEF MotionNext
<1> QED
  BY <1>1, <1>2, MotionTyped, PTL DEF MotionSpec
----------------------------------------------------------------------------
(* No number runs ahead of the child that counts.                          *)

\* The event was sent by a child of the peer, by the last one not ahead of time.
Sent(ev) == ev.child \in 1..Child /\ (ev.child = Child => ev.n <= sequence)

AirSent == \A m \in air : Sent(m)
QueueSent == \A s \in Sessions : \A i \in DOMAIN queue[s] : Sent(queue[s][i])
WireSent == \A s \in Sessions : \A i \in DOMAIN wire[s] : Sent(wire[s][i])

\* A session of the last child, fed by it alone, has seen no number beyond it.
SessionBehind ==
    \A s \in Sessions :
        /\ phase[s] = "none" => latest[s] = 0 /\ seen[s] = {}
        /\ s \notin mixed /\ owner[s] = Child
              => latest[s] <= sequence /\ \A n \in seen[s] : n <= sequence

FirstOnEpoch == \A c \in 1..(Child - 1) : link[c] # link[Child]

\* So has the listener, when no other child used the last child's epoch.
ListenerBehind ==
    /\ \A e \in Epochs : last[e] # 0 => \E c \in 1..Child : link[c] = e
    /\ Child # 0 /\ FirstOnEpoch => last[link[Child]] <= sequence

DrivesOwn ==
    drive # None => owner[drive] = Child /\ phase[drive] \in {"accepted", "open"}

CountInv == AirSent /\ QueueSent /\ WireSent /\ SessionBehind /\ ListenerBehind /\ DrivesOwn

\* Children are only added, and the last one only counts on.
LEMMA Advance ==
    ASSUME MotionTypeOK, [MotionNext]_motionVars
    PROVE  /\ Child \in Nat /\ sequence \in Nat /\ sequence' \in Nat
           /\ \/ link' = link /\ Child' = Child /\ sequence <= sequence'
              \/ \E e \in Epochs : Dial(e) /\ Child' = Child + 1
<1> USE MotionAssumption
<1>1. ASSUME NEW e \in Epochs, Dial(e) PROVE Child' = Child + 1 /\ sequence' = 0
  BY <1>1, AppendProperties DEF Dial, MotionTypeOK, Child
<1>2. ASSUME ~\E e \in Epochs : Dial(e)
      PROVE  link' = link /\ sequence' \in Nat /\ sequence <= sequence'
  BY <1>2 DEF MotionNext, motionVars, dialer, MotionTypeOK, Forget, Open, Drive, Register, End, TakeUdp,
     TakeStream, SendUdp, SendStream, Count, OtherRegisters, Arrive
<1> QED
  BY <1>1, <1>2 DEF MotionTypeOK, Child

\* A new child comes last.
LEMMA Dialled ==
    ASSUME MotionTypeOK, NEW e \in Epochs, Dial(e)
    PROVE  /\ Child' = Child + 1 /\ Child \in Nat
           /\ link'[Child'] = e /\ \A c \in 1..Child : link'[c] = link[c]
           /\ UNCHANGED <<listener, air, keys, last, sink, newest, forgotten, phase, owner, wire,
                          queue, seen, latest, applied, again, mixed>>
<1>1. link \in Seq(Epochs) /\ link' = Append(link, e)
  BY DEF Dial, MotionTypeOK
<1>2. Len(link) \in Nat /\ Len(link') = Len(link) + 1
  BY <1>1, AppendProperties, LenProperties
<1>3. link'[Len(link) + 1] = e /\ \A c \in 1..Len(link) : link'[c] = link[c]
  BY <1>1, AppendProperties
<1> QED
  BY <1>2, <1>3 DEF Dial, listener, motionSession, Child

\* So what was sent stays sent.
LEMMA StaysSent ==
    ASSUME MotionTypeOK, [MotionNext]_motionVars, NEW ev \in Events, Sent(ev)
    PROVE  Sent(ev)'
BY Advance DEF Sent, Events

LEMMA AirStaysSent ==
    ASSUME MotionTypeOK, DrivesOwn, AirSent, [MotionNext]_motionVars
    PROVE  AirSent'
<1> USE MotionAssumption
<1>1. \A m \in Events : Sent(m) => Sent(m)'
  BY StaysSent
<1>2. ASSUME air' \subseteq air PROVE AirSent'
  BY <1>1, <1>2 DEF AirSent, MotionTypeOK
<1>3. CASE SendUdp
  <2>1. air' = air \cup {Event("move")} /\ Child' = Child /\ sequence' = sequence + 1
    BY <1>3 DEF SendUdp, Count, Child
  <2>2. Event("move").child \in 1..Child /\ Event("move").n = sequence + 1
    BY <1>3 DEF SendUdp, Event, MotionTypeOK, Child, DrivesOwn
  <2>3. ASSUME NEW m \in air' PROVE Sent(m)'
    <3>1. CASE m \in air
      BY <1>1, <3>1 DEF AirSent, MotionTypeOK
    <3>2. CASE m = Event("move")
      BY <2>1, <2>2, <3>2 DEF Sent, MotionTypeOK
    <3> QED
      BY <2>1, <2>3, <3>1, <3>2
  <2> QED
    BY <2>3 DEF AirSent
<1> QED
  BY <1>2, <1>3 DEF MotionNext, motionVars, listener, Dial, Forget, Open, Drive, Register, End,
     TakeUdp, TakeStream, SendStream, OtherRegisters, Arrive

LEMMA QueueStaysSent ==
    ASSUME MotionTypeOK, AirSent, QueueSent, [MotionNext]_motionVars
    PROVE  QueueSent'
<1> USE MotionAssumption
<1>1. \A m \in Events : Sent(m) => Sent(m)'
  BY StaysSent
<1>2. \A t \in Sessions : \A i \in DOMAIN queue[t] : queue[t][i] \in Events
  BY DEF MotionTypeOK
<1>3. ASSUME \A t \in Sessions : \A i \in DOMAIN queue'[t] :
                \/ \E m \in air : queue'[t][i] = m
                \/ \E j \in DOMAIN queue[t] : queue'[t][i] = queue[t][j]
      PROVE  QueueSent'
  <2> SUFFICES ASSUME NEW t \in Sessions, NEW i \in DOMAIN queue'[t]
               PROVE  Sent(queue[t][i])'
    BY DEF QueueSent
  <2>1. PICK ev \in Events : queue'[t][i] = ev /\ Sent(ev)'
    <3>1. CASE \E m \in air : queue'[t][i] = m
      <4>1. PICK m \in air : queue'[t][i] = m
        BY <3>1
      <4>2. m \in Events /\ Sent(m)
        BY DEF AirSent, MotionTypeOK
      <4> QED
        BY <1>1, <4>1, <4>2
    <3>2. CASE \E j \in DOMAIN queue[t] : queue'[t][i] = queue[t][j]
      BY <1>1, <1>2, <3>2 DEF QueueSent
    <3> QED
      BY <1>3, <3>1, <3>2
  <2> QED
    BY <2>1 DEF Sent
<1>4. ASSUME NEW s \in Sessions, End(s) PROVE QueueSent'
  BY <1>3, <1>4 DEF End, MotionTypeOK
<1>5. ASSUME NEW s \in Sessions, TakeUdp(s) PROVE QueueSent'
  <2>1. \A i \in DOMAIN Tail(queue[s]) :
            i + 1 \in DOMAIN queue[s] /\ Tail(queue[s])[i] = queue[s][i + 1]
    BY <1>5, Shortened DEF TakeUdp, MotionTypeOK
  <2> QED
    BY <1>3, <1>5, <2>1 DEF TakeUdp, MotionTypeOK
<1>6. ASSUME NEW m \in air, Arrive(m) PROVE QueueSent'
  <2>1. ASSUME NEW t \in Sessions
        PROVE  \A i \in DOMAIN Append(queue[t], m) :
                  Append(queue[t], m)[i] = m
                    \/ \E j \in DOMAIN queue[t] : Append(queue[t], m)[i] = queue[t][j]
    <3>1. queue[t] \in Seq(Events) /\ m \in Events
      BY DEF MotionTypeOK
    <3> QED
      BY <3>1, Extended
  <2>2. \A t \in Sessions : queue'[t] = queue[t] \/ queue'[t] = Append(queue[t], m)
    BY <1>6 DEF Arrive, Forward
  <2> QED
    BY <1>3, <2>1, <2>2
<1>7. ASSUME UNCHANGED queue PROVE QueueSent'
  BY <1>3, <1>7
<1> QED
  BY <1>4, <1>5, <1>6, <1>7 DEF MotionNext, motionVars, motionSession, Dial, Forget, Open, Drive,
     Register, TakeStream, SendUdp, SendStream, OtherRegisters

LEMMA WireStaysSent ==
    ASSUME MotionTypeOK, DrivesOwn, WireSent, [MotionNext]_motionVars
    PROVE  WireSent'
<1> USE MotionAssumption
<1>1. \A m \in Events : Sent(m) => Sent(m)'
  BY StaysSent
<1>2. \A t \in Sessions : \A i \in DOMAIN wire[t] : wire[t][i] \in Events
  BY DEF MotionTypeOK
<1>3. ASSUME NEW new \in Events, Sent(new)',
             \A t \in Sessions : \A i \in DOMAIN wire'[t] :
                \/ wire'[t][i] = new
                \/ \E j \in DOMAIN wire[t] : wire'[t][i] = wire[t][j]
      PROVE  WireSent'
  <2> SUFFICES ASSUME NEW t \in Sessions, NEW i \in DOMAIN wire'[t]
               PROVE  Sent(wire[t][i])'
    BY DEF WireSent
  <2>1. PICK ev \in Events : wire'[t][i] = ev /\ Sent(ev)'
    BY <1>1, <1>2, <1>3 DEF WireSent
  <2> QED
    BY <2>1 DEF Sent
<1>4. ASSUME \A t \in Sessions : \A i \in DOMAIN wire'[t] :
                \E j \in DOMAIN wire[t] : wire'[t][i] = wire[t][j]
      PROVE  WireSent'
  <2> SUFFICES ASSUME NEW t \in Sessions, NEW i \in DOMAIN wire'[t]
               PROVE  Sent(wire[t][i])'
    BY DEF WireSent
  <2>1. PICK ev \in Events : wire'[t][i] = ev /\ Sent(ev)'
    BY <1>1, <1>2, <1>4 DEF WireSent
  <2> QED
    BY <2>1 DEF Sent
<1>5. ASSUME NEW s \in Sessions, End(s) PROVE WireSent'
  BY <1>4, <1>5 DEF End, MotionTypeOK
<1>6. ASSUME NEW s \in Sessions, TakeStream(s) PROVE WireSent'
  <2>1. \A i \in DOMAIN Tail(wire[s]) :
            i + 1 \in DOMAIN wire[s] /\ Tail(wire[s])[i] = wire[s][i + 1]
    BY <1>6, Shortened DEF TakeStream, MotionTypeOK
  <2> QED
    BY <1>4, <1>6, <2>1 DEF TakeStream, MotionTypeOK
<1>7. ASSUME NEW kind \in {"move", "key"}, SendStream(kind) PROVE WireSent'
  <2>1. /\ drive \in Sessions /\ Child \in 1..Child /\ Event(kind) \in Events
        /\ Event(kind).child = Child /\ Event(kind).n = sequence'
        /\ Child' = Child /\ sequence' \in Nat
    BY <1>7 DEF SendStream, Count, Event, Events, DrivesOwn, MotionTypeOK, Child
  <2>2. \A i \in DOMAIN Append(wire[drive], Event(kind)) :
            Append(wire[drive], Event(kind))[i] = Event(kind)
                \/ \E j \in DOMAIN wire[drive] :
                      Append(wire[drive], Event(kind))[i] = wire[drive][j]
    <3>1. wire[drive] \in Seq(Events)
      BY <2>1 DEF MotionTypeOK
    <3> QED
      BY <2>1, <3>1, Extended
  <2>3. \A t \in Sessions : \A i \in DOMAIN wire'[t] :
            \/ wire'[t][i] = Event(kind)
            \/ \E j \in DOMAIN wire[t] : wire'[t][i] = wire[t][j]
    BY <1>7, <2>1, <2>2 DEF SendStream, MotionTypeOK
  <2>4. PICK new \in Events : new = Event(kind)
    BY <2>1
  <2>5. Sent(new)'
    BY <2>1, <2>4 DEF Sent
  <2> QED
    BY <1>3, <2>3, <2>4, <2>5
<1>8. ASSUME UNCHANGED wire PROVE WireSent'
  BY <1>4, <1>8
<1> QED
  BY <1>5, <1>6, <1>7, <1>8 DEF MotionNext, motionVars, motionSession, Dial, Forget, Open, Drive,
     Register, TakeUdp, SendUdp, OtherRegisters, Arrive

LEMMA DrivesOwnStays ==
    ASSUME MotionTypeOK, DrivesOwn, [MotionNext]_motionVars
    PROVE  DrivesOwn'
<1> USE MotionAssumption
<1>1. ASSUME NEW s \in Sessions, Drive(s) PROVE DrivesOwn'
  BY <1>1 DEF Drive, DrivesOwn, motionSession, Child
<1>2. ASSUME NEW s \in Sessions, Open(s) \/ Register(s) \/ End(s) PROVE DrivesOwn'
  BY <1>2 DEF Open, Register, End, dialer, DrivesOwn, MotionTypeOK, Child
<1>3. ASSUME NEW e \in Epochs, Dial(e) \/ Forget(e) PROVE DrivesOwn'
  BY <1>3 DEF Dial, Forget, dialer, motionSession, DrivesOwn, Child
<1> QED
  BY <1>1, <1>2, <1>3 DEF MotionNext, motionVars, dialer, motionSession, DrivesOwn, Child, SendUdp,
     SendStream, OtherRegisters, Arrive, TakeUdp, TakeStream

\* One event of its own child leaves a session behind the child.
LEMMA HandleBehind ==
    ASSUME MotionTypeOK, SessionBehind, NEW s \in Sessions, phase[s] = "open",
           NEW ev \in Events, Sent(ev), Handle(s, ev),
           UNCHANGED <<dialer, phase, owner>>
    PROVE  SessionBehind'
<1>1. Child' = Child /\ sequence' = sequence
  BY DEF dialer, Child
<1>2. ASSUME NEW t \in Sessions, t # s
      PROVE  latest'[t] = latest[t] /\ seen'[t] = seen[t] /\ (t \in mixed <=> t \in mixed')
  BY <1>2 DEF Handle, MotionTypeOK
<1>3. ASSUME s \notin mixed', owner[s] = Child
      PROVE  latest'[s] <= sequence /\ \A n \in seen'[s] : n <= sequence
  <2>1. s \notin mixed /\ ev.n <= sequence
    BY <1>3 DEF Handle, Sent
  <2>2. latest[s] <= sequence /\ \A n \in seen[s] : n <= sequence
    BY <1>3, <2>1 DEF SessionBehind
  <2>3. latest'[s] = latest[s] \/ latest'[s] = ev.n
    BY DEF Handle, MotionTypeOK
  <2>4. seen'[s] \subseteq seen[s] \cup {ev.n}
    <3>1. /\ seen \in [Sessions -> SUBSET Nat]
          /\ \A S : KeepLargest(S) \subseteq S
      BY DEF KeepLargest, MotionTypeOK
    <3>2. \/ seen' = seen
          \/ seen' = [seen EXCEPT ![s] = @ \cup {ev.n}]
          \/ seen' = [seen EXCEPT ![s] = KeepLargest(@ \cup {ev.n})]
      BY DEF Handle
    <3> QED
      BY <3>1, <3>2
  <2> QED
    BY <2>1, <2>2, <2>3, <2>4
<1>4. ASSUME NEW t \in Sessions, phase[t] = "none" PROVE latest'[t] = 0 /\ seen'[t] = {}
  BY <1>2, <1>4 DEF SessionBehind
<1>5. ASSUME NEW t \in Sessions, t \notin mixed', owner[t] = Child
      PROVE  latest'[t] <= sequence /\ \A n \in seen'[t] : n <= sequence
  BY <1>2, <1>3, <1>5 DEF SessionBehind
<1> QED
  BY <1>1, <1>4, <1>5 DEF SessionBehind

LEMMA SessionStaysBehind ==
    ASSUME MotionTypeOK, QueueSent, WireSent, SessionBehind, [MotionNext]_motionVars
    PROVE  SessionBehind'
<1> USE MotionAssumption
<1>1. ASSUME NEW s \in Sessions, Open(s) PROVE SessionBehind'
  <2>1. Child' = Child /\ sequence' = sequence /\ sequence \in Nat
    BY <1>1 DEF Open, dialer, MotionTypeOK, Child
  <2>2. latest[s] = 0 /\ seen[s] = {}
    BY <1>1 DEF Open, SessionBehind
  <2> QED
    BY <1>1, <2>1, <2>2 DEF Open, SessionBehind, MotionTypeOK
<1>2. ASSUME NEW s \in Sessions, TakeUdp(s) PROVE SessionBehind'
  <2>1. Head(queue[s]) \in Events /\ Sent(Head(queue[s]))
    BY <1>2, Shortened DEF TakeUdp, QueueSent, MotionTypeOK
  <2> QED
    BY <1>2, <2>1, HandleBehind DEF TakeUdp
<1>3. ASSUME NEW s \in Sessions, TakeStream(s) PROVE SessionBehind'
  <2>1. Head(wire[s]) \in Events /\ Sent(Head(wire[s]))
    BY <1>3, Shortened DEF TakeStream, WireSent, MotionTypeOK
  <2> QED
    BY <1>3, <2>1, HandleBehind DEF TakeStream
<1>4. ASSUME NEW e \in Epochs, Dial(e) PROVE SessionBehind'
  <2>1. Child' = Child + 1 /\ Child \in Nat
    BY <1>4, AppendProperties DEF Dial, MotionTypeOK, Child
  <2>2. \A t \in Sessions : owner'[t] # Child'
    BY <1>4, <2>1 DEF Dial, motionSession, MotionTypeOK
  <2>3. \A t \in Sessions : phase'[t] = "none" => latest'[t] = 0 /\ seen'[t] = {}
    BY <1>4 DEF Dial, motionSession, SessionBehind
  <2> QED
    BY <2>2, <2>3 DEF SessionBehind
<1>5. ASSUME UNCHANGED <<link, owner, seen, latest, mixed>>,
             sequence \in Nat, sequence' \in Nat, sequence <= sequence',
             \A t \in Sessions : phase'[t] = "none" => phase[t] = "none"
      PROVE  SessionBehind'
  <2>1. ASSUME NEW t \in Sessions, t \notin mixed, owner[t] = Child
        PROVE  latest[t] <= sequence' /\ \A n \in seen[t] : n <= sequence'
    <3>1. latest[t] \in Nat /\ seen[t] \in SUBSET Nat
      BY DEF MotionTypeOK
    <3>2. latest[t] <= sequence /\ \A n \in seen[t] : n <= sequence
      BY <2>1 DEF SessionBehind
    <3> QED
      BY <1>5, <3>1, <3>2
  <2>2. Child' = Child
    BY <1>5 DEF Child
  <2>3. \A t \in Sessions : phase'[t] = "none" => latest'[t] = 0 /\ seen'[t] = {}
    BY <1>5 DEF SessionBehind
  <2> QED
    BY <1>5, <2>1, <2>2, <2>3 DEF SessionBehind
<1>6. ASSUME NEW s \in Sessions, Register(s) \/ End(s) PROVE SessionBehind'
  BY <1>5, <1>6 DEF Register, End, dialer, MotionTypeOK
<1>7. ASSUME NEW kind \in {"move", "key"}, SendUdp \/ SendStream(kind) PROVE SessionBehind'
  BY <1>5, <1>7 DEF SendUdp, SendStream, Count, motionSession, MotionTypeOK
<1>8. ASSUME NEW s \in Sessions, Drive(s) PROVE SessionBehind'
  BY <1>5, <1>8 DEF Drive, motionSession, MotionTypeOK
<1>9. ASSUME NEW e \in Epochs, Forget(e) PROVE SessionBehind'
  BY <1>5, <1>9 DEF Forget, dialer, motionSession, MotionTypeOK
<1>10. ASSUME NEW m \in air, Arrive(m) PROVE SessionBehind'
  BY <1>5, <1>10 DEF Arrive, dialer, MotionTypeOK
<1>11. CASE OtherRegisters \/ UNCHANGED motionVars
  BY <1>5, <1>11 DEF OtherRegisters, motionVars, dialer, motionSession, MotionTypeOK
<1> QED
  BY <1>1, <1>2, <1>3, <1>4, <1>6, <1>7, <1>8, <1>9, <1>10, <1>11 DEF MotionNext

LEMMA ListenerStaysBehind ==
    ASSUME MotionTypeOK, AirSent, ListenerBehind, [MotionNext]_motionVars
    PROVE  ListenerBehind'
<1> USE MotionAssumption
<1>1. ASSUME NEW e \in Epochs, Dial(e) PROVE ListenerBehind'
  <2>1. /\ Child' = Child + 1 /\ Child \in Nat /\ last' = last
        /\ link'[Child'] = e /\ \A c \in 1..Child : link'[c] = link[c]
    BY <1>1, Dialled
  <2>2. ASSUME FirstOnEpoch' PROVE last'[link[Child]'] <= sequence'
    <3>1. \A c \in 1..Child : link[c] # e
      BY <2>1, <2>2 DEF FirstOnEpoch
    <3>2. last[e] = 0
      BY <3>1 DEF ListenerBehind
    <3> QED
      BY <1>1, <2>1, <3>2 DEF Dial
  <2>3. ASSUME NEW f \in Epochs, last'[f] # 0 PROVE \E c \in 1..Child' : link'[c] = f
    BY <2>1, <2>3 DEF ListenerBehind
  <2> QED
    BY <2>2, <2>3 DEF ListenerBehind
<1>2. ASSUME NEW m \in air, Arrive(m) PROVE ListenerBehind'
  <2>1. /\ m.child \in 1..Child /\ (m.child = Child => m.n <= sequence)
        /\ link[m.child] \in Epochs /\ m.n \in Nat
    BY Linked DEF AirSent, Sent, MotionTypeOK, Events
  <2>2. /\ link' = link /\ Child' = Child /\ sequence' = sequence
        /\ last' = last \/ last' = [last EXCEPT ![link[m.child]] = m.n]
    BY <1>2 DEF Arrive, dialer, Heard, Child
  <2>3. ASSUME NEW e \in Epochs, last'[e] # 0 PROVE \E c \in 1..Child' : link'[c] = e
    BY <2>1, <2>2, <2>3 DEF ListenerBehind, MotionTypeOK
  <2>4. ASSUME Child # 0, FirstOnEpoch PROVE last'[link[Child]] <= sequence
    <3>1. Child \in 1..Child /\ link[Child] \in Epochs
      BY <2>4, Linked DEF MotionTypeOK, Child
    <3>2. CASE link[m.child] = link[Child]
      <4>1. m.child = Child
        BY <2>1, <2>4, <3>2 DEF FirstOnEpoch, MotionTypeOK, Child
      <4> QED
        BY <2>1, <2>2, <2>4, <4>1 DEF ListenerBehind, MotionTypeOK
    <3>3. CASE link[m.child] # link[Child]
      BY <2>1, <2>2, <2>4, <3>1, <3>3 DEF ListenerBehind, MotionTypeOK
    <3> QED
      BY <3>2, <3>3
  <2>5. FirstOnEpoch' <=> FirstOnEpoch
    BY <2>2 DEF FirstOnEpoch
  <2> QED
    BY <2>2, <2>3, <2>4, <2>5 DEF ListenerBehind
<1>3. ASSUME NEW e \in Epochs, Forget(e) PROVE ListenerBehind'
  <2>1. /\ link' = link /\ Child' = Child /\ sequence' = sequence /\ sequence \in Nat
        /\ \A f \in Epochs : last'[f] = last[f] \/ last'[f] = 0
    BY <1>3 DEF Forget, dialer, MotionTypeOK, Child
  <2>2. FirstOnEpoch' <=> FirstOnEpoch
    BY <2>1 DEF FirstOnEpoch
  <2>3. Child # 0 => link[Child] \in Epochs
    BY Linked DEF MotionTypeOK, Child
  <2> QED
    BY <2>1, <2>2, <2>3 DEF ListenerBehind
<1>4. ASSUME UNCHANGED <<link, last>>, sequence \in Nat, sequence' \in Nat,
             sequence <= sequence'
      PROVE  ListenerBehind'
  <2>1. Child' = Child /\ (FirstOnEpoch' <=> FirstOnEpoch)
    BY <1>4 DEF FirstOnEpoch, Child
  <2>2. Child # 0 => last[link[Child]] \in Nat
    BY Linked DEF MotionTypeOK, Child
  <2> QED
    BY <1>4, <2>1, <2>2 DEF ListenerBehind
<1>5. ASSUME NEW s \in Sessions, Open(s) \/ Drive(s) \/ Register(s) \/ End(s)
                                     \/ TakeUdp(s) \/ TakeStream(s)
      PROVE  ListenerBehind'
  BY <1>4, <1>5 DEF Open, Drive, Register, End, TakeUdp, TakeStream, dialer, listener, MotionTypeOK
<1>6. ASSUME NEW kind \in {"move", "key"}, SendUdp \/ SendStream(kind)
      PROVE  ListenerBehind'
  BY <1>4, <1>6 DEF SendUdp, SendStream, Count, listener, MotionTypeOK
<1>7. CASE OtherRegisters \/ UNCHANGED motionVars
  BY <1>4, <1>7 DEF OtherRegisters, motionVars, dialer, listener, MotionTypeOK
<1> QED
  BY <1>1, <1>2, <1>3, <1>5, <1>6, <1>7 DEF MotionNext

\* The next movement of a child that is the first on its epoch finds the sink of
\* its session, and neither the listener nor the session takes it for an old one.
THEOREM Gliding == MotionSpec => []NextDeltaGlides
<1>1. MotionInit => CountInv
  BY DEF MotionInit, CountInv, AirSent, QueueSent, WireSent, SessionBehind, ListenerBehind,
     DrivesOwn, Child
<1>2. MotionTypeOK /\ CountInv /\ [MotionNext]_motionVars => CountInv'
  BY AirStaysSent, QueueStaysSent, WireStaysSent, SessionStaysBehind,
     ListenerStaysBehind, DrivesOwnStays DEF CountInv
<1>3. MotionTypeOK /\ SinkOfNewest /\ CountInv => NextDeltaGlides
  <2> SUFFICES ASSUME MotionTypeOK, SinkOfNewest, CountInv,
                      NEW s \in Sessions \ mixed, Driven(s), FirstOnEpoch
               PROVE  sink = s /\ Glides(s)
    BY DEF NextDeltaGlides, FirstOnEpoch
  <2>1. sink = s
    BY MotionAssumption DEF Driven, SinkOfNewest
  <2>2. owner[s] = Child /\ Child # 0
    BY MotionAssumption DEF Driven, CountInv, DrivesOwn, MotionTypeOK
  <2> QED
    BY <2>1, <2>2 DEF Glides, CountInv, SessionBehind, ListenerBehind
<1> QED
  BY <1>1, <1>2, <1>3, MotionTyped, NewestHasSink, PTL DEF MotionSpec
----------------------------------------------------------------------------
(* A child gives every event a number of its own, so an event that waits   *)
(* on a stream is nowhere else, and one that the listener forwards is new. *)

Same(a, b) == a.child = b.child /\ a.n = b.n
Elems(q) == {q[i] : i \in DOMAIN q}

\* No event of S is in q twice.
Apart(q, S) == \A i, j \in DOMAIN q : i # j /\ q[i] \in S => ~Same(q[i], q[j])

Queued == UNION {Elems(queue[s]) : s \in Sessions}

LEMMA ElemsAppend ==
    ASSUME NEW q \in Seq(Events), NEW ev \in Events
    PROVE  Elems(Append(q, ev)) = Elems(q) \cup {ev}
<1>1. /\ Len(q) \in Nat /\ DOMAIN q = 1..Len(q) /\ DOMAIN Append(q, ev) = 1..(Len(q) + 1)
      /\ Append(q, ev)[Len(q) + 1] = ev
      /\ \A i \in 1..Len(q) : Append(q, ev)[i] = q[i]
  BY AppendProperties, LenProperties
<1>2. Len(q) + 1 \in 1..(Len(q) + 1) /\ \A i \in 1..Len(q) : i \in 1..(Len(q) + 1)
  BY <1>1
<1>3. \A i \in 1..(Len(q) + 1) : i = Len(q) + 1 \/ i \in 1..Len(q)
  BY <1>1
<1> DEFINE r == Append(q, ev)
<1> HIDE DEF r
<1>4. Elems(r) = Elems(q) \cup {ev}
  BY <1>1, <1>2, <1>3 DEF Elems, r
<1> QED
  BY <1>4 DEF r

LEMMA ElemsTail ==
    ASSUME NEW q \in Seq(Events), q # <<>>
    PROVE  Elems(Tail(q)) \subseteq Elems(q) /\ Head(q) \in Elems(q) /\ Head(q) \in Events
BY Shortened DEF Elems

LEMMA ElemsTyped ==
    ASSUME NEW q \in Seq(Events)
    PROVE  Elems(q) \in SUBSET Events /\ (q = <<>> => Elems(q) = {})
BY DEF Elems

LEMMA ApartAppend ==
    ASSUME NEW q \in Seq(Events), NEW ev \in Events, NEW S, Apart(q, S),
           \A x \in Elems(q) : x \in S \/ ev \in S => ~Same(x, ev)
    PROVE  Apart(Append(q, ev), S)
<1> DEFINE r == Append(q, ev)
<1>1. /\ Len(q) \in Nat /\ DOMAIN q = 1..Len(q) /\ DOMAIN r = 1..(Len(q) + 1)
      /\ r[Len(q) + 1] = ev
      /\ \A i \in 1..Len(q) : r[i] = q[i] /\ q[i] \in Elems(q)
  BY AppendProperties, LenProperties DEF Elems
<1> HIDE DEF r
<1>2. ASSUME NEW i \in DOMAIN r, NEW j \in DOMAIN r, i # j, r[i] \in S PROVE ~Same(r[i], r[j])
  <2>1. (i = Len(q) + 1 \/ i \in 1..Len(q)) /\ (j = Len(q) + 1 \/ j \in 1..Len(q))
    BY <1>1
  <2>2. CASE i \in 1..Len(q) /\ j \in 1..Len(q)
    BY <1>1, <1>2, <2>2 DEF Apart
  <2>3. CASE i = Len(q) + 1 /\ j \in 1..Len(q)
    BY <1>1, <1>2, <2>3 DEF Same
  <2>4. CASE j = Len(q) + 1 /\ i \in 1..Len(q)
    BY <1>1, <1>2, <2>4
  <2> QED
    BY <1>2, <2>1, <2>2, <2>3, <2>4
<1>3. Apart(r, S)
  BY <1>2 DEF Apart
<1> QED
  BY <1>3 DEF r

LEMMA ApartTail ==
    ASSUME NEW q \in Seq(Events), q # <<>>, NEW S, Apart(q, S)
    PROVE  /\ Apart(Tail(q), S)
           /\ Head(q) \in S => \A x \in Elems(Tail(q)) : ~Same(Head(q), x)
<1>1. /\ 1 \in DOMAIN q /\ Head(q) = q[1] /\ DOMAIN q = 1..Len(q) /\ Len(q) \in Nat
      /\ \A i \in DOMAIN Tail(q) : i + 1 \in DOMAIN q /\ Tail(q)[i] = q[i + 1]
      /\ DOMAIN Tail(q) = 1..(Len(q) - 1)
  BY Shortened, LenProperties
<1>2. Apart(Tail(q), S)
  <2>1. \A i, j \in DOMAIN Tail(q) : i # j => i + 1 # j + 1
    BY <1>1
  <2> QED
    BY <1>1, <2>1 DEF Apart
<1>3. ASSUME Head(q) \in S, NEW i \in DOMAIN Tail(q) PROVE ~Same(Head(q), Tail(q)[i])
  <2>1. i + 1 # 1
    BY <1>1
  <2> QED
    BY <1>1, <1>3, <2>1 DEF Apart
<1> QED
  BY <1>2, <1>3 DEF Elems
AppliedSent == \A ev \in applied : Sent(ev)

\* What waits on a stream is its child's, has come nowhere else, and is not
\* known to a session that was fed by that child alone.
WireInv ==
    \A s \in Sessions :
        /\ phase[s] \in {"none", "done"} => wire[s] = <<>>
        /\ Apart(wire[s], Events)
        /\ \A w \in Elems(wire[s]) :
              /\ w.child = owner[s]
              /\ \A f \in air \cup applied \cup Queued : ~Same(f, w)
              /\ \A t \in Sessions \ {s} : \A v \in Elems(wire[t]) : ~Same(v, w)
              /\ s \notin mixed => w.n \notin seen[s]

\* The sequences, as sets.
LEMMA ElemsFacts ==
    ASSUME MotionTypeOK
    PROVE  /\ \A s \in Sessions : /\ wire[s] \in Seq(Events) /\ Elems(wire[s]) \in SUBSET Events
                                  /\ queue[s] \in Seq(Events) /\ Elems(queue[s]) \in SUBSET Events
           /\ Queued \in SUBSET Events
           /\ WireSent => \A s \in Sessions : \A w \in Elems(wire[s]) : Sent(w)
           /\ QueueSent => \A f \in Queued : Sent(f)
<1>1. \A s \in Sessions : wire[s] \in Seq(Events) /\ queue[s] \in Seq(Events)
  BY DEF MotionTypeOK
<1>2. \A s \in Sessions : Elems(wire[s]) \in SUBSET Events /\ Elems(queue[s]) \in SUBSET Events
  BY <1>1, ElemsTyped
<1>3. WireSent => \A s \in Sessions : \A w \in Elems(wire[s]) : Sent(w)
  BY DEF WireSent, Elems
<1>4. QueueSent => \A s \in Sessions : \A w \in Elems(queue[s]) : Sent(w)
  BY DEF QueueSent, Elems
<1> QED
  BY <1>1, <1>2, <1>3, <1>4 DEF Queued

\* What handling one event may change.
LEMMA HandleFacts ==
    ASSUME MotionTypeOK, NEW s \in Sessions, NEW ev \in Events, Handle(s, ev)
    PROVE  /\ \A t \in Sessions \ {s} : seen'[t] = seen[t]
           /\ seen'[s] \subseteq seen[s] \cup {ev.n}
           /\ mixed \subseteq mixed'
           /\ s \notin mixed' => ev.child = owner[s]
           /\ applied' \subseteq applied \cup {ev}
           /\ ev \notin applied => again' = again
           /\ again' \subseteq again \cup {ev}
<1>1. seen'[s] \subseteq seen[s] \cup {ev.n} /\ \A t \in Sessions \ {s} : seen'[t] = seen[t]
  <2>1. /\ seen \in [Sessions -> SUBSET Nat]
        /\ \A S : KeepLargest(S) \subseteq S
    BY DEF KeepLargest, MotionTypeOK
  <2>2. \/ seen' = seen
        \/ seen' = [seen EXCEPT ![s] = @ \cup {ev.n}]
        \/ seen' = [seen EXCEPT ![s] = KeepLargest(@ \cup {ev.n})]
    BY DEF Handle
  <2> QED
    BY <2>1, <2>2
<1>2. mixed \subseteq mixed' /\ (s \notin mixed' => ev.child = owner[s])
  BY DEF Handle
<1>3. \/ UNCHANGED <<applied, again>>
      \/ applied' = applied \cup {ev} /\ again' = IF ev \in applied THEN again \cup {ev} ELSE again
  BY DEF Handle
<1>4. again' \subseteq again \cup {ev} /\ (ev \notin applied => again' = again)
  BY <1>3
<1> QED
  BY <1>1, <1>2, <1>3, <1>4
\* Nothing is added to a stream: what is new elsewhere must not wait there.
LEMMA WireShrinks ==
    ASSUME WireInv,
           \A s \in Sessions :
               /\ Elems(wire'[s]) \subseteq Elems(wire[s]) /\ Apart(wire'[s], Events)
               /\ phase'[s] \in {"none", "done"} => wire'[s] = <<>>
               /\ \A w \in Elems(wire'[s]) :
                     /\ owner'[s] = owner[s]
                     /\ s \notin mixed' => s \notin mixed /\ w.n \notin seen'[s],
           \A f \in air' \cup applied' \cup Queued' :
               \/ f \in air \cup applied \cup Queued
               \/ \A s \in Sessions : \A w \in Elems(wire'[s]) : ~Same(f, w)
    PROVE  WireInv'
<1>1. ASSUME NEW s \in Sessions, NEW w \in Elems(wire'[s])
      PROVE  /\ w.child = owner'[s]
             /\ \A f \in air' \cup applied' \cup Queued' : ~Same(f, w)
             /\ \A t \in Sessions \ {s} : \A v \in Elems(wire'[t]) : ~Same(v, w)
             /\ s \notin mixed' => w.n \notin seen'[s]
  <2>1. w \in Elems(wire[s])
    OBVIOUS
  <2>2. w.child = owner'[s] /\ (s \notin mixed' => w.n \notin seen'[s])
    BY <2>1 DEF WireInv
  <2>3. \A f \in air' \cup applied' \cup Queued' : ~Same(f, w)
    BY <2>1 DEF WireInv
  <2>4. \A t \in Sessions \ {s} : \A v \in Elems(wire'[t]) : ~Same(v, w)
    BY <2>1 DEF WireInv
  <2> QED
    BY <2>2, <2>3, <2>4
<1> QED
  BY <1>1 DEF WireInv

\* The streams, the sessions and the datagrams in hand are as they were.
LEMMA WireQuiet ==
    ASSUME WireInv, MotionTypeOK, UNCHANGED <<wire, applied, seen, mixed>>,
           air' \subseteq air, Queued' \subseteq Queued \cup air,
           \A s \in Sessions : /\ phase'[s] \in {"none", "done"} => phase[s] \in {"none", "done"}
                               /\ owner'[s] = owner[s] \/ phase[s] = "none"
    PROVE  WireInv'
<1>1. ASSUME NEW s \in Sessions
      PROVE  /\ Elems(wire'[s]) = Elems(wire[s]) /\ Apart(wire'[s], Events)
             /\ phase'[s] \in {"none", "done"} => wire'[s] = <<>>
             /\ Elems(wire[s]) # {} => owner'[s] = owner[s]
             /\ \A w \in Elems(wire[s]) : s \notin mixed => w.n \notin seen[s]
  BY ElemsFacts, ElemsTyped DEF WireInv
<1> QED
  BY <1>1, WireShrinks

LEMMA WireStays ==
    ASSUME MotionTypeOK, CountInv, AppliedSent, WireInv, [MotionNext]_motionVars
    PROVE  WireInv'
<1> USE MotionAssumption
<1>0. \A s \in Sessions : Apart(wire[s], Events) /\ Apart(<<>>, Events) /\ Elems(<<>>) = {}
  BY DEF WireInv, Apart, Elems
<1>1. ASSUME NEW e \in Epochs, Dial(e) \/ Forget(e) PROVE WireInv'
  BY <1>1, WireQuiet DEF Dial, Forget, listener, motionSession, dialer, Queued
<1>2. ASSUME NEW s \in Sessions, Open(s) \/ Register(s) PROVE WireInv'
  <2>1. \A t \in Sessions : /\ phase'[t] \in {"none", "done"} => phase[t] \in {"none", "done"}
                            /\ owner'[t] = owner[t] \/ phase[t] = "none"
    BY <1>2 DEF Open, Register, MotionTypeOK
  <2> QED
    BY <1>2, <2>1, WireQuiet DEF Open, Register, listener, dialer, Queued
<1>3. ASSUME NEW s \in Sessions, Drive(s) PROVE WireInv'
  BY <1>3, WireQuiet DEF Drive, listener, motionSession, Queued
<1>4. CASE OtherRegisters \/ UNCHANGED motionVars
  BY <1>4, WireQuiet DEF OtherRegisters, motionVars, listener, motionSession, dialer, Queued
<1>5. ASSUME NEW m \in air, Arrive(m) PROVE WireInv'
  <2>1. m \in Events /\ \A s \in Sessions : Elems(Append(queue[s], m)) = Elems(queue[s]) \cup {m}
    BY ElemsFacts, ElemsAppend DEF MotionTypeOK
  <2>2. \A s \in Sessions : queue'[s] \in {queue[s], Append(queue[s], m)}
    BY <1>5 DEF Arrive, Forward
  <2>3. ASSUME NEW s \in Sessions, NEW f \in Elems(queue'[s]) PROVE f \in Queued \cup air
    <3>1. f \in Elems(queue[s]) \/ f = m
      BY <2>1, <2>2, <2>3
    <3> QED
      BY <3>1 DEF Queued
  <2>4. air' \subseteq air
    BY <1>5 DEF Arrive
  <2>5. Queued' \subseteq Queued \cup air
    BY <2>3 DEF Queued
  <2> QED
    BY <1>5, <2>4, <2>5, WireQuiet DEF Arrive
<1>6. CASE SendUdp
  <2>1. /\ UNCHANGED <<wire, queue, phase, owner, seen, mixed, applied>>
        /\ air' = air \cup {Event("move")} /\ drive # None
    BY <1>6 DEF SendUdp, motionSession
  <2>2. Event("move").child = Child /\ Event("move").n = sequence + 1 /\ sequence \in Nat
    BY DEF Event, MotionTypeOK
  <2>3. ASSUME NEW s \in Sessions, NEW w \in Elems(wire[s]) PROVE ~Same(Event("move"), w)
    <3>1. Sent(w) /\ w.n \in Nat
      BY ElemsFacts DEF CountInv, Events
    <3> QED
      BY <2>2, <3>1 DEF Sent, Same
  <2>4. \A s \in Sessions : /\ phase[s] \in {"none", "done"} => wire[s] = <<>>
                            /\ \A w \in Elems(wire[s]) : s \notin mixed => w.n \notin seen[s]
    BY DEF WireInv
  <2>5. Queued' = Queued
    BY <2>1 DEF Queued
  <2> QED
    BY <1>0, <2>1, <2>3, <2>4, <2>5, WireShrinks
<1>7. ASSUME NEW s \in Sessions, End(s) PROVE WireInv'
  <2>1. \A t \in Sessions : /\ t # s => wire'[t] = wire[t] /\ queue'[t] = queue[t]
                                        /\ phase'[t] = phase[t]
                            /\ t = s => wire'[t] = <<>> /\ queue'[t] = <<>>
    BY <1>7 DEF End, MotionTypeOK
  <2>2. Queued' \subseteq Queued
    BY <1>0, <2>1 DEF Queued
  <2>3. UNCHANGED <<air, applied, owner, seen, mixed>>
    BY <1>7 DEF End
  <2>4. \A t \in Sessions : /\ phase[t] \in {"none", "done"} => wire[t] = <<>>
                            /\ \A w \in Elems(wire[t]) : t \notin mixed => w.n \notin seen[t]
    BY DEF WireInv
  <2>5. \A t \in Sessions : /\ Elems(wire'[t]) \subseteq Elems(wire[t]) /\ Apart(wire'[t], Events)
                            /\ phase'[t] \in {"none", "done"} => wire'[t] = <<>>
    BY <1>0, <2>1, <2>4
  <2> QED
    BY <2>2, <2>3, <2>4, <2>5, WireShrinks
<1>8. ASSUME NEW s \in Sessions, TakeUdp(s) PROVE WireInv'
  <2> DEFINE ev == Head(queue[s])
  <2>1. /\ UNCHANGED <<wire, phase, owner, air>> /\ Handle(s, ev) /\ queue[s] # <<>>
        /\ \A t \in Sessions : queue'[t] = IF t = s THEN Tail(queue[s]) ELSE queue[t]
    BY <1>8 DEF TakeUdp, listener, MotionTypeOK
  <2>2. ev \in Events /\ ev \in Elems(queue[s]) /\ Elems(Tail(queue[s])) \subseteq Elems(queue[s])
    BY <2>1, ElemsFacts, ElemsTail
  <2>3. Queued' \subseteq Queued /\ ev \in Queued
    BY <2>1, <2>2 DEF Queued
  <2> HIDE DEF ev
  <2>4. applied' \subseteq applied \cup {ev} /\ mixed \subseteq mixed'
    BY <2>1, <2>2, HandleFacts
  <2>5. ASSUME NEW t \in Sessions, NEW w \in Elems(wire[t]), t \notin mixed'
        PROVE  t \notin mixed /\ w.n \notin seen'[t]
    <3>1. t \notin mixed /\ w.n \notin seen[t] /\ w.child = owner[t] /\ ~Same(ev, w)
      BY <2>3, <2>4, <2>5 DEF WireInv
    <3>2. CASE t = s
      BY <2>1, <2>2, <2>5, <3>1, <3>2, HandleFacts DEF Same
    <3>3. CASE t # s
      BY <2>1, <2>2, <3>1, <3>3, HandleFacts
    <3> QED
      BY <3>2, <3>3
  <2>6. \A t \in Sessions : phase[t] \in {"none", "done"} => wire[t] = <<>>
    BY DEF WireInv
  <2> QED
    BY <1>0, <2>1, <2>3, <2>4, <2>5, <2>6, WireShrinks
<1>9. ASSUME NEW s \in Sessions, TakeStream(s) PROVE WireInv'
  <2> DEFINE ev == Head(wire[s])
  <2>1. /\ UNCHANGED <<queue, phase, owner, air>> /\ Handle(s, ev) /\ wire[s] # <<>>
        /\ \A t \in Sessions : wire'[t] = IF t = s THEN Tail(wire[s]) ELSE wire[t]
    BY <1>9 DEF TakeStream, listener, MotionTypeOK
  <2>2. /\ ev \in Events /\ ev \in Elems(wire[s]) /\ Elems(Tail(wire[s])) \subseteq Elems(wire[s])
        /\ Apart(Tail(wire[s]), Events) /\ \A x \in Elems(Tail(wire[s])) : ~Same(ev, x)
    BY <1>0, <2>1, ElemsFacts, ElemsTail, ApartTail
  <2>3. Queued' = Queued
    BY <2>1 DEF Queued
  <2> HIDE DEF ev
  <2>4. applied' \subseteq applied \cup {ev} /\ mixed \subseteq mixed'
    BY <2>1, <2>2, HandleFacts
  <2>5. ASSUME NEW t \in Sessions, NEW w \in Elems(wire'[t])
        PROVE  w \in Elems(wire[t]) /\ ~Same(ev, w)
    <3>1. CASE t = s
      BY <2>1, <2>2, <3>1, <2>5
    <3>2. CASE t # s
      <4>1. w \in Elems(wire[t])
        BY <2>1, <2>5, <3>2
      <4> QED
        BY <2>2, <3>2, <4>1 DEF WireInv
    <3> QED
      BY <3>1, <3>2
  <2>6. ASSUME NEW t \in Sessions, NEW w \in Elems(wire'[t]), t \notin mixed'
        PROVE  t \notin mixed /\ w.n \notin seen'[t]
    <3>1. t \notin mixed /\ w.n \notin seen[t] /\ w.child = owner[t] /\ ~Same(ev, w)
      BY <2>4, <2>5, <2>6 DEF WireInv
    <3>2. CASE t = s
      BY <2>1, <2>2, <2>6, <3>1, <3>2, HandleFacts DEF Same
    <3>3. CASE t # s
      BY <2>1, <2>2, <3>1, <3>3, HandleFacts
    <3> QED
      BY <3>2, <3>3
  <2>7. \A t \in Sessions : /\ Apart(wire'[t], Events)
                            /\ phase'[t] \in {"none", "done"} => wire'[t] = <<>>
    <3>1. phase[s] \notin {"none", "done"}
      BY <2>1 DEF WireInv
    <3> QED
      BY <1>0, <2>1, <2>2, <3>1 DEF WireInv
  <2> QED
    BY <2>1, <2>3, <2>4, <2>5, <2>6, <2>7, WireShrinks
<1>10. ASSUME NEW kind \in {"move", "key"}, SendStream(kind) PROVE WireInv'
  <2> DEFINE ev == Event(kind)
  <2>1. /\ UNCHANGED <<queue, phase, owner, air, seen, mixed, applied>> /\ drive \in Sessions
        /\ wire' = wire \/ \A t \in Sessions : wire'[t] = IF t = drive THEN Append(wire[t], ev)
                                                          ELSE wire[t]
    BY <1>10 DEF SendStream, listener, MotionTypeOK
  <2>2. CASE wire' = wire
    BY <2>1, <2>2, WireQuiet DEF Queued
  <2>3. CASE \A t \in Sessions : wire'[t] = IF t = drive THEN Append(wire[t], ev) ELSE wire[t]
    <3>1. /\ ev \in Events /\ ev.child = Child /\ ev.n = sequence + 1 /\ sequence \in Nat
          /\ owner[drive] = Child /\ phase[drive] \in {"accepted", "open"}
      BY <1>10, MotionAssumption DEF Event, Events, MotionTypeOK, Child, CountInv, DrivesOwn,
         SendStream
    <3>2. ASSUME NEW f, f \in Events, Sent(f) PROVE ~Same(f, ev) /\ ~Same(ev, f)
      BY <3>1, <3>2 DEF Sent, Same, Events
    <3> HIDE DEF ev
    <3>3. /\ Elems(wire'[drive]) = Elems(wire[drive]) \cup {ev} /\ wire[drive] \in Seq(Events)
          /\ \A x \in Elems(wire[drive]) : ~Same(x, ev)
      BY <2>1, <2>3, <3>1, <3>2, ElemsFacts, ElemsAppend DEF CountInv
    <3>4. \A t \in Sessions : Apart(wire'[t], Events)
      BY <1>0, <2>1, <2>3, <3>1, <3>3, ApartAppend
    <3>5. \A f \in air \cup applied \cup Queued : ~Same(f, ev)
      BY <3>2, ElemsFacts DEF CountInv, AirSent, AppliedSent, MotionTypeOK
    <3>6. \A t \in Sessions : \A v \in Elems(wire[t]) : ~Same(v, ev) /\ ~Same(ev, v)
      BY <3>2, ElemsFacts DEF CountInv
    <3>7. drive \notin mixed => ev.n \notin seen[drive]
      BY <2>1, <3>1 DEF CountInv, SessionBehind, MotionTypeOK
    <3>8. \A t \in Sessions : \A w \in Elems(wire'[t]) :
             w \in Elems(wire[t]) \/ (t = drive /\ w = ev)
      BY <2>3, <3>3
    <3>9. Queued' = Queued
      BY <2>1 DEF Queued
    <3>10. ASSUME NEW t \in Sessions, NEW w \in Elems(wire'[t])
           PROVE  /\ w.child = owner[t]
                  /\ \A f \in air \cup applied \cup Queued : ~Same(f, w)
                  /\ \A u \in Sessions \ {t} : \A v \in Elems(wire'[u]) : ~Same(v, w)
                  /\ t \notin mixed => w.n \notin seen[t]
      <4>1. CASE w \in Elems(wire[t])
        <5>1. /\ w.child = owner[t]
              /\ \A f \in air \cup applied \cup Queued : ~Same(f, w)
              /\ \A u \in Sessions \ {t} : \A v \in Elems(wire[u]) : ~Same(v, w)
              /\ t \notin mixed => w.n \notin seen[t]
          BY <4>1 DEF WireInv
        <5> QED
          BY <3>6, <3>8, <4>1, <5>1
      <4>2. CASE t = drive /\ w = ev
        BY <3>1, <3>5, <3>6, <3>7, <3>8, <4>2
      <4> QED
        BY <3>8, <4>1, <4>2
    <3>11. \A t \in Sessions : phase'[t] \in {"none", "done"} => wire'[t] = <<>>
      BY <2>1, <2>3, <3>1 DEF WireInv
    <3> QED
      BY <2>1, <3>4, <3>9, <3>10, <3>11 DEF WireInv
  <2> QED
    BY <2>1, <2>2, <2>3
<1> QED
  BY <1>1, <1>2, <1>3, <1>4, <1>5, <1>6, <1>7, <1>8, <1>9, <1>10 DEF MotionNext
LEMMA AppliedStaysSent ==
    ASSUME MotionTypeOK, CountInv, AppliedSent, [MotionNext]_motionVars
    PROVE  AppliedSent'
<1> USE MotionAssumption
<1>1. \A m \in Events : Sent(m) => Sent(m)'
  BY StaysSent
<1>2. ASSUME NEW ev \in Events, Sent(ev), applied' \subseteq applied \cup {ev}
      PROVE  AppliedSent'
  BY <1>1, <1>2 DEF AppliedSent, MotionTypeOK
<1>3. ASSUME NEW s \in Sessions, TakeUdp(s) PROVE AppliedSent'
  <2>1. Head(queue[s]) \in Elems(queue[s]) /\ Head(queue[s]) \in Events
    BY <1>3, ElemsFacts, ElemsTail DEF TakeUdp
  <2>2. Sent(Head(queue[s]))
    BY <2>1, ElemsFacts DEF CountInv, Queued
  <2> QED
    BY <1>2, <1>3, <2>1, <2>2, HandleFacts DEF TakeUdp
<1>4. ASSUME NEW s \in Sessions, TakeStream(s) PROVE AppliedSent'
  <2>1. Head(wire[s]) \in Elems(wire[s]) /\ Head(wire[s]) \in Events
    BY <1>4, ElemsFacts, ElemsTail DEF TakeStream
  <2>2. Sent(Head(wire[s]))
    BY <2>1, ElemsFacts DEF CountInv
  <2> QED
    BY <1>2, <1>4, <2>1, <2>2, HandleFacts DEF TakeStream
<1>5. ASSUME UNCHANGED applied PROVE AppliedSent'
  BY <1>1, <1>5 DEF AppliedSent, MotionTypeOK
<1> QED
  BY <1>3, <1>4, <1>5 DEF MotionNext, motionVars, motionSession, Dial, Forget, Open, Drive,
     Register, End, SendUdp, SendStream, OtherRegisters, Arrive

\* The numbers that are on their way: never beyond their child's counter, and
\* none of them twice.
THEOREM Numbered == MotionSpec => [](CountInv /\ AppliedSent /\ WireInv)
<1>1. MotionInit => CountInv /\ AppliedSent /\ WireInv
  <2>1. MotionInit => CountInv /\ AppliedSent
    BY DEF MotionInit, CountInv, AirSent, QueueSent, WireSent, SessionBehind, ListenerBehind,
       DrivesOwn, Child, AppliedSent
  <2>2. Apart(<<>>, Events) /\ Elems(<<>>) = {}
    BY DEF Apart, Elems
  <2> QED
    BY <2>1, <2>2 DEF MotionInit, WireInv
<1>2. MotionTypeOK /\ CountInv /\ AppliedSent /\ WireInv /\ [MotionNext]_motionVars
         => (CountInv /\ AppliedSent /\ WireInv)'
  <2>1. MotionTypeOK /\ CountInv /\ [MotionNext]_motionVars => CountInv'
    BY AirStaysSent, QueueStaysSent, WireStaysSent, SessionStaysBehind,
       ListenerStaysBehind, DrivesOwnStays DEF CountInv
  <2> QED
    BY <2>1, AppliedStaysSent, WireStays
<1> QED
  BY <1>1, <1>2, MotionTyped, PTL DEF MotionSpec

\* A key or a scroll waits on a stream under a number that nothing else the
\* session took can have brought it, whatever ran ahead of it.
THEOREM KeysAreNew == MotionSpec => []KeysGetThrough
<1>1. WireInv => KeysGetThrough
  <2> SUFFICES ASSUME WireInv, NEW s \in Sessions \ mixed, NEW i \in DOMAIN wire[s],
                      wire[s][i].kind = "key"
               PROVE  ~Duplicate(s, wire[s][i]) /\ ~Stale(s, wire[s][i])
    BY DEF KeysGetThrough
  <2>1. wire[s][i] \in Elems(wire[s])
    BY DEF Elems
  <2> QED
    BY <2>1 DEF WireInv, Duplicate, Stale
<1> QED
  BY <1>1, Numbered, PTL
----------------------------------------------------------------------------
(* A datagram is forwarded when it is newer than all that its epoch's key  *)
(* has brought, and so once.                                               *)

\* The events of the epochs whose last_seq the listener has not forgotten.
Known == {ev \in Events : link[ev.child] \notin forgotten}

OnceInv ==
    /\ \A f \in Known : f \in Queued \/ (f \in air /\ f \in applied) => f.n <= last[link[f.child]]
    /\ \A s \in Sessions :
          /\ Apart(queue[s], Known)
          /\ \A f \in Elems(queue[s]) \cap Known :
                f \notin applied /\ \A t \in Sessions \ {s} : f \notin Elems(queue[t])
    /\ AppliedOnce

\* Nothing is forwarded, and nothing applied.
LEMMA OnceQuiet ==
    ASSUME MotionTypeOK, CountInv, AppliedSent, OnceInv,
           UNCHANGED <<queue, applied, again, last, forgotten>>,
           air' \cap applied \subseteq air,
           \A c \in 1..Child : link'[c] = link[c]
    PROVE  OnceInv'
<1>1. ASSUME NEW f \in Events, f \in Queued \cup applied, f \in Known' PROVE f \in Known
  <2>1. Sent(f)
    BY <1>1, ElemsFacts DEF CountInv, AppliedSent
  <2> QED
    BY <1>1, <2>1 DEF Known, Sent
<1>2. ASSUME NEW f \in Queued \cup applied PROVE f \in Events /\ link'[f.child] = link[f.child]
  BY <1>2, ElemsFacts DEF CountInv, AppliedSent, Sent, MotionTypeOK
<1>3. Queued' = Queued
  BY DEF Queued
<1>4. \A s \in Sessions : Elems(queue[s]) \subseteq Queued
  BY DEF Queued
<1>5. ASSUME NEW s \in Sessions PROVE Apart(queue[s], Known')
  <2>1. \A i \in DOMAIN queue[s] : queue[s][i] \in Elems(queue[s])
    BY DEF Elems
  <2> QED
    BY <1>1, <1>2, <1>4, <2>1 DEF OnceInv, Apart
<1>6. ASSUME NEW f \in Known', f \in Queued \/ (f \in air' /\ f \in applied)
      PROVE  f.n <= last[link'[f.child]]
  BY <1>1, <1>2, <1>6 DEF OnceInv
<1>7. AppliedOnce'
  BY <1>2 DEF OnceInv, AppliedOnce, MotionTypeOK
<1>8. ASSUME NEW s \in Sessions, NEW f \in Elems(queue[s]) \cap Known'
      PROVE  f \notin applied /\ \A t \in Sessions \ {s} : f \notin Elems(queue[t])
  BY <1>1, <1>2, <1>4 DEF OnceInv
<1> QED
  BY <1>3, <1>5, <1>6, <1>7, <1>8 DEF OnceInv

LEMMA ForgetOnce ==
    ASSUME MotionTypeOK, CountInv, AppliedSent, OnceInv, NEW e \in Epochs, Forget(e)
    PROVE  OnceInv'
<1>1. /\ UNCHANGED <<link, air, queue, applied, again>> /\ last' = [last EXCEPT ![e] = 0]
      /\ forgotten' = forgotten \cup {e}
  BY DEF Forget, dialer, motionSession
<1>2. Queued' = Queued
  BY <1>1 DEF Queued
<1>3. Known' \subseteq Known /\ \A f \in Known' : link[f.child] # e
  BY <1>1 DEF Known
<1>4. ASSUME NEW f \in Known', f \in Queued \/ (f \in air /\ f \in applied)
      PROVE  f.n <= last'[link[f.child]]
  <2>1. f \in Known /\ link[f.child] # e /\ f.n <= last[link[f.child]]
    BY <1>3, <1>4 DEF OnceInv
  <2>2. link[f.child] \in Epochs
    <3>1. Sent(f)
      BY <1>4, ElemsFacts DEF CountInv, AppliedSent
    <3> QED
      BY <3>1, Linked DEF Sent
  <2> QED
    BY <1>1, <2>1, <2>2 DEF MotionTypeOK
<1>5. \A s \in Sessions : Apart(queue[s], Known')
  BY <1>3 DEF OnceInv, Apart
<1>6. AppliedOnce'
  BY <1>1 DEF OnceInv, AppliedOnce
<1> QED
  BY <1>1, <1>2, <1>3, <1>4, <1>5, <1>6 DEF OnceInv

LEMMA EndOnce ==
    ASSUME MotionTypeOK, OnceInv, NEW s \in Sessions, End(s)
    PROVE  OnceInv'
<1>1. /\ UNCHANGED <<link, air, applied, again, last, forgotten>>
      /\ \A t \in Sessions : queue'[t] = IF t = s THEN <<>> ELSE queue[t]
  BY DEF End, MotionTypeOK
<1>2. Elems(<<>>) = {} /\ \A S : Apart(<<>>, S)
  BY DEF Elems, Apart
<1>3. Queued' \subseteq Queued /\ Known' = Known
  BY <1>1, <1>2 DEF Queued, Known
<1>4. \A t \in Sessions : /\ Apart(queue'[t], Known)
                          /\ Elems(queue'[t]) \subseteq Elems(queue[t])
  BY <1>1, <1>2 DEF OnceInv
<1>5. AppliedOnce'
  BY <1>1 DEF OnceInv, AppliedOnce
<1> QED
  BY <1>1, <1>3, <1>4, <1>5 DEF OnceInv
\* A datagram that is forwarded is newer than all its key has brought.
LEMMA ArriveOnce ==
    ASSUME MotionTypeOK, CountInv, AppliedSent, OnceInv, NEW m \in air, Arrive(m)
    PROVE  OnceInv'
<1> USE MotionAssumption
<1>1. /\ UNCHANGED <<link, applied, again, forgotten>> /\ air' \subseteq air
      /\ Known' = Known
  BY DEF Arrive, dialer, Known
<1>2. m \in Events /\ m.child \in 1..Child /\ link[m.child] \in Epochs /\ m.n \in Nat
  BY Linked DEF CountInv, AirSent, Sent, MotionTypeOK, Events
<1>3. CASE ~Fresh(m)
  <2>1. UNCHANGED <<queue, last>>
    BY <1>3 DEF Arrive
  <2> QED
    BY <1>1, <2>1, OnceQuiet
<1>4. CASE Fresh(m)
  <2> DEFINE e == link[m.child]
  <2>1. /\ m.n > last[e] /\ last' = [last EXCEPT ![e] = m.n]
        /\ last[e] \in Nat
        /\ \A t \in Sessions : \/ queue'[t] = queue[t]
                               \/ t = sink /\ queue'[t] = Append(queue[t], m)
    BY <1>2, <1>4 DEF Arrive, Fresh, Heard, Forward, MotionTypeOK
  <2>2. \A t \in Sessions : Elems(Append(queue[t], m)) = Elems(queue[t]) \cup {m}
    BY <1>2, ElemsFacts, ElemsAppend
  <2>3. ASSUME NEW t \in Sessions, NEW f \in Elems(queue'[t])
        PROVE  f \in Elems(queue[t]) \/ (f = m /\ t = sink)
    BY <2>1, <2>2, <2>3
  \* What is queued or applied of this epoch has an older number.
  <2>4. ASSUME NEW f \in Known, f \in Queued \/ (f \in air /\ f \in applied)
        PROVE  /\ f.n \in Nat /\ f.n <= last[link[f.child]] /\ link[f.child] \in Epochs
               /\ last[link[f.child]] \in Nat /\ ~Same(f, m)
    <3>1. f.n \in Nat /\ f.n <= last[link[f.child]]
      BY <2>4 DEF OnceInv, Known, Events
    <3>2. link[f.child] \in Epochs
      <4>1. Sent(f)
        BY <2>4, ElemsFacts DEF CountInv, AppliedSent
      <4> QED
        BY <4>1, Linked DEF Sent
    <3>3. last[link[f.child]] \in Nat
      BY <3>2 DEF MotionTypeOK
    <3>4. ~Same(f, m)
      BY <1>2, <2>1, <3>1, <3>3 DEF Same
    <3> QED
      BY <3>1, <3>2, <3>3, <3>4
  <2>5. ASSUME NEW f \in Known, f \in Queued' \/ (f \in air' /\ f \in applied)
        PROVE  f.n <= last'[link[f.child]]
    <3>1. f \in Queued \/ (f \in air /\ f \in applied) \/ f = m
      BY <1>1, <2>3, <2>5 DEF Queued
    <3>2. CASE f = m
      BY <1>2, <2>1, <3>2 DEF MotionTypeOK
    <3>3. CASE f \in Queued \/ (f \in air /\ f \in applied)
      <4>1. /\ f.n \in Nat /\ f.n <= last[link[f.child]] /\ link[f.child] \in Epochs
            /\ last[link[f.child]] \in Nat
        BY <2>4, <3>3
      <4>2. last'[link[f.child]] = last[link[f.child]] \/ link[f.child] = e
        BY <2>1, <4>1 DEF MotionTypeOK
      <4>3. last'[e] = m.n
        BY <1>2, <2>1 DEF MotionTypeOK
      <4> QED
        BY <1>2, <2>1, <4>1, <4>2, <4>3
    <3> QED
      BY <3>1, <3>2, <3>3
  <2>6. \A t \in Sessions : Elems(queue[t]) \subseteq Queued /\ Queued \in SUBSET Events
    BY ElemsFacts DEF Queued
  <2>7. ASSUME NEW t \in Sessions PROVE Apart(queue'[t], Known)
    <3>1. Apart(queue[t], Known) /\ queue[t] \in Seq(Events)
      BY ElemsFacts DEF OnceInv
    <3>2. ASSUME NEW x \in Elems(queue[t]), x \in Known \/ m \in Known PROVE ~Same(x, m)
      <4>1. Same(x, m) => x \in Known
        BY <2>6, <3>2 DEF Same, Known
      <4> QED
        BY <2>4, <2>6, <4>1
    <3>3. Apart(Append(queue[t], m), Known)
      BY <1>2, <3>1, <3>2, ApartAppend
    <3> QED
      BY <2>1, <3>1, <3>3
  <2>8. m \in Known => m \notin applied /\ m \notin Queued
    BY <2>4 DEF Same
  <2>9. ASSUME NEW t \in Sessions, NEW f \in Elems(queue'[t]) \cap Known
        PROVE  f \notin applied /\ \A u \in Sessions \ {t} : f \notin Elems(queue'[u])
    <3>1. CASE f \in Elems(queue[t])
      <4>1. f \notin applied /\ \A u \in Sessions \ {t} : f \notin Elems(queue[u])
        BY <2>9, <3>1 DEF OnceInv
      <4>2. f # m
        BY <2>6, <2>8, <2>9, <3>1
      <4> QED
        BY <2>3, <4>1, <4>2
    <3>2. CASE f = m /\ t = sink
      BY <2>3, <2>6, <2>8, <2>9, <3>2
    <3> QED
      BY <2>3, <2>9, <3>1, <3>2
  <2>10. AppliedOnce'
    BY <1>1 DEF OnceInv, AppliedOnce
  <2> QED
    BY <1>1, <2>5, <2>7, <2>9, <2>10 DEF OnceInv
<1> QED
  BY <1>3, <1>4

\* A datagram is applied from the one sink it waits in ...
LEMMA TakeUdpOnce ==
    ASSUME MotionTypeOK, OnceInv, NEW s \in Sessions, TakeUdp(s)
    PROVE  OnceInv'
<1> DEFINE ev == Head(queue[s])
<1>1. /\ UNCHANGED <<link, air, last, forgotten>> /\ Handle(s, ev) /\ queue[s] # <<>>
      /\ \A t \in Sessions : queue'[t] = IF t = s THEN Tail(queue[s]) ELSE queue[t]
      /\ Known' = Known
  BY DEF TakeUdp, listener, dialer, Known, MotionTypeOK
<1>2. /\ ev \in Events /\ ev \in Elems(queue[s]) /\ Elems(Tail(queue[s])) \subseteq Elems(queue[s])
      /\ Apart(Tail(queue[s]), Known)
      /\ ev \in Known => \A x \in Elems(Tail(queue[s])) : ~Same(ev, x)
  BY <1>1, ElemsFacts, ElemsTail, ApartTail DEF OnceInv
<1> HIDE DEF ev
<1>3. applied' \subseteq applied \cup {ev} /\ again' \subseteq again \cup {ev}
      /\ (ev \notin applied => again' = again)
  BY <1>1, <1>2, HandleFacts
<1>4. \A t \in Sessions : Elems(queue'[t]) \subseteq Elems(queue[t]) /\ Apart(queue'[t], Known)
  BY <1>1, <1>2 DEF OnceInv
<1>5. Queued' \subseteq Queued /\ ev \in Queued
  BY <1>2, <1>4 DEF Queued
<1>6. ASSUME NEW f \in Known, f \in Queued' \/ (f \in air /\ f \in applied')
      PROVE  f.n <= last[link[f.child]]
  BY <1>3, <1>5, <1>6 DEF OnceInv
<1>7. ASSUME NEW t \in Sessions, NEW f \in Elems(queue'[t]) \cap Known
      PROVE  f \notin applied' /\ \A u \in Sessions \ {t} : f \notin Elems(queue'[u])
  <2>1. f \in Elems(queue[t]) \cap Known
    BY <1>4, <1>7
  <2>2. f \notin applied /\ \A u \in Sessions \ {t} : f \notin Elems(queue[u])
    BY <2>1 DEF OnceInv
  <2>3. f # ev
    <3>1. CASE t = s
      BY <1>1, <1>2, <1>7, <3>1 DEF Same
    <3>2. CASE t # s
      BY <1>2, <2>2, <3>2
    <3> QED
      BY <3>1, <3>2
  <2> QED
    BY <1>3, <1>4, <2>2, <2>3
<1>8. AppliedOnce'
  <2>1. ev \in Known => ev \notin applied
    BY <1>2 DEF OnceInv
  <2>2. again' = again \/ (again' \subseteq again \cup {ev} /\ link[ev.child] \in forgotten)
    BY <1>2, <1>3, <2>1 DEF Known
  <2> QED
    BY <1>1, <2>2 DEF OnceInv, AppliedOnce
<1> QED
  BY <1>1, <1>4, <1>6, <1>7, <1>8 DEF OnceInv

\* ... and what comes on a stream has come no other way.
LEMMA TakeStreamOnce ==
    ASSUME MotionTypeOK, WireInv, OnceInv, NEW s \in Sessions, TakeStream(s)
    PROVE  OnceInv'
<1> DEFINE ev == Head(wire[s])
<1>1. /\ UNCHANGED <<link, air, last, forgotten, queue>> /\ Handle(s, ev) /\ wire[s] # <<>>
      /\ Known' = Known /\ Queued' = Queued
  BY DEF TakeStream, listener, dialer, Known, Queued
<1>2. ev \in Events /\ ev \in Elems(wire[s])
  BY <1>1, ElemsFacts, ElemsTail
<1> HIDE DEF ev
<1>3. ev \notin air \cup applied \cup Queued
  BY <1>2 DEF WireInv, Same
<1>4. applied' \subseteq applied \cup {ev} /\ again' = again
  BY <1>1, <1>2, <1>3, HandleFacts
<1>5. \A t \in Sessions : Elems(queue[t]) \subseteq Queued
  BY DEF Queued
<1>6. ASSUME NEW f \in Known, f \in Queued \/ (f \in air /\ f \in applied')
      PROVE  f.n <= last[link[f.child]]
  BY <1>3, <1>4, <1>6 DEF OnceInv
<1>7. ASSUME NEW t \in Sessions, NEW f \in Elems(queue[t]) \cap Known
      PROVE  f \notin applied' /\ \A u \in Sessions \ {t} : f \notin Elems(queue[u])
  BY <1>3, <1>4, <1>5, <1>7 DEF OnceInv
<1>8. AppliedOnce'
  BY <1>1, <1>4 DEF OnceInv, AppliedOnce
<1> QED
  BY <1>1, <1>6, <1>7, <1>8 DEF OnceInv

\* No movement of the peer's hand is applied twice, over whatever paths and
\* sessions it comes, as long as the listener remembers the numbers of its key.
THEOREM NothingTwice == MotionSpec => []AppliedOnce
<1>1. MotionInit => OnceInv
  <2>1. Elems(<<>>) = {} /\ \A S : Apart(<<>>, S)
    BY DEF Elems, Apart
  <2> QED
    BY <2>1 DEF MotionInit, OnceInv, AppliedOnce, Queued
<1>2. ASSUME MotionTypeOK, CountInv, AppliedSent, WireInv, OnceInv, [MotionNext]_motionVars
      PROVE  OnceInv'
  <2>1. ASSUME NEW e \in Epochs, Dial(e) PROVE OnceInv'
    BY <1>2, <2>1, Dialled, OnceQuiet
  <2>2. ASSUME NEW s \in Sessions, Open(s) \/ Drive(s) \/ Register(s) PROVE OnceInv'
    BY <1>2, <2>2, OnceQuiet DEF Open, Drive, Register, dialer, listener, motionSession
  <2>3. CASE SendUdp
    <3>1. Event("move") \notin applied
      BY <1>2 DEF AppliedSent, Sent, Event, MotionTypeOK
    <3> QED
      BY <1>2, <2>3, <3>1, OnceQuiet DEF SendUdp, motionSession
  <2>4. ASSUME NEW kind \in {"move", "key"}, SendStream(kind) PROVE OnceInv'
    BY <1>2, <2>4, OnceQuiet DEF SendStream, listener
  <2>5. CASE OtherRegisters \/ UNCHANGED motionVars
    BY <1>2, <2>5, OnceQuiet DEF OtherRegisters, motionVars, dialer, listener, motionSession
  <2> QED
    BY <1>2, <2>1, <2>2, <2>3, <2>4, <2>5, ForgetOnce, EndOnce, ArriveOnce, TakeUdpOnce,
       TakeStreamOnce DEF MotionNext
<1>3. OnceInv => AppliedOnce
  BY DEF OnceInv
<1> QED
  BY <1>1, <1>2, <1>3, MotionTyped, Numbered, PTL DEF MotionSpec
=============================================================================
