--------------------------- MODULE Capture_proofs ---------------------------
(***************************************************************************)
(* What a person holds down and what the driver is told (Capture), for any *)
(* number of input nodes and keys and any bounds: no key stays down for    *)
(* the peer that no hand holds (NoGhost), and a key stays down while an    *)
(* open keyboard reports it down (HeldStays).                              *)
(*                                                                         *)
(* The evdev backend keeps a key in four places: the kernel's buffer of a  *)
(* node, the node's own set, the set of the whole backend, and the line of *)
(* events that next_event has yet to return.  The invariant ties each to   *)
(* the next: what a node takes for held and no hand holds is released by   *)
(* an event its buffer still has (Lifts); the backend's set is the union   *)
(* of its nodes' (Ledger); and the last event of a key that waits says     *)
(* what that set says, so that the record agrees once none waits           *)
(* (Settled).  `overtaken` is where the last of these fails in the code.   *)
(* A line is read one event at a time and in the order of the nodes        *)
(* (Round), which is what makes an event that joins it the last of it.     *)
(***************************************************************************)
EXTENDS Capture, SequenceTheorems, TLAPS

Kinds == {"down", "up", "repeat"}
Records == [key : Keys, kind : {"down", "up"}, core : BOOLEAN]

\* The types of what the two backends and the record of the thread hold.
Typed ==
    /\ down \in [Devs -> SUBSET Keys] /\ plugged \subseteq Devs
    /\ nodes \subseteq Devs /\ stale \subseteq nodes /\ gone \subseteq stale
    /\ buf \in [Devs -> Seq(Events)] /\ queue \in [Devs -> Seq(Events)] /\ pending \in Seq(Events)
    /\ pressed \in [Devs -> SUBSET Keys] /\ keys \subseteq Keys
    /\ removed \subseteq Keys /\ overtaken \subseteq Keys
    /\ out \subseteq Keys /\ missed \subseteq Keys
    /\ xq \in Seq(Records) /\ xheld \subseteq Keys
    /\ be \in {"none", "evdev", "x11"} /\ cap \in {"outer", "next_event", "sending", "over"}

\* What is open, and what is kept of what is not.
Shape ==
    /\ \A d \in Devs \ nodes : pressed[d] = {} /\ queue[d] = <<>> /\ buf[d] = <<>>
    /\ \A d \in stale : buf[d] = <<>>
    /\ be # "evdev" => Closed
    /\ be # "x11" => XClosed
    /\ cap = "next_event" => be # "none"
    /\ (be = "none" /\ cap # "over") => out \subseteq missed

\* How far the round has come.
Round ==
    /\ scan \in 0 .. LastNode + 1
    /\ scan = 0 => gone = {}
    /\ scan \in Devs =>
         /\ scan \in polled /\ polled \subseteq nodes /\ \A c \in polled : scan <= c
         /\ pending = <<>>
         /\ \A c \in nodes : scan < c => queue[c] = <<>>
    /\ scan # LastNode + 1 => removed = {}

\* The backend's record of the keys against those of its nodes.
Ledger ==
    /\ \A d \in nodes : pressed[d] \subseteq keys
    /\ removed \subseteq keys
    /\ keys \subseteq removed \cup UNION {pressed[d] : d \in nodes}

\* A release of k is among the events s; every other event of k in s is followed
\* by one.
UpIn(s, k) == \E j \in DOMAIN s : s[j].key = k /\ s[j].kind = "up"
UpAfter(s, k) ==
    \A i \in DOMAIN s : (s[i].key = k /\ s[i].kind # "up") =>
        \E j \in DOMAIN s : i < j /\ s[j].key = k /\ s[j].kind = "up"

\* What a node takes for held and no hand holds is about to be released.
Lifts ==
    \A d \in nodes \ stale : \A k \in Keys \ down[d] :
        (k \in pressed[d] => UpIn(buf[d], k)) /\ UpAfter(buf[d], k)

Held == UNION {down[d] : d \in Devs}

\* The same for the X server's events and the keys it repeats.
XLifts ==
    (be = "x11" /\ ~dead) =>
        \A k \in Keys \ Held :
            (k \in out \cup xheld => k \in missed \/ UpIn(xq, k)) /\ UpAfter(xq, k)

\* What next_event has still to return, in its order.
Line == [c \in 0 .. LastNode |-> IF c = 0 THEN pending ELSE queue[c]]

\* Positions in the line, and the events of a key there: one whose kind is in
\* `ends` waits, and each of another kind has such a one behind it.
Later(c, i, c2, j) == c < c2 \/ (c = c2 /\ i < j)
Comes(L, k, ends) ==
    \E c \in 0 .. LastNode : \E i \in DOMAIN L[c] : L[c][i].key = k /\ L[c][i].kind \in ends
Covered(L, k, ends) ==
    \A c \in 0 .. LastNode : \A i \in DOMAIN L[c] : (L[c][i].key = k /\ L[c][i].kind \notin ends) =>
        \E c2 \in 0 .. LastNode : \E j \in DOMAIN L[c2] :
            Later(c, i, c2, j) /\ L[c2][j].key = k /\ L[c2][j].kind \in ends

\* The kinds of event a key ends with, by the backend's set; and the driver's
\* record is as that set has it, but for a release that was lost.
EndsOf(k) == IF k \in keys THEN {"down", "repeat"} ELSE {"up"}
Agrees(k) == IF k \in keys THEN k \in out ELSE k \in out => k \in missed

\* The last of a key's events that waits says what the backend knows of it;
\* when none waits the driver has been told.
Settled ==
    be = "evdev" =>
        \A k \in Keys \ overtaken :
            Covered(Line, k, EndsOf(k)) /\ (Agrees(k) \/ Comes(Line, k, EndsOf(k)))

CaptureInv == Typed /\ Shape /\ Round /\ Ledger /\ Lifts /\ XLifts /\ Settled
-----------------------------------------------------------------------------
(* Sequences.                                                                *)

\* What Append, Tail and concatenation do, index by index.
LEMMA AppendShape ==
    ASSUME NEW S, NEW s \in Seq(S), NEW e \in S
    PROVE  /\ Append(s, e) \in Seq(S)
           /\ DOMAIN s = 1 .. Len(s) /\ DOMAIN Append(s, e) = 1 .. Len(s) + 1 /\ Len(s) \in Nat
           /\ \A i \in 1 .. Len(s) : Append(s, e)[i] = s[i] /\ s[i] \in S
           /\ Append(s, e)[Len(s) + 1] = e
    BY AppendProperties

LEMMA TailShape ==
    ASSUME NEW S, NEW s \in Seq(S), s # <<>>
    PROVE  /\ Tail(s) \in Seq(S) /\ Head(s) \in S /\ Head(s) = s[1]
           /\ DOMAIN s = 1 .. Len(s) /\ DOMAIN Tail(s) = 1 .. Len(s) - 1 /\ Len(s) \in Nat /\ Len(s) >= 1
           /\ \A i \in 1 .. Len(s) - 1 : Tail(s)[i] = s[i + 1]
    BY HeadTailProperties, EmptySeq, LenProperties

LEMMA ConcatShape ==
    ASSUME NEW S, NEW s \in Seq(S), NEW t \in Seq(S)
    PROVE  /\ s \o t \in Seq(S)
           /\ DOMAIN s = 1 .. Len(s) /\ DOMAIN t = 1 .. Len(t) /\ DOMAIN (s \o t) = 1 .. Len(s) + Len(t)
           /\ Len(s) \in Nat /\ Len(t) \in Nat
           /\ \A i \in 1 .. Len(s) : (s \o t)[i] = s[i]
           /\ \A i \in 1 .. Len(t) : (s \o t)[Len(s) + i] = t[i]
    BY ConcatProperties, LenProperties

\* Releases and what they follow, when an event joins, ...
LEMMA UpAppend ==
    ASSUME NEW S, NEW s \in Seq(S), NEW e \in S, NEW k
    PROVE  /\ UpIn(s, k) => UpIn(Append(s, e), k)
           /\ (e.key # k /\ UpAfter(s, k)) => UpAfter(Append(s, e), k)
           /\ (e.key = k /\ e.kind = "up") => UpIn(Append(s, e), k) /\ UpAfter(Append(s, e), k)
<1> DEFINE t == Append(s, e)
<1>1. /\ DOMAIN s = 1 .. Len(s) /\ DOMAIN t = 1 .. Len(s) + 1 /\ Len(s) \in Nat
      /\ \A i \in 1 .. Len(s) : t[i] = s[i]
      /\ t[Len(s) + 1] = e
    BY AppendShape
<1> HIDE DEF t
<1>2. UpIn(s, k) => UpIn(t, k)
    BY <1>1 DEF UpIn
<1>3. (e.key # k /\ UpAfter(s, k)) => UpAfter(t, k)
    BY <1>1 DEF UpAfter
<1>4. (e.key = k /\ e.kind = "up") => UpIn(t, k) /\ UpAfter(t, k)
    BY <1>1 DEF UpAfter, UpIn
<1> QED
    BY <1>2, <1>3, <1>4 DEF t

\* ... or the first is taken, ...
LEMMA UpTail ==
    ASSUME NEW S, NEW s \in Seq(S), s # <<>>, NEW k
    PROVE  /\ UpAfter(s, k) => UpAfter(Tail(s), k)
           /\ (UpIn(s, k) /\ ~(Head(s).key = k /\ Head(s).kind = "up")) => UpIn(Tail(s), k)
           /\ (UpAfter(s, k) /\ Head(s).key = k /\ Head(s).kind # "up") => UpIn(Tail(s), k)
<1> DEFINE t == Tail(s)
<1>1. /\ Head(s) = s[1] /\ DOMAIN s = 1 .. Len(s) /\ DOMAIN t = 1 .. Len(s) - 1
      /\ Len(s) \in Nat /\ Len(s) >= 1 /\ \A i \in 1 .. Len(s) - 1 : t[i] = s[i + 1]
    BY TailShape
<1> HIDE DEF t
<1>2. \A j \in DOMAIN s : j # 1 => j - 1 \in DOMAIN t /\ t[j - 1] = s[j]
    BY <1>1
<1>3. \A i \in DOMAIN t : i + 1 \in DOMAIN s /\ t[i] = s[i + 1] /\ i \in Nat
    BY <1>1
<1>4. UpAfter(s, k) => UpAfter(t, k)
  <2> SUFFICES ASSUME UpAfter(s, k), NEW i \in DOMAIN t, t[i].key = k, t[i].kind # "up"
               PROVE  \E j \in DOMAIN t : i < j /\ t[j].key = k /\ t[j].kind = "up"
      BY DEF UpAfter
  <2>1. PICK j \in DOMAIN s : i + 1 < j /\ s[j].key = k /\ s[j].kind = "up"
      BY <1>3 DEF UpAfter
  <2>2. j - 1 \in DOMAIN t /\ i < j - 1 /\ t[j - 1] = s[j]
      BY <1>1, <1>2, <1>3, <2>1
  <2> QED
      BY <2>1, <2>2
<1>5. (UpIn(s, k) /\ ~(Head(s).key = k /\ Head(s).kind = "up")) => UpIn(t, k)
    BY <1>1, <1>2 DEF UpIn
<1>6. (UpAfter(s, k) /\ Head(s).key = k /\ Head(s).kind # "up") => UpIn(t, k)
    BY <1>1, <1>2 DEF UpIn, UpAfter
<1> QED
    BY <1>4, <1>5, <1>6 DEF t
-----------------------------------------------------------------------------
(* The line of waiting events.                                               *)

Lines == [0 .. LastNode -> Seq(Events)]

\* An event that joins the line last is the last of its key, and changes nothing
\* for the others.
LEMMA LineAppend ==
    ASSUME NEW L \in Lines, NEW c0 \in 0 .. LastNode, NEW e \in Events, NEW k, NEW ends
    PROVE  LET M == [L EXCEPT ![c0] = Append(@, e)] IN
           /\ e.key # k => /\ Covered(L, k, ends) => Covered(M, k, ends)
                           /\ Comes(L, k, ends) => Comes(M, k, ends)
           /\ (/\ e.key = k /\ e.kind \in ends
               /\ \A c \in 0 .. LastNode : c0 < c => \A i \in DOMAIN L[c] : L[c][i].key # k)
              => Covered(M, k, ends) /\ Comes(M, k, ends)
<1> USE EvdevAssumption DEF Devs
<1> DEFINE M == [L EXCEPT ![c0] = Append(@, e)]
           n == Len(L[c0])
<1>1. /\ n \in Nat /\ DOMAIN L[c0] = 1 .. n /\ DOMAIN M[c0] = 1 .. n + 1
      /\ \A i \in 1 .. n : M[c0][i] = L[c0][i]
      /\ M[c0][n + 1] = e
    BY AppendShape DEF Lines
<1>2. \A c \in 0 .. LastNode : c # c0 => M[c] = L[c]
    BY DEF Lines
<1>0. \A c \in 0 .. LastNode : \A i \in DOMAIN L[c] : i \in Nat
    BY LenProperties DEF Lines
<1> HIDE DEF M, n
<1>3. \A c \in 0 .. LastNode : \A i \in DOMAIN L[c] : i \in DOMAIN M[c] /\ M[c][i] = L[c][i]
    BY <1>1, <1>2
<1>4. \A c \in 0 .. LastNode : \A i \in DOMAIN M[c] :
          (i \in DOMAIN L[c] /\ M[c][i] = L[c][i]) \/ (c = c0 /\ i = n + 1 /\ M[c][i] = e)
    BY <1>1, <1>2
<1>5. Comes(L, k, ends) => Comes(M, k, ends)
    BY <1>3 DEF Comes
<1>6. (e.key # k /\ Covered(L, k, ends)) => Covered(M, k, ends)
    BY <1>3, <1>4 DEF Covered
<1>7. ASSUME e.key = k, e.kind \in ends,
             \A c \in 0 .. LastNode : c0 < c => \A i \in DOMAIN L[c] : L[c][i].key # k
      PROVE  Covered(M, k, ends) /\ Comes(M, k, ends)
  <2>1. c0 \in 0 .. LastNode /\ n + 1 \in DOMAIN M[c0] /\ M[c0][n + 1] = e
      BY <1>1
  <2>2. \A c \in 0 .. LastNode : \A i \in DOMAIN M[c] :
            (M[c][i].key = k /\ M[c][i].kind \notin ends) => Later(c, i, c0, n + 1)
      BY <1>0, <1>1, <1>4, <1>7 DEF Later
  <2> QED
      BY <2>1, <2>2, <1>7 DEF Covered, Comes
<1> QED
    BY <1>5, <1>6, <1>7 DEF M

\* The first of the line is taken: nothing that waited behind it changes.
LEMMA LineTake ==
    ASSUME NEW L \in Lines, NEW c0 \in 0 .. LastNode, NEW k, NEW ends, L[c0] # <<>>,
           \A c \in 0 .. LastNode : c < c0 => L[c] = <<>>
    PROVE  LET M == [L EXCEPT ![c0] = Tail(@)]
               e == Head(L[c0]) IN
           /\ Covered(L, k, ends) => Covered(M, k, ends)
           /\ (Covered(L, k, ends) /\ e.key = k /\ e.kind \notin ends) => Comes(M, k, ends)
           /\ (e.key # k /\ Comes(L, k, ends)) => Comes(M, k, ends)
<1> USE EvdevAssumption DEF Devs
<1> DEFINE M == [L EXCEPT ![c0] = Tail(@)]
           e == Head(L[c0])
           n == Len(L[c0])
           shift(c, i) == IF c = c0 THEN i + 1 ELSE i
           back(c, i) == IF c = c0 THEN i - 1 ELSE i
<1>1. /\ n \in Nat /\ n >= 1 /\ DOMAIN L[c0] = 1 .. n /\ DOMAIN M[c0] = 1 .. n - 1
      /\ \A i \in 1 .. n - 1 : M[c0][i] = L[c0][i + 1]
      /\ L[c0][1] = e
    BY TailShape DEF Lines
<1>2. \A c \in 0 .. LastNode : c # c0 => M[c] = L[c]
    BY DEF Lines
<1>0. \A c \in 0 .. LastNode : \A i \in DOMAIN L[c] : i \in Nat /\ ~(c < c0)
    BY LenProperties, EmptySeq DEF Lines
<1> HIDE DEF M, n, e
<1>3. \A c \in 0 .. LastNode : \A i \in DOMAIN M[c] :
          shift(c, i) \in DOMAIN L[c] /\ M[c][i] = L[c][shift(c, i)] /\ i \in Nat
    BY <1>0, <1>1, <1>2
<1>4. \A c \in 0 .. LastNode : \A i \in DOMAIN L[c] :
          (c = c0 /\ i = 1) \/ (back(c, i) \in DOMAIN M[c] /\ M[c][back(c, i)] = L[c][i])
    BY <1>0, <1>1, <1>2
<1>5. ASSUME Covered(L, k, ends) PROVE Covered(M, k, ends)
  <2> SUFFICES ASSUME NEW c \in 0 .. LastNode, NEW i \in DOMAIN M[c], M[c][i].key = k, M[c][i].kind \notin ends
               PROVE  \E c2 \in 0 .. LastNode : \E j \in DOMAIN M[c2] :
                          Later(c, i, c2, j) /\ M[c2][j].key = k /\ M[c2][j].kind \in ends
      BY DEF Covered
  <2> DEFINE b == shift(c, i)
  <2>0. b \in DOMAIN L[c] /\ M[c][i] = L[c][b] /\ i \in Nat /\ b = (IF c = c0 THEN i + 1 ELSE i)
      BY <1>3
  <2> HIDE DEF b
  <2>1. PICK c2 \in 0 .. LastNode, j \in Nat :
            j \in DOMAIN L[c2] /\ Later(c, b, c2, j) /\ L[c2][j].key = k /\ L[c2][j].kind \in ends
      BY <2>0, <1>0, <1>5 DEF Covered
  <2>2. ~(c2 = c0 /\ j = 1)
      BY <1>0, <2>0, <2>1, <1>1 DEF Later
  <2> DEFINE b2 == back(c2, j)
  <2>3. b2 \in DOMAIN M[c2] /\ M[c2][b2] = L[c2][j] /\ b2 = (IF c2 = c0 THEN j - 1 ELSE j)
      BY <1>4, <2>1, <2>2
  <2> HIDE DEF b2
  <2>4. Later(c, i, c2, b2)
      BY <2>0, <2>1, <2>3 DEF Later
  <2> QED
      BY <2>1, <2>3, <2>4
<1>6. ASSUME Covered(L, k, ends), e.key = k, e.kind \notin ends PROVE Comes(M, k, ends)
  <2>0. 1 \in DOMAIN L[c0]
      BY <1>1
  <2>1. PICK c2 \in 0 .. LastNode, j \in Nat :
            j \in DOMAIN L[c2] /\ Later(c0, 1, c2, j) /\ L[c2][j].key = k /\ L[c2][j].kind \in ends
      BY <2>0, <1>0, <1>1, <1>6 DEF Covered
  <2>2. ~(c2 = c0 /\ j = 1)
      BY <2>1 DEF Later
  <2>3. back(c2, j) \in DOMAIN M[c2] /\ M[c2][back(c2, j)] = L[c2][j]
      BY <1>4, <2>1, <2>2
  <2> HIDE DEF back
  <2> QED
      BY <2>1, <2>3 DEF Comes
<1>7. ASSUME e.key # k, Comes(L, k, ends) PROVE Comes(M, k, ends)
  <2>1. PICK c2 \in 0 .. LastNode, j \in Nat : j \in DOMAIN L[c2] /\ L[c2][j].key = k /\ L[c2][j].kind \in ends
      BY <1>0, <1>7 DEF Comes
  <2>2. ~(c2 = c0 /\ j = 1)
      BY <2>1, <1>1, <1>7
  <2>3. back(c2, j) \in DOMAIN M[c2] /\ M[c2][back(c2, j)] = L[c2][j]
      BY <1>4, <2>1, <2>2
  <2> HIDE DEF back
  <2> QED
      BY <2>1, <2>3 DEF Comes
<1> QED
    BY <1>5, <1>6, <1>7 DEF M, e

\* What waits on node d goes to the head of the line: nothing changes for a key
\* that does not wait on a node before d as well.
LEMMA LineMove ==
    ASSUME NEW L \in Lines, NEW d \in 1 .. LastNode, NEW k, NEW ends,
           ~ /\ \E i \in DOMAIN L[d] : L[d][i].key = k
             /\ \E c \in 1 .. d - 1 : \E i \in DOMAIN L[c] : L[c][i].key = k
    PROVE  LET M == [L EXCEPT ![0] = L[0] \o L[d], ![d] = <<>>] IN
           /\ Covered(L, k, ends) => Covered(M, k, ends)
           /\ Comes(L, k, ends) => Comes(M, k, ends)
<1> USE EvdevAssumption DEF Devs
<1> DEFINE M == [L EXCEPT ![0] = L[0] \o L[d], ![d] = <<>>]
           m == Len(L[0])
           n == Len(L[d])
           toC(c) == IF c = d THEN 0 ELSE c
           toI(c, i) == IF c = d THEN m + i ELSE i
           ofC(c, i) == IF c = 0 /\ i > m THEN d ELSE c
           ofI(c, i) == IF c = 0 /\ i > m THEN i - m ELSE i
<1>1. /\ m \in Nat /\ n \in Nat /\ DOMAIN L[0] = 1 .. m /\ DOMAIN L[d] = 1 .. n
      /\ DOMAIN (L[0] \o L[d]) = 1 .. m + n
      /\ \A i \in 1 .. m : (L[0] \o L[d])[i] = L[0][i]
      /\ \A i \in 1 .. n : (L[0] \o L[d])[m + i] = L[d][i]
    BY ConcatShape DEF Lines
<1>2. M[0] = L[0] \o L[d] /\ M[d] = <<>> /\ DOMAIN M[d] = {} /\ \A c \in 0 .. LastNode : c \notin {0, d} => M[c] = L[c]
    BY DEF Lines
<1>0. \A c \in 0 .. LastNode : \A i \in DOMAIN L[c] : i \in Nat /\ i >= 1
    BY LenProperties DEF Lines
<1> HIDE DEF M, m, n
<1>3. \A c \in 0 .. LastNode : \A i \in DOMAIN L[c] :
          /\ toC(c) \in 0 .. LastNode /\ toI(c, i) \in DOMAIN M[toC(c)] /\ M[toC(c)][toI(c, i)] = L[c][i]
  <2> SUFFICES ASSUME NEW c \in 0 .. LastNode, NEW i \in DOMAIN L[c]
               PROVE  /\ toC(c) \in 0 .. LastNode /\ toI(c, i) \in DOMAIN M[toC(c)] /\ M[toC(c)][toI(c, i)] = L[c][i]
      OBVIOUS
  <2>1. CASE c = d
    <3>0. i \in 1 .. n /\ i \in Nat
        BY <1>0, <1>1, <2>1
    <3>1. m + i \in 1 .. m + n
        BY <3>0, <1>1
    <3>2. m + i \in DOMAIN M[0] /\ M[0][m + i] = L[d][i]
        BY <3>0, <3>1, <1>1, <1>2
    <3> QED
        BY <2>1, <3>2
  <2>2. CASE c = 0
    <3>0. i \in 1 .. m /\ i \in Nat
        BY <1>0, <1>1, <2>2
    <3>1. i \in 1 .. m + n
        BY <3>0, <1>1
    <3>2. i \in DOMAIN M[0] /\ M[0][i] = L[0][i]
        BY <3>0, <3>1, <1>1, <1>2
    <3> QED
        BY <2>2, <3>2
  <2>3. CASE c \notin {0, d}
      BY <2>3, <1>2
  <2> QED
      BY <2>1, <2>2, <2>3
<1>4. \A c \in 0 .. LastNode : \A i \in DOMAIN M[c] :
          /\ ofC(c, i) \in 0 .. LastNode /\ ofI(c, i) \in DOMAIN L[ofC(c, i)] /\ M[c][i] = L[ofC(c, i)][ofI(c, i)]
          /\ c = toC(ofC(c, i)) /\ i = toI(ofC(c, i), ofI(c, i))
  <2> SUFFICES ASSUME NEW c \in 0 .. LastNode, NEW i \in DOMAIN M[c]
               PROVE  /\ ofC(c, i) \in 0 .. LastNode /\ ofI(c, i) \in DOMAIN L[ofC(c, i)] /\ M[c][i] = L[ofC(c, i)][ofI(c, i)]
                      /\ c = toC(ofC(c, i)) /\ i = toI(ofC(c, i), ofI(c, i))
      OBVIOUS
  <2>1. CASE c = 0 /\ i > m
    <3>0. i \in 1 .. m + n
        BY <1>1, <1>2, <2>1
    <3>1. i - m \in 1 .. n /\ m + (i - m) = i
        BY <3>0, <1>1, <2>1
    <3>2. M[0][i] = L[d][i - m]
        BY <1>1, <1>2, <3>1
    <3> QED
        BY <2>1, <3>1, <3>2, <1>1
  <2>2. CASE c = 0 /\ ~(i > m)
    <3>0. i \in 1 .. m + n
        BY <1>1, <1>2, <2>2
    <3>1. i \in 1 .. m
        BY <3>0, <1>1, <2>2
    <3> QED
        BY <2>2, <3>1, <1>1, <1>2
  <2>3. CASE c # 0
      BY <2>3, <1>2
  <2> QED
      BY <2>1, <2>2, <2>3
<1>5. Comes(L, k, ends) => Comes(M, k, ends)
    BY <1>3 DEF Comes
<1>6. \A c \in 0 .. LastNode, c2 \in 0 .. LastNode : \A i \in DOMAIN L[c], j \in DOMAIN L[c2] :
          (L[c][i].key = k /\ L[c2][j].key = k /\ Later(c, i, c2, j)) => Later(toC(c), toI(c, i), toC(c2), toI(c2, j))
    BY <1>0, <1>1 DEF Later
<1>7. ASSUME Covered(L, k, ends) PROVE Covered(M, k, ends)
  <2> SUFFICES ASSUME NEW c \in 0 .. LastNode, NEW i \in DOMAIN M[c], M[c][i].key = k, M[c][i].kind \notin ends
               PROVE  \E c2 \in 0 .. LastNode : \E j \in DOMAIN M[c2] :
                          Later(c, i, c2, j) /\ M[c2][j].key = k /\ M[c2][j].kind \in ends
      BY DEF Covered
  <2> DEFINE a == ofC(c, i)
             b == ofI(c, i)
  <2>1. a \in 0 .. LastNode /\ b \in DOMAIN L[a] /\ L[a][b] = M[c][i] /\ c = toC(a) /\ i = toI(a, b)
      BY <1>4
  <2> HIDE DEF a, b
  <2>2. PICK c2 \in 0 .. LastNode, j \in Nat :
            j \in DOMAIN L[c2] /\ Later(a, b, c2, j) /\ L[c2][j].key = k /\ L[c2][j].kind \in ends
      BY <2>1, <1>0, <1>7 DEF Covered
  <2>3. Later(toC(a), toI(a, b), toC(c2), toI(c2, j))
      BY <1>6, <2>1, <2>2
  <2>4. toC(c2) \in 0 .. LastNode /\ toI(c2, j) \in DOMAIN M[toC(c2)] /\ M[toC(c2)][toI(c2, j)] = L[c2][j]
      BY <1>3, <2>2
  <2> HIDE DEF toC, toI
  <2> QED
      BY <2>1, <2>2, <2>3, <2>4
<1> QED
    BY <1>5, <1>7 DEF M
-----------------------------------------------------------------------------
(* The properties.                                                           *)

\* With nothing left to read or to return, the invariant is the property.
LEMMA InvNoGhost ==
    ASSUME CaptureInv PROVE NoGhost
<1> USE EvdevAssumption DEF CaptureInv
<1> SUFFICES ASSUME Quiet, NEW k \in out, k \notin missed, k \notin overtaken
             PROVE  k \in Held
    BY DEF NoGhost, Held
<1>0. k \in Keys /\ be \in {"evdev", "x11"} /\ down \in [Devs -> SUBSET Keys]
    BY DEF Quiet, Shape, Typed
<1>1. CASE be = "x11"
    BY <1>0, <1>1, EmptySeq DEF Quiet, XLifts, UpIn
<1>2. CASE be = "evdev"
  <2>1. /\ scan = 0 /\ pending = <<>> /\ stale = {}
        /\ \A d \in nodes : queue[d] = <<>> /\ buf[d] = <<>>
      BY <1>2 DEF Quiet, Drained, Queued
  <2>2. k \in keys
    <3>1. \A c \in 0 .. LastNode : Line[c] = <<>>
        BY <2>1 DEF Line, Shape, Typed, Devs
    <3>2. ~Comes(Line, k, EndsOf(k))
        BY <3>1 DEF Comes
    <3> QED
        BY <1>0, <1>2, <3>2 DEF Settled, Agrees
  <2>3. PICK d \in nodes : k \in pressed[d]
      BY <2>1, <2>2 DEF Ledger, Round
  <2>4. k \in down[d]
      BY <1>0, <2>1, <2>3 DEF Lifts, UpIn
  <2> QED
      BY <2>4 DEF Held, Typed
<1> QED
    BY <1>0, <1>1, <1>2

\* The same for the keys that are held.
LEMMA InvHeldStays ==
    ASSUME CaptureInv PROVE HeldStays
<1> USE EvdevAssumption DEF CaptureInv
<1> SUFFICES ASSUME Quiet, be = "evdev", NEW k \in UNION {pressed[d] : d \in nodes}, k \notin overtaken
             PROVE  k \in out
    BY DEF HeldStays
<1>0. PICK d \in nodes : k \in pressed[d]
    OBVIOUS
<1>1. /\ scan = 0 /\ pending = <<>> /\ stale = {}
      /\ \A c \in nodes : queue[c] = <<>> /\ buf[c] = <<>>
    BY DEF Quiet, Drained, Queued
<1>2. k \in keys /\ k \in Keys
    BY <1>0 DEF Ledger, Typed
<1>3. \A c \in 0 .. LastNode : Line[c] = <<>>
    BY <1>1 DEF Line, Shape, Typed, Devs
<1>4. ~Comes(Line, k, EndsOf(k))
    BY <1>3 DEF Comes
<1> QED
    BY <1>2, <1>4 DEF Settled, Agrees
-----------------------------------------------------------------------------
(* Steps that leave the events alone.                                        *)

eventVars == <<down, nodes, stale, gone, buf, queue, pending, pressed, keys, removed, overtaken,
               scan, polled, xq, xheld, dead, out, missed, be>>

\* The sets of events are constants.
LEMMA SameSets == Events' = Events /\ Records' = Records /\ Devs' = Devs
    BY DEF Events, Event, Records, Devs

\* A step of the driver, the watchdog or the grabs.
LEMMA NothingMoves ==
    ASSUME CaptureInv, UNCHANGED eventVars, plugged' \subseteq Devs,
           cap' \in {"outer", "next_event", "sending", "over"},
           cap' = "next_event" => be # "none", cap' # "over" => cap # "over",
           be # "evdev" => UNCHANGED evdevVars, be # "x11" => UNCHANGED x11Vars
    PROVE  CaptureInv'
<1> USE DEF CaptureInv, eventVars
<1>1. Typed'
    BY DEF Typed, Events, Event
<1>2. Shape'
    BY DEF Shape, Closed, XClosed, evdevVars, x11Vars, ledgers, round
<1>3. Round'
    BY DEF Round
<1>4. Ledger'
    BY DEF Ledger
<1>5. Lifts'
    BY DEF Lifts, UpIn, UpAfter
<1>6. XLifts'
    BY DEF XLifts, UpIn, UpAfter, Held
<1>7. Settled'
  <2>1. Line' = Line /\ \A k : EndsOf(k)' = EndsOf(k) /\ (Agrees(k)' <=> Agrees(k))
      BY DEF Line, EndsOf, Agrees
  <2> QED
      BY <2>1 DEF Settled, Comes, Covered, Later
<1> QED
    BY <1>1, <1>2, <1>3, <1>4, <1>5, <1>6, <1>7

\* Nothing waits once the backend is dropped.
LEMMA DropStep ==
    ASSUME CaptureInv, Close, XClose, be' = "none", UNCHANGED <<down, plugged, out>>,
           cap' \in {"sending", "over"}, missed' \subseteq Keys, cap' # "over" => out \subseteq missed'
    PROVE  CaptureInv'
<1> USE EvdevAssumption DEF CaptureInv
<1>0. Closed' /\ XClosed'
    BY DEF Close, XClose, Closed, XClosed
<1>1. Typed'
    BY <1>0, EmptySeq DEF Typed, Closed, XClosed
<1>2. Shape'
    BY <1>0 DEF Shape, Closed, XClosed
<1>3. Round'
    BY <1>0 DEF Round, Closed, Devs
<1>4. Ledger'
    BY <1>0 DEF Ledger, Closed
<1>5. Lifts'
    BY <1>0 DEF Lifts, Closed
<1>6. XLifts'
    BY DEF XLifts
<1>7. Settled'
    BY DEF Settled
<1> QED
    BY <1>1, <1>2, <1>3, <1>4, <1>5, <1>6, <1>7

\* A backend starts with nothing held and nothing read.
LEMMA InitInv ==
    ASSUME Init PROVE CaptureInv
<1> USE EvdevAssumption
<1>0. /\ XClosed /\ out = {} /\ missed = {} /\ cap = "outer" /\ be \in {"x11", "evdev"}
      /\ be = "x11" => Closed
      /\ nodes \subseteq Devs /\ stale = {} /\ gone = {} /\ scan = 0 /\ pending = <<>> /\ keys = {} /\ removed = {} /\ overtaken = {}
      /\ buf = [d \in Devs |-> <<>>] /\ queue = [d \in Devs |-> <<>>] /\ pressed = [d \in Devs |-> {}]
      /\ down = [d \in Devs |-> {}] /\ plugged = Devs
    BY DEF Init, Closed
<1>1. Typed
    BY <1>0, EmptySeq DEF Typed, XClosed
<1>2. Shape
    BY <1>0 DEF Shape
<1>3. Round
    BY <1>0 DEF Round, Devs
<1>4. Ledger
    BY <1>0 DEF Ledger
<1>5. Lifts
    BY <1>0, EmptySeq DEF Lifts, UpIn, UpAfter
<1>6. XLifts
    BY <1>0, EmptySeq DEF XLifts, UpIn, UpAfter, XClosed
<1>7. Settled
  <2>1. \A c \in 0 .. LastNode : Line[c] = <<>>
      BY <1>0 DEF Line, Devs
  <2>2. \A k : Covered(Line, k, EndsOf(k)) /\ Agrees(k)
      BY <1>0, <2>1 DEF Covered, Agrees
  <2> QED
      BY <2>2 DEF Settled
<1> QED
    BY <1>1, <1>2, <1>3, <1>4, <1>5, <1>6, <1>7 DEF CaptureInv
-----------------------------------------------------------------------------
(* The hand, the server and the end of a backend.                            *)

\* create_capture: the new backend knows of no key, and every key the driver
\* still holds counts as missed.
LEMMA RebuildStep ==
    ASSUME CaptureInv, Rebuild
    PROVE  CaptureInv'
<1> USE EvdevAssumption DEF CaptureInv
<1>0. /\ cap = "outer" /\ be = "none" /\ Closed /\ XClosed /\ out \subseteq missed
      /\ UNCHANGED <<down, plugged, out, missed>>
    BY DEF Rebuild, Shape, Driver
<1>1. CASE be' = "none"
  <2>1. /\ UNCHANGED eventVars /\ cap' \in {"outer", "over"} /\ UNCHANGED <<evdevVars, x11Vars>>
      BY <1>0, <1>1 DEF Rebuild, eventVars, evdevVars, x11Vars, ledgers, round
  <2> QED
      BY <2>1, <1>0, NothingMoves DEF Typed
<1>2. CASE be' # "none"
  <2>0. /\ be' \in {"x11", "evdev"}
        /\ be' = "x11" => nodes' = nodes
        /\ nodes' \subseteq plugged \cup nodes
        /\ UNCHANGED <<cap, stale, buf, grabbed, excl, pressed, queue, keys, pending, overtaken, scan, polled, gone, removed,
                       sgrab, xq, dead, gk, xheld, xexcl, trying, xpc>>
      BY <1>0, <1>2 DEF Rebuild, Open, evdevVars, ledgers, round, x11Vars
  <2>1. Typed'
    <3>1. nodes' \subseteq Devs /\ stale' \subseteq nodes' /\ gone' \subseteq stale'
        BY <1>0, <2>0 DEF Typed, Closed
    <3> QED
        BY <1>0, <2>0, <3>1, SameSets DEF Typed
  <2>2. Shape'
    <3>1. be' = "x11" => Closed'
        BY <1>0, <2>0 DEF Closed
    <3>2. XClosed'
        BY <1>0, <2>0 DEF XClosed
    <3>3. \A d \in Devs : pressed'[d] = {} /\ queue'[d] = <<>> /\ buf'[d] = <<>>
        BY <1>0, <2>0 DEF Closed
    <3>4. stale' = {} /\ cap' = "outer" /\ cap' # "next_event"
        BY <1>0, <2>0 DEF Closed
    <3> QED
        BY <2>0, <3>1, <3>2, <3>3, <3>4 DEF Shape
  <2>3. Round'
      BY <1>0, <2>0 DEF Round, Closed, Devs
  <2>4. Ledger'
      BY <1>0, <2>0, <2>1 DEF Ledger, Closed, Typed
  <2>5. Lifts'
      BY <1>0, <2>0, <2>1, EmptySeq DEF Lifts, Closed, UpAfter, UpIn, Typed
  <2>6. XLifts'
      BY <1>0, <2>0, EmptySeq DEF XLifts, UpIn, UpAfter, XClosed
  <2>7. Settled'
    <3>1. \A c \in 0 .. LastNode : Line'[c] = <<>>
        BY <1>0, <2>0 DEF Line, Devs, Closed
    <3>2. \A k : Covered(Line', k, EndsOf(k)') /\ Agrees(k)'
        BY <1>0, <2>0, <3>1 DEF Covered, Agrees, Closed
    <3> QED
        BY <3>2 DEF Settled, Covered, Comes, Later
  <2> QED
      BY <2>1, <2>2, <2>3, <2>4, <2>5, <2>6, <2>7
<1> QED
    BY <1>1, <1>2

\* An event of device d reaches the file on it, or the X server.
LEMMA HandStep ==
    ASSUME CaptureInv, NEW d \in Devs, NEW k \in Keys, Press(d, k) \/ Lift(d, k) \/ Holds(d, k)
    PROVE  CaptureInv'
<1> USE EvdevAssumption DEF CaptureInv
<1> DEFINE kind == IF Press(d, k) THEN "down" ELSE IF Lift(d, k) THEN "up" ELSE "repeat"
<1>d. down \in [Devs -> SUBSET Keys]
    BY DEF Typed
<1>0. /\ Hand(d, k, kind) /\ kind \in Kinds
      /\ down' \in [Devs -> SUBSET Keys] /\ \A c \in Devs \ {d} : down'[c] = down[c]
      /\ down'[d] \ {k} = down[d] \ {k}
      /\ kind # "up" => k \in down'[d]
  <2>1. CASE Press(d, k)
    <3>1. kind = "down" /\ Hand(d, k, "down") /\ down' = [down EXCEPT ![d] = @ \cup {k}]
        BY <2>1 DEF Press
    <3> QED
        BY <3>1, <1>d DEF Kinds
  <2>2. CASE ~Press(d, k) /\ Lift(d, k)
    <3>1. kind = "up" /\ Hand(d, k, "up") /\ down' = [down EXCEPT ![d] = @ \ {k}]
        BY <2>2 DEF Lift
    <3> QED
        BY <3>1, <1>d DEF Kinds
  <2>3. CASE ~Press(d, k) /\ ~Lift(d, k)
    <3>1. kind = "repeat" /\ Hand(d, k, "repeat") /\ down' = down /\ k \in down[d]
        BY <2>3 DEF Holds
    <3> QED
        BY <3>1, <1>d DEF Kinds
  <2> QED
      BY <2>1, <2>2, <2>3
<1> HIDE DEF kind
<1>1. /\ UNCHANGED <<plugged, be, cap, out, missed, nodes, stale, pressed, queue, keys, pending, overtaken,
                     scan, polled, gone, removed, dead, xheld>>
      /\ UNCHANGED <<grabbed, excl, sgrab, gk, xexcl, trying, xpc>>
    BY <1>0 DEF Hand, captureVars, ledgers, round
<1>2. \/ buf' = buf /\ (be = "evdev" => d \notin nodes \ stale)
      \/ be = "evdev" /\ d \in nodes \ stale /\ buf' = [buf EXCEPT ![d] = Append(@, Event(k, kind))]
    BY <1>0 DEF Hand, Deliver
<1>3. \/ xq' = xq /\ (be = "x11" => dead)
      \/ /\ be = "x11" /\ ~dead
         /\ xq' = Append(xq, [key |-> k, kind |-> IF kind = "repeat" THEN "down" ELSE kind, core |-> "coreKeyboard" \in sgrab])
    BY <1>0 DEF Hand, XDeliver
<1>4. Event(k, kind) \in Events /\ Event(k, kind).key = k /\ Event(k, kind).kind = kind
    BY <1>0 DEF Events, Event, Kinds
<1>a. buf \in [Devs -> Seq(Events)] /\ xq \in Seq(Records)
    BY DEF Typed
<1>b. buf' \in [Devs -> Seq(Events)] /\ \A c \in Devs \ {d} : buf'[c] = buf[c]
  <2>1. Append(buf[d], Event(k, kind)) \in Seq(Events)
      BY <1>4, <1>a, AppendShape
  <2> QED
      BY <1>2, <1>a, <2>1
<1>c. xq' \in Seq(Records)
  <2> DEFINE e == [key |-> k, kind |-> IF kind = "repeat" THEN "down" ELSE kind, core |-> "coreKeyboard" \in sgrab]
  <2>1. e \in Records
      BY <1>0 DEF Records, Kinds
  <2> HIDE DEF e
  <2>2. xq' = xq \/ xq' = Append(xq, e)
      BY <1>3 DEF e
  <2>3. Append(xq, e) \in Seq(Records)
      BY <2>1, <1>a, AppendShape
  <2> QED
      BY <2>2, <2>3, <1>a
<1>5. Typed'
    BY <1>0, <1>1, <1>b, <1>c, SameSets DEF Typed
<1>6. Shape'
    BY <1>1, <1>2, <1>3, <1>b DEF Shape, Closed, XClosed, Typed
<1>7. Round'
    BY <1>1 DEF Round
<1>8. Ledger'
    BY <1>1 DEF Ledger
<1>9. Lifts'
  <2> SUFFICES ASSUME NEW c \in nodes \ stale, NEW j \in Keys \ down'[c]
               PROVE  (j \in pressed[c] => UpIn(buf'[c], j)) /\ UpAfter(buf'[c], j)
      BY <1>1 DEF Lifts, UpIn, UpAfter
  <2>0. c \in Devs
      BY DEF Typed
  <2>1. CASE buf'[c] = buf[c] /\ (c = d => be # "evdev")
      BY <1>0, <2>0, <2>1 DEF Lifts, Shape, Closed
  <2>2. CASE c = d /\ be = "evdev"
    <3>1. buf'[c] = Append(buf[c], Event(k, kind)) /\ buf[c] \in Seq(Events)
        BY <1>2, <2>0, <2>2, <1>a
    <3>2. CASE j = k
      <4>1. kind = "up"
          BY <1>0, <2>2, <3>2
      <4> QED
          BY <3>1, <3>2, <4>1, <1>4, UpAppend
    <3>3. CASE j # k
      <4>1. j \notin down[c]
          BY <1>0, <2>2, <3>3
      <4>2. (j \in pressed[c] => UpIn(buf[c], j)) /\ UpAfter(buf[c], j)
          BY <4>1 DEF Lifts
      <4> QED
          BY <3>1, <3>3, <4>2, <1>4, UpAppend
    <3> QED
        BY <3>2, <3>3
  <2> QED
      BY <1>b, <2>0, <2>1, <2>2, <1>2
<1>10. XLifts'
  <2> SUFFICES ASSUME be = "x11", ~dead, NEW j \in Keys \ Held'
               PROVE  (j \in out \cup xheld => j \in missed \/ UpIn(xq', j)) /\ UpAfter(xq', j)
      BY <1>1 DEF XLifts, UpIn, UpAfter
  <2> DEFINE e == [key |-> k, kind |-> IF kind = "repeat" THEN "down" ELSE kind, core |-> "coreKeyboard" \in sgrab]
  <2>1. xq' = Append(xq, e) /\ e \in Records /\ e.key = k /\ e.kind = IF kind = "repeat" THEN "down" ELSE kind
      BY <1>0, <1>3 DEF Records, Kinds
  <2> HIDE DEF e
  <2>2. CASE j = k
    <3>1. kind = "up"
        BY <1>0, <2>2 DEF Held
    <3> QED
        BY <2>1, <2>2, <3>1, <1>a, UpAppend
  <2>3. CASE j # k
    <3>1. j \notin Held
        BY <1>0, <2>3 DEF Held
    <3> QED
        BY <2>1, <2>3, <3>1, <1>a, UpAppend DEF XLifts
  <2> QED
      BY <2>2, <2>3
<1>11. Settled'
  <2>1. Line' = Line /\ \A j : EndsOf(j)' = EndsOf(j) /\ (Agrees(j)' <=> Agrees(j))
      BY <1>1 DEF Line, EndsOf, Agrees
  <2> QED
      BY <1>1, <2>1 DEF Settled, Comes, Covered, Later
<1> QED
    BY <1>5, <1>6, <1>7, <1>8, <1>9, <1>10, <1>11

\* ... or the releases of a pulled device join.
LEMMA UpConcat ==
    ASSUME NEW S, NEW s \in Seq(S), NEW t \in Seq(S), NEW k, \A i \in DOMAIN t : t[i].kind = "up"
    PROVE  /\ UpIn(s, k) => UpIn(s \o t, k)
           /\ UpAfter(s, k) => UpAfter(s \o t, k)
           /\ (\E i \in DOMAIN t : t[i].key = k) => UpIn(s \o t, k) /\ UpAfter(s \o t, k)
<1> DEFINE u == s \o t
           m == Len(s)
           n == Len(t)
<1>1. /\ DOMAIN s = 1 .. m /\ DOMAIN t = 1 .. n /\ DOMAIN u = 1 .. m + n
      /\ m \in Nat /\ n \in Nat
      /\ \A i \in 1 .. m : u[i] = s[i]
      /\ \A i \in 1 .. n : u[m + i] = t[i]
    BY ConcatShape
<1> HIDE DEF u, m, n
<1>2. \A i \in DOMAIN u : u[i].kind # "up" => i \in 1 .. m
  <2> SUFFICES ASSUME NEW i \in 1 .. m + n, ~(i \in 1 .. m)
               PROVE  u[i].kind = "up"
      BY <1>1
  <2>1. i - m \in 1 .. n /\ m + (i - m) = i
      BY <1>1
  <2> QED
      BY <1>1, <2>1
<1>3. \A i \in 1 .. m : i \in DOMAIN s /\ i \in DOMAIN u /\ u[i] = s[i]
    BY <1>1
<1>4. UpIn(s, k) => UpIn(u, k)
    BY <1>1, <1>3 DEF UpIn
<1>5. UpAfter(s, k) => UpAfter(u, k)
    BY <1>1, <1>2, <1>3 DEF UpAfter
<1>6. ASSUME NEW i \in DOMAIN t, t[i].key = k
      PROVE  UpIn(u, k) /\ UpAfter(u, k)
  <2>1. m + i \in DOMAIN u /\ u[m + i].key = k /\ u[m + i].kind = "up"
      BY <1>1, <1>6
  <2>2. \A j \in 1 .. m : j < m + i
      BY <1>1
  <2> QED
      BY <1>2, <2>1, <2>2 DEF UpIn, UpAfter
<1> QED
    BY <1>4, <1>5, <1>6 DEF u

\* A pulled device: its file is dead, and the X server releases its keys.
LEMMA UnplugStep ==
    ASSUME CaptureInv, NEW d \in Devs, Unplug(d)
    PROVE  CaptureInv'
<1> USE EvdevAssumption DEF CaptureInv
<1>0. /\ UNCHANGED <<be, cap, out, missed, nodes, pressed, queue, keys, pending, overtaken,
                     scan, polled, gone, removed, dead, xheld>>
      /\ UNCHANGED <<grabbed, excl, sgrab, gk, xexcl, trying, xpc>>
      /\ plugged' \subseteq plugged
      /\ down' = [down EXCEPT ![d] = {}]
      /\ stale' = stale \cup ({d} \cap nodes)
      /\ buf' = [buf EXCEPT ![d] = <<>>]
    BY DEF Unplug, Vanish, captureVars, ledgers, round
<1>a. /\ buf \in [Devs -> Seq(Events)] /\ xq \in Seq(Records) /\ down \in [Devs -> SUBSET Keys]
      /\ nodes \subseteq Devs /\ stale \subseteq nodes
    BY DEF Typed
<1>b. buf' \in [Devs -> Seq(Events)]
    BY <1>0, <1>a, EmptySeq
<1>c. /\ xq' \in Seq(Records)
      /\ be # "x11" => xq' = xq
      /\ (be = "x11" /\ ~dead) =>
            \A k \in Keys : /\ UpIn(xq, k) => UpIn(xq', k)
                            /\ UpAfter(xq, k) => UpAfter(xq', k)
                            /\ k \in down[d] => UpIn(xq', k) /\ UpAfter(xq', k)
  <2>1. CASE be = "x11" /\ ~dead /\ down[d] # {}
    <3>1. PICK n \in 1 .. MaxX - Len(xq) : \E s \in Orders(down[d], n) :
              xq' = xq \o [i \in 1 .. n |-> [key |-> s[i], kind |-> "up", core |-> "coreKeyboard" \in sgrab]]
        BY <2>1 DEF Unplug
    <3>2. PICK s \in Orders(down[d], n) :
              xq' = xq \o [i \in 1 .. n |-> [key |-> s[i], kind |-> "up", core |-> "coreKeyboard" \in sgrab]]
        BY <3>1
    <3> DEFINE t == [i \in 1 .. n |-> [key |-> s[i], kind |-> "up", core |-> "coreKeyboard" \in sgrab]]
    <3>3. s \in [1 .. n -> down[d]] /\ down[d] = {s[i] : i \in 1 .. n} /\ down[d] \subseteq Keys
        BY <1>a DEF Orders
    <3>4. n \in Nat
        BY <3>1
    <3>5. \A i \in 1 .. n : t[i] \in Records
        BY <3>3 DEF Records
    <3>6. t \in Seq(Records)
        BY <3>4, <3>5
    <3>7. \A i \in DOMAIN t : t[i].kind = "up" /\ t[i].key = s[i]
        OBVIOUS
    <3>8. \A k \in down[d] : \E i \in DOMAIN t : t[i].key = k
        BY <3>3, <3>7
    <3>9. xq' = xq \o t /\ xq' \in Seq(Records)
        BY <3>2, <3>6, <1>a, ConcatShape
    <3> HIDE DEF t
    <3>10. \A k : /\ UpIn(xq, k) => UpIn(xq \o t, k)
                  /\ UpAfter(xq, k) => UpAfter(xq \o t, k)
                  /\ (\E i \in DOMAIN t : t[i].key = k) => UpIn(xq \o t, k) /\ UpAfter(xq \o t, k)
        BY <3>6, <3>7, <1>a, UpConcat
    <3> QED
        BY <2>1, <3>8, <3>9, <3>10
  <2>2. CASE ~(be = "x11" /\ ~dead /\ down[d] # {})
    <3>1. xq' = xq
        BY <2>2 DEF Unplug
    <3> QED
        BY <3>1, <2>2, <1>a
  <2> QED
      BY <2>1, <2>2
<1>1. Typed'
  <2>1. down' \in [Devs -> SUBSET Keys] /\ stale' \subseteq nodes /\ gone \subseteq stale'
      BY <1>0, <1>a DEF Typed
  <2> QED
      BY <2>1, <1>0, <1>b, <1>c, SameSets DEF Typed
<1>2. Shape'
    BY <1>0, <1>a, <1>c DEF Shape, Closed, XClosed
<1>3. Round'
    BY <1>0 DEF Round
<1>4. Ledger'
    BY <1>0 DEF Ledger
<1>5. Lifts'
  <2>1. \A c \in nodes' \ stale' : c \in nodes \ stale /\ buf'[c] = buf[c] /\ down'[c] = down[c] /\ pressed'[c] = pressed[c]
      BY <1>0, <1>a
  <2> QED
      BY <2>1 DEF Lifts, UpIn, UpAfter
<1>6. XLifts'
  <2> SUFFICES ASSUME be = "x11", ~dead, NEW k \in Keys \ Held'
               PROVE  (k \in out \cup xheld => k \in missed \/ UpIn(xq', k)) /\ UpAfter(xq', k)
      BY <1>0 DEF XLifts, UpIn, UpAfter
  <2>1. CASE k \in down[d]
      BY <1>c, <2>1
  <2>2. CASE k \notin down[d]
    <3>1. k \notin Held
        BY <1>0, <1>a, <2>2 DEF Held
    <3> QED
        BY <1>c, <3>1 DEF XLifts
  <2> QED
      BY <2>1, <2>2
<1>7. Settled'
  <2>1. Line' = Line /\ \A j : EndsOf(j)' = EndsOf(j) /\ (Agrees(j)' <=> Agrees(j))
      BY <1>0 DEF Line, EndsOf, Agrees
  <2> QED
      BY <1>0, <2>1 DEF Settled, Comes, Covered, Later
<1> QED
    BY <1>1, <1>2, <1>3, <1>4, <1>5, <1>6, <1>7
-----------------------------------------------------------------------------
(* Steps of the X11 backend.                                                 *)

\* Whatever it does, nothing of the evdev backend changes.
LEMMA XStep ==
    ASSUME CaptureInv, be = "x11", be' = "x11", UNCHANGED <<down, evdevVars>>, plugged' \subseteq Devs,
           out' \subseteq Keys, missed' \subseteq Keys, xq' \in Seq(Records), xheld' \subseteq Keys,
           cap' \in {"outer", "next_event", "sending", "over"},
           ~dead' => \A k \in Keys \ Held :
                         (k \in out' \cup xheld' => k \in missed' \/ UpIn(xq', k)) /\ UpAfter(xq', k)
    PROVE  CaptureInv'
<1> USE EvdevAssumption DEF CaptureInv, evdevVars, ledgers, round
<1>0. Closed /\ Closed'
    BY DEF Shape, Closed
<1>1. Typed'
    BY SameSets DEF Typed
<1>2. Shape'
    BY <1>0 DEF Shape
<1>3. Round'
    BY DEF Round
<1>4. Ledger'
    BY DEF Ledger
<1>5. Lifts'
    BY DEF Lifts, UpIn, UpAfter
<1>6. XLifts'
    BY DEF XLifts, Held, UpIn, UpAfter
<1>7. Settled'
    BY DEF Settled
<1> QED
    BY <1>1, <1>2, <1>3, <1>4, <1>5, <1>6, <1>7

\* A broken connection loses what was on its way.
LEMMA ServerGoneStep ==
    ASSUME CaptureInv, ServerGone
    PROVE  CaptureInv'
<1>1. /\ be = "x11" /\ be' = "x11" /\ UNCHANGED <<down, evdevVars, plugged, out, missed, xheld, cap>>
      /\ xq' = <<>> /\ dead'
    BY DEF ServerGone, ConnectionDies, captureVars
<1>2. plugged' \subseteq Devs /\ out' \subseteq Keys /\ missed' \subseteq Keys /\ xheld' \subseteq Keys
      /\ cap' \in {"outer", "next_event", "sending", "over"} /\ xq' \in Seq(Records)
    BY <1>1, EmptySeq DEF CaptureInv, Typed
<1> QED
    BY <1>1, <1>2, XStep

\* Every step of next_event on X11.
LEMMA X11InvStep ==
    ASSUME CaptureInv, X11Step
    PROVE  CaptureInv'
<1> USE DEF CaptureInv
<1>0. be = "x11" /\ cap = "next_event" /\ UNCHANGED evdevVars
    BY DEF X11Step
<1>a. /\ xq \in Seq(Records) /\ xheld \subseteq Keys /\ out \subseteq Keys /\ missed \subseteq Keys /\ plugged \subseteq Devs
      /\ \A k \in Keys \ Held : ~dead =>
            (k \in out \cup xheld => k \in missed \/ UpIn(xq, k)) /\ UpAfter(xq, k)
    BY <1>0 DEF Typed, XLifts
<1>1. ASSUME NEW e \in Events, XRepeats(e), Returns(e)
      PROVE  CaptureInv'
  <2>1. /\ be' = "x11" /\ UNCHANGED <<down, plugged, xq, dead, xheld>> /\ cap' \in {"outer", "sending"}
        /\ e.key \in xheld /\ e.kind = "repeat" /\ out' = out \cup {e.key} /\ missed' = missed
      BY <1>0, <1>1 DEF XRepeats, Returns, Driver
  <2>2. \A k \in Keys \ Held : ~dead' =>
            (k \in out' \cup xheld' => k \in missed' \/ UpIn(xq', k)) /\ UpAfter(xq', k)
      BY <1>a, <2>1
  <2> QED
      BY <1>0, <1>a, <2>1, <2>2, XStep
<1>2. ASSUME NEW e \in Events, XEmits(e), Returns(e)
      PROVE  CaptureInv'
  <2>1. /\ be' = "x11" /\ UNCHANGED <<down, plugged, dead>> /\ cap' \in {"outer", "sending"}
        /\ xq # <<>> /\ ~dead /\ xq' = Tail(xq)
        /\ e.key = Head(xq).key /\ e.kind = Head(xq).kind
        /\ xheld' = IF e.kind = "down" THEN xheld \cup {e.key} ELSE xheld \ {e.key}
        /\ out' = IF e.kind = "up" THEN out \ {e.key} ELSE out \cup {e.key}
        /\ missed' = IF e.kind = "repeat" THEN missed ELSE missed \ {e.key}
      BY <1>0, <1>2 DEF XEmits, Returns, Driver
  <2>2. Head(xq) \in Records /\ xq' \in Seq(Records) /\ e.key \in Keys /\ e.kind \in {"down", "up"}
    <3>1. Head(xq) \in Records /\ Tail(xq) \in Seq(Records)
        BY <1>a, <2>1, TailShape
    <3> QED
        BY <2>1, <3>1 DEF Records
  <2>3. ASSUME NEW k \in Keys \ Held
        PROVE  (k \in out' \cup xheld' => k \in missed' \/ UpIn(xq', k)) /\ UpAfter(xq', k)
    <3>1. /\ UpAfter(xq, k) => UpAfter(xq', k)
          /\ (UpIn(xq, k) /\ ~(e.key = k /\ e.kind = "up")) => UpIn(xq', k)
          /\ (UpAfter(xq, k) /\ e.key = k /\ e.kind # "up") => UpIn(xq', k)
        BY <1>a, <2>1, UpTail
    <3> QED
        BY <1>a, <2>1, <2>2, <3>1
  <2> QED
      BY <1>0, <1>a, <2>1, <2>2, <2>3, XStep
<1>3. ASSUME XSkips, missed' = missed \cup Torn, UNCHANGED <<Driver, be, cap, out>>
      PROVE  CaptureInv'
  <2>1. /\ be' = "x11" /\ UNCHANGED <<down, plugged, dead, xheld, out, cap>> /\ ~dead
        /\ xq' = IF xq = <<>> THEN xq ELSE Tail(xq)
      BY <1>0, <1>3 DEF XSkips, Driver
  <2>2. CASE xq = <<>>
    <3>1. missed' = missed /\ xq' = xq
        BY <1>3, <2>1, <2>2 DEF Torn
    <3>2. \A k \in Keys \ Held : ~dead' =>
            (k \in out' \cup xheld' => k \in missed' \/ UpIn(xq', k)) /\ UpAfter(xq', k)
        BY <1>a, <2>1, <3>1
    <3> QED
        BY <1>0, <1>a, <2>1, <3>1, <3>2, XStep
  <2>3. CASE xq # <<>>
    <3>1. Head(xq) \in Records /\ xq' \in Seq(Records)
        BY <1>a, <2>1, <2>3, TailShape
    <3>2. missed' = IF Head(xq).kind = "up" THEN missed \cup {Head(xq).key} ELSE missed
        BY <1>3, <2>3 DEF Torn
    <3>3. missed' \subseteq Keys
        BY <1>a, <3>1, <3>2 DEF Records
    <3>4. ASSUME NEW k \in Keys \ Held
          PROVE  (k \in out' \cup xheld' => k \in missed' \/ UpIn(xq', k)) /\ UpAfter(xq', k)
      <4>1. /\ UpAfter(xq, k) => UpAfter(Tail(xq), k)
            /\ (UpIn(xq, k) /\ ~(Head(xq).key = k /\ Head(xq).kind = "up")) => UpIn(Tail(xq), k)
          BY <1>a, <2>3, UpTail
      <4> QED
          BY <1>a, <2>1, <2>3, <3>2, <4>1
    <3> QED
        BY <1>0, <1>a, <2>1, <3>1, <3>3, <3>4, XStep DEF Typed
  <2> QED
      BY <2>2, <2>3
<1>4. ASSUME XTakesFlag(rel) \/ XFollow(want), UNCHANGED <<down, plugged, be, cap, out, missed>>
      PROVE  CaptureInv'
  <2>1. UNCHANGED <<xq, dead, xheld>>
      BY <1>4 DEF XTakesFlag, XFollow
  <2>2. \A k \in Keys \ Held : ~dead' =>
            (k \in out' \cup xheld' => k \in missed' \/ UpIn(xq', k)) /\ UpAfter(xq', k)
      BY <1>a, <1>4, <2>1
  <2> QED
      BY <1>0, <1>a, <1>4, <2>1, <2>2, XStep DEF Typed
<1> QED
    BY <1>1, <1>2, <1>3, <1>4 DEF X11Step, Driver
-----------------------------------------------------------------------------
(* Steps of the evdev backend.                                               *)

\* The line, node by node, ...
LEMMA LineTyped ==
    ASSUME Typed
    PROVE  /\ Line \in Lines /\ Line[0] = pending /\ \A d \in Devs : Line[d] = queue[d]
           /\ DOMAIN Line = 0 .. LastNode
<1> USE EvdevAssumption
<1>1. \A c \in 0 .. LastNode : (IF c = 0 THEN pending ELSE queue[c]) \in Seq(Events)
    BY DEF Typed, Devs
<1>2. Line \in Lines
    BY <1>1 DEF Line, Lines
<1>3. 0 \in 0 .. LastNode /\ \A d \in Devs : d \in 0 .. LastNode /\ d # 0
    BY DEF Devs
<1>4. Line[0] = pending /\ \A d \in Devs : Line[d] = queue[d]
    BY <1>3 DEF Line
<1> QED
    BY <1>2, <1>4 DEF Lines

\* ... and a step that changes one queue of it.
LEMMA LineSet ==
    ASSUME Typed, NEW c0 \in 0 .. LastNode, NEW v,
           IF c0 = 0 THEN pending' = v /\ \A d \in Devs : queue'[d] = queue[d]
           ELSE pending' = pending /\ queue'[c0] = v /\ \A d \in Devs \ {c0} : queue'[d] = queue[d]
    PROVE  Line' = [Line EXCEPT ![c0] = v]
<1> USE EvdevAssumption
<1>1. \A c \in 0 .. LastNode : c # 0 => c \in Devs
    BY DEF Devs
<1>2. \A c \in 0 .. LastNode : (IF c = 0 THEN pending' ELSE queue'[c]) = IF c = c0 THEN v ELSE IF c = 0 THEN pending ELSE queue[c]
    BY <1>1
<1>3. Line' = [c \in 0 .. LastNode |-> IF c = 0 THEN pending' ELSE queue'[c]]
    BY DEF Line
<1>4. [Line EXCEPT ![c0] = v] = [c \in 0 .. LastNode |-> IF c = c0 THEN v ELSE IF c = 0 THEN pending ELSE queue[c]]
    BY DEF Line
<1> QED
    BY <1>2, <1>3, <1>4

\* Whatever it does, nothing of the X11 backend changes.
LEMMA EvStep ==
    ASSUME CaptureInv, be = "evdev", be' = "evdev", UNCHANGED <<down, plugged, x11Vars>>,
           cap' \in {"outer", "next_event", "sending", "over"}, out' \subseteq Keys, missed' \subseteq Keys,
           nodes' \subseteq Devs, stale' \subseteq nodes', gone' \subseteq stale',
           buf' \in [Devs -> Seq(Events)], queue' \in [Devs -> Seq(Events)], pending' \in Seq(Events),
           pressed' \in [Devs -> SUBSET Keys], keys' \subseteq Keys, removed' \subseteq Keys, overtaken' \subseteq Keys,
           \A d \in Devs \ nodes' : pressed'[d] = {} /\ queue'[d] = <<>> /\ buf'[d] = <<>>,
           \A d \in stale' : buf'[d] = <<>>,
           Round', Ledger', Lifts', Settled'
    PROVE  CaptureInv'
<1> USE DEF CaptureInv, x11Vars
<1>1. Typed'
    BY SameSets DEF Typed
<1>2. Shape'
    BY DEF Shape, XClosed
<1>3. XLifts'
    BY DEF XLifts
<1> QED
    BY <1>1, <1>2, <1>3

\* With the events and the record as they were, nothing is less settled.
LEMMA SameSettled ==
    ASSUME Settled, UNCHANGED <<be, pending, queue, keys, out, missed, overtaken>>
    PROVE  Settled'
<1>1. Line' = Line /\ \A j : EndsOf(j)' = EndsOf(j) /\ (Agrees(j)' <=> Agrees(j))
    BY DEF Line, EndsOf, Agrees
<1> QED
    BY <1>1 DEF Settled, Comes, Covered, Later

\* A node that is opened has nothing to read and nothing held.
LEMMA ReloadStep ==
    ASSUME CaptureInv, NEW refuse, Reload(refuse), be = "evdev", cap = "next_event",
           UNCHANGED <<Driver, be, cap, fails, out, missed, x11Vars>>
    PROVE  CaptureInv'
<1> USE EvdevAssumption DEF CaptureInv, Driver
<1>1. /\ UNCHANGED <<stale, buf, pressed, queue, keys, pending, overtaken, scan, polled, gone, removed>> /\ scan = 0
      /\ nodes \subseteq nodes' /\ nodes' \subseteq nodes \cup plugged
    BY DEF Reload, ledgers, round
<1>2. Typed'
    BY <1>1, SameSets DEF Typed, x11Vars
<1>3. Shape'
    BY <1>1 DEF Shape, XClosed, x11Vars
<1>4. Round'
    BY <1>1 DEF Round, Devs
<1>5. \A d \in nodes' \ nodes : d \in Devs /\ pressed[d] = {} /\ buf[d] = <<>>
    BY <1>1 DEF Typed, Shape
<1>6. Ledger'
    BY <1>1, <1>5 DEF Ledger
<1>7. Lifts'
    BY <1>1, <1>5, EmptySeq DEF Lifts, UpIn, UpAfter
<1>8. XLifts'
    BY DEF XLifts
<1>9. Settled'
    BY <1>1, SameSettled
<1> QED
    BY <1>2, <1>3, <1>4, <1>6, <1>7, <1>8, <1>9

\* A round begins with the line empty, at the first node that is ready.
LEMMA PollStep ==
    ASSUME CaptureInv, Poll, be = "evdev", cap = "next_event",
           UNCHANGED <<Driver, be, cap, fails, out, missed, x11Vars>>
    PROVE  CaptureInv'
<1> USE EvdevAssumption DEF CaptureInv, Driver
<1>1. /\ UNCHANGED <<nodes, stale, buf, pressed, queue, keys, pending, overtaken, gone, removed>>
      /\ pending = <<>> /\ (\A d \in nodes : queue[d] = <<>>)
      /\ scan = 0 /\ polled' \subseteq nodes
      /\ scan' \in polled' /\ \A c \in polled' : scan' <= c
    BY DEF Poll, Queued, Ready, Turn, Firsts, ledgers
<1>2. Typed'
    BY <1>1, SameSets DEF Typed, x11Vars
<1>3. Shape'
    BY <1>1 DEF Shape, XClosed, x11Vars
<1>4. Round'
  <2>0. nodes \subseteq Devs /\ removed = {}
      BY <1>1 DEF Typed, Round
  <2>1. scan' \in Devs /\ polled' \subseteq nodes /\ removed = {}
      BY <1>1, <2>0
  <2>2. scan' \in 0 .. LastNode + 1 /\ scan' # 0 /\ scan' # LastNode + 1
      BY <2>1 DEF Devs
  <2> QED
      BY <1>1, <2>1, <2>2 DEF Round
<1>5. Ledger'
    BY <1>1 DEF Ledger
<1>6. Lifts'
    BY <1>1 DEF Lifts, UpIn, UpAfter
<1>7. XLifts'
    BY DEF XLifts
<1>8. Settled'
    BY <1>1, SameSettled
<1> QED
    BY <1>2, <1>3, <1>4, <1>5, <1>6, <1>7, <1>8

\* The next node to read comes after this one.
LEMMA LastReadStep ==
    ASSUME CaptureInv, LastRead, be = "evdev", cap = "next_event",
           UNCHANGED <<Driver, be, cap, fails, out, missed, x11Vars>>
    PROVE  CaptureInv'
<1> USE EvdevAssumption DEF CaptureInv, Driver
<1>1. /\ UNCHANGED <<nodes, stale, buf, pressed, queue, keys, pending, overtaken, removed>>
      /\ scan \in nodes /\ gone' \subseteq gone \cup stale
      /\ polled' = polled \ {scan}
      /\ \/ polled' = {} /\ scan' = LastNode + 1
         \/ scan' \in polled' /\ \A c \in polled' : scan' <= c
    BY DEF LastRead, Turn, Firsts, ledgers
<1>2. Typed'
    BY <1>1, SameSets DEF Typed, x11Vars
<1>3. Shape'
    BY <1>1 DEF Shape, XClosed, x11Vars
<1>4. Round'
  <2>1. scan \in Devs /\ polled \subseteq nodes /\ nodes \subseteq Devs /\ pending = <<>> /\ removed = {}
        /\ (\A c \in polled : scan <= c) /\ \A c \in nodes : scan < c => queue[c] = <<>>
    <3>1. nodes \subseteq Devs
        BY DEF Typed
    <3>2. scan # LastNode + 1
        BY <1>1, <3>1 DEF Devs
    <3> QED
        BY <1>1, <3>1, <3>2 DEF Round
  <2>2. CASE polled' = {} /\ scan' = LastNode + 1
      BY <1>1, <2>1, <2>2 DEF Round, Devs
  <2>3. CASE scan' \in polled' /\ \A c \in polled' : scan' <= c
    <3>1. scan' \in Devs /\ scan <= scan' /\ polled' \subseteq nodes
        BY <1>1, <2>1, <2>3
    <3>2. \A c \in nodes : scan' < c => queue[c] = <<>>
        BY <2>1, <3>1 DEF Devs
    <3>3. scan' \in 0 .. LastNode + 1 /\ scan' # 0 /\ scan' # LastNode + 1
        BY <3>1 DEF Devs
    <3> QED
        BY <1>1, <2>1, <2>3, <3>1, <3>2, <3>3 DEF Round
  <2> QED
      BY <1>1, <2>2, <2>3
<1>5. Ledger'
    BY <1>1 DEF Ledger
<1>6. Lifts'
    BY <1>1 DEF Lifts, UpIn, UpAfter
<1>7. XLifts'
    BY DEF XLifts
<1>8. Settled'
    BY <1>1, SameSettled
<1> QED
    BY <1>2, <1>3, <1>4, <1>5, <1>6, <1>7, <1>8

\* A round ends with nothing of the removed nodes left to release.
LEMMA EndRoundStep ==
    ASSUME CaptureInv, EndRound, be = "evdev", cap = "next_event",
           UNCHANGED <<Driver, be, cap, fails, out, missed, x11Vars>>
    PROVE  CaptureInv'
<1> USE EvdevAssumption DEF CaptureInv, Driver
<1>1. /\ UNCHANGED <<nodes, stale, buf, pressed, queue, keys, pending, overtaken, gone, polled>>
      /\ gone = {} /\ scan' = 0 /\ removed' = {} /\ removed \subseteq UNION {pressed[d] : d \in nodes}
    BY DEF EndRound, Orphans, ledgers
<1>2. Typed'
    BY <1>1, SameSets DEF Typed, x11Vars
<1>3. Shape'
    BY <1>1 DEF Shape, XClosed, x11Vars
<1>4. Round'
    BY <1>1 DEF Round, Devs
<1>5. Ledger'
    BY <1>1 DEF Ledger
<1>6. Lifts'
    BY <1>1 DEF Lifts, UpIn, UpAfter
<1>7. XLifts'
    BY DEF XLifts
<1>8. Settled'
    BY <1>1, SameSettled
<1> QED
    BY <1>2, <1>3, <1>4, <1>5, <1>6, <1>7, <1>8

\* next_event returns the first event of the line, and the driver records it.
LEMMA EmitStep ==
    ASSUME CaptureInv, NEW e \in Events, Emits(e), Returns(e), be = "evdev", UNCHANGED x11Vars
    PROVE  CaptureInv'
<1> USE EvdevAssumption DEF CaptureInv
<1>1. /\ UNCHANGED <<nodes, stale, buf, pressed, keys, overtaken, scan, polled, gone, removed>>
      /\ UNCHANGED <<down, plugged, be>> /\ cap' \in {"outer", "sending"}
      /\ scan = 0
      /\ out' = IF e.kind = "up" THEN out \ {e.key} ELSE out \cup {e.key}
      /\ missed' = IF e.kind = "repeat" THEN missed ELSE missed \ {e.key}
    BY DEF Emits, Returns, Driver, round
<1>2. e.key \in Keys /\ e.kind \in Kinds
    BY DEF Events, Event, Kinds
<1>a. pending \in Seq(Events) /\ queue \in [Devs -> Seq(Events)] /\ nodes \subseteq Devs
    BY DEF Typed
<1>b. /\ Line \in Lines /\ Line[0] = pending /\ \A d \in Devs : Line[d] = queue[d]
      /\ DOMAIN Line = 0 .. LastNode
    BY LineTyped
<1>3. PICK c0 \in 0 .. LastNode :
          /\ Line[c0] # <<>> /\ e = Head(Line[c0]) /\ Line' = [Line EXCEPT ![c0] = Tail(@)]
          /\ \A c \in 0 .. LastNode : c < c0 => Line[c] = <<>>
          /\ queue' \in [Devs -> Seq(Events)] /\ pending' \in Seq(Events)
          /\ \A d \in Devs : queue[d] = <<>> => queue'[d] = <<>>
  <2>1. CASE pending # <<>>
    <3>1. e = Head(pending) /\ pending' = Tail(pending) /\ queue' = queue
        BY <2>1 DEF Emits
    <3>2. 0 \in 0 .. LastNode /\ \A c \in 0 .. LastNode : ~(c < 0)
        OBVIOUS
    <3>3. Line' = [Line EXCEPT ![0] = Tail(pending)]
        BY <3>1, <3>2, LineSet
    <3>4. Tail(pending) \in Seq(Events)
        BY <1>a, <2>1, TailShape
    <3> QED
        BY <1>a, <1>b, <2>1, <3>1, <3>2, <3>3, <3>4
  <2>2. CASE pending = <<>>
    <3>1. PICK d \in nodes : /\ queue[d] # <<>> /\ e = Head(queue[d])
                             /\ \A c \in nodes : c < d => queue[c] = <<>>
                             /\ queue' = [queue EXCEPT ![d] = Tail(@)] /\ pending' = pending
        BY <2>2 DEF Emits
    <3>2. d \in Devs /\ d \in 0 .. LastNode /\ d # 0
        BY <1>a DEF Devs
    <3>8. queue'[d] = Tail(queue[d]) /\ \A c \in Devs \ {d} : queue'[c] = queue[c]
        BY <3>1, <3>2, <1>a
    <3>9. Line' = [Line EXCEPT ![d] = Tail(queue[d])]
        BY <3>1, <3>2, <3>8, LineSet
    <3>3. Line' = [Line EXCEPT ![d] = Tail(@)]
        BY <3>2, <3>9, <1>b
    <3>4. \A c \in Devs : c < d => queue[c] = <<>>
        BY <3>1 DEF Shape
    <3>5. \A c \in 0 .. LastNode : c < d => Line[c] = <<>>
        BY <3>4, <2>2, <1>b DEF Devs
    <3>6. Tail(queue[d]) \in Seq(Events)
        BY <3>1, <3>2, <1>a, TailShape
    <3>7. queue' \in [Devs -> Seq(Events)] /\ \A c \in Devs : queue[c] = <<>> => queue'[c] = <<>>
        BY <1>a, <3>1, <3>2, <3>6
    <3> QED
        BY <1>a, <1>b, <3>1, <3>2, <3>3, <3>5, <3>7
  <2> QED
      BY <2>1, <2>2
<1>4. out' \subseteq Keys /\ missed' \subseteq Keys
    BY <1>1, <1>2 DEF Typed
<1>5. Round' /\ Ledger'
    BY <1>1 DEF Round, Ledger, Devs
<1>6. Lifts'
    BY <1>1 DEF Lifts, UpIn, UpAfter
<1>7. Settled'
  <2> SUFFICES ASSUME NEW k \in Keys \ overtaken
               PROVE  Covered(Line', k, EndsOf(k)) /\ (Agrees(k)' \/ Comes(Line', k, EndsOf(k)))
      BY <1>1 DEF Settled, Covered, Comes, Later, EndsOf
  <2>1. Covered(Line, k, EndsOf(k)) /\ (Agrees(k) \/ Comes(Line, k, EndsOf(k)))
      BY DEF Settled
  <2>2. /\ Covered(Line, k, EndsOf(k)) => Covered(Line', k, EndsOf(k))
        /\ (Covered(Line, k, EndsOf(k)) /\ e.key = k /\ e.kind \notin EndsOf(k)) => Comes(Line', k, EndsOf(k))
        /\ (e.key # k /\ Comes(Line, k, EndsOf(k))) => Comes(Line', k, EndsOf(k))
      BY <1>b, <1>3, LineTake
  <2>3. CASE e.key # k
    <3>1. Agrees(k) => Agrees(k)'
        BY <1>1, <2>3 DEF Agrees
    <3> QED
        BY <2>1, <2>2, <2>3, <3>1
  <2>4. CASE e.key = k /\ e.kind \in EndsOf(k)
    <3>1. Agrees(k)'
        BY <1>1, <2>4 DEF Agrees, EndsOf
    <3> QED
        BY <2>1, <2>2, <3>1
  <2> QED
      BY <2>1, <2>2, <2>3, <2>4
<1> QED
  <2>1. /\ nodes' \subseteq Devs /\ stale' \subseteq nodes' /\ gone' \subseteq stale' /\ buf' \in [Devs -> Seq(Events)]
        /\ pressed' \in [Devs -> SUBSET Keys] /\ keys' \subseteq Keys /\ removed' \subseteq Keys /\ overtaken' \subseteq Keys
      BY <1>1 DEF Typed
  <2>2. /\ \A d \in Devs \ nodes' : pressed'[d] = {} /\ queue'[d] = <<>> /\ buf'[d] = <<>>
        /\ \A d \in stale' : buf'[d] = <<>>
      BY <1>1, <1>3 DEF Shape
  <2> QED
      BY <1>1, <1>3, <1>4, <1>5, <1>6, <1>7, <2>1, <2>2, EvStep

\* accept_event: what it passes on is the last event of its key, and what it
\* holds back leaves the backend's set as it was.
LEMMA ReadStep ==
    ASSUME CaptureInv, ReadNode, be = "evdev", cap = "next_event",
           UNCHANGED <<Driver, be, cap, fails, out, missed, x11Vars>>
    PROVE  CaptureInv'
<1> USE EvdevAssumption DEF CaptureInv, Driver
<1> DEFINE d == scan
           h == Head(buf[d])
           k == h.key
           kind == Meant(d, h)
           accepted == Accepted(d, k, kind)
<1>a. /\ pending \in Seq(Events) /\ queue \in [Devs -> Seq(Events)] /\ buf \in [Devs -> Seq(Events)] /\ nodes \subseteq Devs
      /\ pressed \in [Devs -> SUBSET Keys] /\ keys \subseteq Keys
    BY DEF Typed
<1>1. /\ UNCHANGED <<nodes, stale, pending, scan, polled, gone, removed>>
      /\ d \in nodes /\ d \in Devs /\ buf[d] # <<>>
      /\ pressed' = [pressed EXCEPT ![d] = IF kind = "up" THEN @ \ {k} ELSE @ \cup {k}]
      /\ queue' = IF accepted THEN [queue EXCEPT ![d] = Append(@, Event(k, kind))] ELSE queue
      /\ keys' = CASE accepted /\ kind = "down" -> keys \cup {k}
                   [] accepted /\ kind = "up"   -> keys \ {k}
                   [] OTHER                     -> keys
      /\ overtaken' = IF accepted /\ kind # "repeat" THEN overtaken \ {k} ELSE overtaken
      /\ buf' = [buf EXCEPT ![d] = Tail(@)]
    BY <1>a DEF ReadNode, round
<1>2. h \in Events /\ k \in Keys /\ h.kind \in Kinds /\ Tail(buf[d]) \in Seq(Events)
  <2>1. h \in Events /\ Tail(buf[d]) \in Seq(Events)
      BY <1>a, <1>1, TailShape
  <2> QED
      BY <2>1 DEF Events, Event, Kinds
<1>3. /\ kind \in Kinds
      /\ kind = "up" <=> h.kind = "up"
      /\ kind = "repeat" => k \in pressed[d]
    BY <1>2 DEF Meant, Kinds
<1>4. /\ kind = "repeat" => accepted
      /\ (kind = "down" => (accepted <=> k \notin keys))
      /\ (kind = "up" => (accepted <=> k \in keys /\ ~HeldElsewhere(d, k)))
    BY DEF Accepted
<1> DEFINE e == Event(k, kind)
<1>5. e \in Events /\ e.key = k /\ e.kind = kind
    BY <1>2, <1>3 DEF Events, Event, Kinds
<1> HIDE DEF kind, accepted, k, h, e
<1>6. /\ pressed' \in [Devs -> SUBSET Keys] /\ keys' \subseteq Keys /\ overtaken' \subseteq Keys
      /\ buf' \in [Devs -> Seq(Events)]
      /\ overtaken \ {k} \subseteq overtaken'
      /\ overtaken' \subseteq overtaken
    BY <1>a, <1>1, <1>2 DEF Typed
<1>7. queue' \in [Devs -> Seq(Events)]
  <2>1. Append(queue[d], e) \in Seq(Events)
      BY <1>a, <1>1, <1>5, AppendShape
  <2> QED
      BY <2>1, <1>1, <1>a DEF e
<1>8. scan # 0 /\ scan # LastNode + 1 /\ pending = <<>> /\ removed = {} /\ \A c \in nodes : scan < c => queue[c] = <<>>
    BY <1>1 DEF Round, Devs
<1>9. Round'
  <2>1. \A c \in nodes : scan < c => queue'[c] = <<>>
      BY <1>1, <1>8, <1>a DEF Devs
  <2> QED
      BY <1>1, <2>1 DEF Round
<1>10. Ledger'
  <2>1. ASSUME NEW c \in nodes
        PROVE  pressed'[c] \subseteq keys'
    <3>1. pressed[c] \subseteq keys /\ c \in Devs
        BY <1>a DEF Ledger
    <3>2. CASE c = d
        BY <1>1, <1>3, <1>4, <1>a, <3>1, <3>2 DEF Kinds
    <3>3. CASE c # d
      <4>1. pressed'[c] = pressed[c]
          BY <1>1, <1>a, <3>1, <3>3
      <4>2. (accepted /\ kind = "up") => k \notin pressed[c]
          BY <1>4, <3>3 DEF HeldElsewhere
      <4> QED
          BY <1>1, <3>1, <4>1, <4>2
    <3> QED
        BY <3>2, <3>3
  <2>2. keys' \subseteq UNION {pressed'[c] : c \in nodes}
    <3> SUFFICES ASSUME NEW j \in keys'
                 PROVE  \E c \in nodes : j \in pressed'[c]
        OBVIOUS
    <3>1. CASE j = k /\ kind # "up"
      <4>1. j \in pressed'[d]
          BY <1>1, <1>a, <3>1
      <4> QED
          BY <4>1, <1>1
    <3>2. CASE j = k /\ kind = "up"
      <4>1. ~accepted /\ k \in keys
          BY <1>1, <3>2
      <4>2. PICK c \in nodes \ {d} : k \in pressed[c]
          BY <1>4, <3>2, <4>1 DEF HeldElsewhere
      <4>3. k \in pressed'[c]
          BY <1>1, <1>a, <4>2
      <4> QED
          BY <3>2, <4>2, <4>3
    <3>3. CASE j # k
      <4>1. j \in keys
          BY <1>1, <3>3
      <4>2. PICK c \in nodes : j \in pressed[c]
          BY <1>8, <4>1 DEF Ledger
      <4>3. j \in pressed'[c]
          BY <1>1, <1>a, <3>3, <4>2
      <4> QED
          BY <4>2, <4>3
    <3> QED
        BY <3>1, <3>2, <3>3
  <2> QED
      BY <1>1, <1>8, <2>1, <2>2 DEF Ledger
<1>11. Lifts'
  <2> SUFFICES ASSUME NEW c \in nodes \ stale, NEW j \in Keys \ down[c]
               PROVE  (j \in pressed'[c] => UpIn(buf'[c], j)) /\ UpAfter(buf'[c], j)
      BY <1>1 DEF Lifts, UpIn, UpAfter
  <2>1. c \in Devs /\ (j \in pressed[c] => UpIn(buf[c], j)) /\ UpAfter(buf[c], j)
      BY <1>a DEF Lifts
  <2>2. CASE c # d
      BY <1>1, <1>a, <2>1, <2>2
  <2>3. CASE c = d
    <3>1. buf'[c] = Tail(buf[c]) /\ pressed'[c] = IF kind = "up" THEN pressed[c] \ {k} ELSE pressed[c] \cup {k}
        BY <1>1, <1>a, <2>1, <2>3
    <3>2. /\ UpAfter(buf[c], j) => UpAfter(Tail(buf[c]), j)
          /\ (UpIn(buf[c], j) /\ ~(h.key = j /\ h.kind = "up")) => UpIn(Tail(buf[c]), j)
          /\ (UpAfter(buf[c], j) /\ h.key = j /\ h.kind # "up") => UpIn(Tail(buf[c]), j)
        BY <1>1, <1>a, <2>1, <2>3, UpTail DEF h
    <3>3. k = h.key
        BY DEF k
    <3> QED
        BY <1>3, <2>1, <3>1, <3>2, <3>3
  <2> QED
      BY <2>2, <2>3
<1>12. Settled'
  <2>b. /\ Line \in Lines /\ Line[0] = pending /\ \A c \in Devs : Line[c] = queue[c]
        /\ DOMAIN Line = 0 .. LastNode
      BY LineTyped
  <2>1. d \in 0 .. LastNode /\ d # 0
      BY <1>1 DEF Devs
  <2>2. \A c \in 0 .. LastNode : d < c => Line[c] = <<>>
      BY <1>8, <2>1, <2>b DEF Shape, Devs
  <2>3. Line' = IF accepted THEN [Line EXCEPT ![d] = Append(@, e)] ELSE Line
    <3>1. CASE accepted
      <4>1. queue'[d] = Append(queue[d], e) /\ \A c \in Devs \ {d} : queue'[c] = queue[c]
          BY <1>1, <1>a, <3>1 DEF e
      <4>2. Line' = [Line EXCEPT ![d] = Append(queue[d], e)]
          BY <1>1, <2>1, <4>1, LineSet
      <4> QED
          BY <1>1, <2>b, <3>1, <4>2
    <3>2. CASE ~accepted
        BY <1>1, <3>2 DEF Line
    <3> QED
        BY <3>1, <3>2
  <2>4. \A c \in 0 .. LastNode : d < c => \A i \in DOMAIN Line[c] : Line[c][i].key # k
      BY <2>2
  <2> SUFFICES ASSUME NEW j \in Keys \ overtaken'
               PROVE  Covered(Line', j, EndsOf(j)') /\ (Agrees(j)' \/ Comes(Line', j, EndsOf(j)'))
      BY DEF Settled, Covered, Comes, Later
  <2>5. CASE j = k /\ accepted
    <3>1. kind \in EndsOf(j)'
        BY <1>1, <1>3, <1>4, <2>5, <1>a DEF EndsOf, Kinds, Ledger
    <3>2. Covered(Line', j, EndsOf(j)') /\ Comes(Line', j, EndsOf(j)')
        BY <1>5, <2>1, <2>3, <2>4, <2>5, <2>b, <3>1, LineAppend
    <3> QED
        BY <3>2
  <2>6. CASE ~(j = k /\ accepted)
    <3>1. j \notin overtaken
        BY <1>1, <2>6
    <3>2. Covered(Line, j, EndsOf(j)) /\ (Agrees(j) \/ Comes(Line, j, EndsOf(j)))
        BY <3>1 DEF Settled
    <3>3. EndsOf(j)' = EndsOf(j) /\ (Agrees(j)' <=> Agrees(j))
        BY <1>1, <2>6 DEF EndsOf, Agrees
    <3>4. CASE accepted
      <4>1. /\ Covered(Line, j, EndsOf(j)) => Covered(Line', j, EndsOf(j))
            /\ Comes(Line, j, EndsOf(j)) => Comes(Line', j, EndsOf(j))
          BY <1>5, <2>1, <2>3, <2>6, <2>b, <3>4, LineAppend
      <4> QED
          BY <3>2, <3>3, <4>1
    <3>5. CASE ~accepted
        BY <2>3, <3>2, <3>3, <3>5
    <3> QED
        BY <3>4, <3>5
  <2> QED
      BY <2>5, <2>6
<1> QED
  <2>1. /\ nodes' \subseteq Devs /\ stale' \subseteq nodes' /\ gone' \subseteq stale' /\ removed' \subseteq Keys
        /\ pending' \in Seq(Events) /\ out' \subseteq Keys /\ missed' \subseteq Keys
      BY <1>1 DEF Typed
  <2>2. /\ \A c \in Devs \ nodes' : pressed'[c] = {} /\ queue'[c] = <<>> /\ buf'[c] = <<>>
        /\ \A c \in stale' : buf'[c] = <<>>
    <3>1. d \notin stale /\ stale \subseteq Devs
        BY <1>1 DEF Shape, Typed
    <3>2. \A c \in Devs \ {d} : pressed'[c] = pressed[c] /\ queue'[c] = queue[c] /\ buf'[c] = buf[c]
        BY <1>1, <1>a
    <3> QED
        BY <1>1, <3>1, <3>2 DEF Shape
  <2> QED
      BY <1>1, <1>6, <1>7, <1>9, <1>10, <1>11, <1>12, <2>1, <2>2, EvStep

\* remove_devices takes a dead node's queue to the head of the line.  That keeps
\* the order of a key's events unless the key waits on an earlier node as well.
LEMMA RemoveStep ==
    ASSUME CaptureInv, RemoveNode, be = "evdev", cap = "next_event",
           UNCHANGED <<Driver, be, cap, fails, out, missed, x11Vars>>
    PROVE  CaptureInv'
<1> USE EvdevAssumption DEF CaptureInv, Driver
<1>a. /\ pending \in Seq(Events) /\ queue \in [Devs -> Seq(Events)] /\ nodes \subseteq Devs
      /\ pressed \in [Devs -> SUBSET Keys] /\ gone \subseteq stale /\ stale \subseteq nodes
    BY DEF Typed
<1>b. /\ Line \in Lines /\ Line[0] = pending /\ \A c \in Devs : Line[c] = queue[c]
      /\ DOMAIN Line = 0 .. LastNode
    BY LineTyped
<1>0. PICK d \in gone :
          /\ pending' = pending \o Rescued(queue[d]) /\ queue' = [queue EXCEPT ![d] = <<>>]
          /\ removed' = removed \cup pressed[d] /\ pressed' = [pressed EXCEPT ![d] = {}]
          /\ nodes' = nodes \ {d} /\ stale' = stale \ {d} /\ gone' = gone \ {d}
          /\ overtaken' = overtaken \cup
                {k \in Keys : Waits(k, d) /\ \E c \in nodes : c < d /\ Waits(k, c)}
    BY DEF RemoveNode, Firsts
<1>1. /\ UNCHANGED <<buf, keys, scan, polled>> /\ scan = LastNode + 1
      /\ d \in Devs /\ d \in nodes /\ d \in stale
      /\ pending' = pending \o queue[d]
      /\ \A c \in Devs \ {d} : pressed'[c] = pressed[c] /\ queue'[c] = queue[c]
      /\ pressed'[d] = {} /\ queue'[d] = <<>>
    BY <1>0, <1>a DEF RemoveNode, Rescued
<1>2. /\ pending' \in Seq(Events) /\ queue' \in [Devs -> Seq(Events)] /\ pressed' \in [Devs -> SUBSET Keys]
      /\ removed' \subseteq Keys /\ overtaken' \subseteq Keys
  <2>1. pending \o queue[d] \in Seq(Events)
      BY <1>1, <1>a, ConcatShape
  <2>2. removed \subseteq Keys /\ overtaken \subseteq Keys
      BY DEF Typed
  <2> QED
      BY <1>0, <1>1, <1>a, <2>1, <2>2, EmptySeq
<1>3. nodes' \subseteq Devs /\ stale' \subseteq nodes' /\ gone' \subseteq stale'
    BY <1>0, <1>a
<1>4. /\ \A c \in Devs \ nodes' : pressed'[c] = {} /\ queue'[c] = <<>> /\ buf'[c] = <<>>
      /\ \A c \in stale' : buf'[c] = <<>>
    BY <1>0, <1>1, <1>a DEF Shape
<1>5. Round'
    BY <1>0, <1>1 DEF Round, Devs
<1>6. Ledger'
    BY <1>0, <1>1, <1>a DEF Ledger
<1>7. Lifts'
  <2>1. \A c \in nodes' \ stale' : c \in nodes \ stale /\ c \in Devs \ {d}
      BY <1>0, <1>1, <1>a
  <2> QED
      BY <1>1, <2>1 DEF Lifts, UpIn, UpAfter
<1>8. Settled'
  <2> SUFFICES ASSUME NEW k \in Keys \ overtaken'
               PROVE  Covered(Line', k, EndsOf(k)) /\ (Agrees(k)' \/ Comes(Line', k, EndsOf(k)))
      BY <1>1 DEF Settled, Covered, Comes, Later, EndsOf
  <2>1. d \in 1 .. LastNode /\ d \in 0 .. LastNode /\ d # 0 /\ 0 \in 0 .. LastNode
      BY <1>1 DEF Devs
  <2>2. Line' = [Line EXCEPT ![0] = Line[0] \o Line[d], ![d] = <<>>]
    <3>1. \A c \in 0 .. LastNode : c # 0 => c \in Devs
        BY DEF Devs
    <3>2. \A c \in 0 .. LastNode : (IF c = 0 THEN pending' ELSE queue'[c])
              = IF c = d THEN <<>> ELSE IF c = 0 THEN Line[0] \o Line[d] ELSE Line[c]
        BY <1>1, <1>b, <2>1, <3>1
    <3>3. Line' = [c \in 0 .. LastNode |-> IF c = 0 THEN pending' ELSE queue'[c]]
        BY DEF Line
    <3>4. [Line EXCEPT ![0] = Line[0] \o Line[d], ![d] = <<>>]
              = [c \in 0 .. LastNode |-> IF c = d THEN <<>> ELSE IF c = 0 THEN Line[0] \o Line[d] ELSE Line[c]]
        BY <1>b
    <3> QED
        BY <3>2, <3>3, <3>4
  <2>3. ~ /\ \E i \in DOMAIN Line[d] : Line[d][i].key = k
          /\ \E c \in 1 .. d - 1 : \E i \in DOMAIN Line[c] : Line[c][i].key = k
    <3> SUFFICES ASSUME NEW i \in DOMAIN queue[d], queue[d][i].key = k,
                        NEW c \in 1 .. d - 1, NEW j \in DOMAIN Line[c], Line[c][j].key = k
                 PROVE  FALSE
        BY <1>1, <1>b
    <3>1. c \in Devs /\ c < d /\ Line[c] = queue[c]
        BY <1>1, <1>b DEF Devs
    <3>2. Waits(k, d)
        BY <1>1, <1>a, LenProperties DEF Waits
    <3>3. Waits(k, c)
        BY <3>1, <1>a, LenProperties DEF Waits
    <3>4. queue[c] # <<>>
        BY <3>1
    <3>5. c \in nodes
        BY <3>1, <3>4 DEF Shape
    <3> QED
        BY <1>0, <3>1, <3>2, <3>3, <3>5
  <2>4. /\ Covered(Line, k, EndsOf(k)) => Covered(Line', k, EndsOf(k))
        /\ Comes(Line, k, EndsOf(k)) => Comes(Line', k, EndsOf(k))
      BY <1>b, <2>1, <2>2, <2>3, LineMove
  <2>5. k \notin overtaken
      BY <1>0
  <2>6. Covered(Line, k, EndsOf(k)) /\ (Agrees(k) \/ Comes(Line, k, EndsOf(k)))
      BY <2>5 DEF Settled
  <2>7. Agrees(k)' <=> Agrees(k)
      BY <1>1 DEF Agrees
  <2> QED
      BY <2>4, <2>6, <2>7
<1>9. keys' \subseteq Keys /\ out' \subseteq Keys /\ missed' \subseteq Keys /\ buf' \in [Devs -> Seq(Events)]
    BY <1>1 DEF Typed
<1> QED
    BY <1>2, <1>3, <1>4, <1>5, <1>6, <1>7, <1>8, <1>9, EvStep

\* The release remove_devices makes is the last of its key unless the key still
\* waits on a node.
LEMMA ReleaseStep ==
    ASSUME CaptureInv, NEW k \in Orphans, ReleaseOrphan(k), be = "evdev", cap = "next_event",
           UNCHANGED <<Driver, be, cap, fails, out, missed, x11Vars>>
    PROVE  CaptureInv'
<1> USE EvdevAssumption DEF CaptureInv, Driver
<1> DEFINE e == Event(k, "up")
<1>1. /\ UNCHANGED <<nodes, stale, buf, pressed, queue, scan, polled, gone>> /\ scan = LastNode + 1 /\ gone = {}
      /\ k \in removed /\ (\A d \in nodes : k \notin pressed[d])
      /\ removed' = removed \ {k} /\ keys' = keys \ {k}
      /\ pending' = IF k \in keys THEN Append(pending, e) ELSE pending
      /\ overtaken' = IF k \in keys /\ \E d \in nodes : Waits(k, d) THEN overtaken \cup {k} ELSE overtaken
    BY DEF ReleaseOrphan, Orphans
<1>2. k \in keys /\ k \in Keys
    BY <1>1 DEF Ledger, Typed
<1>3. e \in Events /\ e.key = k /\ e.kind = "up"
    BY <1>2 DEF Events, Event
<1> HIDE DEF e
<1>a. /\ pending \in Seq(Events) /\ queue \in [Devs -> Seq(Events)] /\ nodes \subseteq Devs
    BY DEF Typed
<1>b. /\ Line \in Lines /\ Line[0] = pending /\ \A c \in Devs : Line[c] = queue[c]
      /\ DOMAIN Line = 0 .. LastNode
    BY LineTyped
<1>4. pending' \in Seq(Events)
    BY <1>1, <1>2, <1>3, <1>a, AppendShape
<1>5. /\ nodes' \subseteq Devs /\ stale' \subseteq nodes' /\ gone' \subseteq stale' /\ buf' \in [Devs -> Seq(Events)]
      /\ queue' \in [Devs -> Seq(Events)] /\ pressed' \in [Devs -> SUBSET Keys] /\ keys' \subseteq Keys
      /\ removed' \subseteq Keys /\ overtaken' \subseteq Keys /\ out' \subseteq Keys /\ missed' \subseteq Keys
    BY <1>1, <1>2 DEF Typed
<1>6. /\ \A c \in Devs \ nodes' : pressed'[c] = {} /\ queue'[c] = <<>> /\ buf'[c] = <<>>
      /\ \A c \in stale' : buf'[c] = <<>>
    BY <1>1 DEF Shape
<1>7. Round'
    BY <1>1 DEF Round, Devs
<1>8. Ledger'
    BY <1>1 DEF Ledger
<1>9. Lifts'
    BY <1>1 DEF Lifts, UpIn, UpAfter
<1>10. Settled'
  <2> SUFFICES ASSUME NEW j \in Keys \ overtaken'
               PROVE  Covered(Line', j, EndsOf(j)') /\ (Agrees(j)' \/ Comes(Line', j, EndsOf(j)'))
      BY DEF Settled, Covered, Comes, Later
  <2>1. 0 \in 0 .. LastNode
      OBVIOUS
  <2>2. Line' = [Line EXCEPT ![0] = Append(@, e)]
    <3>1. Line' = [Line EXCEPT ![0] = Append(pending, e)]
        BY <1>1, <1>2, <2>1, LineSet
    <3> QED
        BY <1>b, <2>1, <3>1
  <2>3. CASE j = k
    <3>1. \A d \in nodes : ~Waits(k, d)
        BY <1>1, <1>2, <2>3
    <3>2. \A c \in 0 .. LastNode : 0 < c => \A i \in DOMAIN Line[c] : Line[c][i].key # k
      <4> SUFFICES ASSUME NEW c \in 0 .. LastNode, 0 < c, NEW i \in DOMAIN Line[c], Line[c][i].key = k
                   PROVE  FALSE
          OBVIOUS
      <4>1. c \in Devs /\ Line[c] = queue[c]
          BY <1>b DEF Devs
      <4>2. Waits(k, c)
          BY <4>1, <1>a, LenProperties DEF Waits
      <4>3. c \in nodes
          BY <4>1 DEF Shape
      <4> QED
          BY <3>1, <4>2, <4>3
    <3>3. "up" \in EndsOf(j)'
        BY <1>1, <2>3 DEF EndsOf
    <3>4. Covered(Line', j, EndsOf(j)') /\ Comes(Line', j, EndsOf(j)')
        BY <1>3, <1>b, <2>1, <2>2, <2>3, <3>2, <3>3, LineAppend
    <3> QED
        BY <3>4
  <2>4. CASE j # k
    <3>1. j \notin overtaken
        BY <1>1, <2>4
    <3>2. Covered(Line, j, EndsOf(j)) /\ (Agrees(j) \/ Comes(Line, j, EndsOf(j)))
        BY <3>1 DEF Settled
    <3>3. EndsOf(j)' = EndsOf(j) /\ (Agrees(j)' <=> Agrees(j))
        BY <1>1, <2>4 DEF EndsOf, Agrees
    <3>4. /\ Covered(Line, j, EndsOf(j)) => Covered(Line', j, EndsOf(j))
          /\ Comes(Line, j, EndsOf(j)) => Comes(Line', j, EndsOf(j))
        BY <1>3, <1>b, <2>1, <2>2, <2>4, LineAppend
    <3> QED
        BY <3>2, <3>3, <3>4
  <2> QED
      BY <2>3, <2>4
<1> QED
    BY <1>4, <1>5, <1>6, <1>7, <1>8, <1>9, <1>10, EvStep
-----------------------------------------------------------------------------
(* Every step.                                                               *)

\* Every step of the specification keeps the invariant.
LEMMA NextInv ==
    ASSUME CaptureInv, [Next]_vars
    PROVE  CaptureInv'
<1> USE EvdevAssumption
<1>a. /\ plugged \subseteq Devs /\ out \subseteq Keys /\ missed \subseteq Keys
      /\ cap \in {"outer", "next_event", "sending", "over"}
      /\ cap = "next_event" => be # "none"
    BY DEF CaptureInv, Typed, Shape
<1> DEFINE Quietly == /\ UNCHANGED eventVars /\ plugged' \subseteq Devs
                      /\ cap' \in {"outer", "next_event", "sending", "over"}
                      /\ cap' = "next_event" => be # "none"
                      /\ cap' # "over" => cap # "over"
                      /\ be # "evdev" => UNCHANGED evdevVars
                      /\ be # "x11" => UNCHANGED x11Vars
<1>q. Quietly => CaptureInv'
    BY NothingMoves
<1>1. CASE UNCHANGED vars
  <2>1. Quietly
      BY <1>1, <1>a DEF vars, captureVars, evdevVars, x11Vars, ledgers, round, eventVars
  <2> QED
      BY <2>1, <1>q
<1>2. CASE \/ \E d \in Loose : Plug(d)
           \/ \E b \in BOOLEAN : SetExclusive(b)
           \/ ReleaseCapture \/ Take \/ Wedge \/ DropGuard
  <2>1. Quietly
      BY <1>2, <1>a DEF Plug, SetExclusive, ReleaseCapture, Take, Wedge, DropGuard,
                        captureVars, evdevVars, x11Vars, ledgers, round, eventVars
  <2> QED
      BY <2>1, <1>q
<1>3. CASE \E d \in Devs, k \in Keys : Press(d, k) \/ Lift(d, k) \/ Holds(d, k)
    BY <1>3, HandStep
<1>4. CASE \E d \in Loose : Unplug(d)
    BY <1>4, UnplugStep
<1>5. CASE ServerGone
    BY <1>5, ServerGoneStep
<1>6. CASE Stops \/ SendAborted
  <2>1. Ends /\ UNCHANGED <<down, plugged, out, missed>>
      BY <1>6 DEF Stops, SendAborted, Driver
  <2> QED
      BY <2>1, <1>a, DropStep DEF Ends
<1>7. CASE Fails
  <2>1. /\ Close /\ XClose /\ be' = "none" /\ cap' = "sending" /\ missed' = missed \cup out
        /\ UNCHANGED <<down, plugged, out>>
      BY <1>7 DEF Fails
  <2> QED
      BY <2>1, <1>a, DropStep
<1>8. CASE Sends
  <2>1. CASE fails > Limit
    <3>1. Ends /\ UNCHANGED <<down, plugged, out, missed>>
        BY <1>8, <2>1 DEF Sends
    <3> QED
        BY <3>1, <1>a, DropStep DEF Ends
  <2>2. CASE ~(fails > Limit)
    <3>1. Quietly
        BY <1>8, <2>2, <1>a DEF Sends, evdevVars, x11Vars, ledgers, round, eventVars
    <3> QED
        BY <3>1, <1>q
  <2> QED
      BY <2>1, <2>2
<1>9. CASE Watchdog \/ Enter
  <2>1. Quietly
      BY <1>9, <1>a DEF Watchdog, FreesBackend, XUngrab, Enter, Driver, evdevVars, x11Vars, ledgers, round, eventVars
  <2> QED
      BY <2>1, <1>q
<1>10. CASE Rebuild
    BY <1>10, RebuildStep
<1>11. CASE X11Step
    BY <1>11, X11InvStep
<1>12. CASE EvdevStep
  <2>0. be = "evdev" /\ cap = "next_event" /\ UNCHANGED x11Vars
      BY <1>12 DEF EvdevStep
  <2>1. CASE \E e \in Events : Emits(e) /\ Returns(e)
      BY <2>0, <2>1, EmitStep
  <2>2. CASE UNCHANGED <<Driver, be, cap, fails, out, missed>>
    <3>1. CASE \E refuse \in SUBSET Shy : Reload(refuse)
        BY <2>0, <2>2, <3>1, ReloadStep
    <3>2. CASE \E refuse \in SUBSET Shy : Follow(want, refuse)
      <4>1. Quietly
          BY <2>0, <2>2, <3>2, <1>a DEF Follow, Driver, ledgers, round, eventVars, x11Vars
      <4> QED
          BY <4>1, <1>q
    <3>3. CASE Poll
        BY <2>0, <2>2, <3>3, PollStep
    <3>4. CASE ReadNode
        BY <2>0, <2>2, <3>4, ReadStep
    <3>5. CASE LastRead
        BY <2>0, <2>2, <3>5, LastReadStep
    <3>6. CASE RemoveNode
        BY <2>0, <2>2, <3>6, RemoveStep
    <3>7. CASE EndRound
        BY <2>0, <2>2, <3>7, EndRoundStep
    <3>8. CASE \E k \in Orphans : ReleaseOrphan(k)
        BY <2>0, <2>2, <3>8, ReleaseStep
    <3> QED
      <4>1. \/ \E e \in Events : Emits(e) /\ Returns(e)
            \/ \E refuse \in SUBSET Shy : Reload(refuse) \/ Follow(want, refuse)
            \/ Poll \/ ReadNode \/ LastRead \/ RemoveNode \/ EndRound
            \/ \E k \in Orphans : ReleaseOrphan(k)
          BY <1>12 DEF EvdevStep
      <4> QED
          BY <4>1, <2>1, <3>1, <3>2, <3>3, <3>4, <3>5, <3>6, <3>7, <3>8
  <2> QED
      BY <1>12, <2>1, <2>2 DEF EvdevStep
<1> HIDE DEF Quietly
<1> QED
    BY <1>1, <1>2, <1>3, <1>4, <1>5, <1>6, <1>7, <1>8, <1>9, <1>10, <1>11, <1>12 DEF Next, Thread, World
-----------------------------------------------------------------------------

\* The invariant holds in every state, whatever is plugged, pulled or dropped.
THEOREM CaptureInductive == Spec => []CaptureInv
<1>1. Init => CaptureInv
    BY InitInv
<1>2. CaptureInv /\ [Next]_vars => CaptureInv'
    BY NextInv
<1> QED
    BY <1>1, <1>2, PTL DEF Spec

\* NoGhost: once everything is read, no key is held for the peer that no hand
\* holds, but for what a dropped backend or a reordering has lost.
THEOREM NoGhostKeys == Spec => []NoGhost
<1>1. CaptureInv => NoGhost
    BY InvNoGhost
<1> QED
    BY <1>1, CaptureInductive, PTL

\* HeldStays: accept_event and remove_devices keep a key down for the driver
\* while any open keyboard reports it down.
THEOREM HeldKeysStay == Spec => []HeldStays
<1>1. CaptureInv => HeldStays
    BY InvHeldStays
<1> QED
    BY <1>1, CaptureInductive, PTL
-----------------------------------------------------------------------------
(* Grabs and counters.                                                       *)

\* The grabs are those on record, and the counters are in their bounds.
Counts ==
    /\ grabbed \subseteq nodes
    /\ gk \in {"none", "xi", "core"} /\ xpc \in {"top", "rested", "follow", "poll"}
    /\ dead => sgrab = {}
    /\ GrabsAreKnown
    /\ chan \in 0 .. Room /\ fails \in 0 .. Limit + 1
    /\ fails > Limit => cap \in {"sending", "over"}

\* The ways a step changes what the X server holds.
LEMMA GrabsMoved ==
    ASSUME Counts,
           \/ UNCHANGED <<sgrab, dead, gk>>
           \/ XUngrab /\ dead' = dead
           \/ \E kind \in {"xi", "core", "none"} : gk' = kind /\ Engage(sgrab', kind) /\ ~dead /\ ~dead'
           \/ sgrab' = {} /\ dead' /\ gk' = gk
           \/ sgrab' = {} /\ gk' = "none"
    PROVE  /\ gk' \in {"none", "xi", "core"}
           /\ dead' => sgrab' = {}
           /\ GrabsAreKnown'
<1> USE DEF Counts
<1>1. CASE UNCHANGED <<sgrab, dead, gk>>
    BY <1>1 DEF GrabsAreKnown
<1>2. CASE XUngrab /\ dead' = dead
  <2>1. gk' = "none" /\ sgrab' = sgrab \ Releases(gk)
      BY <1>2 DEF XUngrab
  <2>2. CASE dead
      BY <1>2, <2>1, <2>2 DEF GrabsAreKnown
  <2>3. CASE ~dead /\ gk = "none"
      BY <1>2, <2>1, <2>3 DEF GrabsAreKnown
  <2>4. CASE ~dead /\ gk = "xi"
    <3>1. sgrab \in XiGrabs /\ Releases(gk) = {"all", "pointer", "keyboard"}
        BY <2>4 DEF GrabsAreKnown, Releases
    <3>2. sgrab' = {}
        BY <2>1, <3>1 DEF XiGrabs
    <3> QED
        BY <2>1, <3>2 DEF GrabsAreKnown
  <2>5. CASE ~dead /\ gk = "core"
    <3>1. sgrab = CoreGrab /\ Releases(gk) = CoreGrab
        BY <2>5 DEF GrabsAreKnown, Releases
    <3>2. sgrab' = {}
        BY <2>1, <3>1
    <3> QED
        BY <2>1, <3>2 DEF GrabsAreKnown
  <2> QED
      BY <2>2, <2>3, <2>4, <2>5
<1>3. ASSUME NEW kind \in {"xi", "core", "none"}, gk' = kind, Engage(sgrab', kind), ~dead'
      PROVE  GrabsAreKnown' /\ gk' \in {"none", "xi", "core"}
    BY <1>3 DEF Engage, SweepFailed, CoreFailed, GrabsAreKnown
<1>4. CASE sgrab' = {} /\ dead' /\ gk' = gk
    BY <1>4 DEF GrabsAreKnown
<1>5. CASE sgrab' = {} /\ gk' = "none"
    BY <1>5 DEF GrabsAreKnown
<1> QED
    BY <1>1, <1>2, <1>3, <1>4, <1>5

\* Every step keeps the grabs on record and the counters bounded.
LEMMA CountsStep ==
    ASSUME Counts, CaptureInv, [Next]_vars
    PROVE  Counts'
<1> USE EvdevAssumption, CaptureAssumption
<1> DEFINE Moved == \/ UNCHANGED <<sgrab, dead, gk>>
                    \/ XUngrab /\ dead' = dead
                    \/ \E kind \in {"xi", "core", "none"} : gk' = kind /\ Engage(sgrab', kind) /\ ~dead /\ ~dead'
                    \/ sgrab' = {} /\ dead' /\ gk' = gk
                    \/ sgrab' = {} /\ gk' = "none"
           Rest == /\ grabbed' \subseteq nodes' /\ xpc' \in {"top", "rested", "follow", "poll"}
                   /\ chan' \in 0 .. Room /\ fails' \in 0 .. Limit + 1
                   /\ fails' > Limit => cap' \in {"sending", "over"}
<1>q. (Moved /\ Rest) => Counts'
  <2>1. Moved => /\ gk' \in {"none", "xi", "core"}
                 /\ dead' => sgrab' = {}
                 /\ GrabsAreKnown'
      BY GrabsMoved
  <2> HIDE DEF Moved
  <2> QED
      BY <2>1 DEF Counts
<1>a. /\ grabbed \subseteq nodes /\ xpc \in {"top", "rested", "follow", "poll"}
      /\ chan \in 0 .. Room /\ fails \in 0 .. Limit + 1
      /\ fails > Limit => cap \in {"sending", "over"}
    BY DEF Counts
<1>b. stale \subseteq nodes
    BY DEF CaptureInv, Typed
<1>1. CASE UNCHANGED vars
    BY <1>1, <1>a, <1>q DEF vars, captureVars, evdevVars, x11Vars
<1>2. CASE World
  <2>1. UNCHANGED <<grabbed, nodes, xpc, fails, cap>>
      BY <1>2 DEF World, Press, Lift, Holds, Hand, Unplug, Plug, ServerGone, ConnectionDies, SetExclusive, ReleaseCapture,
                  Take, Wedge, DropGuard, captureVars, evdevVars, x11Vars
  <2>2. chan' \in 0 .. Room
    <3>1. CASE Take
        BY <3>1, <1>a DEF Take
    <3>2. CASE ~Take
      <4>1. chan' = chan
          BY <1>2, <3>2 DEF World, Press, Lift, Holds, Hand, Unplug, Plug, ServerGone, SetExclusive, ReleaseCapture,
                            Wedge, DropGuard, captureVars
      <4> QED
          BY <4>1, <1>a
    <3> QED
        BY <3>1, <3>2
  <2>3. Moved
    <3>1. CASE ServerGone
        BY <3>1 DEF ServerGone, ConnectionDies
    <3>2. CASE ~ServerGone
        BY <1>2, <3>2 DEF World, Press, Lift, Holds, Hand, Unplug, Plug, SetExclusive, ReleaseCapture,
                          Take, Wedge, DropGuard, x11Vars
    <3> QED
        BY <3>1, <3>2
  <2> QED
      BY <2>1, <2>2, <2>3, <1>a, <1>q
<1>3. CASE Stops \/ SendAborted
    BY <1>3, <1>a, <1>q DEF Stops, SendAborted, Ends, Close, XClose, Driver
<1>4. CASE Watchdog
    BY <1>4, <1>a, <1>q DEF Watchdog, FreesBackend, XUngrab
<1>5. CASE Rebuild
  <2>1. fails \in 0 .. Limit
      BY <1>5, <1>a DEF Rebuild
  <2>2. /\ fails' \in 0 .. Limit + 1 /\ grabbed' = grabbed /\ nodes \subseteq nodes'
        /\ fails' > Limit => cap' = "over"
        /\ UNCHANGED <<sgrab, dead, gk, xpc, chan>>
    <3>0. be # "evdev" => nodes = {}
        BY DEF CaptureInv, Shape, Closed
    <3> QED
        BY <1>5, <2>1, <3>0 DEF Rebuild, Open, evdevVars, x11Vars, Driver
  <2> QED
      BY <2>2, <1>a, <1>q
<1>6. CASE Enter
    BY <1>6, <1>a, <1>q DEF Enter, evdevVars, x11Vars, Driver
<1>7. CASE EvdevStep
  <2>0. /\ UNCHANGED <<sgrab, dead, gk, xpc, chan>> /\ cap = "next_event"
        /\ \/ UNCHANGED <<fails, cap>>
           \/ fails' = 0
      BY <1>7 DEF EvdevStep, Returns, Driver, x11Vars
  <2>1. grabbed' \subseteq nodes'
      BY <1>7, <1>a, <1>b DEF EvdevStep, Emits, Reload, Follow, Grabs, Poll, ReadNode, LastRead, RemoveNode, EndRound, ReleaseOrphan
  <2> QED
      BY <2>0, <2>1, <1>a, <1>q
<1>8. CASE X11Step
  <2>0. /\ UNCHANGED <<grabbed, nodes, chan>> /\ cap = "next_event"
        /\ \/ UNCHANGED <<fails, cap>>
           \/ fails' = 0
      BY <1>8 DEF X11Step, Returns, Driver, evdevVars
  <2>1. xpc' \in {"top", "rested", "follow", "poll"}
      BY <1>8 DEF X11Step, XRepeats, XEmits, XTakesFlag, XFollow, XSkips
  <2>2. Moved
      BY <1>8 DEF X11Step, XRepeats, XEmits, XTakesFlag, XFollow, XSkips
  <2> QED
      BY <2>0, <2>1, <2>2, <1>a, <1>q
<1>9. CASE Fails
  <2>1. fails \in 0 .. Limit
      BY <1>9, <1>a DEF Fails, Broken
  <2> QED
      BY <1>9, <2>1, <1>a, <1>q DEF Fails, Close, XClose
<1>10. CASE Sends
  <2>1. chan' \in 0 .. Room
      BY <1>10, <1>a DEF Sends, HasRoom
  <2>2. CASE fails > Limit
      BY <1>10, <2>1, <2>2, <1>a, <1>q DEF Sends, Ends, Close, XClose
  <2>3. CASE ~(fails > Limit)
      BY <1>10, <2>1, <2>3, <1>a, <1>q DEF Sends, evdevVars, x11Vars
  <2> QED
      BY <2>2, <2>3
<1> QED
    BY <1>1, <1>2, <1>3, <1>4, <1>5, <1>6, <1>7, <1>8, <1>9, <1>10 DEF Next, Thread

\* A thread starts without a grab.
LEMMA InitCounts ==
    ASSUME Init PROVE Counts
    BY CaptureAssumption DEF Init, Closed, XClosed, Counts, GrabsAreKnown

\* GrabsAreKnown: the X server holds exactly the grab that grab_kind names, so
\* that set_exclusive(false) and the watchdog's release free all of it.
THEOREM GrabsOnRecord == Spec => []GrabsAreKnown
<1>1. Init => Counts
    BY InitCounts
<1>2. Counts /\ CaptureInv /\ [Next]_vars => Counts'
    BY CountsStep
<1>3. Counts => GrabsAreKnown
    BY DEF Counts
<1> QED
    BY <1>1, <1>2, <1>3, CaptureInductive, PTL DEF Spec

\* CaptureTypeOK: every variable of the capture thread has its type and bound.
THEOREM CaptureTypes == Spec => []CaptureTypeOK
<1>1. Init => Counts
    BY InitCounts
<1>2. Counts /\ CaptureInv /\ [Next]_vars => Counts'
    BY CountsStep
<1>3. Counts /\ CaptureInv => CaptureTypeOK
  <2> SUFFICES ASSUME Counts, CaptureInv PROVE CaptureTypeOK
      OBVIOUS
  <2>1. be # "evdev" => nodes = {}
      BY DEF CaptureInv, Shape, Closed
  <2>2. be # "x11" => sgrab = {} /\ gk = "none" /\ xheld = {}
      BY DEF CaptureInv, Shape, XClosed
  <2> QED
      BY <2>1, <2>2 DEF Counts, CaptureInv, Typed, Shape, CaptureTypeOK
<1> QED
    BY <1>1, <1>2, <1>3, CaptureInductive, PTL DEF Spec
=============================================================================
