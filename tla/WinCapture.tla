----------------------------- MODULE WinCapture -----------------------------
(***************************************************************************)
(* Capture on Windows: the hook threads and the process-wide statics of    *)
(* kvm-platform capture.rs (win32_hooks), under the capture thread of the  *)
(* daemon (start_capture, CaptureGuard).  Three threads ask for the local  *)
(* input to be suppressed or freed without a lock between them: the        *)
(* driver, the capture thread and the suppression watchdog.  Suppression   *)
(* has two parts: BLOCK_LOCAL, which the hooks read at every event, and    *)
(* the layers (raw-input registrations without legacy messages and the     *)
(* guard pixel), which only the hook thread may change, on a message.      *)
(***************************************************************************)
EXTENDS Naturals, Sequences, FiniteSets, SequencesExt

CONSTANTS
    MaxGen,     \* bound: hook threads over a run (the code stops after 20 failures in a row)
    MaxPosts,   \* bound: toggles waiting in a hook thread's queue
    WinRoom,    \* bound: events in the channel to the driver (256 in the code)
    Usages,     \* "mouse", which stands for the touchpad's digitizer too, and "consumer"
    Refused     \* the usages for which this Windows refuses NOLEGACY

Gens == 1 .. MaxGen
Setters == {"driver", "capture", "watchdog"}

ASSUME WinCaptureAssumption == MaxGen \in Nat \ {0} /\ MaxPosts \in Nat \ {0} /\ WinRoom \in Nat
                              /\ "mouse" \in Usages

VARIABLES
    \* the statics of the process
    block,      \* BLOCK_LOCAL
    tid,        \* HOOK_THREAD_ID: 0 or the thread's number
    rawActive,  \* RAW_INPUT_ACTIVE
    rawWindow,  \* RAW_WINDOW: 0 or the thread that owns it
    flag,       \* RAW_NOLEGACY and CONSUMER_NOLEGACY
    pixel,      \* GUARD_PIXEL: 0 or the thread that owns it
    sender,     \* SENDER: 0 or the thread whose channel it is
    \* Windows
    reg,        \* the process's registration of each usage
    \* the hook threads
    hook,       \* where each is
    posts,      \* the messages posted to each
    window,     \* the threads that made a raw-input window
    setting,    \* set_exclusive in each thread: the toggle it has yet to post, or "no"
    \* the capture thread
    thr,        \* where it is
    own,        \* its backend: 0 or the hook thread's number
    last,       \* the number of the newest hook thread
    seen,       \* the wish next_event has loaded
    room,       \* events in the channel to the driver
    \* the driver's side
    asks,       \* requested_exclusive
    halt,       \* stop: "opening", "no", "asked" while the guard is dropped, "yes"
    stuck,      \* the driver has not run for four seconds
    armed       \* history: the last toggle asked for suppression, and BLOCK_LOCAL still did

statics == <<block, tid, rawActive, rawWindow, flag, pixel, sender, reg>>
threads == <<hook, posts, window>>
captureThread == <<thr, own, last, seen, room>>
driverSide == <<asks, halt, stuck>>
winCaptureVars == <<statics, threads, setting, captureThread, driverSide, armed>>

\* start_capture has returned: the first hook thread is in its message loop.
WinCaptureInit ==
    /\ block = FALSE /\ tid = 1 /\ pixel = 0 /\ sender = 1 /\ flag = [u \in Usages |-> FALSE]
    /\ rawActive = TRUE /\ rawWindow = 1 /\ window = {1} /\ reg = [u \in Usages |-> "sink"]
    /\ hook = [g \in Gens |-> IF g = 1 THEN "loop" ELSE "none"] /\ posts = [g \in Gens |-> <<>>]
    /\ setting = [s \in Setters |-> "no"]
    /\ thr = "outer" /\ own = 1 /\ last = 1 /\ seen = FALSE /\ room = 0
    /\ asks = FALSE /\ halt = "no" /\ stuck = FALSE /\ armed = FALSE
----------------------------------------------------------------------------
(* set_exclusive: BLOCK_LOCAL is stored (with the caller's own flag), then *)
(* the hook thread's number is loaded and the toggle posted to it.         *)

OtherStatics == <<tid, rawActive, rawWindow, flag, pixel, sender, reg>>

Begins(s, b) ==
    /\ setting[s] = "no" /\ (tid # 0 => Len(posts[tid]) < MaxPosts)
    /\ block' = b
    /\ setting' = [setting EXCEPT ![s] = IF b THEN "hold" ELSE "lift"]

PostToggle(s) ==
    /\ setting[s] # "no"
    /\ posts' = IF tid = 0 THEN posts ELSE [posts EXCEPT ![tid] = Append(@, setting[s])]
    /\ armed' = (setting[s] = "hold" /\ block)
    /\ setting' = [setting EXCEPT ![s] = "no"]
    /\ UNCHANGED <<statics, hook, window, captureThread, driverSide>>
----------------------------------------------------------------------------
(* A hook thread.                                                          *)

\* What a starting thread does, in order, before its message loop.
AppliesFirst == <<"send", "register", "apply", "publish", "loop">>
StartOrder == <<"send", "register", "publish", "apply", "loop">>

\* What an ending thread does, in order.
UnsendsFirst == <<"unsend", "quit", "unregister", "gone">>
TeardownOrder == <<"quit", "unregister", "unsend", "gone">>

Follows(order, stage) == order[CHOOSE i \in 2 .. Len(order) : order[i - 1] = stage]

\* apply_raw_legacy_suppression, with the flags as the caller left them.
Applies(g, hold, flags, target) ==
    LET changed == {u \in Usages : flags[u] # hold}
        registers == {u \in changed : hold => u \notin Refused}
    IN /\ pixel' = IF ~hold THEN 0 ELSE IF pixel # 0 THEN pixel ELSE g
       /\ IF rawActive /\ (target # 0 \/ changed = {})
          THEN /\ flag' = [u \in Usages |-> hold /\ (u \notin changed \/ u \in registers)]
               /\ reg' = [u \in Usages |-> IF u \notin registers THEN reg[u]
                                           ELSE IF hold THEN "nolegacy" ELSE "sink"]
          ELSE flag' = [u \in Usages |-> FALSE] /\ UNCHANGED reg

\* The flags hook_thread turns over before it applies the live BLOCK_LOCAL.
PreReset == [u \in Usages |-> IF u = "mouse" THEN ~block ELSE flag[u]]

\* create_raw_input_window succeeds or not; without it the hooks carry the motion.
Registers(g) ==
    \/ rawActive' = TRUE /\ reg' = [u \in Usages |-> "sink"] /\ window' = window \cup {g}
    \/ UNCHANGED <<rawActive, reg, window>>

Starts(g) ==
    /\ hook[g] \in {"send", "register", "publish", "apply"}
    /\ hook' = [hook EXCEPT ![g] = Follows(StartOrder, @)]
    /\ IF hook[g] = "send" THEN sender' = g ELSE UNCHANGED sender
    /\ IF hook[g] = "register" THEN Registers(g) ELSE UNCHANGED <<rawActive, window>>
    /\ IF hook[g] = "publish" THEN tid' = g ELSE UNCHANGED tid
    /\ IF hook[g] = "apply"
       THEN /\ rawWindow' = IF g \in window THEN g ELSE rawWindow
            /\ Applies(g, block, PreReset, rawWindow')
       ELSE UNCHANGED <<rawWindow, flag, pixel>>
    /\ hook[g] \notin {"register", "apply"} => UNCHANGED reg
    /\ UNCHANGED <<block, posts, setting, captureThread, driverSide, armed>>

\* SetWindowsHookExW fails.
StartFails(g) ==
    /\ hook[g] = "register"
    /\ hook' = [hook EXCEPT ![g] = "gone"] /\ sender' = 0
    /\ UNCHANGED <<block, tid, rawActive, rawWindow, flag, pixel, reg, posts, window,
                   setting, captureThread, driverSide, armed>>

HandlesPost(g) ==
    /\ hook[g] = "loop" /\ posts[g] # <<>>
    /\ posts' = [posts EXCEPT ![g] = Tail(@)]
    /\ IF Head(posts[g]) = "quit"
       THEN hook' = [hook EXCEPT ![g] = Head(TeardownOrder)] /\ UNCHANGED <<flag, pixel, reg>>
       ELSE Applies(g, Head(posts[g]) = "hold", flag, rawWindow) /\ UNCHANGED hook
    /\ UNCHANGED <<block, tid, rawActive, rawWindow, sender, window, setting,
                   captureThread, driverSide, armed>>

\* GetMessageW fails: the loop ends without the messages that wait.
LoopFails(g) ==
    /\ hook[g] = "loop" /\ g = 1
    /\ hook' = [hook EXCEPT ![g] = Head(TeardownOrder)]
    /\ UNCHANGED <<statics, posts, window, setting, captureThread, driverSide, armed>>

TearsDown(g) ==
    /\ hook[g] \in {"quit", "unregister", "unsend"}
    /\ hook' = [hook EXCEPT ![g] = Follows(TeardownOrder, @)]
    /\ posts' = [posts EXCEPT ![g] = <<>>]
    /\ IF hook[g] = "quit"
       THEN /\ pixel' = 0 /\ rawActive' = FALSE /\ rawWindow' = 0 /\ tid' = 0
            /\ flag' = [flag EXCEPT !["mouse"] = FALSE]
       ELSE UNCHANGED <<pixel, rawActive, rawWindow, tid, flag>>
    /\ reg' = IF hook[g] = "unregister" /\ g \in window THEN [u \in Usages |-> "none"] ELSE reg
    /\ window' = IF hook[g] = "unregister" THEN window \ {g} ELSE window
    /\ sender' = IF hook[g] = "unsend" THEN 0 ELSE sender
    /\ UNCHANGED <<block, setting, captureThread, driverSide, armed>>
----------------------------------------------------------------------------
(* The capture thread.                                                     *)

Goes(from, to) == thr = from /\ thr' = to
Alone == UNCHANGED <<statics, threads, setting, armed>>
Due == asks /\ stuck
Done == setting["capture"] = "no"

ForgetsQuit(g) == UNCHANGED posts

\* WM_QUIT to the backend's own thread.
Quit(g) == posts' = IF hook[g] \in {"quit", "unregister", "unsend", "gone"} THEN posts
                    ELSE [posts EXCEPT ![g] = Append(@, "quit")]

\* Win32Capture::create waits for the thread it started.
Created ==
    /\ thr = "create" /\ halt # "opening"
    /\ \/ hook[last] = "loop" /\ own' = last /\ thr' = "outer"
       \/ hook[last] = "gone" /\ own' = 0 /\ thr' = IF last = MaxGen THEN "over" ELSE "outer"
    /\ Alone /\ UNCHANGED <<last, seen, room, driverSide>>

\* ... for five seconds; a slower one comes up for nobody, and nobody will end it.
CreateTimesOut ==
    /\ thr = "create" /\ hook[last] \in {"send", "register", "publish", "apply"}
    /\ IF halt = "opening" THEN thr' = "over" /\ halt' = "yes"
       ELSE thr' = (IF last = MaxGen THEN "over" ELSE "outer") /\ UNCHANGED halt
    /\ Alone /\ UNCHANGED <<own, last, seen, room, asks, stuck>>

\* The thread is rebuilt half a second later; the older ones need not be gone.
Rebuilds ==
    /\ own = 0 /\ last < MaxGen
    /\ (halt # "yes" /\ ~Due /\ Goes("outer", "create")) \/ Goes("build", "create")
    /\ last' = last + 1
    /\ hook' = [hook EXCEPT ![last'] = "send"]
    /\ UNCHANGED <<statics, posts, window, setting, own, seen, room, driverSide, armed>>

\* After too many failures in a row the thread stops.
GivesUp ==
    /\ own = 0 /\ last = MaxGen
    /\ (halt # "yes" /\ ~Due /\ Goes("outer", "over")) \/ Goes("build", "over")
    /\ Alone /\ UNCHANGED <<own, last, seen, room, driverSide>>

EntersNext ==
    /\ halt # "yes" /\ own # 0 /\ ~Due /\ Goes("outer", "load")
    /\ Alone /\ UNCHANGED <<own, last, seen, room, driverSide>>

\* next_event: BLOCK_LOCAL.store(exclusive.load()).
LoadsWish ==
    /\ Goes("load", "store") /\ seen' = asks
    /\ Alone /\ UNCHANGED <<own, last, room, driverSide>>

OnlyRaises == block' = (block \/ seen)
Follow == block' = seen

StoresWish ==
    /\ Goes("store", IF halt = "yes" THEN "ends" ELSE "recv") /\ Follow /\ seen' = FALSE
    /\ UNCHANGED <<OtherStatics, threads, setting, own, last, room, driverSide, armed>>

TimesOut ==
    /\ sender = own /\ Goes("recv", "load")
    /\ Alone /\ UNCHANGED <<own, last, seen, room, driverSide>>

\* keyboard_hook, mouse_hook or handle_raw_input sent what the hand did.
Hand ==
    /\ Goes("recv", "sending") /\ sender = own /\ hook[own] = "loop"
    /\ Alone /\ UNCHANGED <<own, last, seen, room, driverSide>>

\* The sender is gone: the backend is dropped.
Disconnected ==
    /\ sender # own /\ Goes("recv", "dropping")
    /\ Begins("capture", FALSE)
    /\ UNCHANGED <<OtherStatics, threads, own, last, seen, room, driverSide, armed>>

\* After its set_exclusive(false) the dropped backend posts WM_QUIT and a
\* PinchEnd goes to the driver.
Dropped ==
    /\ Done /\ Goes("dropping", "sending") /\ Quit(own)
    /\ own' = 0
    /\ UNCHANGED <<statics, hook, window, setting, last, seen, room, driverSide, armed>>

\* capture_send_bounded.
SendsOn ==
    /\ room < WinRoom /\ room' = room + 1 /\ Goes("sending", "outer")
    /\ Alone /\ UNCHANGED <<own, last, seen, driverSide>>

SendStops ==
    /\ room = WinRoom /\ halt = "yes" /\ Goes("sending", "ends")
    /\ Alone /\ UNCHANGED <<own, last, seen, room, driverSide>>

\* watchdog_release_if_task_wedged: the backend in hand is freed, then the wish.
FreesFirst ==
    /\ Due /\ own # 0
    /\ \/ Goes("outer", "freeing") /\ halt # "yes"
       \/ Goes("sending", "freeingSend") /\ room = WinRoom /\ halt # "yes"
    /\ Begins("capture", FALSE)
    /\ UNCHANGED <<OtherStatics, threads, own, last, seen, room, driverSide, armed>>

ThenWish ==
    /\ \/ Done /\ (Goes("freeing", "load") \/ Goes("freeingSend", "sending"))
       \/ Due /\ own = 0 /\ halt # "yes"
          /\ (Goes("outer", "build") \/ (room = WinRoom /\ Goes("sending", "sending")))
    /\ asks' = FALSE
    /\ Alone /\ UNCHANGED <<own, last, seen, room, halt, stuck>>

StopsThread ==
    /\ halt = "yes" /\ Goes("outer", "ends")
    /\ Alone /\ UNCHANGED <<own, last, seen, room, driverSide>>

\* The backend is freed, then dropped, which frees it again and posts WM_QUIT.
Ends ==
    /\ IF own = 0 THEN Goes("ends", "over") /\ UNCHANGED <<block, setting>>
       ELSE Goes("ends", "closing") /\ Begins("capture", FALSE)
    /\ UNCHANGED <<OtherStatics, threads, own, last, seen, room, driverSide, armed>>

Closes ==
    /\ Done /\ Goes("closing", "over") /\ Quit(own) /\ own' = 0
    /\ UNCHANGED <<statics, hook, window, setting, last, seen, room, driverSide, armed>>

\* start_capture again, for the next driver: the old hook thread was told to
\* quit and nobody waited for it.
Restarts ==
    /\ halt = "yes" /\ last < MaxGen /\ Goes("over", "create")
    /\ halt' = "opening" /\ last' = last + 1 /\ room' = 0
    /\ hook' = [hook EXCEPT ![last'] = "send"]
    /\ UNCHANGED <<statics, posts, window, setting, own, seen, asks, stuck, armed>>

\* The new backend is set free before the guard is handed out.
OpensFree ==
    /\ halt = "opening" /\ hook[last] = "loop" /\ Goes("create", "opening")
    /\ own' = last /\ Begins("capture", FALSE)
    /\ UNCHANGED <<OtherStatics, threads, last, seen, room, driverSide, armed>>

Opened ==
    /\ \/ Done /\ Goes("opening", "outer") /\ halt' = "no"
       \/ halt = "opening" /\ hook[last] = "gone" /\ Goes("create", "over") /\ halt' = "yes"
    /\ Alone /\ UNCHANGED <<own, last, seen, room, asks, stuck>>

CaptureThread ==
    \/ OpensFree \/ Opened \/ Created \/ Rebuilds \/ GivesUp \/ EntersNext \/ LoadsWish \/ StoresWish \/ TimesOut
    \/ Disconnected \/ Dropped \/ SendsOn \/ SendStops \/ FreesFirst \/ ThenWish \/ StopsThread
    \/ Ends \/ Closes
----------------------------------------------------------------------------
(* The driver, its guard and the watchdog thread.                          *)

Guarded == halt = "no" /\ ~stuck /\ setting["driver"] = "no"

SetsExclusive(b) ==
    /\ Guarded /\ asks # b /\ asks' = b
    /\ Begins("driver", b)
    /\ UNCHANGED <<OtherStatics, threads, captureThread, halt, stuck, armed>>

DropsGuard ==
    /\ Guarded /\ asks' = FALSE /\ halt' = "asked"
    /\ Begins("driver", FALSE)
    /\ UNCHANGED <<OtherStatics, threads, captureThread, stuck, armed>>

\* The channel is drained and closed: the driver ends.
LearnsEnd == thr = "over" /\ room = 0 /\ DropsGuard

Halts ==
    /\ halt = "asked" /\ setting["driver"] = "no" /\ halt' = "yes"
    /\ Alone /\ UNCHANGED <<captureThread, asks, stuck>>

TakesEvent ==
    /\ Guarded /\ room > 0 /\ room' = room - 1
    /\ Alone /\ UNCHANGED <<thr, own, last, seen, driverSide>>

Wedges ==
    /\ Guarded \/ stuck
    /\ stuck' = ~stuck
    /\ Alone /\ UNCHANGED <<captureThread, asks, halt>>

\* Again every thirty seconds while the driver is wedged.
WatchdogFires ==
    /\ stuck /\ Begins("watchdog", FALSE)
    /\ UNCHANGED <<OtherStatics, threads, captureThread, driverSide, armed>>

HookThreads == \E g \in Gens : Starts(g) \/ HandlesPost(g) \/ TearsDown(g)
Sets == \E s \in Setters : PostToggle(s)

WinCaptureNext ==
    \/ HookThreads \/ Sets \/ CaptureThread
    \/ \E g \in Gens : StartFails(g) \/ LoopFails(g)
    \/ \E b \in BOOLEAN : SetsExclusive(b)
    \/ CreateTimesOut \/ Restarts \/ DropsGuard \/ Halts \/ TakesEvent \/ Wedges \/ WatchdogFires \/ Hand

\* The threads run, the user goes on, the driver takes its events, and the end of
\* them, unless it is wedged.
WinCaptureFair ==
    /\ WF_winCaptureVars(HookThreads) /\ WF_winCaptureVars(Sets) /\ WF_winCaptureVars(CaptureThread)
    /\ SF_winCaptureVars(Hand) /\ SF_winCaptureVars(TakesEvent) /\ WF_winCaptureVars(Halts)
    /\ SF_winCaptureVars(LearnsEnd) /\ WF_winCaptureVars(WatchdogFires)

WinCaptureSpec == WinCaptureInit /\ [][WinCaptureNext]_winCaptureVars /\ WinCaptureFair
----------------------------------------------------------------------------
(* Properties.                                                             *)

AtRest ==
    /\ own # 0 /\ hook[own] = "loop" /\ posts[own] = <<>> /\ sender = own
    /\ thr \in {"load", "store", "recv"}
    /\ \A g \in Gens \ {own} : hook[g] \in {"none", "gone"}
    /\ \A s \in Setters : setting[s] = "no"

\* hook_thread: a thread that ends resets statics and registrations a newer
\* thread may already own.  The capture thread must not stay with such a
\* backend: once the older threads are gone and the backend's channel is
\* still connected, the statics and the registrations are its own.
StaticsOwned ==
    AtRest => /\ tid = own
              /\ own \in window => rawActive /\ rawWindow = own /\ reg["mouse"] # "none"

\* set_exclusive and hook_thread: a wish to suppress that finds no hook
\* thread is not lost.  Whichever comes first, the driver's store of
\* BLOCK_LOCAL or the thread's number, the layers are up in the end.  A wish
\* that a drop of the backend took back before its toggle was posted is none.
EngageReaches ==
    AtRest /\ armed /\ own \in window
        => pixel = own /\ ("mouse" \notin Refused => reg["mouse"] = "nolegacy")

\* The hooks are in place and swallow what the hand does.
Frozen == block /\ \E g \in Gens : hook[g] \in {"publish", "apply", "loop"}

\* watchdog_release_if_task_wedged, spawn_suppression_watchdog, next_event: a
\* driver that is wedged for good, or no longer asks, leaves the local input
\* free, whatever the three threads stored in between.
WinLocalReturns == <>[](stuck \/ ~asks) => <>[]~Frozen

----------------------------------------------------------------------------
(* What the comments promise, and the code does not keep.                   *)

\* Win32Capture::create ("the hook thread exits when its message loop receives
\* WM_QUIT"), Drop for CaptureGuard: once the guard is dropped no hook thread, no
\* registration and no pixel stays behind.  A thread that took too long to start is
\* sent no WM_QUIT.
Unhooked ==
    halt = "asked" ~> \/ halt = "opening"
                      \/ /\ \A g \in Gens : hook[g] \in {"none", "gone"}
                         /\ ~block /\ pixel = 0 /\ \A u \in Usages : reg[u] = "none"
=============================================================================
