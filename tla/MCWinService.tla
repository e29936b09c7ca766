---------------------------- MODULE MCWinService ----------------------------
(* The Windows service and its helper processes: as a driver, the local      *)
(* input must come back (WinControl); when it is driven, so must the keys    *)
(* its helpers hold down (WinInject).  A behaviour takes the steps of one of *)
(* them; the other rests, where nothing that is fair can happen.             *)
EXTENDS WinControl, WinInject

TwoDesks == <<"winlogon", "default">>
OneHelper == <<"default">>

VARIABLE view

ControllerRests ==
    /\ ctl = "over" /\ why = "none" /\ bridge = 0 /\ chan = <<>>
    /\ rd = [h \in Helpers |-> "none"] /\ proc = [h \in Helpers |-> "none"]
    /\ excl = [h \in Helpers |-> FALSE] /\ cmds = [h \in Helpers |-> <<>>]
    /\ pipe = [h \in Helpers |-> 0] /\ link = [h \in Helpers |-> "open"]
    /\ desk = "default" /\ console = 1 /\ home = [b \in Bridges |-> 0]

InjectionRests ==
    /\ receiver = "over" /\ asking = NoQuestion /\ questions = 0
    /\ bridged = {} /\ alive = {} /\ failed = {}
    /\ inbox = [d \in InjHelpers |-> <<>>] /\ outbox = [d \in InjHelpers |-> <<>>]
    /\ injected = [d \in InjHelpers |-> {}] /\ down = [d \in InjHelpers |-> {}]
    /\ fails = [d \in InjHelpers |-> 0] /\ owner = "default"
    /\ lastWarp = [verdict |-> "none", placed |-> FALSE]

ServiceInit ==
    \/ view = "controller" /\ WinControlInit /\ InjectionRests
    \/ view = "injection" /\ ControllerRests /\ WinInjectInit

ServiceNext ==
    /\ UNCHANGED view
    /\ \/ view = "controller" /\ WinControlNext /\ UNCHANGED winInjectVars
       \/ view = "injection" /\ WinInjectNext /\ UNCHANGED winControlVars

ServiceSpec ==
    /\ ServiceInit /\ [][ServiceNext]_<<view, winControlVars, winInjectVars>>
    /\ WinControlFair /\ WinInjectFair
=============================================================================
