---- MODULE MCWinControl ----
EXTENDS WinControl
TwoDesks == <<"winlogon", "default">>
OneDesk == <<"default">>
====
