---- MODULE MCWinCapture ----
EXTENDS WinCapture
====
