----------------------------- MODULE MCCapture -----------------------------
EXTENDS Capture, TLC
CONSTANT k1

\* Two events may wait on the keyboard that stays, in the kernel or in its queue.
FirstLate == <<2, 1>>
============================================================================
