---------------------------- MODULE MCClipboard ----------------------------
(* Two copies and two crossings for a receiver without a clipboard agent of   *)
(* its own; for a receiver with one, a copy, a crossing, and a relink or a    *)
(* restart of R's UI.                                                         *)
EXTENDS Clipboard

With(agent, none) == [a \in BOOLEAN |-> IF a THEN agent ELSE none]
Copies == With(1, 2)
Crossings == With(1, 2)
Revisions == With(3, 6)
OneRestart == With(1, 0)

\* The smallest instance of the contract: two copies, one crossing.
OnlyWithout == With(0, 2)
OneCrossing == With(0, 1)
NoRestart == With(0, 0)
=============================================================================
