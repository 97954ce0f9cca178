----------------------------- MODULE MCStartup -----------------------------
(***************************************************************************)
(* Startup for TLC.                                                        *)
(***************************************************************************)
EXTENDS Startup

\* Align times in samples: three that count, and one that does.
ThreeTimes == [i \in 0..2 |-> 4 - i]
ShortTimes == [i \in 0..2 |-> IF i = 0 THEN 2 ELSE 1 - i]

\* Outputs of the speed controller, of either sign.
SomeOutputs == {-4, 0, 4}
=============================================================================
