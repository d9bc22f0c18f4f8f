---------------------------- MODULE MCMousePad ----------------------------
(* TLC instances of MousePad.                                              *)
EXTENDS MousePad, TLC

OneAxis  == {"x"}
TwoAxes  == {"x", "y"}
\* To the left and to the right the screen goes on behind the frame; the window
\* stands at the bottom of the screen, and above it there is only its frame.
ScreenFrom == [a \in TwoAxes |-> IF a = "x" THEN -2 ELSE -1]
ScreenTo   == [a \in TwoAxes |-> IF a = "x" THEN 3 ELSE 1]
=============================================================================
