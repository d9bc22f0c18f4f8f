--------------------------- MODULE MCMagicMouse ---------------------------
(* TLC instances of MagicMouse.                                            *)
EXTENDS MagicMouse, TLC

AllCallbacks == {"mouse_move", "mouse_button"}
SecondIsButton == {1}
\* The last event before the wrap of MagicMouse_live.
LastIsButton == {15}
\* For two applications: the pad stays open and no call of the applications
\* fails, which the runs with one application explore.
AllStay == running /\ \A c \in Endpoints : apiPc[c] # "failed"

Symmetry == Permutations(Endpoints)
=============================================================================
