---------------------------- MODULE MCTransform ----------------------------
(* TLC instances of Transform.                                             *)
EXTENDS Transform

\* The pad reports up to one pixel beyond every edge of the virtual screen,
\* which is three pixels wide and holds the desktop in one corner.
TestCoordinates == {-1, 0, 2, 4}
TestVirtual     == [x |-> 3, y |-> 3]
TestDesktop     == [x |-> 1, y |-> 1]
TestStart       == [x |-> 2, y |-> 1]
TestLocalOffset == [x |-> 1, y |-> 1]
=============================================================================
