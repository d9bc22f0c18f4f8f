-------------------------------- MODULE Wire --------------------------------
(* What the pad's server and its clients both refer to: the addresses that *)
(* datagrams come from and go to, and the numbers in them.                 *)
EXTENDS ByteOrder

CONSTANT Endpoints    \* addresses of the machines that exchange datagrams
=============================================================================
