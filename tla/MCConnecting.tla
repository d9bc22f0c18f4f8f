--------------------------- MODULE MCConnecting ---------------------------
(* TLC instances of Connecting.                                            *)
EXTENDS Connecting, TLC

CONSTANTS pad1, pad2

\* No address, an address without a port, and both families with a port.
SomeFiles ==
    {NoAddressInJson,
     [address |-> TRUE, family |-> Absent, port |-> Absent],
     [address |-> TRUE, family |-> {4}, port |-> {2}],
     [address |-> TRUE, family |-> {6}, port |-> {0}]}

SomeStrings ==
    {Malformed,
     [kind |-> "inet", host |-> pad1, port |-> 2],
     [kind |-> "inet6", host |-> pad1, port |-> 1],
     [kind |-> "inet", host |-> AnyHost, port |-> 2],
     [kind |-> "name", host |-> pad1, port |-> 1]}

\* A failed look-up; no usable address; one after another; both families.
SomeLookUps == {<<>>, <<"other">>, <<"other", "inet">>, <<"inet6", "inet">>}

Values(n, v) == [x \in {n} |-> v]

SomeKeys ==
    [server : {NoString, Malformed, [kind |-> "name", host |-> pad1, port |-> 1]},
     values : {Values("Timeout", 1)}]

StartKeys ==
    [server : {NoString, [kind |-> "inet", host |-> pad1, port |-> 1]},
     values : {Values("StartX", 5), ("OffsetX" :> 3) @@ ("StartX" :> 5)}]
=============================================================================
