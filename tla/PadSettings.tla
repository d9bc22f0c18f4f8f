---------------------------- MODULE PadSettings ----------------------------
(***************************************************************************)
(* The settings of the mouse pad, settings.cpp, and the end point to which *)
(* server::serve() binds its socket.                                       *)
(*                                                                         *)
(* Only operators.  The program reads its settings from a JSON file;       *)
(* load() and to_json() are written but never called.  The pad binds to    *)
(* the any address: of the settings' address only the family and the port  *)
(* (in network byte order) are kept.                                       *)
(***************************************************************************)
EXTENDS Configuration

PadSetting(family, port) == [family |-> family, port |-> port]
Cleared == PadSetting("none", 0)

\* settings::settings()
DefaultSettings == PadSetting("inet", 0)

\* A value that a file or a registry key may lack is a set of one element, or
\* the empty set.
Absent == {}
Optional(S) == {Absent} \cup {{v} : v \in S}
Value(v) == CHOOSE w \in v : TRUE

\* A JSON file: whether it has an Address, and the members of that.
NoAddressInJson == [address |-> FALSE, family |-> Absent, port |-> Absent]
JsonFiles ==
    {NoAddressInJson} \cup [address : {TRUE}, family : Optional({4, 6}), port : Optional(Ports)]

\* from_json(): an Address without a port leaves the cleared address behind.
FromJson(json) ==
    CASE ~json.address -> DefaultSettings
      [] json.address /\ json.port = Absent -> Cleared
      [] OTHER -> PadSetting(IF json.family = {6} THEN "inet6" ELSE "inet", htons(Value(json.port)))

\* to_json(): a port is written in host byte order (ntohs).
ToJson(s) ==
    IF s.family = "none"
      THEN NoAddressInJson
      ELSE [address |-> TRUE, family |-> IF s.family = "inet" THEN {4} ELSE {6},
            port |-> {htons(s.port)}]

\* load(): the family is read first and clears the address; a port is kept
\* only for a family that has one.  "family" and "port" may be absent.
Load(s, family, port) ==
    LET cleared == IF family = Absent THEN s ELSE PadSetting(Value(family), 0)
    IN IF port = Absent \/ cleared.family = "none"
         THEN cleared
         ELSE PadSetting(cleared.family, htons(Value(port)))

-----------------------------------------------------------------------------
(* server::serve()                                                         *)

\* address_length() is 0 for any other family.
Bindable(s) == s.family \in {"inet", "inet6"}

\* get_port() of a family it does not know is 0.
GetPort(s) == IF Bindable(s) THEN htons(s.port) ELSE 0

SetPort_HostOrder(s, port) == [s EXCEPT !.port = port]
SetPort(s, port) == IF Bindable(s) THEN [s EXCEPT !.port = htons(port)] ELSE s

\* A family that is not supported becomes IPv4, and then a port that is not
\* set becomes the default port.
CoercedSettings(s) ==
    LET supported == IF Bindable(s) THEN s ELSE [s EXCEPT !.family = "inet"]
    IN IF GetPort(supported) = 0 THEN SetPort(supported, DefaultPort) ELSE supported

\* The families the socket may have: it is created before the family is
\* coerced, and Windows takes any protocol for an unspecified family, or none.
SocketFamilies(s) == IF Bindable(s) THEN {s.family} ELSE {"inet", "inet6"}

\* bind() fails for an address of another family.
BoundTo(pad, s, socketFamily) ==
    IF CoercedSettings(s).family = socketFamily
      THEN Address(socketFamily, pad, CoercedSettings(s).port)
      ELSE NoAddress
=============================================================================
