--------------------------- MODULE Configuration ---------------------------
(***************************************************************************)
(* The configuration of a client: mmp_configuration.cpp, and the end point *)
(* it parses: mmpendpoint.cpp.                                             *)
(*                                                                         *)
(* Only operators: what a call makes of the configuration it gets.  A call *)
(* returns whether it succeeded and the configuration it leaves behind.    *)
(* Ports have two bytes, which are digits to the base Base; an address     *)
(* holds its port in network byte order, and the machine is little endian. *)
(***************************************************************************)
EXTENDS Naturals, Sequences

\* An operator whose name has an underscore is a mutant of the operator that
\* follows.

CONSTANTS
    Base,          \* number of values of a byte of a port
    DefaultPort,   \* mmp_default_port, in host byte order
    Hosts          \* machines in the network

Ports == 0 .. Base * Base - 1

ASSUME BaseAssumption == Base \in Nat \ {0}
ASSUME DefaultPortAssumption == DefaultPort \in Ports \ {0}

htons(p) == (p % Base) * Base + p \div Base

AnyHost == "any"
Families == {"none", "inet", "inet6"}
Address(family, host, port) == [family |-> family, host |-> host, port |-> port]
NoAddress == Address("none", AnyHost, 0)
Addresses == {NoAddress} \cup [family : Families \ {"none"}, host : Hosts \cup {AnyHost}, port : Ports]

\* The DWORDs that a registry key may hold, and the fields of the same names.
Names == {"Flags", "Height", "OffsetX", "OffsetY", "RateLimit", "StartX", "StartY",
          "Timeout", "Width"}

\* mmp_configuration_t(): of the address a client binds to, only the family
\* matters.
InitialConfiguration ==
    [client |-> "none", server |-> NoAddress, values |-> [n \in Names |-> 0]]

Result(ok, config) == [ok |-> ok, config |-> config]

-----------------------------------------------------------------------------
(* End points.  ParseNetworkString() and GetAddrInfoW() are external: what  *)
(* they make of a string is the input here.                                *)

Malformed == [kind |-> "malformed", host |-> AnyHost, port |-> 0]
NoString == [kind |-> "absent", host |-> AnyHost, port |-> 0]
Literals == [kind : {"inet", "inet6"}, host : Hosts \cup {AnyHost}, port : Ports \ {0}]
DnsNames == [kind : {"name"}, host : Hosts, port : Ports \ {0}]
EndPoints == {Malformed} \cup Literals \cup DnsNames

\* mmp_parse_end_pointw().  "families" are those of the addresses that the
\* look-up of a name finds, in order; there are none if it fails.
Parse(old, string, families) ==
    LET usable == {i \in DOMAIN families : families[i] \in {"inet", "inet6"}}
        first  == CHOOSE i \in usable : \A j \in usable : i <= j
    IN CASE string.kind = "malformed" ->
              [ok |-> FALSE, address |-> old]
         [] string.kind \in {"inet", "inet6"} ->
              [ok |-> TRUE, address |-> Address(string.kind, string.host, htons(string.port))]
         [] string.kind = "name" /\ usable = {} ->
              [ok |-> FALSE, address |-> NoAddress]
         [] OTHER ->
              [ok |-> TRUE, address |-> Address(families[first], string.host, htons(string.port))]

-----------------------------------------------------------------------------
(* The calls.                                                              *)

ConfigureClient4(config) == Result(TRUE, [config EXCEPT !.client = "inet"])
ConfigureClient6(config) == Result(TRUE, [config EXCEPT !.client = "inet6"])

\* The caller's address, with its family coerced.
ConfigureServer4_Uncoerced(config, address) == Result(TRUE, [config EXCEPT !.server = address])

ConfigureServer4(config, address) ==
    Result(TRUE, [config EXCEPT !.server = [address EXCEPT !.family = "inet"]])
ConfigureServer6(config, address) ==
    Result(TRUE, [config EXCEPT !.server = [address EXCEPT !.family = "inet6"]])

\* mmp_configure_serverw(); mmp_configure_servera() converts the string first.
ConfigureServer(config, string, families) ==
    LET parsed == Parse(config.server, string, families)
    IN Result(parsed.ok, [config EXCEPT !.server = parsed.address])

ConfigureDiscovery_HostOrder(config, port, timeout, rateLimit) ==
    ConfigureServer4([config EXCEPT !.values["Timeout"] = timeout,
                                    !.values["RateLimit"] = rateLimit],
                     Address("inet", AnyHost, port))

\* Port 0 is refused before anything is changed.
ConfigureDiscovery(config, port, timeout, rateLimit) ==
    IF port = 0
      THEN Result(FALSE, config)
      ELSE ConfigureServer4([config EXCEPT !.values["Timeout"] = timeout,
                                           !.values["RateLimit"] = rateLimit],
                            Address("inet", AnyHost, htons(port)))

\* get_int() and get_uint(): a value that the key lacks leaves the field alone.
Read(key, name, old) == IF name \in DOMAIN key.values THEN key.values[name] ELSE old

\* The start position is read into the offset.
ReadValues(values, key) ==
    [n \in Names |->
        CASE n = "OffsetX" -> Read(key, "StartX", Read(key, "OffsetX", values[n]))
          [] n = "OffsetY" -> Read(key, "StartY", Read(key, "OffsetY", values[n]))
          [] n \in {"StartX", "StartY"} -> values[n]
          [] OTHER -> Read(key, n, values[n])]

\* mmp_configure_from_registry_key(): the other values are read unless the
\* server's end point is there and cannot be parsed.
ConfigureFromRegistryKey(config, key, families) ==
    LET server == IF key.server = NoString
                    THEN Result(TRUE, config)
                    ELSE ConfigureServer(config, key.server, families)
    IN IF server.ok
         THEN Result(TRUE, [server.config EXCEPT !.values = ReadValues(@, key)])
         ELSE server

-----------------------------------------------------------------------------
(* What mmp_client makes of a configuration.                               *)

\* discover() looks for the pad if the address is the any address.
NeedsDiscovery(config) == config.server.family # "none" /\ config.server.host = AnyHost

\* The port it sends its requests to, in network byte order.
DiscoveryPort(config) ==
    IF config.server.port = 0 THEN htons(DefaultPort) ELSE config.server.port

\* The family that discover() gives a client that names none, if the server's
\* address is known; and what start() makes of it.
CoercedClient(config) ==
    IF config.client = "none" THEN config.server.family ELSE config.client
=============================================================================
