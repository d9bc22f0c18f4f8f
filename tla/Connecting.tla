---------------------------- MODULE Connecting ----------------------------
(***************************************************************************)
(* How a client gets to its pad, from the first call that configures it:   *)
(* the application configures the client and calls mmp_connect(), which    *)
(* runs discover() and start(), while the pads in the network read their   *)
(* settings and bind their sockets.                                        *)
(***************************************************************************)
EXTENDS Discovery, PadSettings

CONSTANTS
    Files,        \* JSON files the pads may have
    NamedPorts,   \* ports the application may name
    Strings,      \* end points the application or the registry may name
    LookUps,      \* families of the addresses that a name has, in order
    Keys,         \* what the registry may hold
    MaxCalls      \* bound: calls that configure the client

ASSUME InputsAssumption ==
    /\ Files \subseteq JsonFiles
    /\ NamedPorts \subseteq Ports
    /\ Strings \subseteq EndPoints
    /\ LookUps \subseteq Seq({"inet", "inet6", "other"})
    /\ \A key \in Keys : key.server \in EndPoints \cup {NoString}
ASSUME MaxCallsAssumption == MaxCalls \in Nat

VARIABLES
    file,         \* the file each pad reads
    started,      \* pads whose server thread has bound its socket, or given up
    calls,        \* number of calls so far (history)
    accepted,     \* what the last call that set the server meant, with the
                  \*   port in host byte order (history)
    startPc,      \* where start() is
    clientSocket, \* the family of the client's socket; "none" before it exists
    request       \* where the connect request went

padVars == <<file, started, bound>>
applicationVars == <<calls, accepted>>
startVars == <<startPc, clientSocket, request>>
vars == <<discoveryVars, file, started, applicationVars, startVars>>

Init ==
    /\ DiscoveryInit
    /\ config = InitialConfiguration
    /\ callerPc = "configure"
    /\ file \in [Pads -> Files]
    /\ started = {}
    /\ bound = [p \in Pads |-> NoAddress]
    /\ calls = 0
    /\ accepted = NoAddress
    /\ startPc = "idle"
    /\ clientSocket = "none"
    /\ request = NoAddress

-----------------------------------------------------------------------------
(* The pads: mouse_pad::create() reads the settings, serve() binds.        *)

Settings(p) == FromJson(file[p])

PadStarts(p) ==
    /\ p \notin started
    /\ started' = started \cup {p}
    /\ \E family \in SocketFamilies(Settings(p)) :
           bound' = [bound EXCEPT ![p] = BoundTo(p, Settings(p), family)]
    /\ UNCHANGED <<config, socket, callerVars, workerVars, asked, answers, file,
                   applicationVars, startVars>>

-----------------------------------------------------------------------------
(* The application.                                                        *)

\* A call leaves its configuration; "meant" is the server it was to set.
Call(called, meant) ==
    /\ callerPc = "configure"
    /\ calls < MaxCalls
    /\ calls' = calls + 1
    /\ config' = called.config
    /\ accepted' = IF called.ok THEN meant ELSE accepted
    /\ UNCHANGED <<socket, callerVars, workerVars, networkVars, file, started, startVars>>

CallClient ==
    \/ Call(ConfigureClient4(config), accepted)
    \/ Call(ConfigureClient6(config), accepted)

\* The application fills a socket address, and may get its family wrong.
CallServerAddress(family, host, p) ==
    LET address == Address(family, host, htons(p))
    IN \/ Call(ConfigureServer4(config, address), Address("inet", host, p))
       \/ Call(ConfigureServer6(config, address), Address("inet6", host, p))

\* The family of the end point that a string stands for.
Meant(string, families) ==
    Address(IF string.kind # "name" THEN string.kind
            ELSE IF \E i \in DOMAIN families : families[i] \in {"inet", "inet6"}
                   THEN families[CHOOSE i \in DOMAIN families :
                                     /\ families[i] \in {"inet", "inet6"}
                                     /\ \A j \in 1 .. i - 1 : families[j] = "other"]
                   ELSE "none",
            string.host, string.port)

CallServer(string, families) ==
    Call(ConfigureServer(config, string, families), Meant(string, families))

\* The rate limit is only the length of a pause.
CallDiscovery(p, timeout) ==
    Call(ConfigureDiscovery(config, p, timeout, timeout), Address("inet", AnyHost, p))

CallRegistry(key, families) ==
    Call(ConfigureFromRegistryKey(config, key, families),
         IF key.server = NoString THEN accepted ELSE Meant(key.server, families))

Configure ==
    \/ CallClient
    \/ \E family \in Families, host \in Hosts \cup {AnyHost}, p \in NamedPorts :
           CallServerAddress(family, host, p)
    \/ \E string \in Strings, families \in LookUps : CallServer(string, families)
    \/ \E p \in NamedPorts, timeout \in {0, 1} : CallDiscovery(p, timeout)
    \/ \E key \in Keys, families \in LookUps : CallRegistry(key, families)

\* mmp_connect(): discover() is called.
Connect ==
    /\ callerPc = "configure"
    /\ callerPc' = "family"
    /\ calls' = MaxCalls
    /\ UNCHANGED <<config, socket, result, port, todo, addresses, rounds, workerVars,
                   networkVars, file, started, accepted, startVars>>

-----------------------------------------------------------------------------
(* start(), if discover() has succeeded.                                   *)

Unstarted == <<socket, callerVars, workerVars, networkVars, file, started, applicationVars>>

StartFamily_Unspecified == config.client
StartFamily == CoercedClient(config)

\* The family is coerced; then the socket is made and bound.
StartSocket ==
    /\ result = "ok"
    /\ startPc = "idle"
    /\ config' = [config EXCEPT !.client = StartFamily]
    /\ \/ startPc' = "connect" /\ clientSocket' = config'.client
       \/ startPc' = "failed" /\ UNCHANGED clientSocket
    /\ UNCHANGED <<request, Unstarted>>

\* connect(): a socket does not send to an address of another family.
SendConnect ==
    /\ startPc = "connect"
    /\ \/ /\ clientSocket = config.server.family
          /\ request' = config.server
          /\ startPc' = "announced"
       \/ startPc' = "failed" /\ UNCHANGED request
    /\ UNCHANGED <<config, clientSocket, Unstarted>>

SpawnReceiver ==
    /\ startPc = "announced"
    /\ startPc' \in {"running", "failed"}
    /\ UNCHANGED <<config, clientSocket, request, Unstarted>>

Start == StartSocket \/ SendConnect \/ SpawnReceiver

-----------------------------------------------------------------------------
Discover == Caller /\ UNCHANGED <<file, started, applicationVars, startVars>>

Next ==
    \/ \E p \in Pads : PadStarts(p)
    \/ Configure \/ Connect
    \/ Discover
    \/ (Worker \/ Network) /\ UNCHANGED <<file, started, applicationVars, startVars>>
    \/ Start

Spec == Init /\ [][Next]_vars

\* Both threads keep running, and the deadline passes if there is one.
FairSpec ==
    /\ Spec
    /\ WF_vars(Discover)
    /\ WF_vars(LeaveLoop /\ UNCHANGED <<file, started, applicationVars, startVars>>)
    /\ WF_vars(Start)

-----------------------------------------------------------------------------
TypeOK ==
    /\ DiscoveryTypeOK
    /\ DOMAIN config.values = Names
    /\ file \in [Pads -> Files]
    /\ started \subseteq Pads
    /\ calls \in 0 .. MaxCalls
    /\ accepted \in Addresses
    /\ startPc \in {"idle", "connect", "announced", "running", "failed"}
    /\ clientSocket \in Families
    /\ request \in Addresses

\* When discover() succeeds, the address and the sequence number in the client
\* are those of one announcement, or the address is that of the configuration:
\* the caller never sees half of what the worker writes (the three stores).
SuccessIsOneAnnouncement ==
    result = "ok" => \/ accepted.host # AnyHost
                     \/ [from |-> config.server, seq |-> seqNo] \in answers

\* Whatever calls fail, the client holds no address but one that a call set
\* completely; a name that is not found leaves none, which discover() refuses
\* (mmp_parse_end_pointw clears the address before it looks the name up).
NoHalfParsedServer ==
    callerPc = "configure" =>
        \/ config.server.family = "none"
        \/ config.server = Address(accepted.family, accepted.host, htons(accepted.port))

\* The port that a pad's file names, and the one in effect.
PortInFile(p) == IF file[p].port = Absent THEN 0 ELSE Value(file[p].port)
Effective(p) == IF p = 0 THEN DefaultPort ELSE p

\* A client's broadcasts go to the port of exactly the IPv4 pads it means: both
\* sides fall back to the same port, and agree about its byte order.
DiscoveryMeetsThePads ==
    callerPc = "broadcast" =>
        \A p \in Pads : bound[p] # NoAddress =>
            (p \in Listening) =
                (/\ bound[p].family = "inet"
                 /\ Effective(accepted.port) = Effective(PortInFile(p)))

\* A connect request goes to a pad that has answered; or to the end point that
\* was configured, where exactly the pad that was meant receives it.
ConnectMeetsThePad ==
    startPc \in {"announced", "running"} =>
        IF accepted.host = AnyHost
          THEN \E p \in Pads : bound[p] = request
          ELSE accepted.port # 0 => \A p \in Pads : bound[p] # NoAddress =>
                 (bound[p] = request) =
                     (/\ p = accepted.host
                      /\ bound[p].family = accepted.family
                      /\ Effective(PortInFile(p)) = accepted.port)

\* The socket of a client is of its pad's family, whichever of discover() and
\* start() has chosen it; except for an IPv6 client that has discovered its
\* pad, which is always an IPv4 one.
SocketFitsServer ==
    startPc \in {"connect", "announced", "running"} =>
        \/ clientSocket = config.server.family
        \/ accepted.host = AnyHost /\ clientSocket = "inet6"

-----------------------------------------------------------------------------
(* The client implements Lifecycle: the number that the worker of discover() *)
(* stores becomes the client's at the moment at which discover() returns.  *)

Phase ==
    CASE callerPc = "configure" -> "idle"
      [] result \in Failures \/ startPc = "failed" -> "failed"
      [] startPc = "running" -> "connected"
      [] result = "ok" /\ startPc \in {"idle", "connect", "announced"} -> "starting"
      [] OTHER -> "discovering"

TheClient == {"client"}

Life == INSTANCE Lifecycle WITH
    Clients   <- TheClient,
    phase     <- [c \in TheClient |-> Phase],
    last      <- [c \in TheClient |-> IF result = "ok" THEN seqNo ELSE 0],
    receiving <- [c \in TheClient |-> startPc = "running"],
    announced <- {a.seq : a \in answers}

LifecycleSpec == Life!LifecycleSpec

-----------------------------------------------------------------------------
\* A call with a timeout returns even if no pad answers (the deadline).
Returned == result \in Failures \/ startPc \in {"running", "failed"}
TimedCallReturns == callerPc = "family" /\ Timed ~> Returned

\* With the any address, discover() asks the network unless there is nothing it
\* could ask (mmp_client.h: "try to discover the magic mouse pad using UDP
\* broadcast messages").
TriesToDiscover == result = "invalid_function" => rounds > 0

\* The registry's start position becomes the client's start position
\* (mmp_configuration.h: "The horizontal starting position").
StartAsConfigured ==
    [][\A key \in Keys, families \in LookUps :
           CallRegistry(key, families) /\ "StartX" \in DOMAIN key.values
               => config'.values["StartX"] = key.values["StartX"]]_vars
=============================================================================
