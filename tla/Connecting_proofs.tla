------------------------- MODULE Connecting_proofs -------------------------
(***************************************************************************)
(* Whatever the network, the settings of the pads and the calls of the     *)
(* application: what a client knows of its pad is never half of something. *)
(***************************************************************************)
EXTENDS Connecting, PadSettings_proofs, WellFoundedInduction, TLAPS

-----------------------------------------------------------------------------
(* End points.                                                             *)

LEMMA LeastElement ==
  ASSUME NEW S, S \subseteq Nat, S # {}
  PROVE  \E x \in S : \A y \in S : x <= y
<1> DEFINE R == OpToRel(<, Nat)
<1>1. IsWellFoundedOn(R, Nat)
  BY NatLessThanWellFounded
<1>2. \A x, y \in Nat : y < x => <<y, x>> \in R
  BY DEF OpToRel
<1> HIDE DEF R
<1>3. PICK x \in S : \A y \in S : ~ (<<y, x>> \in R)
  BY <1>1, WFMin
<1>4. \A y \in S : x <= y
  <2> TAKE y \in S
  <2>1. x \in Nat /\ y \in Nat
    OBVIOUS
  <2>2. ~ (y < x)
    BY <1>2, <1>3, <2>1
  <2> QED BY <2>1, <2>2
<1> QED BY <1>4

\* What a look-up may find.
Found == Seq({"inet", "inet6", "other"})
Usable(families) == {i \in DOMAIN families : families[i] \in {"inet", "inet6"}}

\* mmp_parse_end_point() takes the first usable address.
LEMMA FirstUsable ==
  ASSUME NEW families \in Found, Usable(families) # {}
  PROVE  LET first == CHOOSE i \in Usable(families) : \A j \in Usable(families) : i <= j
         IN /\ first \in Usable(families)
            /\ first = CHOOSE i \in DOMAIN families :
                           /\ families[i] \in {"inet", "inet6"}
                           /\ \A j \in 1 .. i - 1 : families[j] = "other"
<1> DEFINE P(i) == i \in Usable(families) /\ \A j \in Usable(families) : i <= j
           Q(i) == /\ i \in DOMAIN families
                   /\ families[i] \in {"inet", "inet6"}
                   /\ \A j \in 1 .. i - 1 : families[j] = "other"
<1>1. DOMAIN families = 1 .. Len(families) /\ Len(families) \in Nat
      /\ \A i \in DOMAIN families : families[i] \in {"inet", "inet6", "other"}
  BY DEF Found
<1>2. PICK x : P(x)
  <2>1. Usable(families) \subseteq Nat
    BY <1>1 DEF Usable
  <2> QED BY <2>1, LeastElement
<1>3. \A y : P(y) => y = x
  BY <1>1, <1>2 DEF Usable
<1>4. Q(x)
  <2>1. \A j \in 1 .. x - 1 : j \in DOMAIN families /\ j \notin Usable(families)
    BY <1>1, <1>2 DEF Usable
  <2> QED BY <1>1, <1>2, <2>1 DEF Usable
<1>5. \A y : Q(y) => y = x
  <2> SUFFICES ASSUME NEW y, Q(y) PROVE y = x
    OBVIOUS
  <2>1. y \in Usable(families)
    BY DEF Usable
  <2>2. x <= y
    BY <1>2, <2>1
  <2>3. ~ (x < y)
    BY <1>1, <1>2, <1>4, <2>1 DEF Usable
  <2> QED BY <1>1, <1>2, <2>2, <2>3 DEF Usable
<1>6. (CHOOSE i \in Usable(families) : \A j \in Usable(families) : i <= j) = x
  BY <1>2, <1>3
<1>7. (CHOOSE i \in DOMAIN families :
           /\ families[i] \in {"inet", "inet6"}
           /\ \A j \in 1 .. i - 1 : families[j] = "other") = x
  BY <1>4, <1>5
<1> QED BY <1>2, <1>6, <1>7

\* The address that an end point in host byte order stands for.
OnWire(e) == Address(e.family, e.host, htons(e.port))

\* The parser sets the address that the string means; or it fails, and leaves
\* the one before, or none.
LEMMA ParsesAll ==
  ASSUME NEW old, NEW string \in EndPoints, NEW families \in Found
  PROVE  LET parsed == Parse(old, string, families)
         IN /\ parsed.ok \in BOOLEAN
            /\ parsed.ok => parsed.address = OnWire(Meant(string, families))
            /\ parsed.ok => Meant(string, families).family \in Families \ {"none"}
            /\ ~parsed.ok => parsed.address \in {old, NoAddress}
<1>1. string.kind \in {"malformed", "inet", "inet6", "name"}
  BY DEF EndPoints, Malformed, Literals, DnsNames
<1>2. CASE string.kind = "malformed"
  BY <1>2 DEF Parse
<1>3. CASE string.kind \in {"inet", "inet6"}
  BY <1>3 DEF Parse, Meant, OnWire, Address, Families
<1>4. CASE string.kind = "name" /\ Usable(families) = {}
  BY <1>4 DEF Parse, Usable
<1>5. CASE string.kind = "name" /\ Usable(families) # {}
  <2> DEFINE first == CHOOSE i \in Usable(families) : \A j \in Usable(families) : i <= j
  <2>1. Parse(old, string, families)
        = [ok |-> TRUE, address |-> Address(families[first], string.host, htons(string.port))]
    BY <1>5 DEF Parse, Usable
  <2>2. Meant(string, families) = Address(families[first], string.host, string.port)
    BY <1>5, FirstUsable DEF Meant, Usable
  <2>3. families[first] \in {"inet", "inet6"}
    BY <1>5, FirstUsable DEF Usable
  <2> HIDE DEF first
  <2> QED BY <2>1, <2>2, <2>3 DEF OnWire, Address, Families
<1> QED BY <1>1, <1>2, <1>3, <1>4, <1>5

-----------------------------------------------------------------------------
(* The invariant.                                                          *)

IsConfig(c) ==
    /\ c = [client |-> c.client, server |-> c.server, values |-> c.values]
    /\ c.client \in Families

Shapes ==
    /\ IsConfig(config)
    /\ accepted.family \in Families
    /\ DOMAIN bound = Pads
    /\ \A a \in answers : a = [from |-> a.from, seq |-> a.seq]

Configuring == {"configure", "family"}
Looking == {"adapters", "socket", "bind", "spawn", "loop", "broadcast", "verdict"}

\* The server's address is not set, or it is set as a whole.
Whole ==
    callerPc \in Configuring =>
        config.server.family = "none" \/ config.server = OnWire(accepted)

\* The two threads of discover().
Threads ==
    /\ callerPc \in Configuring \cup {"adapters", "socket", "bind", "spawn"} => workerPc = "none"
    /\ workerPc \in {"none", "receive", "server", "seq", "found", "gone"}
    /\ found => workerPc = "gone"
    /\ result # "none" => callerPc = "returned"

\* Only who does not know the pad looks for it.
LooksForAny ==
    callerPc \in Looking \/ workerPc # "none" => accepted.host = AnyHost

\* What the worker has stored.
Stores ==
    /\ workerPc \in {"server", "seq", "found"} => buffer \in answers
    /\ workerPc \in {"seq", "found"} => config.server = buffer.from
    /\ workerPc = "found" => seqNo = buffer.seq
    /\ found => [from |-> config.server, seq |-> seqNo] \in answers

\* What success means.
Success ==
    result = "ok" => \/ found
                     \/ /\ workerPc = "none"
                        /\ accepted.host # AnyHost
                        /\ config.client = config.server.family
                        /\ config.client # "none"
                        /\ config.server = OnWire(accepted)

\* Only pads that have started, and that listen to IPv4, are asked and answer.
Answerers ==
    /\ \A p \in Pads \ started : bound[p].family = "none"
    /\ asked \subseteq Pads
    /\ \A p \in asked : p \in started /\ bound[p].family = "inet"
    /\ \A a \in answers : a.from.family = "inet" /\ \E p \in asked : a.from = bound[p]

\* start() goes on with the client that discover() leaves.
Starts ==
    /\ startPc # "idle" => result = "ok"
    /\ startPc \in {"connect", "announced", "running"} =>
           clientSocket = config.client /\ config.client # "none"
    /\ startPc \in {"announced", "running"} => request = config.server

IInv == Shapes /\ Whole /\ Threads /\ LooksForAny /\ Stores /\ Success /\ Answerers /\ Starts

LEMMA InitInv == Init => IInv
<1> SUFFICES ASSUME Init PROVE IInv
  OBVIOUS
<1> USE DEF Init, DiscoveryInit
<1>1. Shapes
  BY DEF Shapes, IsConfig, InitialConfiguration, Families, NoAddress, Address
<1>2. Whole
  BY DEF Whole, InitialConfiguration, NoAddress, Address
<1>3. Threads /\ LooksForAny /\ Stores /\ Success
  BY DEF Threads, LooksForAny, Looking, Stores, Success
<1>4. Answerers /\ Starts
  BY DEF Answerers, Starts, NoAddress, Address
<1> QED BY <1>1, <1>2, <1>3, <1>4 DEF IInv

-----------------------------------------------------------------------------
(* The calls of the application.                                           *)

\* A call that keeps the configuration's shape and sets the server as a whole.
Sets(called, meant) ==
    /\ IsConfig(called.config)
    /\ called.ok => meant.family \in Families
    /\ IF called.ok
         THEN \/ called.config.server = OnWire(meant)
              \/ called.config.server = config.server /\ meant = accepted
         ELSE called.config.server \in {config.server, NoAddress}

LEMMA CallStep ==
  ASSUME IInv, NEW called, NEW meant, Call(called, meant), Sets(called, meant)
  PROVE  IInv'
<1> USE DEF IInv, Call
<1>1. Shapes'
  BY DEF Shapes, Sets, networkVars
<1>2. Whole'
  BY DEF Whole, Sets, callerVars, NoAddress, Address, Configuring
<1>3. workerPc = "none" /\ ~found /\ result = "none" /\ startPc = "idle"
  BY DEF Threads, Configuring, Starts
<1>4. Threads' /\ LooksForAny' /\ Stores' /\ Success'
  BY <1>3 DEF Threads, LooksForAny, Stores, Success, callerVars, workerVars, Configuring, Looking
<1>5. Answerers' /\ Starts'
  BY <1>3 DEF Answerers, Starts, networkVars, startVars, callerVars
<1> QED BY <1>1, <1>2, <1>4, <1>5

LEMMA ServerStringSets ==
  ASSUME NEW string \in EndPoints, NEW families \in Found, IsConfig(config)
  PROVE  Sets(ConfigureServer(config, string, families), Meant(string, families))
<1> DEFINE parsed == Parse(config.server, string, families)
<1>1. ConfigureServer(config, string, families)
      = [ok |-> parsed.ok, config |-> [config EXCEPT !.server = parsed.address]]
  BY DEF ConfigureServer, Result
<1>2. /\ parsed.ok \in BOOLEAN
      /\ parsed.ok => parsed.address = OnWire(Meant(string, families))
      /\ parsed.ok => Meant(string, families).family \in Families
      /\ ~parsed.ok => parsed.address \in {config.server, NoAddress}
  BY ParsesAll
<1> HIDE DEF parsed
<1> QED BY <1>1, <1>2 DEF Sets, IsConfig

LEMMA ConfigureStep == IInv /\ Configure => IInv'
<1> SUFFICES ASSUME IInv, Configure PROVE IInv'
  OBVIOUS
<1>1. IsConfig(config) /\ accepted.family \in Families
  BY DEF IInv, Shapes
<1>2. CASE CallClient
  <2>1. Sets(ConfigureClient4(config), accepted) /\ Sets(ConfigureClient6(config), accepted)
    BY <1>1 DEF Sets, ConfigureClient4, ConfigureClient6, Result, IsConfig, Families
  <2> QED BY <1>2, <2>1, CallStep DEF CallClient
<1>3. ASSUME NEW family, NEW host, NEW p, CallServerAddress(family, host, p) PROVE IInv'
  <2> DEFINE address == Address(family, host, htons(p))
  <2>1. Sets(ConfigureServer4(config, address), Address("inet", host, p))
    BY <1>1 DEF Sets, ConfigureServer4, Result, IsConfig, OnWire, Address, Families
  <2>2. Sets(ConfigureServer6(config, address), Address("inet6", host, p))
    BY <1>1 DEF Sets, ConfigureServer6, Result, IsConfig, OnWire, Address, Families
  <2>3. \/ Call(ConfigureServer4(config, address), Address("inet", host, p))
        \/ Call(ConfigureServer6(config, address), Address("inet6", host, p))
    BY <1>3 DEF CallServerAddress
  <2> QED BY <2>1, <2>2, <2>3, CallStep
<1>4. ASSUME NEW string \in Strings, NEW families \in LookUps, CallServer(string, families)
      PROVE  IInv'
  <2>1. string \in EndPoints /\ families \in Found
    BY InputsAssumption DEF Found
  <2> QED BY <1>1, <1>4, <2>1, ServerStringSets, CallStep DEF CallServer
<1>5. ASSUME NEW p, NEW timeout, CallDiscovery(p, timeout) PROVE IInv'
  <2>1. Sets(ConfigureDiscovery(config, p, timeout, timeout), Address("inet", AnyHost, p))
    BY <1>1 DEF Sets, ConfigureDiscovery, ConfigureServer4, Result, IsConfig, OnWire, Address, Families
  <2> QED BY <1>5, <2>1, CallStep DEF CallDiscovery
<1>6. ASSUME NEW key \in Keys, NEW families \in LookUps, CallRegistry(key, families)
      PROVE  IInv'
  <2>1. families \in Found /\ (key.server # NoString => key.server \in EndPoints)
    BY InputsAssumption DEF Found
  <2> DEFINE called == ConfigureFromRegistryKey(config, key, families)
             meant  == IF key.server = NoString THEN accepted ELSE Meant(key.server, families)
  <2>2. ASSUME key.server = NoString PROVE Sets(called, meant)
    BY <1>1, <2>2 DEF Sets, ConfigureFromRegistryKey, Result, IsConfig
  <2>3. ASSUME key.server # NoString PROVE Sets(called, meant)
    <3> DEFINE server == ConfigureServer(config, key.server, families)
    <3>1. Sets(server, meant)
      BY <1>1, <2>1, <2>3, ServerStringSets
    <3>2. called = IF server.ok
                     THEN [ok |-> TRUE,
                           config |-> [server.config EXCEPT !.values = ReadValues(@, key)]]
                     ELSE server
      BY <2>3 DEF ConfigureFromRegistryKey, Result
    <3> HIDE DEF server, called
    <3> QED BY <3>1, <3>2 DEF Sets, IsConfig
  <2>4. Sets(called, meant)
    BY <2>2, <2>3
  <2> QED BY <1>6, <2>4, CallStep DEF CallRegistry
<1> QED BY <1>2, <1>3, <1>4, <1>5, <1>6 DEF Configure

-----------------------------------------------------------------------------
(* discover().                                                             *)

\* The switch either knows the pad, or begins to look for any.
LEMMA CheckFamilyStep ==
  ASSUME IInv, CheckFamily, UNCHANGED <<file, started, applicationVars, startVars>>
  PROVE  IInv'
<1> USE DEF IInv, CheckFamily, Return, workerVars, networkVars, applicationVars, startVars
<1>1. workerPc = "none" /\ ~found /\ result = "none" /\ startPc = "idle"
  BY DEF Threads, Configuring, Starts
<1>2. callerPc' \in {"returned", "adapters"}
  OBVIOUS
<1>3. Shapes'
  <2>1. config.server.family \in Families
    BY DEF Whole, Shapes, Configuring, OnWire, Address, Families
  <2>2. CoercedClient(config) \in Families
    BY <2>1 DEF CoercedClient, Shapes, IsConfig
  <2> QED BY <2>2 DEF Shapes, IsConfig
<1>4. Whole' /\ Threads'
  BY <1>1, <1>2 DEF Whole, Threads, Configuring
<1>5. LooksForAny'
  BY <1>1 DEF LooksForAny, Looking, Whole, Configuring, NeedsDiscovery, OnWire, Address
<1>6. Success'
  BY <1>1 DEF Success, Whole, Configuring, NeedsDiscovery, OnWire, Address, Shapes, IsConfig
<1>7. Stores' /\ Answerers' /\ Starts'
  BY <1>1 DEF Stores, Answerers, Starts
<1> QED BY <1>3, <1>4, <1>5, <1>6, <1>7

\* From then on the caller leaves the client alone, and only succeeds if the
\* worker has found a pad.
LEMMA LookingStep ==
  ASSUME IInv, Caller, ~CheckFamily, UNCHANGED <<file, started, applicationVars, startVars>>
  PROVE  IInv'
<1> USE DEF IInv, applicationVars, startVars
<1>1. /\ callerPc \in Looking
      /\ callerPc' \in (Looking \ {"adapters"}) \cup {"returned"}
      /\ callerPc' \in {"socket", "bind", "spawn"} => callerPc \in {"adapters", "socket", "bind"}
  BY DEF Caller, FindAdapters, CreateSocket, BindSocket, Spawn, StartRound, EndRound, LeaveLoop,
         Verdict, Broadcast, BroadcastFails, Return, Looking
<1>2. UNCHANGED <<config, bound, answers, buffer, found, seqNo>>
  BY DEF Caller, FindAdapters, CreateSocket, BindSocket, Spawn, StartRound, EndRound, LeaveLoop,
         Verdict, Broadcast, BroadcastFails, workerVars, networkVars
<1>3. workerPc' = workerPc \/ (callerPc = "spawn" /\ workerPc' = "receive" /\ callerPc' = "loop")
  BY DEF Caller, FindAdapters, CreateSocket, BindSocket, Spawn, StartRound, EndRound, LeaveLoop,
         Verdict, Broadcast, BroadcastFails, workerVars
<1>4. asked' = asked \/ asked' = asked \cup Listening
  BY DEF Caller, FindAdapters, CreateSocket, BindSocket, Spawn, StartRound, EndRound, LeaveLoop,
         Verdict, Broadcast, BroadcastFails, networkVars
<1>5. result = "none" /\ startPc = "idle"
  BY <1>1 DEF Threads, Starts, Looking
<1>6. /\ result' # "none" => callerPc' = "returned"
      /\ result' = "ok" => found
  BY <1>5 DEF Caller, FindAdapters, CreateSocket, BindSocket, Spawn, StartRound, EndRound, LeaveLoop,
              Verdict, Broadcast, BroadcastFails, Return
<1>7. Shapes' /\ Whole'
  BY <1>1, <1>2 DEF Shapes, Whole, Configuring, Looking
<1>8. Threads'
  BY <1>1, <1>2, <1>3, <1>6 DEF Threads, Configuring, Looking
<1>9. LooksForAny'
  BY <1>1 DEF LooksForAny
<1>10. Stores'
  BY <1>2, <1>3 DEF Stores, Threads
<1>11. Success' /\ Starts'
  BY <1>2, <1>5, <1>6 DEF Success, Starts
<1>12. Answerers'
  <2>1. \A p \in Listening : p \in started /\ bound[p].family = "inet"
    BY DEF Listening, Answerers
  <2>2. asked \subseteq asked' /\ asked' \subseteq Pads
    BY <1>4 DEF Answerers, Listening
  <2>3. \A p \in asked' : p \in started' /\ bound'[p].family = "inet"
    BY <1>2, <1>4, <2>1 DEF Answerers
  <2>4. \A a \in answers' : a.from.family = "inet" /\ \E p \in asked' : a.from = bound'[p]
    BY <1>2, <2>2 DEF Answerers
  <2> QED BY <1>2, <2>2, <2>3, <2>4 DEF Answerers
<1> QED BY <1>7, <1>8, <1>9, <1>10, <1>11, <1>12

\* The worker stores one announcement, the flag last.
LEMMA WorkerStep ==
  ASSUME IInv, Worker, UNCHANGED <<file, started, applicationVars, startVars>>
  PROVE  IInv'
<1> USE DEF IInv, callerVars, networkVars, applicationVars, startVars
<1>1. UNCHANGED <<callerPc, result, bound, asked, answers, socket>>
  BY DEF Worker, WorkerReceives, WorkerFails, StoreServer, StoreSeqNo, StoreFound
<1>2. workerPc \in {"receive", "server", "seq", "found"} /\ ~found
  BY DEF Worker, WorkerReceives, WorkerFails, StoreServer, StoreSeqNo, StoreFound, Threads
<1>3. result # "ok" /\ startPc = "idle" /\ callerPc \notin Configuring
  BY <1>2 DEF Success, Starts, Threads, Configuring
<1>4. \/ UNCHANGED config
      \/ workerPc = "server" /\ config' = [config EXCEPT !.server = buffer.from]
  BY DEF Worker, WorkerReceives, WorkerFails, StoreServer, StoreSeqNo, StoreFound
<1>5. IsConfig(config') /\ (workerPc = "server" /\ ~UNCHANGED config => config'.server = buffer.from)
  BY <1>4 DEF Shapes, IsConfig
<1>6. Shapes' /\ Whole'
  BY <1>1, <1>3, <1>5 DEF Shapes, Whole
<1>7. Threads' /\ LooksForAny'
  BY <1>1, <1>2, <1>3 DEF Threads, LooksForAny, Worker, WorkerReceives, WorkerFails, StoreServer,
                          StoreSeqNo, StoreFound
<1>8. Stores'
  <2>1. CASE WorkerReceives \/ WorkerFails
    BY <1>2, <2>1 DEF Stores, WorkerReceives, WorkerFails
  <2>2. CASE StoreServer
    BY <1>2, <2>2 DEF Stores, StoreServer, Shapes, IsConfig
  <2>3. CASE StoreSeqNo
    BY <1>2, <2>3 DEF Stores, StoreSeqNo
  <2>4. CASE StoreFound
    <3>1. buffer \in answers /\ config.server = buffer.from /\ seqNo = buffer.seq
      BY <2>4 DEF Stores, StoreFound
    <3>2. buffer = [from |-> buffer.from, seq |-> buffer.seq]
      BY <3>1 DEF Shapes
    <3> QED BY <2>4, <3>1, <3>2 DEF Stores, StoreFound
  <2> QED BY <2>1, <2>2, <2>3, <2>4 DEF Worker
<1>9. Success' /\ Starts' /\ Answerers'
  BY <1>1, <1>3 DEF Success, Starts, Answerers
<1> QED BY <1>6, <1>7, <1>8, <1>9

LEMMA NetworkStep ==
  ASSUME IInv, Network, UNCHANGED <<file, started, applicationVars, startVars>>
  PROVE  IInv'
<1> PICK p \in Pads, n \in SeqNos : Answer(p, n)
  BY DEF Network
<1> USE DEF IInv, Answer, callerVars, workerVars, applicationVars, startVars
<1>1. Shapes' /\ Whole' /\ Threads' /\ LooksForAny'
  BY DEF Shapes, Whole, Threads, LooksForAny
<1>2. Stores' /\ Success' /\ Starts'
  BY DEF Stores, Success, Starts
<1>3. Answerers'
  BY DEF Answerers
<1> QED BY <1>1, <1>2, <1>3

-----------------------------------------------------------------------------
(* The other steps.                                                        *)

LEMMA PadStep ==
  ASSUME IInv, NEW p \in Pads, PadStarts(p)
  PROVE  IInv'
<1> USE DEF IInv, PadStarts, callerVars, workerVars, applicationVars, startVars
<1>1. Shapes' /\ Whole' /\ Threads' /\ LooksForAny'
  BY DEF Shapes, Whole, Threads, LooksForAny
<1>2. Stores' /\ Success' /\ Starts'
  BY DEF Stores, Success, Starts
<1>3. \A q \in Pads : q # p => bound'[q] = bound[q]
  BY DEF Shapes
<1>4. p \notin asked
  BY DEF Answerers
<1>5. Answerers'
  <2>1. \A q \in Pads \ started' : bound'[q].family = "none"
    BY <1>3 DEF Answerers
  <2>2. \A q \in asked' : q \in started' /\ bound'[q].family = "inet"
    BY <1>3, <1>4 DEF Answerers
  <2> QED BY <2>1, <2>2 DEF Answerers
<1> QED BY <1>1, <1>2, <1>5

LEMMA ConnectStep == IInv /\ Connect => IInv'
<1> SUFFICES ASSUME IInv, Connect PROVE IInv'
  OBVIOUS
<1> USE DEF IInv, Connect, workerVars, networkVars, startVars
<1>1. Shapes' /\ Whole' /\ Threads' /\ LooksForAny'
  BY DEF Shapes, Whole, Threads, LooksForAny, Configuring, Looking
<1>2. Stores' /\ Success' /\ Answerers' /\ Starts'
  BY DEF Stores, Success, Answerers, Starts, Threads
<1> QED BY <1>1, <1>2

\* start() only gives the client's socket its family.
LEMMA StartStep == IInv /\ Start => IInv'
<1> SUFFICES ASSUME IInv, Start PROVE IInv'
  OBVIOUS
<1> USE DEF IInv, Unstarted, callerVars, workerVars, networkVars, applicationVars
<1>1. UNCHANGED <<callerPc, result, workerPc, found, seqNo, buffer, bound, asked, answers, started, accepted>>
  BY DEF Start, StartSocket, SendConnect, SpawnReceiver
<1>2. result = "ok" /\ callerPc = "returned"
  BY DEF Start, StartSocket, SendConnect, SpawnReceiver, Starts, Threads
<1>3. config.server.family # "none"
  <2>1. CASE found
    <3>1. [from |-> config.server, seq |-> seqNo].from.family = "inet"
      BY <2>1 DEF Stores, Answerers
    <3> QED BY <3>1
  <2>2. CASE ~found
    BY <1>2, <2>2 DEF Success
  <2> QED BY <2>1, <2>2
<1>4. /\ IsConfig(config') /\ config'.server = config.server
      /\ config.client # "none" => config'.client = config.client
  <2>1. CASE StartSocket
    <3>1. config.server.family = "inet" \/ config.client # "none"
      BY <1>2 DEF Success, Stores, Answerers
    <3>2. CoercedClient(config) \in Families
      BY <3>1 DEF CoercedClient, Shapes, IsConfig, Families
    <3> QED BY <2>1, <3>2 DEF StartSocket, StartFamily, CoercedClient, Shapes, IsConfig
  <2>2. CASE SendConnect \/ SpawnReceiver
    BY <2>2 DEF SendConnect, SpawnReceiver, Shapes
  <2> QED BY <2>1, <2>2 DEF Start
<1>5. Shapes' /\ Whole' /\ Threads' /\ LooksForAny' /\ Answerers'
  BY <1>1, <1>2, <1>4 DEF Shapes, Whole, Threads, LooksForAny, Answerers, Configuring
<1>6. Stores'
  BY <1>1, <1>4 DEF Stores
<1>7. Success'
  BY <1>1, <1>4 DEF Success
<1>8. Starts'
  <2>1. CASE StartSocket
    BY <1>1, <1>2, <1>3, <1>4, <2>1 DEF Starts, StartSocket, StartFamily, CoercedClient, Shapes, IsConfig
  <2>2. CASE SendConnect
    BY <1>1, <1>2, <2>2 DEF Starts, SendConnect
  <2>3. CASE SpawnReceiver
    BY <1>1, <1>2, <2>3 DEF Starts, SpawnReceiver
  <2> QED BY <2>1, <2>2, <2>3 DEF Start
<1> QED BY <1>5, <1>6, <1>7, <1>8

LEMMA InvStep == IInv /\ [Next]_vars => IInv'
<1> SUFFICES ASSUME IInv, [Next]_vars PROVE IInv'
  OBVIOUS
<1>1. CASE UNCHANGED vars
  BY <1>1 DEF vars, discoveryVars, callerVars, workerVars, networkVars, applicationVars, startVars,
              IInv, Shapes, Whole, Threads, LooksForAny, Stores, Success, Answerers, Starts
<1>2. CASE Discover
  BY <1>2, CheckFamilyStep, LookingStep DEF Discover
<1> QED
  BY <1>1, <1>2, PadStep, ConfigureStep, ConnectStep, WorkerStep, NetworkStep, StartStep DEF Next

LEMMA Invariant == Spec => []IInv
<1> QED BY InitInv, InvStep, PTL DEF Spec

-----------------------------------------------------------------------------
(* What follows from it.                                                   *)

\* Whatever calls fail, and whatever strings, names and registry keys they get,
\* the client holds no address but one that a call set completely.
THEOREM NeverHalfParsed == Spec => []NoHalfParsedServer
<1>1. IInv => NoHalfParsedServer
  BY DEF IInv, Whole, NoHalfParsedServer, OnWire, Configuring
<1> QED BY <1>1, Invariant, PTL

\* For any number of pads, answers and broadcasts, discover() returns the address
\* and the sequence number of one announcement.
THEOREM OneAnnouncement == Spec => []SuccessIsOneAnnouncement
<1>1. IInv => SuccessIsOneAnnouncement
  BY DEF IInv, Success, Stores, SuccessIsOneAnnouncement
<1> QED BY <1>1, Invariant, PTL

\* A call that succeeds has no worker that still uses its local variables.
THEOREM WorkerHasLeft == Spec => []SuccessLeavesNoWorker
<1>1. IInv => SuccessLeavesNoWorker
  BY DEF IInv, Success, Threads, SuccessLeavesNoWorker
<1> QED BY <1>1, Invariant, PTL

\* The socket of a client has the family of its pad's address.
THEOREM SocketFits == Spec => []SocketFitsServer
<1>1. ASSUME IInv, startPc \in {"connect", "announced", "running"}
      PROVE  \/ clientSocket = config.server.family
             \/ accepted.host = AnyHost /\ clientSocket = "inet6"
  <2> USE <1>1 DEF IInv
  <2>1. result = "ok" /\ clientSocket = config.client /\ config.client \in {"inet", "inet6"}
    BY DEF Starts, Shapes, IsConfig, Families
  <2>2. CASE found
    <3>1. [from |-> config.server, seq |-> seqNo].from.family = "inet"
      BY <2>2 DEF Stores, Answerers
    <3>2. accepted.host = AnyHost
      BY <2>2 DEF Threads, LooksForAny
    <3> QED BY <2>1, <3>1, <3>2
  <2>3. CASE ~found
    BY <2>1, <2>3 DEF Success
  <2> QED BY <2>2, <2>3
<1>2. IInv => SocketFitsServer
  BY <1>1 DEF SocketFitsServer
<1> QED BY <1>2, Invariant, PTL

-----------------------------------------------------------------------------
(* Ports.                                                                  *)

\* The client asks at the port that was meant, and each pad listens at the one
\* that its file names.
PortInv ==
    /\ file \in [Pads -> JsonFiles]
    /\ accepted.port \in Ports
    /\ callerPc \in Looking => port = htons(Effective(accepted.port))
    /\ \A p \in Pads : bound[p] # NoAddress =>
           bound[p] = Address(bound[p].family, p, htons(Effective(PortInFile(p))))

LEMMA MeantPort ==
  ASSUME NEW string \in EndPoints, NEW families
  PROVE  Meant(string, families).port \in Ports
<1>1. string.port \in Ports
  BY NoPort DEF EndPoints, Malformed, Literals, DnsNames
<1> QED BY <1>1 DEF Meant, Address

LEMMA CallPort ==
  ASSUME PortInv, NEW called, NEW meant, Call(called, meant), meant.port \in Ports
  PROVE  PortInv'
<1>1. UNCHANGED <<file, callerPc, port, bound>> /\ callerPc = "configure"
  BY DEF Call, callerVars, networkVars
<1>2. accepted'.port \in Ports
  BY DEF PortInv, Call
<1> QED BY <1>1, <1>2 DEF PortInv, Looking, PortInFile

LEMMA ConfigurePort == PortInv /\ Configure => PortInv'
<1> SUFFICES ASSUME PortInv, Configure PROVE PortInv'
  OBVIOUS
<1>1. accepted.port \in Ports
  BY DEF PortInv
<1>2. CASE CallClient
  BY <1>1, <1>2, CallPort DEF CallClient
<1>3. ASSUME NEW family, NEW host, NEW p \in NamedPorts, CallServerAddress(family, host, p)
      PROVE  PortInv'
  <2>1. p \in Ports
    BY InputsAssumption
  <2>2. Address("inet", host, p).port \in Ports /\ Address("inet6", host, p).port \in Ports
    BY <2>1 DEF Address
  <2> QED BY <1>3, <2>2, CallPort DEF CallServerAddress
<1>4. ASSUME NEW string \in Strings, NEW families, CallServer(string, families) PROVE PortInv'
  BY <1>4, MeantPort, CallPort, InputsAssumption DEF CallServer
<1>5. ASSUME NEW p \in NamedPorts, NEW timeout, CallDiscovery(p, timeout) PROVE PortInv'
  <2>1. p \in Ports
    BY InputsAssumption
  <2>2. Address("inet", AnyHost, p).port \in Ports
    BY <2>1 DEF Address
  <2> QED BY <1>5, <2>2, CallPort DEF CallDiscovery
<1>6. ASSUME NEW key \in Keys, NEW families, CallRegistry(key, families) PROVE PortInv'
  <2> DEFINE meant == IF key.server = NoString THEN accepted ELSE Meant(key.server, families)
  <2>1. meant.port \in Ports
    BY <1>1, MeantPort, InputsAssumption
  <2>2. Call(ConfigureFromRegistryKey(config, key, families), meant)
    BY <1>6 DEF CallRegistry
  <2> HIDE DEF meant
  <2> QED BY <2>1, <2>2, CallPort
<1> QED BY <1>2, <1>3, <1>4, <1>5, <1>6 DEF Configure

\* What serve() binds.
LEMMA PadPort ==
  ASSUME IInv, PortInv, NEW p \in Pads, PadStarts(p)
  PROVE  PortInv'
<1>1. UNCHANGED <<file, callerPc, port, accepted>>
  BY DEF PadStarts, callerVars, applicationVars
<1>2. \A q \in Pads : PortInFile(q)' = PortInFile(q)
  BY <1>1 DEF PortInFile
<1>3. PICK socketFamily : bound' = [bound EXCEPT ![p] = BoundTo(p, Settings(p), socketFamily)]
  BY DEF PadStarts
<1>4. \A q \in Pads : q # p => bound'[q] = bound[q]
  BY <1>3 DEF IInv, Shapes
<1>5. file[p] \in JsonFiles
  BY DEF PortInv
<1>6. CoercedSettings(Settings(p)).port = htons(Effective(PortInFile(p)))
  <2>1. PICK family : CoercedSettings(Settings(p))
                      = PadSetting(family, htons(PortInEffect(PortInFile(p))))
    BY <1>5, SettingsOfFile DEF Settings, PortInFile
  <2> QED BY <2>1 DEF PadSetting, PortInEffect, Effective
<1>7. bound'[p] = BoundTo(p, Settings(p), socketFamily)
  BY <1>3 DEF IInv, Shapes
<1>8. bound'[p] # NoAddress =>
          bound'[p] = Address(bound'[p].family, p, htons(Effective(PortInFile(p))))
  BY <1>6, <1>7 DEF BoundTo, Address
<1> QED BY <1>1, <1>2, <1>4, <1>8 DEF PortInv

LEMMA CallerPort ==
  ASSUME IInv, PortInv, Discover
  PROVE  PortInv'
<1>1. UNCHANGED <<file, accepted, bound>>
  BY DEF Discover, Caller, CheckFamily, FindAdapters, CreateSocket, BindSocket, Spawn, StartRound,
         EndRound, LeaveLoop, Verdict, Broadcast, BroadcastFails, networkVars, applicationVars
<1>2. callerPc' \in Looking => port' = htons(Effective(accepted.port))
  <2>1. CASE CheckFamily
    <3> SUFFICES ASSUME callerPc' \in Looking
                 PROVE  port' = htons(Effective(accepted.port))
      OBVIOUS
    <3>1. port' = DiscoveryPort(config) /\ config.server = OnWire(accepted)
      BY <2>1 DEF CheckFamily, Return, Looking, IInv, Whole, Configuring, NeedsDiscovery
    <3>2. config.server.port = htons(accepted.port)
      BY <3>1 DEF OnWire, Address
    <3>3. htons(accepted.port) = 0 <=> accepted.port = 0
      BY PortRoundTrip, NoPort DEF PortInv
    <3> QED BY <3>1, <3>2, <3>3 DEF DiscoveryPort, Effective
  <2>2. CASE ~CheckFamily
    BY <2>2 DEF Discover, Caller, FindAdapters, CreateSocket, BindSocket, Spawn, StartRound, EndRound,
                LeaveLoop, Verdict, Broadcast, BroadcastFails, Looking, PortInv
  <2> QED BY <2>1, <2>2
<1> QED BY <1>1, <1>2 DEF PortInv, PortInFile

LEMMA OtherPort ==
  ASSUME PortInv, \/ Worker /\ UNCHANGED <<file, started, applicationVars, startVars>>
                  \/ Network /\ UNCHANGED <<file, started, applicationVars, startVars>>
                  \/ Connect \/ Start \/ UNCHANGED vars
  PROVE  PortInv'
<1>1. UNCHANGED <<file, accepted, bound, port>>
  BY DEF Worker, WorkerReceives, WorkerFails, StoreServer, StoreSeqNo, StoreFound, Network, Answer,
         Connect, Start, StartSocket, SendConnect, SpawnReceiver, Unstarted, vars, discoveryVars,
         callerVars, workerVars, networkVars, applicationVars, startVars
<1>2. callerPc' = callerPc \/ callerPc' = "family"
  BY DEF Worker, WorkerReceives, WorkerFails, StoreServer, StoreSeqNo, StoreFound, Network, Answer,
         Connect, Start, StartSocket, SendConnect, SpawnReceiver, Unstarted, vars, discoveryVars,
         callerVars
<1> QED BY <1>1, <1>2 DEF PortInv, PortInFile, Looking

LEMMA PortStep == IInv /\ PortInv /\ [Next]_vars => PortInv'
<1> SUFFICES ASSUME IInv, PortInv, [Next]_vars PROVE PortInv'
  OBVIOUS
<1> QED BY ConfigurePort, PadPort, CallerPort, OtherPort DEF Next

LEMMA InitPort == Init => PortInv
<1> SUFFICES ASSUME Init PROVE PortInv
  OBVIOUS
<1>1. file \in [Pads -> JsonFiles]
  BY InputsAssumption DEF Init
<1> QED BY <1>1, NoPort DEF Init, PortInv, NoAddress, Address, Looking

LEMMA PortInvariant == Spec => []PortInv
<1> QED BY Invariant, InitPort, PortStep, PTL DEF Spec

-----------------------------------------------------------------------------
\* Different ports are different in network byte order too.
LEMMA PortsDiffer == \A p, q \in Ports : htons(p) = htons(q) => p = q
BY PortRoundTrip

LEMMA EffectivePort == \A p \in Ports : Effective(p) \in Ports /\ Effective(p) # 0
BY DefaultPortAssumption DEF Effective

LEMMA FilePort == PortInv => \A p \in Pads : PortInFile(p) \in Ports
BY SettingsOfFile DEF PortInv, PortInFile

\* For every port, file and number of pads: a client's broadcasts reach the port
\* of exactly the IPv4 pads it means.
THEOREM DiscoveryMeets == Spec => []DiscoveryMeetsThePads
<1>1. ASSUME PortInv, callerPc = "broadcast", NEW p \in Pads, bound[p] # NoAddress
      PROVE  p \in Listening <=>
                 (bound[p].family = "inet" /\ Effective(accepted.port) = Effective(PortInFile(p)))
  <2>1. port = htons(Effective(accepted.port)) /\ bound[p].port = htons(Effective(PortInFile(p)))
    <3>1. port = htons(Effective(accepted.port))
      BY <1>1 DEF PortInv, Looking
    <3>2. bound[p] = Address(bound[p].family, p, htons(Effective(PortInFile(p))))
      BY <1>1 DEF PortInv
    <3>3. Address(bound[p].family, p, htons(Effective(PortInFile(p)))).port
          = htons(Effective(PortInFile(p)))
      BY DEF Address
    <3> QED BY <3>1, <3>2, <3>3
  <2>2. Effective(accepted.port) \in Ports /\ Effective(PortInFile(p)) \in Ports
    BY <1>1, EffectivePort, FilePort DEF PortInv
  <2>3. bound[p].port = port <=> Effective(accepted.port) = Effective(PortInFile(p))
    BY <2>1, <2>2, PortsDiffer
  <2> QED BY <2>3 DEF Listening
<1>2. ASSUME PortInv, callerPc = "broadcast", NEW p \in Pads, bound[p] # NoAddress
      PROVE  (p \in Listening)
             = (bound[p].family = "inet" /\ Effective(accepted.port) = Effective(PortInFile(p)))
  BY <1>1, <1>2
<1>3. PortInv => DiscoveryMeetsThePads
  BY <1>2 DEF DiscoveryMeetsThePads
<1> QED BY <1>3, PortInvariant, PTL

\* A connect request goes to a pad that has answered, or to the end point that was
\* configured, where exactly the pad that was meant receives it.
THEOREM ConnectMeets == Spec => []ConnectMeetsThePad
<1>1. ASSUME IInv, startPc \in {"announced", "running"}
      PROVE  /\ request = config.server /\ result = "ok"
             /\ accepted.host = AnyHost => found
             /\ accepted.host # AnyHost => config.server = OnWire(accepted)
  BY <1>1 DEF IInv, Starts, Success, Threads, LooksForAny
<1>2. ASSUME IInv, startPc \in {"announced", "running"}, accepted.host = AnyHost
      PROVE  \E p \in Pads : bound[p] = request
  <2>1. [from |-> config.server, seq |-> seqNo] \in answers
    BY <1>1, <1>2 DEF IInv, Stores
  <2>2. \E p \in asked : [from |-> config.server, seq |-> seqNo].from = bound[p]
    BY <1>2, <2>1 DEF IInv, Answerers
  <2>3. asked \subseteq Pads
    BY <1>2 DEF IInv, Answerers
  <2> QED BY <1>1, <1>2, <2>2, <2>3
<1>3. ASSUME IInv, PortInv, startPc \in {"announced", "running"}, accepted.host # AnyHost,
             accepted.port # 0, NEW p \in Pads, bound[p] # NoAddress
      PROVE  bound[p] = request <=>
                 (/\ p = accepted.host
                  /\ bound[p].family = accepted.family
                  /\ Effective(PortInFile(p)) = accepted.port)
  <2>1. bound[p] = Address(bound[p].family, p, htons(Effective(PortInFile(p))))
    BY <1>3 DEF PortInv
  <2>2. request = Address(accepted.family, accepted.host, htons(accepted.port))
    BY <1>1, <1>3 DEF OnWire
  <2>3. Effective(PortInFile(p)) \in Ports /\ accepted.port \in Ports
    BY <1>3, EffectivePort, FilePort DEF PortInv
  <2>4. htons(Effective(PortInFile(p))) = htons(accepted.port)
            <=> Effective(PortInFile(p)) = accepted.port
    BY <2>3, PortsDiffer
  <2> QED BY <2>1, <2>2, <2>4 DEF Address
<1>4. IInv /\ PortInv => ConnectMeetsThePad
  BY <1>2, <1>3 DEF ConnectMeetsThePad
<1> QED BY <1>4, Invariant, PortInvariant, PTL

-----------------------------------------------------------------------------
(* Types.                                                                  *)

LEMMA MadeAddress ==
  ASSUME NEW family \in {"inet", "inet6"}, NEW host \in Hosts \cup {AnyHost}, NEW p \in Ports
  PROVE  Address(family, host, p) \in Addresses
BY DEF Addresses, Address, Families

LEMMA WireAddress ==
  ASSUME NEW family \in {"inet", "inet6"}, NEW host \in Hosts \cup {AnyHost}, NEW p \in Ports
  PROVE  Address(family, host, htons(p)) \in Addresses
BY MadeAddress, PortRoundTrip

LEMMA AddressParts ==
  ASSUME NEW a \in Addresses
  PROVE  a.family \in Families /\ a.port \in Ports
BY NoPort DEF Addresses, NoAddress, Address, Families

\* What a call may leave.
Typed(called, meant) ==
    /\ called.config.server \in Addresses
    /\ DOMAIN called.config.values = Names
    /\ called.ok => meant \in Addresses

LEMMA ServerStringTyped ==
  ASSUME NEW string \in EndPoints, NEW families \in Found, IsConfig(config),
         config.server \in Addresses, DOMAIN config.values = Names
  PROVE  Typed(ConfigureServer(config, string, families), Meant(string, families))
<1> DEFINE parsed == Parse(config.server, string, families)
           meant  == Meant(string, families)
<1>1. ConfigureServer(config, string, families)
      = [ok |-> parsed.ok, config |-> [config EXCEPT !.server = parsed.address]]
  BY DEF ConfigureServer, Result
<1>2. /\ parsed.ok \in BOOLEAN
      /\ parsed.ok => parsed.address = OnWire(meant)
      /\ parsed.ok => meant.family \in Families \ {"none"}
      /\ ~parsed.ok => parsed.address \in {config.server, NoAddress}
  BY ParsesAll
<1>3. meant = Address(meant.family, string.host, string.port)
  BY DEF Meant, Address
<1>4. string.host \in Hosts \cup {AnyHost} /\ string.port \in Ports
  BY NoPort DEF EndPoints, Malformed, Literals, DnsNames
<1>5. parsed.ok => meant \in Addresses /\ parsed.address \in Addresses
  <2> SUFFICES ASSUME parsed.ok PROVE meant \in Addresses /\ parsed.address \in Addresses
    OBVIOUS
  <2>1. meant.family \in {"inet", "inet6"}
    BY <1>2 DEF Families
  <2>2. meant \in Addresses
    BY <1>3, <1>4, <2>1, MadeAddress
  <2>3. OnWire(meant) = Address(meant.family, string.host, htons(string.port))
    BY <1>3 DEF OnWire, Address
  <2> QED BY <1>2, <1>4, <2>1, <2>2, <2>3, WireAddress
<1>6. parsed.address \in Addresses
  BY <1>2, <1>5 DEF Addresses
<1> HIDE DEF parsed, meant
<1> QED BY <1>1, <1>5, <1>6 DEF Typed, IsConfig, meant

LEMMA CallTypes ==
  ASSUME TypeOK, IInv', NEW called, NEW meant, Call(called, meant), Typed(called, meant)
  PROVE  TypeOK'
<1>1. calls' \in 0 .. MaxCalls
  BY MaxCallsAssumption DEF Call, TypeOK
<1>2. config'.client \in Families
  BY DEF IInv, Shapes, IsConfig
<1>3. DiscoveryTypeOK'
  BY <1>2 DEF Call, Typed, TypeOK, DiscoveryTypeOK, callerVars, workerVars, networkVars
<1> QED BY <1>1, <1>3 DEF Call, Typed, TypeOK, startVars

LEMMA ConfigureTypes == TypeOK /\ IInv /\ IInv' /\ Configure => TypeOK'
<1> SUFFICES ASSUME TypeOK, IInv, IInv', Configure PROVE TypeOK'
  OBVIOUS
<1>1. /\ IsConfig(config) /\ config.server \in Addresses /\ DOMAIN config.values = Names
      /\ accepted \in Addresses
  BY DEF IInv, Shapes, TypeOK, DiscoveryTypeOK
<1>2. CASE CallClient
  <2>1. Typed(ConfigureClient4(config), accepted) /\ Typed(ConfigureClient6(config), accepted)
    BY <1>1 DEF Typed, ConfigureClient4, ConfigureClient6, Result, IsConfig
  <2> QED BY <1>2, <2>1, CallTypes DEF CallClient
<1>3. ASSUME NEW family \in Families, NEW host \in Hosts \cup {AnyHost}, NEW p \in NamedPorts,
             CallServerAddress(family, host, p)
      PROVE  TypeOK'
  <2> DEFINE address == Address(family, host, htons(p))
  <2>1. p \in Ports
    BY InputsAssumption
  <2>2. /\ Address("inet", host, p) \in Addresses /\ Address("inet", host, htons(p)) \in Addresses
        /\ Address("inet6", host, p) \in Addresses /\ Address("inet6", host, htons(p)) \in Addresses
    BY <2>1, MadeAddress, WireAddress
  <2>3. Typed(ConfigureServer4(config, address), Address("inet", host, p))
    BY <1>1, <2>2 DEF Typed, ConfigureServer4, Result, IsConfig, Address
  <2>4. Typed(ConfigureServer6(config, address), Address("inet6", host, p))
    BY <1>1, <2>2 DEF Typed, ConfigureServer6, Result, IsConfig, Address
  <2>5. \/ Call(ConfigureServer4(config, address), Address("inet", host, p))
        \/ Call(ConfigureServer6(config, address), Address("inet6", host, p))
    BY <1>3 DEF CallServerAddress
  <2> QED BY <2>3, <2>4, <2>5, CallTypes
<1>4. ASSUME NEW string \in Strings, NEW families \in LookUps, CallServer(string, families)
      PROVE  TypeOK'
  <2>1. string \in EndPoints /\ families \in Found
    BY InputsAssumption DEF Found
  <2> QED BY <1>1, <1>4, <2>1, ServerStringTyped, CallTypes DEF CallServer
<1>5. ASSUME NEW p \in NamedPorts, NEW timeout, CallDiscovery(p, timeout) PROVE TypeOK'
  <2>1. p \in Ports
    BY InputsAssumption
  <2>2. /\ Address("inet", AnyHost, p) \in Addresses
        /\ Address("inet", AnyHost, htons(p)) \in Addresses
    BY <2>1, MadeAddress, WireAddress
  <2>3. Typed(ConfigureDiscovery(config, p, timeout, timeout), Address("inet", AnyHost, p))
    BY <1>1, <2>2 DEF Typed, ConfigureDiscovery, ConfigureServer4, Result, IsConfig, Address
  <2> QED BY <1>5, <2>3, CallTypes DEF CallDiscovery
<1>6. ASSUME NEW key \in Keys, NEW families \in LookUps, CallRegistry(key, families)
      PROVE  TypeOK'
  <2>1. families \in Found /\ (key.server # NoString => key.server \in EndPoints)
    BY InputsAssumption DEF Found
  <2> DEFINE called == ConfigureFromRegistryKey(config, key, families)
             meant  == IF key.server = NoString THEN accepted ELSE Meant(key.server, families)
  <2>2. ASSUME key.server = NoString PROVE Typed(called, meant)
    BY <1>1, <2>2 DEF Typed, ConfigureFromRegistryKey, Result, IsConfig, ReadValues
  <2>3. ASSUME key.server # NoString PROVE Typed(called, meant)
    <3> DEFINE server == ConfigureServer(config, key.server, families)
    <3>1. Typed(server, meant) /\ IsConfig(server.config)
      BY <1>1, <2>1, <2>3, ServerStringTyped, ServerStringSets DEF Sets
    <3>2. called = IF server.ok
                     THEN [ok |-> TRUE,
                           config |-> [server.config EXCEPT !.values = ReadValues(@, key)]]
                     ELSE server
      BY <2>3 DEF ConfigureFromRegistryKey, Result
    <3> HIDE DEF server, called
    <3> QED BY <3>1, <3>2 DEF Typed, IsConfig, ReadValues
  <2>4. Typed(called, meant)
    BY <2>2, <2>3
  <2> QED BY <1>6, <2>4, CallTypes DEF CallRegistry
<1> QED BY <1>2, <1>3, <1>4, <1>5, <1>6 DEF Configure

\* The address that a pad binds to.
LEMMA PadTypes ==
  ASSUME TypeOK, IInv, PortInv, PortInv', NEW p \in Pads, PadStarts(p)
  PROVE  TypeOK'
<1>1. PICK family \in SocketFamilies(Settings(p)) :
          bound' = [bound EXCEPT ![p] = BoundTo(p, Settings(p), family)]
  BY DEF PadStarts
<1>2. family \in {"inet", "inet6"}
  BY <1>1 DEF SocketFamilies, Bindable
<1>3. bound'[p] = BoundTo(p, Settings(p), family)
  BY <1>1 DEF IInv, Shapes
<1>4. bound'[p] \in Addresses
  <2>1. CASE bound'[p] = NoAddress
    BY <2>1 DEF Addresses
  <2>2. CASE bound'[p] # NoAddress
    <3>1. bound'[p].family = family
      BY <1>3, <2>2 DEF BoundTo, Address
    <3>2. bound'[p] = Address(family, p, htons(Effective(PortInFile(p)')))
      BY <2>2, <3>1 DEF PortInv
    <3>3. PortInFile(p)' = PortInFile(p)
      BY DEF PadStarts, PortInFile
    <3>4. Effective(PortInFile(p)) \in Ports /\ p \in Hosts
      BY EffectivePort, FilePort, PadsAssumption
    <3> QED BY <1>2, <3>2, <3>3, <3>4, WireAddress
  <2> QED BY <2>1, <2>2
<1>5. bound' \in [Pads -> Addresses]
  BY <1>1, <1>4 DEF TypeOK, DiscoveryTypeOK
<1> QED BY <1>5 DEF PadStarts, TypeOK, DiscoveryTypeOK, callerVars, workerVars, applicationVars,
                    startVars

\* Until it has found the adapters, discover() has none to visit.
Fresh == callerPc \in Configuring \cup {"adapters"} => todo = {}

LEMMA FreshStep == Fresh /\ [Next]_vars => Fresh'
<1> SUFFICES ASSUME Fresh, [Next]_vars PROVE Fresh'
  OBVIOUS
<1> USE DEF Fresh, Configuring
<1>1. CASE Discover
  BY <1>1 DEF Discover, Caller, CheckFamily, FindAdapters, CreateSocket, BindSocket, Spawn, StartRound,
              EndRound, LeaveLoop, Verdict, Broadcast, BroadcastFails, Return
<1>2. CASE Configure
  <2>1. UNCHANGED callerVars
    BY <1>2 DEF Configure, CallClient, CallServerAddress, CallServer, CallDiscovery, CallRegistry, Call
  <2> QED BY <2>1 DEF callerVars
<1>3. CASE Worker \/ Network \/ \E p \in Pads : PadStarts(p)
  BY <1>3 DEF Worker, WorkerReceives, WorkerFails, StoreServer, StoreSeqNo, StoreFound, Network, Answer,
              PadStarts, callerVars
<1>4. CASE Connect \/ Start \/ UNCHANGED vars
  BY <1>4 DEF Connect, Start, StartSocket, SendConnect, SpawnReceiver, Unstarted, vars, discoveryVars,
              callerVars
<1> QED BY <1>1, <1>2, <1>3, <1>4 DEF Next

\* The caller of discover().
LEMMA CallerTypes ==
  ASSUME TypeOK, Fresh, IInv, IInv', Discover
  PROVE  TypeOK'
<1> USE DEF Return
<1>1. TypeOK' <=> DiscoveryTypeOK' /\ DOMAIN config'.values = Names
  BY DEF Discover, TypeOK, applicationVars, startVars
<1>2. config'.client \in Families
  BY DEF IInv, Shapes, IsConfig
<1> USE DEF TypeOK, DiscoveryTypeOK
<1>3. CASE CheckFamily
  <2>1. DiscoveryPort(config) \in Ports
    BY AddressParts, PortRoundTrip, DefaultPortAssumption DEF DiscoveryPort
  <2>2. config'.server = config.server /\ config'.values = config.values
    BY <1>3 DEF CheckFamily, IInv, Shapes, IsConfig
  <2>3. port' \in Ports
    BY <1>3, <2>1 DEF CheckFamily
  <2> QED BY <1>1, <1>2, <1>3, <2>2, <2>3 DEF CheckFamily, Failures, workerVars, networkVars
<1>4. CASE FindAdapters
  <2>1. todo = {}
    BY <1>4 DEF FindAdapters, Fresh
  <2> QED BY <1>1, <1>4, <2>1 DEF FindAdapters, Failures, workerVars, networkVars
<1>8. CASE CreateSocket \/ BindSocket
  BY <1>1, <1>8 DEF CreateSocket, BindSocket, Failures, workerVars, networkVars
<1>5. CASE Spawn \/ EndRound \/ LeaveLoop \/ Verdict
  BY <1>1, <1>5 DEF Spawn, EndRound, LeaveLoop, Verdict, Failures, workerVars, networkVars
<1>6. CASE StartRound
  BY <1>1, <1>6, MaxRoundsAssumption DEF StartRound, workerVars, networkVars
<1>7. ASSUME NEW a \in Adapters, Broadcast(a) \/ BroadcastFails(a) PROVE TypeOK'
  BY <1>1, <1>7 DEF Broadcast, BroadcastFails, Listening, workerVars, networkVars
<1> QED BY <1>3, <1>4, <1>5, <1>6, <1>7, <1>8 DEF Discover, Caller

\* The worker, the pads' answers, and start().
LEMMA OtherTypes ==
  ASSUME TypeOK, IInv, IInv',
         \/ Worker /\ UNCHANGED <<file, started, applicationVars, startVars>>
         \/ Network /\ UNCHANGED <<file, started, applicationVars, startVars>>
         \/ Connect \/ Start
  PROVE  TypeOK'
<1>1. config'.client \in Families
  BY DEF IInv, Shapes, IsConfig
<1> USE DEF TypeOK, DiscoveryTypeOK
<1>2. CASE Worker /\ UNCHANGED <<file, started, applicationVars, startVars>>
  <2>1. TypeOK' <=> DiscoveryTypeOK' /\ DOMAIN config'.values = Names
    BY <1>2 DEF applicationVars, startVars
  <2>2. workerPc \in {"server", "seq", "found"} => buffer.from \in Addresses /\ buffer.seq \in SeqNos
    BY DEF IInv, Stores, Announcements
  <2>3. CASE WorkerReceives \/ WorkerFails \/ StoreFound
    BY <2>1, <2>3 DEF WorkerReceives, WorkerFails, StoreFound, callerVars, networkVars
  <2>4. CASE StoreServer
    BY <1>1, <2>1, <2>2, <2>4 DEF StoreServer, callerVars, networkVars, IInv, Shapes, IsConfig
  <2>5. CASE StoreSeqNo
    BY <2>1, <2>2, <2>5 DEF StoreSeqNo, callerVars, networkVars
  <2> QED BY <1>2, <2>3, <2>4, <2>5 DEF Worker
<1>3. CASE Network /\ UNCHANGED <<file, started, applicationVars, startVars>>
  <2>1. PICK p \in Pads, n \in SeqNos : Answer(p, n)
    BY <1>3 DEF Network
  <2>2. [from |-> bound[p], seq |-> n] \in Announcements
    BY DEF Announcements
  <2> QED BY <1>3, <2>1, <2>2 DEF Answer, callerVars, workerVars, applicationVars, startVars
<1>4. CASE Connect
  BY <1>4, MaxCallsAssumption DEF Connect, workerVars, networkVars, startVars
<1>5. CASE StartSocket
  <2>1. config'.server = config.server /\ config'.values = config.values
    BY <1>5 DEF StartSocket
  <2> QED BY <1>1, <1>5, <2>1
          DEF StartSocket, Unstarted, callerVars, workerVars, networkVars, applicationVars
<1>6. CASE SendConnect \/ SpawnReceiver
  BY <1>6 DEF SendConnect, SpawnReceiver, Unstarted, callerVars, workerVars, networkVars,
              applicationVars
<1> QED BY <1>2, <1>3, <1>4, <1>5, <1>6 DEF Start

\* The variables keep their types, whatever the application calls and whatever
\* the pads' files say.
THEOREM TypeCorrect == Spec => []TypeOK
<1>1. Init => TypeOK
  <2> SUFFICES ASSUME Init PROVE TypeOK
    OBVIOUS
  <2>1. NoAddress \in Addresses /\ 0 \in Ports
    BY NoPort DEF Addresses
  <2>2. DiscoveryTypeOK
    <3>1. /\ config.server = NoAddress /\ config.client = "none"
          /\ bound \in [Pads -> Addresses]
      BY <2>1 DEF Init, InitialConfiguration
    <3>2. rounds \in 0 .. MaxRounds /\ port \in Ports
      BY <2>1, MaxRoundsAssumption DEF Init, DiscoveryInit
    <3> QED BY <2>1, <3>1, <3>2 DEF Init, DiscoveryInit, DiscoveryTypeOK, Families
  <2>3. DOMAIN config.values = Names
    BY DEF Init, InitialConfiguration
  <2> QED BY <2>1, <2>2, <2>3, MaxCallsAssumption DEF Init, TypeOK, Families
<1>2. TypeOK /\ Fresh /\ IInv /\ IInv' /\ PortInv /\ PortInv' /\ [Next]_vars => TypeOK'
  <2> SUFFICES ASSUME TypeOK, Fresh, IInv, IInv', PortInv, PortInv', [Next]_vars PROVE TypeOK'
    OBVIOUS
  <2>1. CASE UNCHANGED vars
    BY <2>1 DEF TypeOK, DiscoveryTypeOK, vars, discoveryVars, callerVars, workerVars, networkVars,
                applicationVars, startVars
  <2> QED BY <2>1, PadTypes, ConfigureTypes, CallerTypes, OtherTypes DEF Next
<1>3. Init => Fresh
  BY DEF Init, DiscoveryInit, Fresh
<1> QED BY <1>1, <1>2, <1>3, FreshStep, Invariant, PortInvariant, PTL DEF Spec

-----------------------------------------------------------------------------
(* Lifecycle.                                                              *)

Last == IF result = "ok" THEN seqNo ELSE 0
Announced == {a.seq : a \in answers}

\* Only the worker stores a sequence number.
Unstored == workerPc = "none" => seqNo = 0

LEMMA UnstoredStep == IInv /\ Unstored /\ [Next]_vars => Unstored'
<1> SUFFICES ASSUME IInv, Unstored, [Next]_vars PROVE Unstored'
  OBVIOUS
<1> USE DEF Unstored
<1>1. CASE Worker
  BY <1>1 DEF Worker, WorkerReceives, WorkerFails, StoreServer, StoreSeqNo, StoreFound
<1>2. CASE Discover
  BY <1>2 DEF Discover, Caller, CheckFamily, FindAdapters, CreateSocket, BindSocket, Spawn, StartRound,
              EndRound, LeaveLoop, Verdict, Broadcast, BroadcastFails, workerVars
<1>3. CASE Configure
  <2>1. UNCHANGED workerVars
    BY <1>3 DEF Configure, CallClient, CallServerAddress, CallServer, CallDiscovery, CallRegistry, Call
  <2> QED BY <2>1 DEF workerVars
<1>4. CASE Connect \/ Start \/ Network \/ (\E p \in Pads : PadStarts(p)) \/ UNCHANGED vars
  BY <1>4 DEF Connect, Start, StartSocket, SendConnect, SpawnReceiver, Unstarted, Network, Answer,
              PadStarts, vars, discoveryVars, workerVars
<1> QED BY <1>1, <1>2, <1>3, <1>4 DEF Next

\* A step that leaves what Lifecycle sees.
LEMMA LifecycleStays ==
  ASSUME Phase' = Phase, Last' = Last, (startPc' = "running") = (startPc = "running"),
         answers' = answers
  PROVE  UNCHANGED Life!lifecycleVars
BY DEF Life!lifecycleVars, Last, TheClient

\* And the step that changes the phase.
LEMMA LifecycleGoes ==
  ASSUME NEW from, NEW to, Phase \in from, Phase' \in to
  PROVE  Life!Goes("client", from, to)
BY DEF Life!Goes, TheClient

\* discover() succeeds with a number that a pad has announced, or that it began
\* with.
LEMMA LifecycleDiscoverStep ==
  ASSUME IInv, Unstored, Discover
  PROVE  [Life!LifecycleNext]_(Life!lifecycleVars)
<1> USE DEF IInv
<1>1. callerPc \notin {"configure", "returned"} /\ result = "none" /\ startPc = "idle"
  BY DEF Discover, Caller, CheckFamily, FindAdapters, CreateSocket, BindSocket, Spawn, StartRound,
         EndRound, LeaveLoop, Verdict, Broadcast, BroadcastFails, Threads, Starts
<1>2. UNCHANGED <<startPc, seqNo, answers>> /\ callerPc' # "configure"
  BY <1>1 DEF Discover, Caller, CheckFamily, FindAdapters, CreateSocket, BindSocket, Spawn, StartRound,
         EndRound, LeaveLoop, Verdict, Broadcast, BroadcastFails, Return, startVars, workerVars,
         networkVars
<1>3. result' \in {"none", "ok"} \cup Failures
  BY <1>1 DEF Discover, Caller, CheckFamily, FindAdapters, CreateSocket, BindSocket, Spawn, StartRound,
         EndRound, LeaveLoop, Verdict, Broadcast, BroadcastFails, Return, Failures
<1>4. Phase = "discovering" /\ Last = 0
  BY <1>1 DEF Phase, Last, Failures
<1>5. CASE result' = "none"
  <2>1. Phase' = Phase /\ Last' = Last
    BY <1>1, <1>2, <1>4, <1>5 DEF Phase, Last, Failures
  <2> QED BY <1>2, <2>1, LifecycleStays
<1>6. CASE result' = "ok"
  <2>1. seqNo \in Announced \cup {0}
    <3>1. CASE CheckFamily
      BY <3>1 DEF CheckFamily, Threads, Configuring, Unstored
    <3>2. CASE Verdict
      BY <1>6, <3>2 DEF Verdict, Return, Stores, Announced
    <3> QED
      BY <1>1, <1>6, <3>1, <3>2
      DEF Discover, Caller, FindAdapters, CreateSocket, BindSocket, Spawn, StartRound, EndRound,
          LeaveLoop, Broadcast, BroadcastFails, Return
  <2>2. Phase' = "starting" /\ Last' = seqNo
    BY <1>1, <1>2, <1>6 DEF Phase, Last, Failures
  <2>3. Life!Goes("client", {"discovering"}, {"starting"})
    BY <1>4, <2>2, LifecycleGoes
  <2>4. Life!Find("client")
    BY <1>2, <1>4, <2>1, <2>2, <2>3 DEF Life!Find, Last, Announced, TheClient
  <2> QED BY <2>4 DEF Life!LifecycleNext, TheClient
<1>7. CASE result' \in Failures
  <2>1. Phase' = "failed" /\ Last' = Last
    BY <1>1, <1>2, <1>4, <1>7 DEF Phase, Last, Failures
  <2>2. Life!Goes("client", {"discovering", "starting"}, {"failed"})
    BY <1>4, <2>1, LifecycleGoes
  <2>3. Life!Fail("client")
    BY <1>2, <2>1, <2>2 DEF Life!Fail, Last, TheClient
  <2> QED BY <2>3 DEF Life!LifecycleNext, TheClient
<1> QED BY <1>3, <1>5, <1>6, <1>7

\* start() leaves a thread that receives, or fails.
LEMMA LifecycleStartStep ==
  ASSUME IInv, Start
  PROVE  [Life!LifecycleNext]_(Life!lifecycleVars)
<1> USE DEF IInv
<1>1. UNCHANGED <<callerPc, result, seqNo, answers>>
  BY DEF Start, StartSocket, SendConnect, SpawnReceiver, Unstarted, callerVars, workerVars, networkVars
<1>2. result = "ok" /\ callerPc # "configure" /\ startPc \in {"idle", "connect", "announced"}
  BY DEF Start, StartSocket, SendConnect, SpawnReceiver, Starts, Threads
<1>3. startPc' \in {"connect", "announced", "running", "failed"}
  BY DEF Start, StartSocket, SendConnect, SpawnReceiver
<1>4. Phase = "starting" /\ Last' = Last
  BY <1>1, <1>2 DEF Phase, Last, Failures
<1>5. CASE startPc' \in {"connect", "announced"}
  <2>1. Phase' = Phase
    BY <1>1, <1>2, <1>4, <1>5 DEF Phase, Failures
  <2> QED BY <1>1, <1>2, <1>4, <1>5, <2>1, LifecycleStays
<1>6. CASE startPc' = "running"
  <2>1. Phase' = "connected"
    BY <1>1, <1>2, <1>6 DEF Phase, Failures
  <2>2. Life!Goes("client", {"starting"}, {"connected"})
    BY <1>4, <2>1, LifecycleGoes
  <2>3. Life!Start("client")
    BY <1>1, <1>4, <1>6, <2>2 DEF Life!Start, Last, TheClient
  <2> QED BY <2>3 DEF Life!LifecycleNext, TheClient
<1>7. CASE startPc' = "failed"
  <2>1. Phase' = "failed"
    BY <1>1, <1>2, <1>7 DEF Phase
  <2>2. Life!Goes("client", {"discovering", "starting"}, {"failed"})
    BY <1>4, <2>1, LifecycleGoes
  <2>3. Life!Fail("client")
    BY <1>1, <1>2, <1>4, <1>7, <2>2 DEF Life!Fail, Last, TheClient
  <2> QED BY <2>3 DEF Life!LifecycleNext, TheClient
<1> QED BY <1>3, <1>5, <1>6, <1>7

\* The worker of discover() writes the client only before the call returns, and
\* nobody else writes it.
LEMMA LifecycleOtherStep ==
  ASSUME TypeOK, IInv, \/ Worker /\ UNCHANGED <<file, started, applicationVars, startVars>>
                       \/ Network /\ UNCHANGED <<file, started, applicationVars, startVars>>
                       \/ Configure \/ Connect \/ (\E p \in Pads : PadStarts(p)) \/ UNCHANGED vars
  PROVE  [Life!LifecycleNext]_(Life!lifecycleVars)
<1> USE DEF IInv
<1>1. CASE Worker /\ UNCHANGED <<file, started, applicationVars, startVars>>
  <2>1. UNCHANGED <<callerPc, result, startPc, answers>>
    BY <1>1 DEF Worker, WorkerReceives, WorkerFails, StoreServer, StoreSeqNo, StoreFound, callerVars,
                networkVars, startVars
  <2>2. seqNo' = seqNo \/ workerPc = "seq"
    BY <1>1 DEF Worker, WorkerReceives, WorkerFails, StoreServer, StoreSeqNo, StoreFound
  <2>3. Phase' = Phase /\ Last' = Last
    BY <2>1, <2>2 DEF Phase, Last, Success, Threads
  <2> QED BY <2>1, <2>3, LifecycleStays
<1>2. CASE Network /\ UNCHANGED <<file, started, applicationVars, startVars>>
  <2>1. PICK p \in Pads, n \in SeqNos : answers' = answers \cup {[from |-> bound[p], seq |-> n]}
    BY <1>2 DEF Network, Answer
  <2>2. Announced \subseteq Announced' /\ Announced' \subseteq Nat
    <3>1. \A a \in answers : a.seq \in Nat
      BY SeqNosAssumption DEF TypeOK, DiscoveryTypeOK, Announcements
    <3> QED BY <2>1, <3>1, SeqNosAssumption DEF Announced
  <2>3. UNCHANGED <<callerPc, result, startPc, seqNo>>
    BY <1>2 DEF Network, Answer, callerVars, workerVars, startVars
  <2>4. Phase' = Phase /\ Last' = Last
    BY <2>3 DEF Phase, Last
  <2>5. Life!PadAnnounces
    BY <2>2, <2>3, <2>4 DEF Life!PadAnnounces, Announced, Last
  <2> QED BY <2>5 DEF Life!LifecycleNext
<1>3. CASE Connect
  <2>1. UNCHANGED <<result, startPc, seqNo, answers>> /\ callerPc = "configure" /\ callerPc' = "family"
    BY <1>3 DEF Connect, workerVars, networkVars, startVars
  <2>2. result = "none" /\ startPc = "idle"
    BY <2>1 DEF Threads, Starts
  <2>3. Phase = "idle" /\ Phase' = "discovering" /\ Last = 0 /\ Last' = 0
    BY <2>1, <2>2 DEF Phase, Last, Failures
  <2>4. Life!Goes("client", {"idle"}, {"discovering", "starting", "failed"})
    BY <2>3, LifecycleGoes
  <2>5. Life!Connect("client")
    BY <2>1, <2>3, <2>4 DEF Life!Connect, Last, TheClient
  <2> QED BY <2>5 DEF Life!LifecycleNext, TheClient
<1>4. CASE Configure \/ (\E p \in Pads : PadStarts(p)) \/ UNCHANGED vars
  <2>1. UNCHANGED <<callerVars, workerVars, answers, startVars>>
    BY <1>4 DEF Configure, CallClient, CallServerAddress, CallServer, CallDiscovery, CallRegistry, Call,
                PadStarts, vars, discoveryVars, networkVars
  <2>2. Phase' = Phase /\ Last' = Last
    BY <2>1 DEF Phase, Last, callerVars, workerVars, startVars
  <2> QED BY <2>1, <2>2, LifecycleStays DEF startVars
<1> QED BY <1>1, <1>2, <1>3, <1>4

\* However the client is configured, whatever pads there are and whenever the
\* worker of discover() writes: mmp_connect() starts from the number 0 or from
\* one that a pad has announced, and leaves a receiver exactly if it succeeds
\* (mmp_client::discover, start).
THEOREM ImplementsLifecycle == Spec => LifecycleSpec
<1>1. Init => Life!LifecycleInit /\ Unstored
  <2> SUFFICES ASSUME Init PROVE Life!LifecycleInit /\ Unstored
    OBVIOUS
  <2>1. Phase = "idle" /\ Last = 0 /\ (startPc = "running") = FALSE
    BY DEF Init, DiscoveryInit, Phase, Last, Failures
  <2>2. Announced = {}
    BY DEF Init, DiscoveryInit, Announced
  <2> QED
    BY <2>1, <2>2, Zenon DEF Init, DiscoveryInit, Life!LifecycleInit, Last, Announced, Unstored
<1>2. TypeOK /\ IInv /\ Unstored /\ [Next]_vars => [Life!LifecycleNext]_(Life!lifecycleVars)
  BY LifecycleDiscoverStep, LifecycleStartStep, LifecycleOtherStep DEF Next
<1> QED
  BY <1>1, <1>2, UnstoredStep, Invariant, TypeCorrect, PTL
  DEF Spec, LifecycleSpec, Life!LifecycleSpec
=============================================================================
