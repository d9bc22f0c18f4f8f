----------------------------- MODULE Discovery -----------------------------
(***************************************************************************)
(* mmp_client::discover(): how a client finds the address of the mouse pad *)
(* when its configuration holds the any address.                           *)
(*                                                                         *)
(* The calling thread broadcasts requests until it has found a pad or the  *)
(* deadline has passed.  A detached worker waits for the announcement.     *)
(* The worker uses local variables of the call by reference: the socket    *)
(* and the flag "found".                                                   *)
(*                                                                         *)
(* External: a socket without a local address cannot receive, and the      *)
(* first successful sendto() gives it one.  A request reaches the pads that *)
(* are bound to its port, or it is lost.                                   *)
(***************************************************************************)
EXTENDS Configuration

\* An operator whose name has an underscore is a mutant of the operator that
\* follows.

CONSTANTS
    Pads,        \* mouse pads, machines in the network
    Adapters,    \* adapters that may have a broadcast address
    SeqNos,      \* sequence numbers the pads may announce, as the client reads them
    MaxRounds    \* bound: rounds of broadcasts before the deadline

ASSUME PadsAssumption == Pads \subseteq Hosts
ASSUME SeqNosAssumption == SeqNos \subseteq Nat
ASSUME MaxRoundsAssumption == MaxRounds \in Nat

Failures == {"no_family", "no_adapters", "no_socket", "invalid_function",
             "no_address", "timeout"}

VARIABLES
    config,       \* _config
    seqNo,        \* _sequence_number
    callerPc,     \* where discover() is
    result,       \* its return value; "none" before it returns
    port,         \* port
    socket,       \* "none", "unbound", "bound" or "closed"
    addresses,    \* addresses: the broadcast addresses that work
    todo,         \* those that this round has still to visit
    found,        \* found
    workerPc,     \* where the worker is
    buffer,       \* the announcement the worker got
    bound,        \* the address each pad is bound to, if any (external)
    asked,        \* the pads that may have got a request (external)
    answers,      \* announcements sent to the socket (external)
    rounds        \* number of rounds (history)

callerVars == <<callerPc, result, port, todo, addresses, rounds>>
workerVars == <<workerPc, buffer, found, seqNo>>
networkVars == <<bound, asked, answers>>
discoveryVars == <<config, socket, callerVars, workerVars, networkVars>>

\* An announcement comes from the address of a pad.
Announcements == [from : Addresses, seq : SeqNos]
NoAnnouncement == [from |-> NoAddress, seq |-> 0]

\* Whether _config.timeout is set.
Timed == config.values["Timeout"] > 0

DiscoveryInit ==
    /\ seqNo = 0
    /\ result = "none"
    /\ port = 0
    /\ socket = "none"
    /\ addresses = {}
    /\ todo = {}
    /\ found = FALSE
    /\ workerPc = "none"
    /\ buffer = NoAnnouncement
    /\ asked = {}
    /\ answers = {}
    /\ rounds = 0

-----------------------------------------------------------------------------
(* The calling thread.                                                     *)

\* The local socket is closed when the call returns.
Return(value) ==
    /\ callerPc' = "returned"
    /\ result' = value
    /\ socket' = IF socket = "none" THEN "none" ELSE "closed"

\* The switch over the family of the server's address.
CheckFamily ==
    /\ callerPc = "family"
    /\ \/ /\ config.server.family = "none"
          /\ Return("no_family")
          /\ UNCHANGED <<config, port>>
       \/ /\ NeedsDiscovery(config)
          /\ port' = DiscoveryPort(config)
          /\ callerPc' = "adapters"
          /\ UNCHANGED <<config, result, socket>>
       \/ /\ config.server.family # "none"
          /\ ~NeedsDiscovery(config)
          /\ config' = [config EXCEPT !.client = CoercedClient(config)]
          /\ Return(IF config'.client = config.server.family THEN "ok" ELSE "no_family")
          /\ UNCHANGED port
    /\ UNCHANGED <<todo, addresses, rounds, workerVars, networkVars>>

\* bcast_addresses() finds the adapters that are up, if any, or it throws.
FindAdapters ==
    /\ callerPc = "adapters"
    /\ \/ /\ addresses' \in SUBSET Adapters
          /\ callerPc' = "socket"
          /\ UNCHANGED <<result, socket>>
       \/ /\ Return("no_adapters")
          /\ UNCHANGED addresses
    /\ UNCHANGED <<config, port, todo, rounds, workerVars, networkVars>>

CreateSocket ==
    /\ callerPc = "socket"
    /\ \/ /\ socket' = "unbound"
          /\ callerPc' = "bind"
          /\ UNCHANGED result
       \/ Return("no_socket")
    /\ UNCHANGED <<config, port, todo, addresses, rounds, workerVars, networkVars>>

\* What mmp_client::bind() may return for the discovery socket, which is an
\* IPv4 socket: it gives up on any family but IPv4 and IPv6.
BindResults == IF config.client = "inet" THEN {"ok", "error"} ELSE {"error"}

\* discover() leaves if "!bind(...)" is an error code, that is if bind() has
\* returned zero; the error code is 1.
LeavesAfter(status) == status = "ok"

BindSocket ==
    /\ callerPc = "bind"
    /\ \E status \in BindResults :
           IF LeavesAfter(status)
             THEN Return("invalid_function")
             ELSE /\ callerPc' = "spawn"
                  /\ socket' = IF status = "ok" THEN "bound" ELSE "unbound"
                  /\ UNCHANGED result
    /\ UNCHANGED <<config, port, todo, addresses, rounds, workerVars, networkVars>>

Spawn ==
    /\ callerPc = "spawn"
    /\ workerPc' = "receive"
    /\ callerPc' = "loop"
    /\ UNCHANGED <<config, port, socket, result, todo, addresses, rounds,
                   buffer, found, seqNo, networkVars>>

\* Another round, unless a pad is found.
StartRound ==
    /\ callerPc = "loop"
    /\ ~found
    /\ rounds < MaxRounds
    /\ rounds' = rounds + 1
    /\ todo' = addresses
    /\ callerPc' = "broadcast"
    /\ UNCHANGED <<config, port, socket, result, addresses, workerVars, networkVars>>

\* The pads that listen on the port of the request.
Listening == {p \in Pads : bound[p].family = "inet" /\ bound[p].port = port}

Broadcast(a) ==
    /\ callerPc = "broadcast"
    /\ a \in todo
    /\ todo' = todo \ {a}
    /\ socket' = "bound"
    /\ asked' = asked \cup Listening
    /\ UNCHANGED <<config, port, callerPc, result, addresses, rounds, workerVars, bound, answers>>

BroadcastFails_Stays(a) ==
    /\ callerPc = "broadcast"
    /\ a \in todo
    /\ addresses' = addresses \ {a}
    /\ UNCHANGED <<config, port, callerPc, result, socket, todo, rounds, workerVars, networkVars>>

\* sendto() fails: the address is given up.
BroadcastFails(a) ==
    /\ callerPc = "broadcast"
    /\ a \in todo
    /\ todo' = todo \ {a}
    /\ addresses' = addresses \ {a}
    /\ UNCHANGED <<config, port, callerPc, result, socket, rounds, workerVars, networkVars>>

\* The end of a round, and the pause of rate_limit.
EndRound ==
    /\ callerPc = "broadcast"
    /\ todo = {}
    /\ IF addresses = {}
         THEN Return("no_address")
         ELSE callerPc' = "loop" /\ UNCHANGED <<result, socket>>
    /\ UNCHANGED <<config, port, todo, addresses, rounds, workerVars, networkVars>>

\* The deadline has passed, or a pad is found.  A timeout of zero is no deadline.
MayLeave_NoDeadline == found

MayLeave == Timed \/ found

LeaveLoop ==
    /\ callerPc = "loop"
    /\ MayLeave
    /\ callerPc' = "verdict"
    /\ UNCHANGED <<config, port, socket, result, todo, addresses, rounds,
                   workerVars, networkVars>>

Verdict ==
    /\ callerPc = "verdict"
    /\ Return(IF found THEN "ok" ELSE "timeout")
    /\ UNCHANGED <<config, port, todo, addresses, rounds, workerVars, networkVars>>

-----------------------------------------------------------------------------
(* The worker.                                                             *)

WorkerReceives ==
    /\ workerPc = "receive"
    /\ socket = "bound"
    /\ buffer' \in answers
    /\ workerPc' = "server"
    /\ UNCHANGED <<config, socket, found, seqNo, callerVars, networkVars>>

\* recvfrom() fails on a socket that has no local address or is closed.
WorkerFails ==
    /\ workerPc = "receive"
    /\ socket # "bound"
    /\ workerPc' = "gone"
    /\ UNCHANGED <<config, socket, buffer, found, seqNo, callerVars, networkVars>>

StoreServer_Found ==
    /\ workerPc = "server"
    /\ config' = [config EXCEPT !.server = buffer.from]
    /\ found' = TRUE
    /\ workerPc' = "seq"
    /\ UNCHANGED <<socket, buffer, seqNo, callerVars, networkVars>>

StoreServer ==
    /\ workerPc = "server"
    /\ config' = [config EXCEPT !.server = buffer.from]
    /\ workerPc' = "seq"
    /\ UNCHANGED <<socket, buffer, found, seqNo, callerVars, networkVars>>

StoreSeqNo_Found ==
    /\ workerPc = "seq"
    /\ seqNo' = buffer.seq
    /\ found' = TRUE
    /\ workerPc' = "found"
    /\ UNCHANGED <<config, socket, buffer, callerVars, networkVars>>

StoreSeqNo ==
    /\ workerPc = "seq"
    /\ seqNo' = buffer.seq
    /\ workerPc' = "found"
    /\ UNCHANGED <<config, socket, buffer, found, callerVars, networkVars>>

StoreFound ==
    /\ workerPc = "found"
    /\ found' = TRUE
    /\ workerPc' = "gone"
    /\ UNCHANGED <<config, socket, buffer, seqNo, callerVars, networkVars>>

-----------------------------------------------------------------------------
\* A pad answers a request it got.  The answer may come late, or never.
Answer(p, n) ==
    /\ p \in asked
    /\ answers' = answers \cup {[from |-> bound[p], seq |-> n]}
    /\ UNCHANGED <<config, socket, callerVars, workerVars, bound, asked>>

Caller ==
    \/ CheckFamily \/ FindAdapters \/ CreateSocket \/ BindSocket \/ Spawn
    \/ StartRound \/ EndRound \/ LeaveLoop \/ Verdict
    \/ \E a \in Adapters : Broadcast(a) \/ BroadcastFails(a)

Worker == WorkerReceives \/ WorkerFails \/ StoreServer \/ StoreSeqNo \/ StoreFound

Network == \E p \in Pads, n \in SeqNos : Answer(p, n)

-----------------------------------------------------------------------------
DiscoveryTypeOK ==
    /\ config.server \in Addresses
    /\ config.client \in Families
    /\ port \in Ports
    /\ bound \in [Pads -> Addresses]
    /\ seqNo \in SeqNos \cup {0}
    /\ callerPc \in {"configure", "family", "adapters", "socket", "bind", "spawn",
                     "loop", "broadcast", "verdict", "returned"}
    /\ result \in Failures \cup {"none", "ok"}
    /\ socket \in {"none", "unbound", "bound", "closed"}
    /\ addresses \subseteq Adapters
    /\ todo \subseteq addresses
    /\ found \in BOOLEAN
    /\ workerPc \in {"none", "receive", "server", "seq", "found", "gone"}
    /\ buffer \in Announcements \cup {NoAnnouncement}
    /\ asked \subseteq Pads
    /\ answers \subseteq Announcements
    /\ rounds \in 0 .. MaxRounds

\* When discover() succeeds, the worker has made its last access to the local
\* variables of the call (nobody joins the detached worker).
SuccessLeavesNoWorker == result = "ok" => workerPc \in {"none", "gone"}
=============================================================================
