----------------------------- MODULE MmpClient -----------------------------
(***************************************************************************)
(* The client library: mmpcli.cpp, mmp_client.cpp and mmp_client.inl.      *)
(*                                                                         *)
(* Every endpoint is a machine with one application that connects and      *)
(* disconnects, again and again, from the same address.  A session is the  *)
(* life of one mmp_client object.  Two threads share it: the one of the    *)
(* application, which runs mmp_connect() and mmp_disconnect(), and the     *)
(* receiver, which runs receive() and calls the application back.          *)
(*                                                                         *)
(* "requests" holds every datagram the clients passed to sendto(), and is  *)
(* as unreliable as the server's "sent".  Discovery is abstracted to its   *)
(* outcomes.                                                               *)
(***************************************************************************)
EXTENDS Wire, Sequences

\* An operator whose name has an underscore is a mutant of the operator that
\* follows.

CONSTANTS
    Discovering,   \* those configured with an ANY server address
    Callbacks,     \* message ids the application registered a callback for
    MaxSessions    \* bound: sessions of an endpoint

ASSUME MaxSessionsAssumption == MaxSessions \in Nat
ASSUME CallbacksAssumption == Callbacks \subseteq {"mouse_move", "mouse_button"}
ASSUME DiscoveringAssumption == Discovering \subseteq Endpoints

VARIABLES
    apiPc,      \* where the application's thread is
    rxPc,       \* where the receiver is; "none" before it is created
    cRunning,   \* _running
    cSocket,    \* _socket: "none", "bound" or "closed"
    cSeq,       \* _sequence_number
    datagram,   \* what the receiver's buffer holds
    requests,   \* every datagram passed to sendto()
    delivered,  \* numbers of the events the callbacks of this session got
    sessions    \* number of sessions so far (history)

clientVars == <<apiPc, rxPc, cRunning, cSocket, cSeq, datagram, requests,
                delivered, sessions>>

RequestMsg(id, from) == [id |-> id, from |-> from]
Requests == [id : {"discover", "connect"}, from : Endpoints]

\* The receiver's buffer is a zero-initialised vector.
EmptyDatagram(c) == [id |-> "none", to |-> c, event |-> 0, seq |-> 0]

ClientInit ==
    /\ apiPc = [c \in Endpoints |-> "idle"]
    /\ rxPc = [c \in Endpoints |-> "none"]
    /\ cRunning = [c \in Endpoints |-> FALSE]
    /\ cSocket = [c \in Endpoints |-> "none"]
    /\ cSeq = [c \in Endpoints |-> 0]
    /\ datagram = [c \in Endpoints |-> EmptyDatagram(c)]
    /\ requests = {}
    /\ delivered = [c \in Endpoints |-> <<>>]
    /\ sessions = [c \in Endpoints |-> 0]

-----------------------------------------------------------------------------
(* The application's thread.                                               *)

\* mmp_connect() up to discover(): a new mmp_client.  WSAStartup() may fail.
Connect(c) ==
    /\ apiPc[c] = "idle"
    /\ sessions[c] < MaxSessions
    /\ sessions' = [sessions EXCEPT ![c] = @ + 1]
    /\ \E pc \in {IF c \in Discovering THEN "discover" ELSE "start", "failed"} :
           apiPc' = [apiPc EXCEPT ![c] = pc]
    /\ rxPc' = [rxPc EXCEPT ![c] = "none"]
    /\ cRunning' = [cRunning EXCEPT ![c] = FALSE]
    /\ cSocket' = [cSocket EXCEPT ![c] = "none"]
    /\ cSeq' = [cSeq EXCEPT ![c] = 0]
    /\ datagram' = [datagram EXCEPT ![c] = EmptyDatagram(c)]
    /\ delivered' = [delivered EXCEPT ![c] = <<>>]
    /\ UNCHANGED requests

\* discover() broadcasts a discovery request ...
DiscoverBroadcast(c) ==
    /\ apiPc[c] = "discover"
    /\ requests' = requests \cup {RequestMsg("discover", c)}
    /\ UNCHANGED <<apiPc, rxPc, cRunning, cSocket, cSeq, datagram, delivered, sessions>>

\* ... until an announcement m arrives ...
DiscoverAnswer(c, m) ==
    /\ apiPc[c] = "discover"
    /\ m.id = "announce"
    /\ cSeq' = [cSeq EXCEPT ![c] = ntohl(m.seq)]
    /\ apiPc' = [apiPc EXCEPT ![c] = "start"]
    /\ UNCHANGED <<rxPc, cRunning, cSocket, datagram, requests, delivered, sessions>>

\* ... or the deadline has passed, or no address is left.
DiscoverFails(c) ==
    /\ apiPc[c] = "discover"
    /\ apiPc' = [apiPc EXCEPT ![c] = "failed"]
    /\ UNCHANGED <<rxPc, cRunning, cSocket, cSeq, datagram, requests, delivered, sessions>>

\* start(): everything up to bind().  A failure leaves _running set.
StartSocket(c) ==
    /\ apiPc[c] = "start"
    /\ cRunning[c] = FALSE
    /\ cRunning' = [cRunning EXCEPT ![c] = TRUE]
    /\ \/ /\ cSocket' = [cSocket EXCEPT ![c] = "bound"]
          /\ apiPc' = [apiPc EXCEPT ![c] = "announce"]
       \/ /\ apiPc' = [apiPc EXCEPT ![c] = "failed"]
          /\ UNCHANGED cSocket
    /\ UNCHANGED <<rxPc, cSeq, datagram, requests, delivered, sessions>>

\* connect(): the one connect request of the session.  Nothing acknowledges it.
Announce(c) ==
    /\ apiPc[c] = "announce"
    /\ \/ /\ requests' = requests \cup {RequestMsg("connect", c)}
          /\ apiPc' = [apiPc EXCEPT ![c] = "spawn"]
       \/ /\ apiPc' = [apiPc EXCEPT ![c] = "failed"]
          /\ UNCHANGED requests
    /\ UNCHANGED <<rxPc, cRunning, cSocket, cSeq, datagram, delivered, sessions>>

Spawn(c) ==
    /\ apiPc[c] = "spawn"
    /\ \/ /\ rxPc' = [rxPc EXCEPT ![c] = "startup"]
          /\ apiPc' = [apiPc EXCEPT ![c] = "connected"]
       \/ /\ apiPc' = [apiPc EXCEPT ![c] = "failed"]
          /\ UNCHANGED rxPc
    /\ UNCHANGED <<cRunning, cSocket, cSeq, datagram, requests, delivered, sessions>>

\* mmp_disconnect() and ~mmp_client().  The handle of a failed mmp_connect()
\* is set, too, and the application may delete it.
Disconnect(c) ==
    /\ apiPc[c] \in {"connected", "failed"}
    /\ cRunning' = [cRunning EXCEPT ![c] = FALSE]
    /\ apiPc' = [apiPc EXCEPT ![c] = "close"]
    /\ UNCHANGED <<rxPc, cSocket, cSeq, datagram, requests, delivered, sessions>>

Close_Forgotten(c) ==
    /\ apiPc[c] = "close"
    /\ apiPc' = [apiPc EXCEPT ![c] = "join"]
    /\ UNCHANGED <<rxPc, cRunning, cSocket, cSeq, datagram, requests, delivered, sessions>>

Close(c) ==
    /\ apiPc[c] = "close"
    /\ cSocket' = [cSocket EXCEPT ![c] = "closed"]
    /\ apiPc' = [apiPc EXCEPT ![c] = "join"]
    /\ UNCHANGED <<rxPc, cRunning, cSeq, datagram, requests, delivered, sessions>>

ReceiverGone_Detached(c) == TRUE

ReceiverGone(c) == rxPc[c] \in {"none", "done"}

Join(c) ==
    /\ apiPc[c] = "join"
    /\ ReceiverGone(c)
    /\ apiPc' = [apiPc EXCEPT ![c] = "idle"]
    /\ UNCHANGED <<rxPc, cRunning, cSocket, cSeq, datagram, requests, delivered, sessions>>

-----------------------------------------------------------------------------
(* The receiver.                                                           *)

\* WSAStartup() of the receiver's thread.
RxStartup(c) ==
    /\ rxPc[c] = "startup"
    /\ rxPc' = [rxPc EXCEPT ![c] = "loop"]
    /\ UNCHANGED <<apiPc, cRunning, cSocket, cSeq, datagram, requests, delivered, sessions>>

RxStartupFails(c) ==
    /\ rxPc[c] = "startup"
    /\ rxPc' = [rxPc EXCEPT ![c] = "done"]
    /\ UNCHANGED <<apiPc, cRunning, cSocket, cSeq, datagram, requests, delivered, sessions>>

RxLoop(c) ==
    /\ rxPc[c] = "loop"
    /\ rxPc' = [rxPc EXCEPT ![c] = IF cRunning[c] THEN "receive" ELSE "done"]
    /\ UNCHANGED <<apiPc, cRunning, cSocket, cSeq, datagram, requests, delivered, sessions>>

\* receive_from() returns datagram m.
RxReceive(c, m) ==
    /\ rxPc[c] = "receive"
    /\ cSocket[c] = "bound"
    /\ datagram' = [datagram EXCEPT ![c] = m]
    /\ rxPc' = [rxPc EXCEPT ![c] = "track"]
    /\ UNCHANGED <<apiPc, cRunning, cSocket, cSeq, requests, delivered, sessions>>

\* receive_from() returns a datagram that is too short or that holds another id.
RxIgnore(c) ==
    /\ rxPc[c] = "receive"
    /\ cSocket[c] = "bound"
    /\ rxPc' = [rxPc EXCEPT ![c] = "loop"]
    /\ UNCHANGED <<apiPc, cRunning, cSocket, cSeq, datagram, requests, delivered, sessions>>

\* receive_from() fails: the receiver leaves, for good.
RxReceiveFails(c) ==
    /\ rxPc[c] = "receive"
    /\ rxPc' = [rxPc EXCEPT ![c] = "done"]
    /\ UNCHANGED <<apiPc, cRunning, cSocket, cSeq, datagram, requests, delivered, sessions>>

\* A plausible way to go on after the wrap: a number far below is a new one.
Tracks_Wrapped(c) ==
    \/ ntohl(datagram[c].seq) > cSeq[c]
    \/ cSeq[c] - ntohl(datagram[c].seq) > SeqMod \div 2

Tracks_Again(c) == ntohl(datagram[c].seq) >= cSeq[c]

\* track_sequence_number(): only the receiver writes _sequence_number by now,
\* so the compare-and-swap cannot fail.
Tracks(c) == ntohl(datagram[c].seq) > cSeq[c]

\* on_mouse_move() and on_mouse_button() up to the callback.
RxAccept(c) ==
    /\ rxPc[c] = "track"
    /\ Tracks(c)
    /\ cSeq' = [cSeq EXCEPT ![c] = ntohl(datagram[c].seq)]
    /\ rxPc' = [rxPc EXCEPT ![c] = IF datagram[c].id \in Callbacks THEN "callback" ELSE "loop"]
    /\ UNCHANGED <<apiPc, cRunning, cSocket, datagram, requests, delivered, sessions>>

RxReject(c) ==
    /\ rxPc[c] = "track"
    /\ ~Tracks(c)
    /\ rxPc' = [rxPc EXCEPT ![c] = "loop"]
    /\ UNCHANGED <<apiPc, cRunning, cSocket, cSeq, datagram, requests, delivered, sessions>>

RxCallback(c) ==
    /\ rxPc[c] = "callback"
    /\ delivered' = [delivered EXCEPT ![c] = Append(@, datagram[c].event)]
    /\ rxPc' = [rxPc EXCEPT ![c] = "loop"]
    /\ UNCHANGED <<apiPc, cRunning, cSocket, cSeq, datagram, requests, sessions>>

-----------------------------------------------------------------------------
ApiConnect(c)  == StartSocket(c) \/ Announce(c) \/ Spawn(c)
ApiTeardown(c) == Close(c) \/ Join(c)
RxInternal(c)  == RxStartup(c) \/ RxStartupFails(c) \/ RxLoop(c)
                  \/ RxAccept(c) \/ RxReject(c) \/ RxCallback(c)
ClientStep(c)  ==
    \/ Connect(c) \/ DiscoverBroadcast(c) \/ DiscoverFails(c) \/ ApiConnect(c)
    \/ Disconnect(c) \/ ApiTeardown(c) \/ RxInternal(c)

ClientTypeOK ==
    /\ apiPc \in [Endpoints -> {"idle", "discover", "start", "announce", "spawn",
                              "connected", "failed", "close", "join"}]
    /\ rxPc \in [Endpoints -> {"none", "startup", "loop", "receive", "track",
                             "callback", "done"}]
    /\ cRunning \in [Endpoints -> BOOLEAN]
    /\ cSocket \in [Endpoints -> {"none", "bound", "closed"}]
    /\ cSeq \in [Endpoints -> SeqNo]
    /\ datagram \in [Endpoints -> [id : {"none", "mouse_move", "mouse_button"},
                                  to : Endpoints, event : Nat, seq : SeqNo]]
    /\ requests \subseteq Requests
    /\ delivered \in [Endpoints -> Seq(Nat)]
    /\ sessions \in [Endpoints -> 0 .. MaxSessions]
=============================================================================
