---------------------------- MODULE MagicMouse ----------------------------
(***************************************************************************)
(* The magic mouse pad and the applications that listen to it: PadServer   *)
(* and MmpClient, joined by the network.                                   *)
(*                                                                         *)
(* The network hands any datagram that was ever sent to the machine it is  *)
(* addressed to, any number of times and in any order.  A datagram that    *)
(* arrives where no socket is bound comes back as an ICMP message, and     *)
(* Windows reports it as an error of a later recvfrom() of its sender.     *)
(***************************************************************************)
EXTENDS PadServer, MmpClient

vars == <<serverVars, clientVars>>

Init == ServerInit /\ ClientInit

-----------------------------------------------------------------------------
\* serve() gets a request, or a datagram that it ignores.
ServeRequest ==
    /\ \/ \E r \in requests : ServeReceive(r.id, r.from)
       \/ \E p \in Endpoints : ServeReceive("other", p)
       \/ \E p \in ShortSenders : ServeReceiveShort(p)
    /\ UNCHANGED clientVars

\* serve()'s socket is not usable (any more).
ServeSocketLost ==
    /\ socket # "bound"
    /\ ServeReceiveFails(peer)
    /\ UNCHANGED clientVars

\* A datagram to q came back; recvfrom() may or may not write q to peer.
Refused(q) == cSocket[q] # "bound" /\ \E m \in sent : m.to = q

ServeRefused ==
    /\ \E q \in Endpoints : Refused(q) /\ (ServeReceiveFails(peer) \/ ServeReceiveFails(q))
    /\ UNCHANGED clientVars

RxEvent(c) ==
    /\ \E m \in sent : IsMouse(m) /\ m.to = c /\ RxReceive(c, m)
    /\ UNCHANGED serverVars

RxOther(c) ==
    /\ \E m \in sent : ~IsMouse(m) /\ m.to = c
    /\ RxIgnore(c)
    /\ UNCHANGED serverVars

RxSocketClosed(c) ==
    /\ cSocket[c] # "bound"
    /\ RxReceiveFails(c)
    /\ UNCHANGED serverVars

\* The connect request came back, because the server is not there.
RxRefused(c) ==
    /\ socket # "bound"
    /\ RequestMsg("connect", c) \in requests
    /\ RxReceiveFails(c)
    /\ UNCHANGED serverVars

Discover(c) ==
    /\ \E m \in sent : m.to = c /\ DiscoverAnswer(c, m)
    /\ UNCHANGED serverVars

ServerNext ==
    /\ UiStep \/ ServeInternal
    /\ UNCHANGED clientVars

ClientNext(c) ==
    /\ ClientStep(c)
    /\ UNCHANGED serverVars

Next ==
    \/ ServerNext \/ ServeRequest \/ ServeSocketLost \/ ServeRefused
    \/ \E c \in Endpoints :
           \/ ClientNext(c) \/ Discover(c)
           \/ RxEvent(c) \/ RxOther(c) \/ RxSocketClosed(c) \/ RxRefused(c)

Spec == Init /\ [][Next]_vars

\* The threads keep running: a call returns unless it waits for something.
\* Nobody has to send an event, to close the pad, to connect or to disconnect,
\* and the network owes nobody a datagram.  The user dismisses the message box
\* with the error of serve().  The mutex is not unfair to the UI thread forever.
Fairness ==
    /\ SF_vars(UiLock /\ UNCHANGED clientVars)
    /\ WF_vars(((UiSendStep /\ uiPc # "idle") \/ (UiStopStep /\ uiPc # "idle")) /\ UNCHANGED clientVars)
    /\ WF_vars(ServeInternal /\ UNCHANGED clientVars)
    /\ WF_vars(ServeSocketLost)
    /\ \A c \in Endpoints :
           /\ WF_vars((ApiConnect(c) \/ ApiTeardown(c)) /\ UNCHANGED serverVars)
           /\ WF_vars(RxInternal(c) /\ UNCHANGED serverVars)
           /\ WF_vars(RxSocketClosed(c))

FairSpec == Spec /\ Fairness

-----------------------------------------------------------------------------
TypeOK == ServerTypeOK /\ ClientTypeOK

\* The sequence number of the n-th event.
Num(n) == n % SeqMod

\* Whatever the network does, and even when the sequence number of the pad has
\* wrapped around, no application gets an event twice in one session; after at
\* most SeqMod - 1 events a session is deaf (track_sequence_number).
HeardOnce ==
    \A c \in Endpoints :
        /\ \A i, j \in DOMAIN delivered[c] :
               i # j => delivered[c][i] # delivered[c][j]
        /\ Len(delivered[c]) < SeqMod

\* The events an application's callbacks get in one session are in the order
\* in which the pad sent them, none of them twice, whatever the network does
\* (track_sequence_number), as long as no sequence number comes back.
InOrder ==
    \A c \in Endpoints : \A i, j \in DOMAIN delivered[c] :
        i < j => delivered[c][i] < delivered[c][j]

\* While the server runs it registers, and sends events to, only machines that
\* once sent it a request (or a datagram too short for an id), even though serve()
\* dispatches its old buffer after a failed recvfrom() and reads a buffer and a
\* peer that nobody has initialised (server::serve, connect case).
Asked(p) == p \in ShortSenders \/ \E r \in requests : r.from = p

RegisteredAsked == running => \A p \in clients : Asked(p)

\* serve() never changes the set of clients while send() iterates over it
\* (the two lock_guards on _lock).
SendIteratesAlone == uiPc = "broadcast" => servePc # "notify" /\ todo \subseteq clients

\* Once mmp_disconnect() has returned no callback of that session runs, until
\* a new session has created its receiver (~mmp_client joins the thread).
NoCallbackAfterDisconnect ==
    \A c \in Endpoints :
        apiPc[c] \in {"idle", "discover", "start", "announce", "spawn"}
            => rxPc[c] \in {"none", "done"}

\* A client rejects an event only if it has already got that event or a later
\* one in this session (track_sequence_number), except for the very first event
\* of the server, which carries the sequence number 0 that a new client believes
\* to have seen already.
RejectsOnlyThePastOrFirst ==
    [][\A c \in Endpoints \ Discovering :
           RxReject(c) => \/ datagram[c].event = 0
                          \/ \E i \in DOMAIN delivered[c] :
                                 delivered[c][i] >= datagram[c].event]_vars

\* An announcement holds a sequence number the server has already reached, in
\* network byte order (mmpmsg.h, comment of mmp_msg_announce_t).
AnnouncesInNetworkOrder ==
    \A m \in sent : m.id = "announce" => ntohl(m.seq) <= seqNo

\* While the server runs, only a connect request that has just arrived registers
\* a client; one that send() has removed does not come back by itself
\* (server.cpp: "In case of a connect request, we register the peer address").
FreshRegistrations ==
    [][running => clients' \subseteq clients \/ fresh]_vars

\* The window procedure always gets back from send() (the lock is released,
\* even while serve() notifies the window).
SendReturns == uiPc \in {"lock", "broadcast"} ~> uiPc = "idle"

\* The destructor of the server gets serve() to leave and returns, whatever
\* serve() was about to do with the socket.
ShutdownReturns == uiPc = "close" ~> uiPc = "gone"

\* mmp_disconnect() gets the receiver to leave and returns.
DisconnectReturns == \A c \in Endpoints : apiPc[c] = "close" ~> apiPc[c] = "idle"

-----------------------------------------------------------------------------
(* The system implements EventFeed.                                        *)

PostedTo(c) == {m.event : m \in {d \in sent : IsMouse(d) /\ d.to = c}}

Feed == INSTANCE EventFeed WITH
    Receivers   <- Endpoints,
    Numbers     <- Events,
    subscribers <- clients \cap Endpoints,
    posted      <- [c \in Endpoints |-> PostedTo(c)],
    feed        <- delivered

FeedSpec == Feed!FeedSpec

-----------------------------------------------------------------------------
(* The clients implement Lifecycle.                                        *)

Phase(c) ==
    CASE apiPc[c] = "discover" -> "discovering"
      [] apiPc[c] \in {"start", "announce", "spawn"} -> "starting"
      [] apiPc[c] \in {"close", "join"} -> "disconnecting"
      [] OTHER -> apiPc[c]

Life == INSTANCE Lifecycle WITH
    Clients   <- Endpoints,
    phase     <- [c \in Endpoints |-> Phase(c)],
    last      <- cSeq,
    receiving <- [c \in Endpoints |-> rxPc[c] \notin {"none", "done"}],
    announced <- {ntohl(m.seq) : m \in {d \in sent : d.id = "announce"}}

LifecycleSpec == Life!LifecycleSpec

-----------------------------------------------------------------------------
(* The inductive invariant behind the safety properties, in named parts.   *)

\* Who holds the lock is where the lock is held, and send() iterates over clients.
LockInv ==
    /\ lock = "ui" <=> uiPc = "broadcast"
    /\ lock = "serve" <=> servePc = "notify"
    /\ uiPc = "broadcast" => todo \subseteq clients

\* The receiver exists only between the end of start() and the destructor, and
\* a session that still looks for the pad has delivered nothing.
SessionInv ==
    \A c \in Endpoints :
        /\ apiPc[c] \in {"discover", "start", "announce", "spawn"} => rxPc[c] = "none"
        /\ apiPc[c] = "idle" => rxPc[c] \in {"none", "done"}
        /\ apiPc[c] = "discover" => delivered[c] = <<>>

\* While the server runs its socket stays bound, so that recvfrom() fails only
\* after something was sent; by then a request has been in the buffer, and a
\* request always stands beside the address of a machine that asked.
AskedInv ==
    running =>
        /\ uiPc \in {"idle", "lock", "broadcast"}
        /\ servePc \in {"loop", "receive", "dispatch", "notify"} => socket = "bound"
        /\ \A p \in clients : Asked(p)
        /\ \A m \in sent : Asked(m.to)
        /\ (clients # {} \/ sent # {} \/ servePc = "dispatch") /\ buffer # "other"
               => Asked(peer)

\* Every event travels with its own sequence number, which may have wrapped.
Numbered(n, seq) == n \in Nat /\ n < nEvents /\ seq = htonl(Num(n))

NumberInv ==
    /\ seqNo = Num(nEvents)
    /\ uiPc \in {"lock", "broadcast"} =>
           /\ nEvents = message.event + 1
           /\ Numbered(message.event, message.seq)
    /\ \A m \in sent : IsMouse(m) => Numbered(m.event, m.seq)

\* A receiver handles what was sent to it, and its sequence number is that of
\* the last event that it accepted; the numbers of a session only grow.
TrackInv ==
    \A c \in Endpoints :
        /\ rxPc[c] \in {"track", "callback"} =>
               datagram[c] \in sent /\ IsMouse(datagram[c]) /\ datagram[c].to = c
        /\ rxPc[c] = "callback" =>
               /\ cSeq[c] = Num(datagram[c].event)
               /\ \A i \in DOMAIN delivered[c] : Num(delivered[c][i]) < cSeq[c]
               /\ Len(delivered[c]) < cSeq[c]
        /\ \A i \in DOMAIN delivered[c] :
               Num(delivered[c][i]) <= cSeq[c] /\ delivered[c][i] < nEvents
        /\ \A i, j \in DOMAIN delivered[c] :
               i < j => Num(delivered[c][i]) < Num(delivered[c][j])
        /\ Len(delivered[c]) <= cSeq[c]

Inv == TypeOK /\ LockInv /\ SessionInv /\ AskedInv /\ NumberInv /\ TrackInv /\ HeardOnce
=============================================================================
