------------------------- MODULE MagicMouse_proofs -------------------------
(***************************************************************************)
(* Theorems about MagicMouse, for every value of its constants.            *)
(***************************************************************************)
EXTENDS MagicMouse, ByteOrder_proofs, TLAPS

-----------------------------------------------------------------------------
(* Sequence numbers.                                                       *)

\* There is a sequence number 0, and ++ on a sequence number yields one.
LEMMA SeqNoFacts ==
  /\ SeqMod \in Nat \ {0}
  /\ 0 \in SeqNo
  /\ \A n \in SeqNo : (n + 1) % SeqMod \in SeqNo
<1>1. Radix \in Nat /\ Radix > 1
  BY RadixAssumption
<1>2. Radix * Radix \in Nat /\ Radix * Radix > 1
  BY <1>1
<1>3. Radix * (Radix * Radix) \in Nat /\ Radix * (Radix * Radix) > 1
  <2> DEFINE q == Radix * Radix
  <2>1. q \in Nat /\ q > 1
    BY <1>2
  <2> HIDE DEF q
  <2>2. Radix * q \in Nat /\ Radix * q > 1
    BY <1>1, <2>1
  <2> QED BY <2>2 DEF q
<1>4. SeqMod \in Nat \ {0}
  <2> DEFINE q == Radix * (Radix * Radix)
  <2>1. q \in Nat /\ q > 1
    BY <1>3
  <2> HIDE DEF q
  <2>2. Radix * q \in Nat \ {0}
    BY <1>1, <2>1
  <2> QED BY <2>2 DEF q, SeqMod
<1>5. \A n \in SeqNo : (n + 1) % SeqMod \in SeqNo
  <2> HIDE DEF SeqMod
  <2> QED BY <1>4 DEF SeqNo
<1> QED
  BY <1>4, <1>5 DEF SeqNo

\* The sequence number that send() puts on the wire is a 32-bit word.
LEMMA WireSeqType ==
  ASSUME seqNo \in SeqNo
  PROVE  WireSeq \in SeqNo
BY ByteOrderRoundTrip DEF WireSeq

\* Every event is a move or a button event.
LEMMA KindType ==
  ASSUME NEW n
  PROVE  Kind(n) \in {"mouse_move", "mouse_button"}
BY DEF Kind

-----------------------------------------------------------------------------
(* Types.                                                                  *)

\* The constructor of the server and the clients' first state are well typed.
LEMMA InitTypes == Init => TypeOK
<1>1. ASSUME ServerInit PROVE ServerTypeOK
  <2>1. 0 \in SeqNo
    BY SeqNoFacts
  <2>2. message \in [event : Nat, seq : SeqNo]
    BY <1>1, <2>1 DEF ServerInit
  <2>3. nEvents \in 0 .. MaxEvents
    BY <1>1, MaxEventsAssumption DEF ServerInit
  <2>4. peer \in Peers
    BY <1>1 DEF ServerInit, Peers
  <2>5. seqNo \in SeqNo
    <3>1. SeqMod \in Nat \ {0} /\ EarlierEvents \in Nat
      BY SeqNoFacts, MaxEventsAssumption
    <3> HIDE DEF SeqMod
    <3>2. EarlierEvents % SeqMod \in 0 .. SeqMod - 1
      BY <3>1
    <3> QED BY <1>1, <3>2 DEF ServerInit, SeqNo
  <2> QED BY <1>1, <2>2, <2>3, <2>4, <2>5 DEF ServerInit, ServerTypeOK
<1>2. ASSUME ClientInit PROVE ClientTypeOK
  <2>1. \A c \in Endpoints :
          EmptyDatagram(c) \in [id : {"none", "mouse_move", "mouse_button"},
                               to : Endpoints, event : Nat, seq : SeqNo]
    BY SeqNoFacts DEF EmptyDatagram
  <2>2. datagram \in [Endpoints -> [id : {"none", "mouse_move", "mouse_button"},
                                   to : Endpoints, event : Nat, seq : SeqNo]]
    BY <1>2, <2>1 DEF ClientInit
  <2>3. delivered \in [Endpoints -> Seq(Nat)]
    BY <1>2 DEF ClientInit
  <2>4. sessions \in [Endpoints -> 0 .. MaxSessions] /\ cSeq \in [Endpoints -> SeqNo]
    BY <1>2, SeqNoFacts, MaxSessionsAssumption DEF ClientInit
  <2> QED BY <1>2, <2>2, <2>3, <2>4 DEF ClientInit, ClientTypeOK
<1> QED
  BY <1>1, <1>2 DEF Init, TypeOK

\* A step of the UI thread keeps the server's types (send() and ~server).
LEMMA UiTypes ==
  ASSUME ServerTypeOK, UiStep
  PROVE  ServerTypeOK'
<1> USE DEF ServerTypeOK
<1>1. CASE UiSend
  BY <1>1, SeqNoFacts, WireSeqType, MaxEventsAssumption DEF UiSend, serveVars
<1>2. CASE UiLock
  BY <1>2 DEF UiLock, Addressees, serveVars
<1>3. ASSUME NEW p \in Peers, UiSendTo(p) PROVE ServerTypeOK'
  <2>1. MouseMsg(p, message.event, message.seq) \in Datagrams
    BY KindType DEF MouseMsg, Datagrams
  <2> QED BY <1>3, <2>1 DEF UiSendTo, serveVars
<1>4. ASSUME NEW p \in Peers, UiSendToFails(p) PROVE ServerTypeOK'
  BY <1>4 DEF UiSendToFails, serveVars
<1>5. CASE UiUnlock
  BY <1>5 DEF UiUnlock, serveVars
<1>6. CASE UiDestroy
  BY <1>6 DEF UiDestroy, serveVars
<1>7. CASE UiClose
  BY <1>7 DEF UiClose, serveVars
<1>8. CASE UiReset
  BY <1>8 DEF UiReset, serveVars
<1>9. CASE UiJoin
  BY <1>9 DEF UiJoin, serveVars
<1> QED
  BY <1>1, <1>2, <1>3, <1>4, <1>5, <1>6, <1>7, <1>8, <1>9
  DEF UiStep, UiSendStep, UiStopStep

\* A step of serve() that does not wait for the network keeps the server's types.
LEMMA ServeTypes ==
  ASSUME ServerTypeOK, ServeInternal
  PROVE  ServerTypeOK'
<1> USE DEF ServerTypeOK
<1>1. CASE ServeSocket
  BY <1>1 DEF ServeSocket, uiVars
<1>2. CASE ServeSocketFails
  BY <1>2 DEF ServeSocketFails, uiVars
<1>3. CASE ServeBind
  BY <1>3 DEF ServeBind, uiVars
<1>4. CASE ServeBindFails
  BY <1>4 DEF ServeBindFails, uiVars
<1>5. CASE ServeErrorDismissed
  BY <1>5 DEF ServeErrorDismissed, uiVars
<1>6. CASE ServeLoop
  BY <1>6 DEF ServeLoop, uiVars
<1>7. CASE ServeDiscover
  <2>1. peer \in Peers => AnnounceMsg(peer, seqNo) \in Datagrams
    BY DEF AnnounceMsg, Datagrams
  <2> QED BY <1>7, <2>1 DEF ServeDiscover, uiVars
<1>8. CASE ServeConnect
  BY <1>8 DEF ServeConnect, uiVars
<1>9. CASE ServeNotify
  BY <1>9 DEF ServeNotify, uiVars
<1>10. CASE ServeOther
  BY <1>10 DEF ServeOther, uiVars
<1> QED
  BY <1>1, <1>2, <1>3, <1>4, <1>5, <1>6, <1>7, <1>8, <1>9, <1>10
  DEF ServeInternal, ServeSetup, ServeHandle

\* recvfrom() keeps the server's types, whether it fails or not.
LEMMA ServeReceiveTypes ==
  ASSUME ServerTypeOK,
         \/ \E id \in RequestIds, p \in Peers : ServeReceive(id, p)
         \/ \E p \in Peers : ServeReceiveShort(p) \/ ServeReceiveFails(p)
  PROVE  ServerTypeOK'
<1>1. CASE \E id \in RequestIds, p \in Peers : ServeReceive(id, p)
  BY <1>1 DEF ServerTypeOK, ServeReceive, uiVars
<1>2. CASE \E p \in Peers : ServeReceiveShort(p)
  BY <1>2 DEF ServerTypeOK, ServeReceiveShort, uiVars
<1>3. CASE \E p \in Peers : ServeReceiveFails(p)
  BY <1>3 DEF ServerTypeOK, ServeReceiveFails, uiVars
<1> QED
  BY <1>1, <1>2, <1>3

\* A step of a client that does not wait for the network keeps its types.
LEMMA ClientTypes ==
  ASSUME ClientTypeOK, NEW c \in Endpoints, ClientStep(c)
  PROVE  ClientTypeOK'
<1> USE DEF ClientTypeOK
<1>1. CASE Connect(c)
  BY <1>1, SeqNoFacts, MaxSessionsAssumption DEF Connect, EmptyDatagram
<1>2. CASE DiscoverBroadcast(c)
  BY <1>2 DEF DiscoverBroadcast, RequestMsg, Requests
<1>3. CASE DiscoverFails(c)
  BY <1>3 DEF DiscoverFails
<1>4. CASE StartSocket(c)
  <2>1. /\ apiPc' \in {[apiPc EXCEPT ![c] = "announce"], [apiPc EXCEPT ![c] = "failed"]}
        /\ cSocket' \in {[cSocket EXCEPT ![c] = "bound"], cSocket}
        /\ cRunning' = [cRunning EXCEPT ![c] = TRUE]
        /\ UNCHANGED <<rxPc, cSeq, datagram, requests, delivered, sessions>>
    BY <1>4 DEF StartSocket
  <2>2. apiPc' \in [Endpoints -> {"idle", "discover", "start", "announce", "spawn",
                                  "connected", "failed", "close", "join"}]
    BY <2>1
  <2>3. cSocket' \in [Endpoints -> {"none", "bound", "closed"}]
    BY <2>1
  <2>4. cRunning' \in [Endpoints -> BOOLEAN]
    BY <2>1
  <2> QED BY <2>1, <2>2, <2>3, <2>4
<1>5. CASE Announce(c)
  <2>1. /\ apiPc' \in {[apiPc EXCEPT ![c] = "spawn"], [apiPc EXCEPT ![c] = "failed"]}
        /\ requests' \in {requests \cup {RequestMsg("connect", c)}, requests}
        /\ UNCHANGED <<rxPc, cRunning, cSocket, cSeq, datagram, delivered, sessions>>
    BY <1>5 DEF Announce
  <2>2. apiPc' \in [Endpoints -> {"idle", "discover", "start", "announce", "spawn",
                                  "connected", "failed", "close", "join"}]
    BY <2>1
  <2>3. requests' \subseteq Requests
    BY <2>1 DEF RequestMsg, Requests
  <2> QED BY <2>1, <2>2, <2>3
<1>6. CASE Spawn(c)
  <2>1. /\ apiPc' \in {[apiPc EXCEPT ![c] = "connected"], [apiPc EXCEPT ![c] = "failed"]}
        /\ rxPc' \in {[rxPc EXCEPT ![c] = "startup"], rxPc}
        /\ UNCHANGED <<cRunning, cSocket, cSeq, datagram, requests, delivered, sessions>>
    BY <1>6 DEF Spawn
  <2>2. apiPc' \in [Endpoints -> {"idle", "discover", "start", "announce", "spawn",
                                  "connected", "failed", "close", "join"}]
    BY <2>1
  <2>3. rxPc' \in [Endpoints -> {"none", "startup", "loop", "receive", "track",
                                 "callback", "done"}]
    BY <2>1
  <2> QED BY <2>1, <2>2, <2>3
<1>7. CASE Disconnect(c)
  BY <1>7 DEF Disconnect
<1>8. CASE Close(c)
  BY <1>8 DEF Close
<1>9. CASE Join(c)
  BY <1>9 DEF Join
<1>10. CASE RxStartup(c)
  BY <1>10 DEF RxStartup
<1>11. CASE RxStartupFails(c)
  BY <1>11 DEF RxStartupFails
<1>12. CASE RxLoop(c)
  BY <1>12 DEF RxLoop
<1>13. CASE RxAccept(c)
  BY <1>13, ByteOrderRoundTrip DEF RxAccept, ntohl
<1>14. CASE RxReject(c)
  BY <1>14 DEF RxReject
<1>15. CASE RxCallback(c)
  <2>1. datagram[c].event \in Nat
    OBVIOUS
  <2>2. Append(delivered[c], datagram[c].event) \in Seq(Nat)
    BY <2>1
  <2> QED BY <1>15, <2>2 DEF RxCallback
<1> QED
  BY <1>1, <1>2, <1>3, <1>4, <1>5, <1>6, <1>7, <1>8, <1>9, <1>10, <1>11, <1>12,
     <1>13, <1>14, <1>15
  DEF ClientStep, ApiConnect, ApiTeardown, RxInternal

\* Every step of the system keeps every variable in its type.
LEMMA NextTypes == TypeOK /\ [Next]_vars => TypeOK'
<1> SUFFICES ASSUME TypeOK, [Next]_vars PROVE TypeOK'
  OBVIOUS
<1> USE DEF TypeOK
<1> DEFINE ServerStays == UNCHANGED serverVars
           ClientStays == UNCHANGED clientVars
<1>a. ServerStays => ServerTypeOK'
  BY DEF ServerTypeOK, serverVars, uiVars, serveVars
<1>b. ClientStays => ClientTypeOK'
  BY DEF ClientTypeOK, clientVars
<1>1. CASE ServerNext
  BY <1>1, <1>b, UiTypes, ServeTypes DEF ServerNext
<1>2. CASE ServeRequest
  <2>1. \A r \in requests : r.id \in RequestIds /\ r.from \in Peers
    BY DEF ClientTypeOK, Requests, RequestIds, Peers
  <2>2. \/ \E id \in RequestIds, p \in Peers : ServeReceive(id, p)
        \/ \E p \in Peers : ServeReceiveShort(p)
    BY <1>2, <2>1, ShortSendersAssumption DEF ServeRequest, RequestIds, Peers
  <2> QED BY <1>2, <2>2, <1>b, ServeReceiveTypes DEF ServeRequest
<1>3. CASE ServeSocketLost
  <2>1. \E p \in Peers : ServeReceiveFails(p)
    BY <1>3 DEF ServeSocketLost, ServerTypeOK
  <2> QED BY <1>3, <2>1, <1>b, ServeReceiveTypes DEF ServeSocketLost
<1>4. CASE ServeRefused
  <2>1. \E p \in Peers : ServeReceiveFails(p)
    BY <1>4 DEF ServeRefused, ServerTypeOK, Peers
  <2> QED BY <1>4, <2>1, <1>b, ServeReceiveTypes DEF ServeRefused
<1>5. ASSUME NEW c \in Endpoints, ClientNext(c) PROVE TypeOK'
  BY <1>5, <1>a, ClientTypes DEF ClientNext
<1>6. ASSUME NEW c \in Endpoints, Discover(c) PROVE TypeOK'
  <2>1. PICK m \in sent : DiscoverAnswer(c, m)
    BY <1>6 DEF Discover
  <2>2. ntohl(m.seq) \in SeqNo
    BY ByteOrderRoundTrip DEF ServerTypeOK, Datagrams, ntohl
  <2>3. ClientTypeOK'
    BY <2>1, <2>2 DEF ClientTypeOK, DiscoverAnswer
  <2> QED BY <1>6, <2>3, <1>a DEF Discover
<1>7. ASSUME NEW c \in Endpoints, RxEvent(c) PROVE TypeOK'
  <2>1. PICK m \in sent : IsMouse(m) /\ m.to = c /\ RxReceive(c, m)
    BY <1>7 DEF RxEvent
  <2>2. m \in [id : {"none", "mouse_move", "mouse_button"}, to : Endpoints,
               event : Nat, seq : SeqNo]
    BY <2>1 DEF ServerTypeOK, Datagrams, IsMouse
  <2>3. ClientTypeOK'
    BY <2>1, <2>2 DEF ClientTypeOK, RxReceive
  <2> QED BY <1>7, <2>3, <1>a DEF RxEvent
<1>8. ASSUME NEW c \in Endpoints, RxOther(c) \/ RxSocketClosed(c) \/ RxRefused(c) PROVE TypeOK'
  <2>1. CASE RxIgnore(c)
    BY <2>1, <1>a, <1>8 DEF RxIgnore, ClientTypeOK, RxOther, RxSocketClosed, RxRefused
  <2>2. CASE RxReceiveFails(c)
    BY <2>2, <1>a, <1>8 DEF RxReceiveFails, ClientTypeOK, RxOther, RxSocketClosed, RxRefused
  <2> QED BY <1>8, <2>1, <2>2 DEF RxOther, RxSocketClosed, RxRefused
<1>9. CASE UNCHANGED vars
  BY <1>9, <1>a, <1>b DEF vars
<1> QED
  BY <1>1, <1>2, <1>3, <1>4, <1>5, <1>6, <1>7, <1>8, <1>9 DEF Next

\* Every variable of the system keeps its type: serve() and send() keep the
\* set of clients and the datagrams well formed, and every client its thread's
\* state.
THEOREM TypeCorrect == Spec => []TypeOK
<1> QED
  BY InitTypes, NextTypes, PTL DEF Spec

-----------------------------------------------------------------------------
(* The lock.                                                               *)

\* A step of the UI thread or of serve() changes the holder of the lock and its
\* own place together, and serve() only adds clients.
LEMMA LockServerStep ==
  ASSUME LockInv, UiStep \/ ServeInternal
  PROVE  LockInv'
<1> USE DEF LockInv
<1>1. CASE UiSend
  BY <1>1 DEF UiSend, serveVars
<1>2. CASE UiLock
  BY <1>2 DEF UiLock, LockFree, Addressees, serveVars
<1>3. CASE UiUnlock
  BY <1>3 DEF UiUnlock, serveVars
<1>4. CASE UiDestroy
  BY <1>4 DEF UiDestroy, serveVars
<1>5. CASE UiClose
  BY <1>5 DEF UiClose, serveVars
<1>6. CASE UiReset
  BY <1>6 DEF UiReset, serveVars
<1>7. CASE UiJoin
  BY <1>7 DEF UiJoin, serveVars
<1>8. ASSUME NEW p \in Peers, UiSendTo(p) PROVE LockInv'
  BY <1>8 DEF UiSendTo, serveVars
<1>9. ASSUME NEW p \in Peers, UiSendToFails(p) PROVE LockInv'
  BY <1>9 DEF UiSendToFails, serveVars
<1>10. CASE ServeSocket
  BY <1>10 DEF ServeSocket, uiVars
<1>11. CASE ServeSocketFails
  BY <1>11 DEF ServeSocketFails, uiVars
<1>12. CASE ServeBind
  BY <1>12 DEF ServeBind, uiVars
<1>13. CASE ServeBindFails
  BY <1>13 DEF ServeBindFails, uiVars
<1>14. CASE ServeErrorDismissed
  BY <1>14 DEF ServeErrorDismissed, uiVars
<1>15. CASE ServeLoop
  BY <1>15 DEF ServeLoop, uiVars
<1>16. CASE ServeDiscover
  BY <1>16 DEF ServeDiscover, uiVars
<1>17. CASE ServeConnect
  BY <1>17 DEF ServeConnect, LockFree, uiVars
<1>18. CASE ServeNotify
  BY <1>18 DEF ServeNotify, uiVars
<1>19. CASE ServeOther
  BY <1>19 DEF ServeOther, uiVars
<1> QED
  BY <1>1, <1>2, <1>3, <1>4, <1>5, <1>6, <1>7, <1>8, <1>9, <1>10, <1>11, <1>12,
     <1>13, <1>14, <1>15, <1>16, <1>17, <1>18, <1>19
  DEF UiStep, UiSendStep, UiStopStep, ServeInternal, ServeSetup, ServeHandle

\* Every step of the system keeps the lock consistent.
LEMMA LockStep == LockInv /\ [Next]_vars => LockInv'
<1> SUFFICES ASSUME LockInv, [Next]_vars PROVE LockInv'
  OBVIOUS
<1>1. CASE ServerNext
  BY <1>1, LockServerStep DEF ServerNext
<1>2. CASE ServeRequest
  BY <1>2 DEF ServeRequest, ServeReceive, ServeReceiveShort, LockInv, uiVars
<1>3. CASE ServeSocketLost
  BY <1>3 DEF ServeSocketLost, ServeReceiveFails, LockInv, uiVars
<1>4. CASE ServeRefused
  BY <1>4 DEF ServeRefused, ServeReceiveFails, LockInv, uiVars
<1>5. CASE UNCHANGED serverVars
  BY <1>5 DEF serverVars, uiVars, serveVars, LockInv
<1> QED
  BY <1>1, <1>2, <1>3, <1>4, <1>5
  DEF Next, ClientNext, Discover, RxEvent, RxOther, RxIgnore, RxSocketClosed, RxRefused, vars

\* serve() never changes the set of clients while send() iterates over it: the
\* lock_guards of server::send and of the connect case of server::serve.
THEOREM IterationIsExclusive == Spec => []SendIteratesAlone
<1>1. Init => LockInv
  BY DEF Init, ServerInit, LockInv
<1>2. LockInv => SendIteratesAlone
  BY DEF LockInv, SendIteratesAlone
<1> QED
  BY <1>1, <1>2, LockStep, PTL DEF Spec

-----------------------------------------------------------------------------
(* Sessions.                                                               *)

\* A step of one client keeps every session's receiver where it belongs.
LEMMA SessionClientStep ==
  ASSUME ClientTypeOK, SessionInv, NEW c \in Endpoints, ClientStep(c)
  PROVE  SessionInv'
<1> USE DEF ClientTypeOK, SessionInv
<1>1. CASE Connect(c)
  BY <1>1 DEF Connect
<1>2. CASE DiscoverBroadcast(c)
  BY <1>2 DEF DiscoverBroadcast
<1>3. CASE DiscoverFails(c)
  BY <1>3 DEF DiscoverFails
<1>4. CASE StartSocket(c)
  BY <1>4 DEF StartSocket
<1>5. CASE Announce(c)
  BY <1>5 DEF Announce
<1>6. CASE Spawn(c)
  BY <1>6 DEF Spawn
<1>7. CASE Disconnect(c)
  BY <1>7 DEF Disconnect
<1>8. CASE Close(c)
  BY <1>8 DEF Close
<1>9. CASE Join(c)
  BY <1>9 DEF Join, ReceiverGone
<1>10. CASE RxStartup(c)
  BY <1>10 DEF RxStartup
<1>11. CASE RxStartupFails(c)
  BY <1>11 DEF RxStartupFails
<1>12. CASE RxLoop(c)
  BY <1>12 DEF RxLoop
<1>13. CASE RxAccept(c)
  BY <1>13 DEF RxAccept
<1>14. CASE RxReject(c)
  BY <1>14 DEF RxReject
<1>15. CASE RxCallback(c)
  BY <1>15 DEF RxCallback
<1> QED
  BY <1>1, <1>2, <1>3, <1>4, <1>5, <1>6, <1>7, <1>8, <1>9, <1>10, <1>11, <1>12,
     <1>13, <1>14, <1>15
  DEF ClientStep, ApiConnect, ApiTeardown, RxInternal

\* Every step of the system keeps every session's receiver where it belongs.
LEMMA SessionStep == ClientTypeOK /\ SessionInv /\ [Next]_vars => SessionInv'
<1> SUFFICES ASSUME ClientTypeOK, SessionInv, [Next]_vars PROVE SessionInv'
  OBVIOUS
<1>1. ASSUME NEW c \in Endpoints, ClientNext(c) PROVE SessionInv'
  BY <1>1, SessionClientStep DEF ClientNext
<1>2. ASSUME NEW c \in Endpoints, Discover(c) PROVE SessionInv'
  BY <1>2 DEF Discover, DiscoverAnswer, ClientTypeOK, SessionInv
<1>3. ASSUME NEW c \in Endpoints, RxEvent(c) PROVE SessionInv'
  BY <1>3 DEF RxEvent, RxReceive, ClientTypeOK, SessionInv
<1>4. ASSUME NEW c \in Endpoints, RxOther(c) \/ RxSocketClosed(c) \/ RxRefused(c)
      PROVE  SessionInv'
  <2>1. CASE RxIgnore(c)
    BY <2>1 DEF RxIgnore, ClientTypeOK, SessionInv
  <2>2. CASE RxReceiveFails(c)
    BY <2>2 DEF RxReceiveFails, ClientTypeOK, SessionInv
  <2> QED BY <1>4, <2>1, <2>2 DEF RxOther, RxSocketClosed, RxRefused
<1>5. CASE UNCHANGED clientVars
  BY <1>5 DEF clientVars, SessionInv
<1> QED
  BY <1>1, <1>2, <1>3, <1>4, <1>5
  DEF Next, ServerNext, ServeRequest, ServeSocketLost, ServeRefused, vars

\* Once mmp_disconnect() has returned, and until a new session has created its
\* receiver, no receiver is left that could call the application back.
THEOREM DisconnectSilences == Spec => []NoCallbackAfterDisconnect
<1>1. Init => SessionInv
  BY DEF Init, ClientInit, SessionInv
<1>2. SessionInv => NoCallbackAfterDisconnect
  BY DEF SessionInv, NoCallbackAfterDisconnect
<1>3. TypeOK => ClientTypeOK
  BY DEF TypeOK
<1> QED
  BY <1>1, <1>2, <1>3, SessionStep, TypeCorrect, PTL DEF Spec

-----------------------------------------------------------------------------
(* Who is registered.                                                      *)

\* A step of the server keeps a request beside the address of the machine that
\* made it.
LEMMA AskedServerStep ==
  ASSUME LockInv, AskedInv, UiStep \/ ServeInternal, UNCHANGED requests
  PROVE  AskedInv'
<1> USE DEF AskedInv, LockInv, Asked
<1>1. ASSUME NEW p \in Peers, UiSendTo(p) PROVE AskedInv'
  BY <1>1 DEF UiSendTo, MouseMsg, serveVars
<1>2. ASSUME NEW p \in Peers, UiSendToFails(p) PROVE AskedInv'
  BY <1>2 DEF UiSendToFails, serveVars
<1>3. CASE UiSend \/ UiLock \/ UiUnlock
  BY <1>3 DEF UiSend, UiLock, UiUnlock, serveVars
<1>4. CASE UiStopStep
  BY <1>4 DEF UiStopStep, UiDestroy, UiClose, UiReset, UiJoin, serveVars
<1>5. CASE ServeSetup \/ ServeLoop
  BY <1>5 DEF ServeSetup, ServeSocket, ServeSocketFails, ServeBind, ServeBindFails,
              ServeErrorDismissed, ServeLoop, uiVars
<1>6. CASE ServeDiscover
  BY <1>6 DEF ServeDiscover, AnnounceMsg, uiVars
<1>7. CASE ServeConnect
  BY <1>7 DEF ServeConnect, Registers, uiVars
<1>8. CASE ServeNotify \/ ServeOther
  BY <1>8 DEF ServeNotify, ServeOther, uiVars
<1> QED
  BY <1>1, <1>2, <1>3, <1>4, <1>5, <1>6, <1>7, <1>8
  DEF UiStep, UiSendStep, ServeInternal, ServeHandle

\* Every step of the system does: what recvfrom() leaves in peer when it fails is
\* the previous peer or a machine that something was sent to.
LEMMA AskedStep == LockInv /\ AskedInv /\ [Next]_vars => AskedInv'
<1> SUFFICES ASSUME LockInv, AskedInv, [Next]_vars PROVE AskedInv'
  OBVIOUS
<1>1. CASE ServerNext
  BY <1>1, AskedServerStep DEF ServerNext, clientVars
<1>2. CASE ServeRequest
  BY <1>2 DEF ServeRequest, ServeReceive, ServeReceiveShort, AskedInv, Asked, uiVars, clientVars
<1>3. CASE ServeSocketLost
  BY <1>3 DEF ServeSocketLost, ServeReceiveFails, AskedInv, Asked, uiVars, clientVars
<1>4. CASE ServeRefused
  <2>1. PICK q \in Endpoints : Refused(q) /\ (ServeReceiveFails(peer) \/ ServeReceiveFails(q))
    BY <1>4 DEF ServeRefused
  <2>2. UNCHANGED <<running, socket, clients, sent, buffer, uiPc, requests>> /\ servePc' = "dispatch"
    BY <1>4, <2>1 DEF ServeRefused, ServeReceiveFails, uiVars, clientVars
  <2>3. running => sent # {} /\ Asked(q)
    BY <2>1 DEF Refused, AskedInv
  <2>4. running /\ buffer # "other" => Asked(peer) /\ Asked(peer')
    BY <2>1, <2>3 DEF ServeReceiveFails, AskedInv
  <2>5. running /\ buffer # "other" => Asked(peer)'
    BY <2>2, <2>4 DEF Asked
  <2>6. running => socket = "bound"
    BY <2>1 DEF ServeReceiveFails, AskedInv
  <2> QED BY <2>2, <2>5, <2>6 DEF AskedInv, Asked
<1>5. CASE UNCHANGED serverVars /\ requests \subseteq requests'
  BY <1>5 DEF serverVars, uiVars, serveVars, AskedInv, Asked
<1>6. ASSUME NEW c \in Endpoints, ClientStep(c) PROVE requests \subseteq requests'
  BY <1>6
  DEF ClientStep, Connect, DiscoverBroadcast, DiscoverFails, ApiConnect, StartSocket, Announce,
      Spawn, Disconnect, ApiTeardown, Close, Join, RxInternal, RxStartup, RxStartupFails,
      RxLoop, RxAccept, RxReject, RxCallback
<1>7. ASSUME NEW c \in Endpoints,
             Discover(c) \/ RxEvent(c) \/ RxOther(c) \/ RxSocketClosed(c) \/ RxRefused(c)
      PROVE  requests \subseteq requests'
  BY <1>7 DEF Discover, DiscoverAnswer, RxEvent, RxReceive, RxOther, RxIgnore,
              RxSocketClosed, RxRefused,
              RxReceiveFails
<1> QED
  BY <1>1, <1>2, <1>3, <1>4, <1>5, <1>6, <1>7
  DEF Next, ClientNext, Discover, RxEvent, RxOther, RxIgnore,
      RxSocketClosed, RxRefused, vars, clientVars

\* While the server runs, only machines that once sent it a request are
\* registered, whatever recvfrom() leaves behind when it fails.
THEOREM OnlyAskersRegistered == Spec => []RegisteredAsked
<1>1. Init => LockInv /\ AskedInv
  BY DEF Init, ServerInit, LockInv, AskedInv
<1>2. AskedInv => RegisteredAsked
  BY DEF AskedInv, RegisteredAsked
<1> QED
  BY <1>1, <1>2, LockStep, AskedStep, PTL DEF Spec

-----------------------------------------------------------------------------
(* Numbers.                                                                *)

\* An event has a sequence number, the next event has the next one, and the
\* first SeqMod events are their own sequence numbers.
LEMMA NumFacts ==
  ASSUME NEW n \in Nat
  PROVE  /\ Num(n) \in SeqNo /\ Num(n) \in Nat
         /\ Num(n + 1) = (Num(n) + 1) % SeqMod
         /\ n < SeqMod => Num(n) = n
<1>1. SeqMod \in Nat \ {0}
  BY SeqNoFacts
<1> HIDE DEF SeqMod
<1>2. /\ n % SeqMod \in 0 .. SeqMod - 1
      /\ n < SeqMod => n % SeqMod = n
      /\ (n + 1) % SeqMod = ((n % SeqMod) + 1) % SeqMod
  BY <1>1, ModFacts
<1>3. n % SeqMod \in Nat
  BY <1>1
<1> QED
  BY <1>2, <1>3 DEF Num, SeqNo

\* A sequence number that went through htonl() is that of its event again.
LEMMA NumberedDecodes ==
  ASSUME NEW n, NEW seq, Numbered(n, seq)
  PROVE  n \in Nat /\ n < nEvents /\ ntohl(seq) = Num(n) /\ Num(n) \in Nat
BY NumFacts, ByteOrderRoundTrip DEF Numbered

\* send() numbers its events with their sequence numbers; the network and the
\* other threads leave the numbers alone.
LEMMA NumberServerStep ==
  ASSUME ServerTypeOK, NumberInv, UiStep \/ ServeInternal
  PROVE  NumberInv'
<1> USE DEF ServerTypeOK, NumberInv
<1> DEFINE OthersStay == UNCHANGED <<nEvents, seqNo, message>>
           MouseStays == \A m \in sent' : IsMouse(m) => m \in sent
           PcStays    == uiPc' \in {"lock", "broadcast"} => uiPc \in {"lock", "broadcast"}
<1>a. OthersStay /\ MouseStays /\ PcStays => NumberInv'
  BY DEF Numbered
<1>1. CASE UiSend
  <2>1. nEvents \in Nat /\ seqNo = Num(nEvents)
    BY MaxEventsAssumption
  <2>2. nEvents' = nEvents + 1 /\ message' = [event |-> nEvents, seq |-> htonl(Num(nEvents))]
    BY <1>1, <2>1 DEF UiSend, WireSeq
  <2>3. seqNo' = (seqNo + 1) % SeqMod
    BY <1>1 DEF UiSend
  <2>4. seqNo' = Num(nEvents + 1)
    BY <2>1, <2>3, NumFacts
  <2>5. Numbered(message.event, message.seq)'
    BY <2>1, <2>2 DEF Numbered
  <2>6. ASSUME NEW m \in sent', IsMouse(m) PROVE Numbered(m.event, m.seq)'
    BY <1>1, <2>1, <2>2, <2>6 DEF UiSend, Numbered
  <2> QED BY <2>1, <2>2, <2>4, <2>5, <2>6
<1>2. ASSUME NEW p \in Peers, UiSendTo(p) PROVE NumberInv'
  <2>1. Numbered(message.event, message.seq)
    BY <1>2 DEF UiSendTo
  <2>2. /\ MouseMsg(p, message.event, message.seq).event = message.event
        /\ MouseMsg(p, message.event, message.seq).seq = message.seq
    BY DEF MouseMsg
  <2> QED BY <1>2, <2>1, <2>2 DEF UiSendTo, serveVars, Numbered
<1>3. CASE ServeDiscover
  <2>1. MouseStays
    BY <1>3 DEF ServeDiscover, AnnounceMsg, IsMouse
  <2> QED BY <1>3, <2>1, <1>a DEF ServeDiscover, uiVars
<1>4. ASSUME NEW p \in Peers, UiSendToFails(p) PROVE NumberInv'
  BY <1>4, <1>a DEF UiSendToFails
<1>5. CASE UiLock \/ UiUnlock
  BY <1>5, <1>a DEF UiLock, UiUnlock
<1>6. CASE UiStopStep
  BY <1>6, <1>a DEF UiStopStep, UiDestroy, UiClose, UiReset, UiJoin
<1>7. CASE ServeSetup \/ ServeLoop
  BY <1>7, <1>a DEF ServeSetup, ServeSocket, ServeSocketFails, ServeBind, ServeBindFails,
                    ServeErrorDismissed, ServeLoop, uiVars
<1>8. CASE ServeConnect \/ ServeNotify \/ ServeOther
  BY <1>8, <1>a DEF ServeConnect, ServeNotify, ServeOther, uiVars
<1> QED
  BY <1>1, <1>2, <1>3, <1>4, <1>5, <1>6, <1>7, <1>8
  DEF UiStep, UiSendStep, ServeInternal, ServeHandle

\* Every step of the system keeps the numbering.
LEMMA NumberStep == TypeOK /\ NumberInv /\ [Next]_vars => NumberInv'
<1> SUFFICES ASSUME TypeOK, NumberInv, [Next]_vars PROVE NumberInv'
  OBVIOUS
<1>1. CASE ServerNext
  BY <1>1, NumberServerStep DEF ServerNext, TypeOK
<1>2. CASE UNCHANGED <<nEvents, seqNo, message, uiPc, sent>>
  BY <1>2 DEF NumberInv, Numbered
<1>3. ServeRequest \/ ServeSocketLost \/ ServeRefused \/ UNCHANGED serverVars
        => UNCHANGED <<nEvents, seqNo, message, uiPc, sent>>
  BY DEF ServeRequest, ServeSocketLost, ServeRefused, ServeReceive, ServeReceiveShort, ServeReceiveFails,
         serverVars, uiVars
<1> QED
  BY <1>1, <1>2, <1>3
  DEF Next, ClientNext, Discover, RxEvent, RxOther, RxIgnore, RxSocketClosed, RxRefused, vars

\* Datagrams never leave the network.
LEMMA SentGrows == [Next]_vars => sent \subseteq sent'
<1>1. UiStep \/ ServeInternal => sent \subseteq sent'
  BY DEF UiStep, UiSendStep, UiStopStep, UiSend, UiLock, UiSendTo, UiSendToFails, UiUnlock,
         UiDestroy, UiClose, UiReset, UiJoin, ServeInternal, ServeSetup, ServeHandle,
         ServeSocket, ServeSocketFails, ServeBind, ServeBindFails, ServeErrorDismissed,
         ServeLoop, ServeDiscover, ServeConnect, ServeNotify, ServeOther
<1> QED
  BY <1>1
  DEF Next, ServerNext, ServeRequest, ServeSocketLost, ServeRefused, ServeReceive, ServeReceiveShort,
      ServeReceiveFails, ClientNext, Discover, RxEvent, RxOther, RxIgnore,
      RxSocketClosed, RxRefused, vars,
      serverVars

\* The events are only ever more.
LEMMA EventsGrow == TypeOK /\ [Next]_vars => nEvents \in Nat /\ nEvents <= nEvents'
<1> SUFFICES ASSUME TypeOK, [Next]_vars PROVE nEvents \in Nat /\ nEvents <= nEvents'
  OBVIOUS
<1>1. nEvents \in Nat
  BY MaxEventsAssumption DEF TypeOK, ServerTypeOK
<1>2. UiStep \/ ServeInternal => nEvents' \in {nEvents, nEvents + 1}
  BY DEF UiStep, UiSendStep, UiStopStep, UiSend, UiLock, UiSendTo, UiSendToFails, UiUnlock,
         UiDestroy, UiClose, UiReset, UiJoin, ServeInternal, ServeSetup, ServeHandle,
         ServeSocket, ServeSocketFails, ServeBind, ServeBindFails, ServeErrorDismissed,
         ServeLoop, ServeDiscover, ServeConnect, ServeNotify, ServeOther, uiVars
<1> QED
  BY <1>1, <1>2
  DEF Next, ServerNext, ServeRequest, ServeSocketLost, ServeRefused, ServeReceive, ServeReceiveShort,
      ServeReceiveFails, ClientNext, Discover, RxEvent, RxOther, RxIgnore,
      RxSocketClosed, RxRefused, vars, serverVars, uiVars

\* What one callback adds to a session: a number that comes after all the others.
LEMMA CallbackAppends ==
  ASSUME NEW s \in Seq(Nat), NEW n \in Nat, \A i \in DOMAIN s : Num(s[i]) < Num(n),
         \A i, j \in DOMAIN s : i < j => Num(s[i]) < Num(s[j])
  PROVE  /\ Len(Append(s, n)) = Len(s) + 1
         /\ \A i \in DOMAIN Append(s, n) :
                /\ Num(Append(s, n)[i]) <= Num(n)
                /\ Append(s, n)[i] = n \/ \E k \in DOMAIN s : Append(s, n)[i] = s[k]
         /\ \A i, j \in DOMAIN Append(s, n) :
                i < j => Num(Append(s, n)[i]) < Num(Append(s, n)[j])
<1>1. /\ DOMAIN s = 1 .. Len(s) /\ Len(s) \in Nat
      /\ DOMAIN Append(s, n) = 1 .. Len(s) + 1
      /\ Len(Append(s, n)) = Len(s) + 1
      /\ Append(s, n)[Len(s) + 1] = n
      /\ \A i \in 1 .. Len(s) : Append(s, n)[i] = s[i] /\ s[i] \in Nat
  OBVIOUS
<1>2. Num(n) \in Nat /\ \A i \in 1 .. Len(s) : Num(s[i]) \in Nat
  BY <1>1, NumFacts
<1> QED
  BY <1>1, <1>2

\* TrackInv for one client.
Tracked(c) ==
    /\ rxPc[c] \in {"track", "callback"} =>
           datagram[c] \in sent /\ IsMouse(datagram[c]) /\ datagram[c].to = c
    /\ rxPc[c] = "callback" =>
           /\ cSeq[c] = Num(datagram[c].event)
           /\ \A i \in DOMAIN delivered[c] : Num(delivered[c][i]) < cSeq[c]
           /\ Len(delivered[c]) < cSeq[c]
    /\ \A i \in DOMAIN delivered[c] :
           Num(delivered[c][i]) <= cSeq[c] /\ delivered[c][i] < nEvents
    /\ Len(delivered[c]) <= cSeq[c]
    /\ \A i, j \in DOMAIN delivered[c] :
           i < j => Num(delivered[c][i]) < Num(delivered[c][j])

\* A step of client c keeps its own sequence number ahead of what it delivered.
LEMMA TrackedStep ==
  ASSUME TypeOK, NumberInv, SessionInv, sent \subseteq sent',
         nEvents \in Nat, nEvents' \in Int, nEvents <= nEvents', NEW c \in Endpoints, Tracked(c),
         \/ ClientStep(c) \/ Discover(c)
         \/ RxEvent(c) \/ RxOther(c) \/ RxSocketClosed(c) \/ RxRefused(c)
  PROVE  Tracked(c)'
<1> USE DEF Tracked
<1> DEFINE Same == cSeq'[c] = cSeq[c] /\ delivered'[c] = delivered[c]
           Away == rxPc'[c] \notin {"track", "callback"}
           Kept == rxPc'[c] = rxPc[c] /\ datagram'[c] = datagram[c]
<1>t. /\ delivered[c] \in Seq(Nat) /\ cSeq[c] \in Nat
      /\ delivered = [delivered EXCEPT ![c] = delivered[c]]
  BY DEF TypeOK, ClientTypeOK, SeqNo
<1>e. /\ DOMAIN delivered[c] = 1 .. Len(delivered[c]) /\ Len(delivered[c]) \in Nat
      /\ \A i \in DOMAIN delivered[c] :
             /\ delivered[c][i] \in Nat /\ delivered[c][i] < nEvents'
             /\ Num(delivered[c][i]) \in Nat
  <2>1. DOMAIN delivered[c] = 1 .. Len(delivered[c]) /\ Len(delivered[c]) \in Nat
    BY <1>t
  <2>2. \A i \in DOMAIN delivered[c] : delivered[c][i] \in Nat
    BY <1>t, <2>1
  <2>3. \A i \in DOMAIN delivered[c] : Num(delivered[c][i]) \in Nat
    BY <2>2, NumFacts
  <2> QED BY <2>1, <2>2, <2>3
<1>a. Same /\ (Away \/ Kept) => Tracked(c)'
  BY <1>e
<1>1. CASE Connect(c)
  <2>1. rxPc'[c] = "none" /\ delivered'[c] = <<>> /\ cSeq'[c] = 0
    BY <1>1 DEF Connect, TypeOK, ClientTypeOK
  <2>2. DOMAIN delivered'[c] = {} /\ Len(delivered'[c]) = 0
    BY <2>1
  <2> QED BY <2>1, <2>2
<1>2. CASE Discover(c)
  <2>1. PICK m \in sent : DiscoverAnswer(c, m)
    BY <1>2 DEF Discover
  <2>2. rxPc'[c] = "none" /\ delivered'[c] = <<>> /\ cSeq'[c] = ntohl(m.seq)
    BY <2>1 DEF DiscoverAnswer, SessionInv, TypeOK, ClientTypeOK
  <2>3. ntohl(m.seq) \in Nat
    BY ByteOrderRoundTrip DEF TypeOK, ServerTypeOK, Datagrams, ntohl, SeqNo
  <2>4. DOMAIN delivered'[c] = {} /\ Len(delivered'[c]) = 0
    BY <2>2
  <2> QED BY <2>2, <2>3, <2>4
<1>3. CASE RxEvent(c)
  <2>1. PICK m \in sent : IsMouse(m) /\ m.to = c /\ RxReceive(c, m)
    BY <1>3 DEF RxEvent
  <2>2. Same /\ rxPc'[c] = "track" /\ datagram'[c] = m
    BY <2>1 DEF RxReceive, TypeOK, ClientTypeOK
  <2>3. (datagram[c] \in sent /\ IsMouse(datagram[c]) /\ datagram[c].to = c)'
    BY <2>1, <2>2 DEF IsMouse
  <2> QED BY <2>2, <2>3, <1>e
<1>4. CASE RxAccept(c)
  <2>1. datagram[c] \in sent /\ IsMouse(datagram[c]) /\ datagram[c].to = c
    BY <1>4 DEF RxAccept
  <2>2. ntohl(datagram[c].seq) = Num(datagram[c].event) /\ Num(datagram[c].event) \in Nat
    BY <2>1, NumberedDecodes DEF NumberInv
  <2>3. /\ cSeq'[c] = Num(datagram[c].event) /\ cSeq[c] < Num(datagram[c].event)
        /\ delivered' = delivered /\ datagram' = datagram
    BY <1>4, <2>2 DEF RxAccept, Tracks, TypeOK, ClientTypeOK
  <2>4. \A i \in DOMAIN delivered'[c] : Num(delivered'[c][i]) < cSeq'[c]
    BY <2>2, <2>3, <1>e, <1>t
  <2>5. Len(delivered'[c]) < cSeq'[c]
    BY <2>2, <2>3, <1>e, <1>t
  <2>6. (datagram[c] \in sent /\ IsMouse(datagram[c]) /\ datagram[c].to = c)'
    BY <2>1, <2>3 DEF IsMouse
  <2> QED BY <2>2, <2>3, <2>4, <2>5, <2>6, <1>e
<1>5. CASE RxCallback(c)
  <2> DEFINE n == datagram[c].event
  <2>1. delivered'[c] = Append(delivered[c], n) /\ cSeq'[c] = cSeq[c] /\ Away
    BY <1>5 DEF RxCallback, TypeOK, ClientTypeOK
  <2>2. cSeq[c] = Num(n) /\ Len(delivered[c]) < cSeq[c] /\ datagram[c] \in sent /\ IsMouse(datagram[c])
    BY <1>5 DEF RxCallback
  <2>3. \A i \in DOMAIN delivered[c] : Num(delivered[c][i]) < Num(n)
    BY <1>5, <2>2 DEF RxCallback
  <2>4. n \in Nat /\ n < nEvents
    BY <2>2, NumberedDecodes DEF NumberInv
  <2> HIDE DEF n
  <2>5. /\ Len(delivered'[c]) = Len(delivered[c]) + 1
        /\ \A i \in DOMAIN delivered'[c] :
               /\ Num(delivered'[c][i]) <= Num(n)
               /\ delivered'[c][i] = n \/ \E k \in DOMAIN delivered[c] : delivered'[c][i] = delivered[c][k]
        /\ \A i, j \in DOMAIN delivered'[c] :
               i < j => Num(delivered'[c][i]) < Num(delivered'[c][j])
    <3>1. \A i, j \in DOMAIN delivered[c] :
            i < j => Num(delivered[c][i]) < Num(delivered[c][j])
      OBVIOUS
    <3> DEFINE s == delivered[c]
    <3>2. /\ s \in Seq(Nat)
          /\ \A i \in DOMAIN s : Num(s[i]) < Num(n)
          /\ \A i, j \in DOMAIN s : i < j => Num(s[i]) < Num(s[j])
      BY <2>3, <3>1, <1>t
    <3> HIDE DEF s
    <3>3. /\ Len(Append(s, n)) = Len(s) + 1
          /\ \A i \in DOMAIN Append(s, n) :
                 /\ Num(Append(s, n)[i]) <= Num(n)
                 /\ Append(s, n)[i] = n \/ \E k \in DOMAIN s : Append(s, n)[i] = s[k]
          /\ \A i, j \in DOMAIN Append(s, n) :
                 i < j => Num(Append(s, n)[i]) < Num(Append(s, n)[j])
      BY <3>2, <2>4, CallbackAppends
    <3> QED BY <2>1, <3>3 DEF s
  <2>6. \A i \in DOMAIN delivered'[c] : delivered'[c][i] < nEvents'
    BY <2>4, <2>5, <1>e
  <2>7. Len(delivered'[c]) <= cSeq'[c]
    BY <2>1, <2>2, <2>5, <1>e, <1>t
  <2>8. \A i \in DOMAIN delivered'[c] : Num(delivered'[c][i]) <= cSeq'[c]
    BY <2>1, <2>2, <2>5
  <2> QED BY <2>1, <2>5, <2>6, <2>7, <2>8
<1>6. CASE RxLoop(c) \/ RxReject(c) \/ RxStartup(c) \/ RxStartupFails(c)
  BY <1>6, <1>a DEF RxLoop, RxReject, RxStartup, RxStartupFails, TypeOK, ClientTypeOK
<1>7. CASE RxOther(c) \/ RxSocketClosed(c) \/ RxRefused(c)
  BY <1>7, <1>a DEF RxOther, RxIgnore,
                    RxSocketClosed, RxRefused, RxReceiveFails, TypeOK, ClientTypeOK
<1>8. CASE DiscoverBroadcast(c) \/ DiscoverFails(c) \/ StartSocket(c) \/ Announce(c)
  BY <1>8, <1>a DEF DiscoverBroadcast, DiscoverFails, StartSocket, Announce
<1>9. CASE Spawn(c)
  BY <1>9, <1>a DEF Spawn, TypeOK, ClientTypeOK
<1>10. CASE Disconnect(c) \/ Close(c) \/ Join(c)
  BY <1>10, <1>a DEF Disconnect, Close, Join
<1> QED
  BY <1>1, <1>2, <1>3, <1>4, <1>5, <1>6, <1>7, <1>8, <1>9, <1>10
  DEF ClientStep, ApiConnect, ApiTeardown, RxInternal

\* A step of client c leaves the other clients' variables alone.
LEMMA OthersStay ==
  ASSUME ClientTypeOK, NEW c \in Endpoints, NEW e \in Endpoints \ {c},
         \/ ClientStep(c) \/ Discover(c)
         \/ RxEvent(c) \/ RxOther(c) \/ RxSocketClosed(c) \/ RxRefused(c)
  PROVE  /\ rxPc'[e] = rxPc[e] /\ datagram'[e] = datagram[e]
         /\ cSeq'[e] = cSeq[e] /\ delivered'[e] = delivered[e]
<1> USE DEF ClientTypeOK
<1>1. CASE Connect(c) \/ DiscoverBroadcast(c) \/ DiscoverFails(c) \/ Disconnect(c)
  BY <1>1 DEF Connect, DiscoverBroadcast, DiscoverFails, Disconnect
<1>2. CASE ApiConnect(c) \/ ApiTeardown(c)
  BY <1>2 DEF ApiConnect, ApiTeardown, StartSocket, Announce, Spawn, Close, Join
<1>3. CASE RxInternal(c)
  BY <1>3 DEF RxInternal, RxStartup, RxStartupFails, RxLoop, RxAccept, RxReject, RxCallback
<1>4. CASE Discover(c)
  BY <1>4 DEF Discover, DiscoverAnswer
<1>5. CASE RxEvent(c)
  BY <1>5 DEF RxEvent, RxReceive
<1>6. CASE RxOther(c) \/ RxSocketClosed(c) \/ RxRefused(c)
  BY <1>6 DEF RxOther, RxIgnore, RxSocketClosed, RxRefused, RxReceiveFails
<1> QED
  BY <1>1, <1>2, <1>3, <1>4, <1>5, <1>6 DEF ClientStep

\* The server's steps leave the clients alone, and clients leave each other alone.
LEMMA TrackStep ==
  TypeOK /\ NumberInv /\ SessionInv /\ TrackInv /\ [Next]_vars
    => TrackInv' /\ HeardOnce'
<1>1. TrackInv => \A c \in Endpoints : Tracked(c)
  BY DEF TrackInv, Tracked
<1>2. TypeOK' /\ (\A c \in Endpoints : Tracked(c)') => TrackInv' /\ HeardOnce'
  <2> SUFFICES ASSUME TypeOK', \A c \in Endpoints : Tracked(c)' PROVE TrackInv' /\ HeardOnce'
    OBVIOUS
  <2>1. ASSUME NEW c \in Endpoints PROVE Len(delivered'[c]) < SeqMod
    <3>1. cSeq'[c] \in 0 .. SeqMod - 1 /\ delivered'[c] \in Seq(Nat)
      BY DEF TypeOK, ClientTypeOK, SeqNo
    <3>2. Len(delivered'[c]) \in Nat /\ Len(delivered'[c]) <= cSeq'[c]
      BY <3>1 DEF Tracked
    <3>3. SeqMod \in Nat
      BY SeqNoFacts
    <3> HIDE DEF SeqMod
    <3> QED BY <3>1, <3>2, <3>3
  <2>2. TrackInv'
    BY DEF TrackInv, Tracked
  <2>3. ASSUME NEW c \in Endpoints, NEW i \in DOMAIN delivered'[c], NEW j \in DOMAIN delivered'[c],
               i # j
        PROVE  delivered'[c][i] # delivered'[c][j]
    <3>1. delivered'[c] \in Seq(Nat)
      BY DEF TypeOK, ClientTypeOK
    <3>2. i \in Int /\ j \in Int /\ delivered'[c][i] \in Nat /\ delivered'[c][j] \in Nat
      BY <3>1
    <3>3. /\ i \in Int /\ j \in Int
          /\ Num(delivered'[c][i]) \in Int /\ Num(delivered'[c][j]) \in Int
      BY <3>2, NumFacts
    <3>4. i < j \/ j < i
      BY <2>3, <3>3
    <3>5. Num(delivered'[c][i]) < Num(delivered'[c][j]) \/ Num(delivered'[c][j]) < Num(delivered'[c][i])
      BY <3>4 DEF Tracked
    <3> QED BY <3>3, <3>5
  <2> QED BY <2>1, <2>2, <2>3 DEF HeardOnce
<1> SUFFICES ASSUME TypeOK, NumberInv, SessionInv, [Next]_vars, NEW e \in Endpoints, Tracked(e)
             PROVE  Tracked(e)'
  BY <1>1, <1>2, NextTypes
<1>3. sent \subseteq sent'
  BY SentGrows
<1>n. nEvents \in Nat /\ nEvents' \in Int /\ nEvents <= nEvents'
  BY EventsGrow, NextTypes DEF TypeOK, ServerTypeOK
<1>4. CASE /\ rxPc'[e] = rxPc[e] /\ datagram'[e] = datagram[e]
           /\ cSeq'[e] = cSeq[e] /\ delivered'[e] = delivered[e]
  <2>1. \A i \in DOMAIN delivered[e] : delivered[e][i] \in Nat
    BY DEF TypeOK, ClientTypeOK
  <2>2. \A i \in DOMAIN delivered[e] : delivered[e][i] < nEvents'
    BY <2>1, <1>n DEF Tracked
  <2> QED BY <1>3, <1>4, <2>2 DEF Tracked, IsMouse
<1>5. CASE UNCHANGED clientVars
  BY <1>4, <1>5 DEF clientVars
<1>6. ASSUME NEW c \in Endpoints,
             \/ ClientStep(c) \/ Discover(c)
         \/ RxEvent(c) \/ RxOther(c) \/ RxSocketClosed(c) \/ RxRefused(c)
      PROVE  Tracked(e)'
  <2>1. CASE c = e
    BY <1>3, <1>n, <1>6, <2>1, TrackedStep
  <2>2. CASE c # e
    BY <1>4, <1>6, <2>2, OthersStay DEF TypeOK
  <2> QED BY <2>1, <2>2
<1> QED
  BY <1>5, <1>6
  DEF Next, ServerNext, ServeRequest, ServeSocketLost, ServeRefused, ClientNext, vars

\* The inductive invariant behind all that is said about the order of events.
THEOREM Invariant == Spec => []Inv
<1>1. Init => Inv
  <2> SUFFICES ASSUME Init PROVE Inv
    OBVIOUS
  <2>1. TypeOK
    BY InitTypes
  <2>2. LockInv
    BY DEF Init, ServerInit, LockInv
  <2>3. SessionInv /\ AskedInv
    BY DEF Init, ServerInit, ClientInit, SessionInv, AskedInv
  <2>4. NumberInv
    BY DEF Init, ServerInit, NumberInv, Num
  <2>5. \A c \in Endpoints : /\ rxPc[c] = "none" /\ cSeq[c] = 0
                            /\ DOMAIN delivered[c] = {} /\ Len(delivered[c]) = 0
    <3>1. SUFFICES ASSUME NEW c \in Endpoints
                   PROVE  /\ rxPc[c] = "none" /\ cSeq[c] = 0
                          /\ DOMAIN delivered[c] = {} /\ Len(delivered[c]) = 0
      OBVIOUS
    <3>2. rxPc[c] = "none" /\ cSeq[c] = 0 /\ delivered[c] = <<>>
      BY DEF Init, ClientInit
    <3> QED BY <3>2
  <2>6. TrackInv /\ HeardOnce
    BY <2>5, SeqNoFacts DEF TrackInv, HeardOnce
  <2> QED BY <2>1, <2>2, <2>3, <2>4, <2>6 DEF Inv
<1>2. Inv /\ [Next]_vars => Inv'
  <2> SUFFICES ASSUME Inv, [Next]_vars PROVE Inv'
    OBVIOUS
  <2>1. TypeOK' /\ LockInv' /\ AskedInv' /\ NumberInv'
    BY NextTypes, LockStep, AskedStep, NumberStep DEF Inv
  <2>2. SessionInv'
    BY SessionStep DEF Inv, TypeOK
  <2>3. TrackInv' /\ HeardOnce'
    BY TrackStep DEF Inv
  <2> QED BY <2>1, <2>2, <2>3 DEF Inv
<1> QED
  BY <1>1, <1>2, PTL DEF Spec

\* No application gets an event twice in one session, and none gets more events
\* than there are sequence numbers: whatever the network does, for any number of
\* clients, and although the number of the pad wraps around.
THEOREM NoEventTwice == Spec => []HeardOnce
<1>1. Inv => HeardOnce
  BY DEF Inv
<1> QED
  BY <1>1, Invariant, PTL

\* The pad sends no more events than there are sequence numbers, so that events
\* are told apart by their numbers.
NoWrap == MaxEvents <= SeqMod

\* Then every event is its own number.
LEMMA NumberedByItself ==
  ASSUME NoWrap, TypeOK, NEW n \in Nat, n < nEvents
  PROVE  Num(n) = n
<1>1. n < SeqMod
  <2>1. SeqMod \in Nat
    BY SeqNoFacts
  <2> HIDE DEF SeqMod
  <2> QED BY <2>1, MaxEventsAssumption DEF NoWrap, TypeOK, ServerTypeOK
<1> QED
  BY <1>1, NumFacts

\* Every event that was sent is its own number on the wire, too.
LEMMA SentByItself ==
  ASSUME NoWrap, Inv, NEW m \in sent, IsMouse(m)
  PROVE  m.event \in Nat /\ m.event < nEvents /\ ntohl(m.seq) = m.event /\ Num(m.event) = m.event
BY NumberedDecodes, NumberedByItself DEF Inv, NumberInv

\* And so is every event that an application got.
LEMMA DeliveredByItself ==
  ASSUME NoWrap, Inv, NEW c \in Endpoints, NEW i \in DOMAIN delivered[c]
  PROVE  delivered[c][i] \in Nat /\ Num(delivered[c][i]) = delivered[c][i]
<1>1. delivered[c] \in Seq(Nat) /\ delivered[c][i] < nEvents
  BY DEF Inv, TypeOK, ClientTypeOK, TrackInv
<1> QED
  BY <1>1, NumberedByItself DEF Inv

\* The events that an application's callbacks get in one session are in the
\* order in which the pad sent them, whatever the network does, for any number
\* of clients (track_sequence_number).
THEOREM EventsInOrder ==
  ASSUME NoWrap
  PROVE  Spec => []InOrder
<1>1. Inv => InOrder
  <2> SUFFICES ASSUME Inv, NEW c \in Endpoints, NEW i \in DOMAIN delivered[c],
                      NEW j \in DOMAIN delivered[c], i < j
               PROVE  delivered[c][i] < delivered[c][j]
    BY DEF InOrder
  <2>1. Num(delivered[c][i]) < Num(delivered[c][j])
    BY DEF Inv, TrackInv
  <2> QED BY <2>1, DeliveredByItself
<1> QED
  BY <1>1, Invariant, PTL

-----------------------------------------------------------------------------
(* What a client rejects.                                                  *)

\* The application wants to hear of moves and of buttons.
HearsAll == {"mouse_move", "mouse_button"} \subseteq Callbacks

\* The number of a client that starts from 0 is that of the last event of which
\* its application heard, or is about to hear.
HeardBy(c) ==
    /\ apiPc[c] # "discover"
    /\ IF rxPc[c] = "callback"
         THEN cSeq[c] = datagram[c].event
         ELSE cSeq[c] = 0 \/ \E i \in DOMAIN delivered[c] : delivered[c][i] = cSeq[c]

Heard == \A c \in Endpoints \ Discovering : HeardBy(c)

\* A step of client c.
LEMMA HeardOwnStep ==
  ASSUME NoWrap, HearsAll, Inv, NEW c \in Endpoints \ Discovering, HeardBy(c),
         \/ ClientStep(c) \/ Discover(c)
         \/ RxEvent(c) \/ RxOther(c) \/ RxSocketClosed(c) \/ RxRefused(c)
  PROVE  HeardBy(c)'
<1> USE DEF HeardBy
<1> DEFINE Same == cSeq'[c] = cSeq[c] /\ delivered'[c] = delivered[c]
           Away == rxPc[c] # "callback" /\ rxPc'[c] # "callback"
           Kept == rxPc'[c] = rxPc[c] /\ datagram'[c] = datagram[c]
           Goes == apiPc'[c] # "discover"
<1>t. ClientTypeOK
  BY DEF Inv, TypeOK
<1>a. Same /\ Goes /\ (Away \/ Kept) => HeardBy(c)'
  OBVIOUS
<1>1. CASE Connect(c)
  BY <1>1, <1>t DEF Connect, ClientTypeOK
<1>2. CASE DiscoverBroadcast(c) \/ DiscoverFails(c) \/ Discover(c)
  BY <1>2 DEF DiscoverBroadcast, DiscoverFails, Discover, DiscoverAnswer
<1>3. CASE StartSocket(c) \/ Announce(c) \/ Disconnect(c) \/ Close(c) \/ Join(c)
  BY <1>3, <1>t, <1>a DEF StartSocket, Announce, Disconnect, Close, Join, ClientTypeOK
<1>4. CASE Spawn(c)
  <2>1. rxPc[c] = "none"
    BY <1>4 DEF Spawn, Inv, SessionInv
  <2> QED BY <1>4, <2>1, <1>t, <1>a DEF Spawn, ClientTypeOK
<1>5. CASE RxStartup(c) \/ RxStartupFails(c) \/ RxLoop(c) \/ RxReject(c)
  BY <1>5, <1>t, <1>a DEF RxStartup, RxStartupFails, RxLoop, RxReject, ClientTypeOK
<1>6. CASE RxAccept(c)
  <2>1. datagram[c] \in sent /\ IsMouse(datagram[c])
    BY <1>6 DEF RxAccept, Inv, TrackInv
  <2>2. ntohl(datagram[c].seq) = datagram[c].event
    BY <2>1, SentByItself
  <2>3. datagram[c].id \in Callbacks
    <3>1. datagram[c].id \in {"mouse_move", "mouse_button"}
      BY <2>1 DEF Inv, TypeOK, ServerTypeOK, Datagrams, IsMouse
    <3> QED BY <3>1 DEF HearsAll
  <2> QED BY <1>6, <2>2, <2>3, <1>t DEF RxAccept, ClientTypeOK
<1>7. CASE RxCallback(c)
  <2>1. /\ cSeq'[c] = datagram[c].event /\ rxPc'[c] = "loop" /\ apiPc'[c] # "discover"
        /\ delivered'[c] = Append(delivered[c], datagram[c].event)
    BY <1>7, <1>t DEF RxCallback, ClientTypeOK
  <2>2. delivered[c] \in Seq(Nat) /\ datagram[c].event \in Nat
    BY <1>t DEF ClientTypeOK
  <2>3. /\ Len(delivered[c]) + 1 \in DOMAIN delivered'[c]
        /\ delivered'[c][Len(delivered[c]) + 1] = datagram[c].event
    BY <2>1, <2>2
  <2> QED BY <2>1, <2>3
<1>8. CASE RxEvent(c) \/ RxOther(c) \/ RxSocketClosed(c) \/ RxRefused(c)
  BY <1>8, <1>t, <1>a DEF RxEvent, RxReceive, RxOther, RxIgnore, RxSocketClosed, RxRefused,
                          RxReceiveFails, ClientTypeOK
<1> QED
  BY <1>1, <1>2, <1>3, <1>4, <1>5, <1>6, <1>7, <1>8
  DEF ClientStep, ApiConnect, ApiTeardown, RxInternal

LEMMA HeardStep == NoWrap /\ HearsAll /\ Inv /\ Heard /\ [Next]_vars => Heard'
<1> SUFFICES ASSUME NoWrap, HearsAll, Inv, [Next]_vars, NEW e \in Endpoints \ Discovering, HeardBy(e)
             PROVE  HeardBy(e)'
  BY DEF Heard
<1>1. CASE UNCHANGED clientVars
  BY <1>1 DEF clientVars, HeardBy
<1>2. ASSUME NEW c \in Endpoints,
             \/ ClientStep(c) \/ Discover(c)
             \/ RxEvent(c) \/ RxOther(c) \/ RxSocketClosed(c) \/ RxRefused(c)
      PROVE  HeardBy(e)'
  <2>1. CASE c = e
    BY <1>2, <2>1, HeardOwnStep
  <2>2. CASE c # e
    <3>1. /\ rxPc'[e] = rxPc[e] /\ datagram'[e] = datagram[e]
          /\ cSeq'[e] = cSeq[e] /\ delivered'[e] = delivered[e]
      BY <1>2, <2>2, OthersStay DEF Inv, TypeOK
    <3>2. apiPc'[e] = apiPc[e]
      BY <1>2, <2>2
      DEF Inv, TypeOK, ClientTypeOK, ClientStep, ApiConnect, ApiTeardown, RxInternal, Connect,
          DiscoverBroadcast, DiscoverFails, StartSocket, Announce, Spawn, Disconnect, Close, Join,
          RxStartup, RxStartupFails, RxLoop, RxAccept, RxReject, RxCallback, Discover,
          DiscoverAnswer, RxEvent, RxReceive, RxOther, RxIgnore, RxSocketClosed, RxRefused,
          RxReceiveFails
    <3> QED BY <3>1, <3>2 DEF HeardBy
  <2> QED BY <2>1, <2>2
<1> QED
  BY <1>1, <1>2
  DEF Next, ServerNext, ServeRequest, ServeSocketLost, ServeRefused, ClientNext, vars

\* A client that listens to everything and starts from 0 rejects no event that
\* is newer than all that it has seen in its session, except the first one of the
\* server: for any number of clients, sessions and events, and any network.
THEOREM RejectsOnlyTheOld ==
  ASSUME NoWrap, HearsAll
  PROVE  Spec => RejectsOnlyThePastOrFirst
<1>1. Init => Heard
  BY DEF Init, ClientInit, Heard, HeardBy
<1>2. ASSUME Inv, Heard, NEW c \in Endpoints \ Discovering, RxReject(c)
      PROVE  \/ datagram[c].event = 0
             \/ \E i \in DOMAIN delivered[c] : delivered[c][i] >= datagram[c].event
  <2>1. datagram[c] \in sent /\ IsMouse(datagram[c])
    BY <1>2 DEF RxReject, Inv, TrackInv
  <2>2. ntohl(datagram[c].seq) = datagram[c].event /\ datagram[c].event \in Nat
    BY <1>2, <2>1, SentByItself
  <2>3. cSeq[c] \in Nat
    BY <1>2 DEF Inv, TypeOK, ClientTypeOK, SeqNo
  <2>4. datagram[c].event <= cSeq[c]
    BY <1>2, <2>2, <2>3 DEF RxReject, Tracks
  <2>5. cSeq[c] = 0 \/ \E i \in DOMAIN delivered[c] : delivered[c][i] = cSeq[c]
    BY <1>2 DEF Heard, HeardBy, RxReject
  <2> QED BY <2>2, <2>3, <2>4, <2>5
<1>3. Spec => []Inv
  BY Invariant
<1>4. Inv /\ Heard =>
          [\A c \in Endpoints \ Discovering :
               RxReject(c) => \/ datagram[c].event = 0
                              \/ \E i \in DOMAIN delivered[c] :
                                     delivered[c][i] >= datagram[c].event]_vars
  BY <1>2
<1>5. Inv /\ Heard /\ [Next]_vars => Heard'
  BY HeardStep
<1> QED
  BY <1>1, <1>3, <1>4, <1>5, PTL DEF Spec, RejectsOnlyThePastOrFirst

-----------------------------------------------------------------------------
\* The clients' subscription, what was posted to them and what they have seen
\* change as EventFeed allows: steps of the server.
LEMMA FeedServerStep ==
  ASSUME NoWrap, Inv, UiStep \/ ServeInternal, UNCHANGED clientVars
  PROVE  [Feed!FeedNext]_(Feed!feedVars)
<1> USE DEF Feed!FeedNext, Feed!feedVars
<1> DEFINE Subs == clients \cap Endpoints
           Posted == [c \in Endpoints |-> PostedTo(c)]
<1>a. delivered' = delivered
  BY DEF clientVars
<1>b. sent' = sent => Posted' = Posted
  BY DEF PostedTo
<1>c. CASE sent' = sent /\ clients' = clients
  BY <1>a, <1>b, <1>c
<1>1. ASSUME NEW p \in Peers, UiSendTo(p) PROVE [Feed!FeedNext]_(Feed!feedVars)
  <2> DEFINE n == message.event
             d == MouseMsg(p, n, message.seq)
  <2>1. p \in Endpoints /\ p \in Subs /\ clients' = clients /\ sent' = sent \cup {d}
    BY <1>1 DEF UiSendTo, Inv, LockInv
  <2>2. n \in Nat /\ nEvents = n + 1 /\ n < MaxEvents /\ n \in Events
    BY <1>1, MaxEventsAssumption
    DEF UiSendTo, Inv, NumberInv, TypeOK, ServerTypeOK, Numbered, SeqNo, Events
  <2>3. \A m \in sent : IsMouse(m) => m.event \in Nat /\ m.event <= n
    BY <2>2 DEF Inv, NumberInv, Numbered, SeqNo
  <2>4. \A q \in Endpoints : \A k \in Posted[q] : k <= n
    BY <2>3 DEF PostedTo
  <2>5. IsMouse(d) /\ d.to = p /\ d.event = n
    BY DEF MouseMsg, IsMouse, Kind
  <2>6. ASSUME NEW c \in Endpoints
        PROVE  PostedTo(c)' = IF c = p THEN PostedTo(c) \cup {n} ELSE PostedTo(c)
    BY <2>1, <2>5 DEF PostedTo, IsMouse
  <2>7. Posted' = [Posted EXCEPT ![p] = @ \cup {n}]
    BY <2>1, <2>6
  <2>8. Feed!Post(p, n)
    BY <1>a, <2>1, <2>4, <2>7 DEF Feed!Post
  <2> QED BY <2>1, <2>2, <2>8
<1>2. ASSUME NEW p \in Peers, UiSendToFails(p) PROVE [Feed!FeedNext]_(Feed!feedVars)
  <2>1. clients' = clients \ {p} /\ sent' = sent
    BY <1>2 DEF UiSendToFails
  <2>2. CASE p \in Endpoints
    <3>1. Feed!Drop(p)
      BY <1>a, <1>b, <2>1, <2>2 DEF Feed!Drop
    <3> QED BY <3>1, <2>2
  <2>3. CASE p \notin Endpoints
    BY <1>a, <1>b, <2>1, <2>3
  <2> QED BY <2>2, <2>3
<1>3. CASE ServeConnect
  <2>1. clients' = clients \cup {peer} /\ sent' = sent
    BY <1>3 DEF ServeConnect
  <2>2. CASE peer \in Endpoints
    <3>1. Feed!Subscribe(peer)
      BY <1>a, <1>b, <2>1, <2>2 DEF Feed!Subscribe
    <3> QED BY <3>1, <2>2
  <2>3. CASE peer \notin Endpoints
    BY <1>a, <1>b, <2>1, <2>3
  <2> QED BY <2>2, <2>3
<1>4. CASE ServeDiscover
  <2>1. clients' = clients
    BY <1>4 DEF ServeDiscover
  <2>2. {m \in sent' : IsMouse(m)} = {m \in sent : IsMouse(m)}
    BY <1>4 DEF ServeDiscover, AnnounceMsg, IsMouse
  <2>3. \A c \in Endpoints : PostedTo(c)' = PostedTo(c)
    BY <2>2 DEF PostedTo, IsMouse
  <2> QED BY <1>a, <2>1, <2>3
<1>5. CASE UiSend \/ UiLock \/ UiUnlock \/ UiStopStep
  BY <1>5, <1>c
  DEF UiSend, UiLock, UiUnlock, UiStopStep, UiDestroy, UiClose, UiReset, UiJoin
<1>6. CASE ServeSetup \/ ServeLoop \/ ServeNotify \/ ServeOther
  BY <1>6, <1>c
  DEF ServeSetup, ServeSocket, ServeSocketFails, ServeBind, ServeBindFails,
      ServeErrorDismissed, ServeLoop, ServeNotify, ServeOther
<1> QED
  BY <1>1, <1>2, <1>3, <1>4, <1>5, <1>6
  DEF UiStep, UiSendStep, ServeInternal, ServeHandle

\* The same for the steps of a client.
LEMMA FeedClientStep ==
  ASSUME NoWrap, Inv, UNCHANGED serverVars, NEW c \in Endpoints,
         \/ ClientStep(c) \/ Discover(c)
         \/ RxEvent(c) \/ RxOther(c) \/ RxSocketClosed(c) \/ RxRefused(c)
  PROVE  [Feed!FeedNext]_(Feed!feedVars)
<1> USE DEF Feed!FeedNext, Feed!feedVars
<1> DEFINE Posted == [e \in Endpoints |-> PostedTo(e)]
<1>a. clients' = clients /\ Posted' = Posted
  BY DEF serverVars, PostedTo
<1>b. CASE delivered' = delivered
  BY <1>a, <1>b
<1>1. CASE Connect(c)
  <2>1. Feed!Restart(c)
    BY <1>1, <1>a DEF Connect, Feed!Restart
  <2> QED BY <2>1
<1>2. CASE RxCallback(c)
  <2> DEFINE n == datagram[c].event
  <2>1. /\ datagram[c] \in sent /\ IsMouse(datagram[c]) /\ datagram[c].to = c
    BY <1>2 DEF RxCallback, Inv, TrackInv
  <2>2. n \in PostedTo(c)
    BY <2>1 DEF PostedTo
  <2>o. \A i \in DOMAIN delivered[c] : delivered[c][i] < n
    <3>1. cSeq[c] = n
      BY <1>2, <2>1, SentByItself DEF RxCallback, Inv, TrackInv
    <3> QED BY <3>1, <1>2, DeliveredByItself DEF RxCallback, Inv, TrackInv
  <2>3. n \in Events
    BY <2>1, MaxEventsAssumption
    DEF Inv, NumberInv, TypeOK, ServerTypeOK, Numbered, SeqNo, Events
  <2>4. Feed!Deliver(c, n)
    BY <1>2, <1>a, <2>1, <2>2, <2>o DEF RxCallback, Feed!Deliver
  <2> QED BY <2>3, <2>4
<1>3. CASE RxLoop(c) \/ RxAccept(c) \/ RxReject(c) \/ RxStartup(c) \/ RxStartupFails(c)
  BY <1>3, <1>b DEF RxLoop, RxAccept, RxReject, RxStartup, RxStartupFails
<1>4. CASE Discover(c) \/ RxEvent(c) \/ RxOther(c) \/ RxSocketClosed(c) \/ RxRefused(c)
  BY <1>4, <1>b
  DEF Discover, DiscoverAnswer, RxEvent, RxReceive, RxOther, RxIgnore,
      RxSocketClosed, RxRefused, RxReceiveFails
<1>5. CASE DiscoverBroadcast(c) \/ DiscoverFails(c) \/ ApiConnect(c)
  BY <1>5, <1>b DEF DiscoverBroadcast, DiscoverFails, ApiConnect, StartSocket, Announce, Spawn
<1>6. CASE Disconnect(c) \/ ApiTeardown(c)
  BY <1>6, <1>b DEF Disconnect, ApiTeardown, Close, Join
<1> QED
  BY <1>1, <1>2, <1>3, <1>4, <1>5, <1>6 DEF ClientStep, RxInternal

\* The pad, the network and the client library together implement EventFeed:
\* every application sees a subsequence of what was posted to it in order.
THEOREM ImplementsFeed ==
  ASSUME NoWrap
  PROVE  Spec => FeedSpec
<1>1. Init => Feed!FeedInit
  BY DEF Init, ServerInit, ClientInit, Feed!FeedInit, PostedTo
<1>2. Inv /\ [Next]_vars => [Feed!FeedNext]_(Feed!feedVars)
  <2> SUFFICES ASSUME Inv, [Next]_vars PROVE [Feed!FeedNext]_(Feed!feedVars)
    OBVIOUS
  <2>1. CASE ServerNext
    BY <2>1, FeedServerStep DEF ServerNext
  <2>2. ASSUME NEW c \in Endpoints,
               \/ ClientNext(c) \/ Discover(c)
               \/ RxEvent(c) \/ RxOther(c) \/ RxSocketClosed(c) \/ RxRefused(c)
        PROVE  [Feed!FeedNext]_(Feed!feedVars)
    <3>1. UNCHANGED serverVars /\ (ClientNext(c) => ClientStep(c))
      BY <2>2 DEF ClientNext, Discover, RxEvent, RxOther, RxIgnore, RxSocketClosed, RxRefused
    <3> QED BY <2>2, <3>1, FeedClientStep
  <2>3. UNCHANGED <<clients, sent, delivered>> => UNCHANGED Feed!feedVars
    BY DEF Feed!feedVars, PostedTo
  <2>4. CASE ServeRequest \/ ServeSocketLost \/ ServeRefused \/ UNCHANGED vars
    BY <2>3, <2>4
    DEF ServeRequest, ServeSocketLost, ServeRefused, ServeReceive, ServeReceiveShort, ServeReceiveFails,
        vars, serverVars, clientVars
  <2> QED BY <2>1, <2>2, <2>4 DEF Next
<1> QED
  BY <1>1, <1>2, Invariant, PTL DEF Spec, FeedSpec, Feed!FeedSpec

-----------------------------------------------------------------------------
(* Lifecycle.                                                              *)

Announced == {ntohl(m.seq) : m \in {d \in sent : d.id = "announce"}}
Receiving == [c \in Endpoints |-> rxPc[c] \notin {"none", "done"}]
Phases    == [c \in Endpoints |-> Phase(c)]

\* The pad announces numbers, and never takes one back.
LEMMA LifecycleServerStep ==
  ASSUME TypeOK, [Next]_vars, UNCHANGED clientVars
  PROVE  Life!PadAnnounces
<1>1. Announced \subseteq Announced'
  BY SentGrows DEF Announced, ntohl
<1>2. Announced' \subseteq Nat
  BY NextTypes, ByteOrderRoundTrip DEF Announced, TypeOK, ServerTypeOK, Datagrams, ntohl, SeqNo
<1> QED
  BY <1>1, <1>2 DEF Life!PadAnnounces, Announced, clientVars, Phase

\* mmp_connect(), mmp_disconnect() and the receiver do what Lifecycle allows.
LEMMA LifecycleClientStep ==
  ASSUME ClientTypeOK, SessionInv, UNCHANGED serverVars, NEW c \in Endpoints,
         \/ ClientStep(c) \/ Discover(c)
         \/ RxEvent(c) \/ RxOther(c) \/ RxSocketClosed(c) \/ RxRefused(c)
  PROVE  [Life!LifecycleNext]_(Life!lifecycleVars)
<1> USE DEF ClientTypeOK
<1> DEFINE Stays == UNCHANGED <<Phases, cSeq, Receiving, Announced>>
<1>a. Announced' = Announced
  BY DEF serverVars, Announced, ntohl
<1>b. Stays => UNCHANGED Life!lifecycleVars
  BY DEF Life!lifecycleVars, Phases, Receiving, Announced
<1>c. ASSUME \/ Life!Connect(c) \/ Life!Find(c) \/ Life!Fail(c) \/ Life!Start(c)
             \/ Life!Accept(c) \/ Life!ReceiverEnds(c) \/ Life!Disconnect(c) \/ Life!Return(c)
      PROVE  Life!LifecycleNext
  BY <1>c DEF Life!LifecycleNext
<1>p. apiPc' = apiPc => Phases' = Phases
  BY DEF Phases, Phase
<1>q. ASSUME NEW p, apiPc' = [apiPc EXCEPT ![c] = p]
      PROVE  Phases' = [Phases EXCEPT ![c] = Phase(c)'] /\ apiPc'[c] = p
  BY <1>q DEF Phases, Phase
<1>r. rxPc' = rxPc => Receiving' = Receiving
  BY DEF Receiving
<1>s. ASSUME NEW p, rxPc' = [rxPc EXCEPT ![c] = p]
      PROVE  Receiving' = [Receiving EXCEPT ![c] = p \notin {"none", "done"}]
  BY <1>s DEF Receiving
<1>1. CASE Connect(c)
  <2>1. PICK pc \in {"discover", "start", "failed"} : apiPc' = [apiPc EXCEPT ![c] = pc]
    BY <1>1 DEF Connect
  <2>2. Phases' = [Phases EXCEPT ![c] = Phase(c)'] /\ apiPc'[c] = pc
    BY <2>1, <1>q
  <2>3. Phase(c)' \in {"discovering", "starting", "failed"} /\ Phases[c] = "idle"
    BY <1>1, <2>2 DEF Connect, Phase, Phases
  <2>4. Receiving' = Receiving
    BY <1>1, <1>s DEF Connect, SessionInv, Receiving
  <2>5. Life!Connect(c)
    BY <1>1, <1>a, <2>2, <2>3, <2>4
    DEF Life!Connect, Life!Goes, Connect, Phases, Receiving, Announced
  <2> QED BY <2>5, <1>c
<1>2. CASE DiscoverBroadcast(c)
  BY <1>2, <1>a, <1>b, <1>p, <1>r DEF DiscoverBroadcast
<1>3. CASE Discover(c)
  <2>1. PICK m \in sent : DiscoverAnswer(c, m)
    BY <1>3 DEF Discover
  <2>2. Phases' = [Phases EXCEPT ![c] = "starting"] /\ Phases[c] = "discovering"
    BY <2>1, <1>q DEF DiscoverAnswer, Phase, Phases
  <2>3. ntohl(m.seq) \in Announced /\ cSeq' = [cSeq EXCEPT ![c] = ntohl(m.seq)]
    BY <2>1 DEF DiscoverAnswer, Announced
  <2>4. Receiving' = Receiving
    BY <2>1, <1>r DEF DiscoverAnswer
  <2>5. Life!Find(c)
    BY <1>a, <2>2, <2>3, <2>4 DEF Life!Find, Life!Goes, Phases, Receiving, Announced
  <2> QED BY <2>5, <1>c
<1>4. ASSUME apiPc[c] \in {"discover", "start", "announce", "spawn"},
             apiPc' = [apiPc EXCEPT ![c] = "failed"], UNCHANGED <<rxPc, cSeq>>
      PROVE  Life!LifecycleNext
  <2>1. Phases' = [Phases EXCEPT ![c] = "failed"] /\ Phases[c] \in {"discovering", "starting"}
    BY <1>4, <1>q DEF Phase, Phases
  <2>2. Life!Fail(c)
    BY <1>4, <1>a, <1>r, <2>1 DEF Life!Fail, Life!Goes, Phases, Receiving, Announced
  <2> QED BY <2>2, <1>c
<1>5. CASE DiscoverFails(c)
  BY <1>4, <1>5 DEF DiscoverFails
<1>6. ASSUME NEW p \in {"announce", "spawn"}, apiPc[c] \in {"start", "announce"},
             apiPc' = [apiPc EXCEPT ![c] = p], UNCHANGED <<rxPc, cSeq>>
      PROVE  UNCHANGED Life!lifecycleVars
  <2>1. Phases' = [Phases EXCEPT ![c] = "starting"] /\ Phases[c] = "starting"
    BY <1>6, <1>q DEF Phase, Phases
  <2>2. Phases' = Phases
    BY <2>1 DEF Phases
  <2> QED BY <1>6, <1>a, <1>b, <1>r, <2>2
<1>7. CASE StartSocket(c)
  BY <1>4, <1>6, <1>7 DEF StartSocket
<1>8. CASE Announce(c)
  BY <1>4, <1>6, <1>8 DEF Announce
<1>9. CASE Spawn(c)
  <2>1. CASE /\ rxPc' = [rxPc EXCEPT ![c] = "startup"]
             /\ apiPc' = [apiPc EXCEPT ![c] = "connected"]
    <3>1. Phases' = [Phases EXCEPT ![c] = "connected"] /\ Phases[c] = "starting"
      BY <1>9, <2>1, <1>q DEF Spawn, Phase, Phases
    <3>2. Receiving' = [Receiving EXCEPT ![c] = TRUE]
      <4>1. ("startup" \notin {"none", "done"}) = TRUE
        OBVIOUS
      <4>2. Receiving' = [Receiving EXCEPT ![c] = "startup" \notin {"none", "done"}]
        BY <2>1, <1>s
      <4> QED BY <4>1, <4>2, Zenon
    <3>3. Life!Start(c)
      BY <1>9, <1>a, <3>1, <3>2 DEF Life!Start, Life!Goes, Spawn, Phases, Receiving, Announced
    <3> QED BY <3>3, <1>c
  <2>2. CASE apiPc' = [apiPc EXCEPT ![c] = "failed"] /\ UNCHANGED rxPc
    BY <1>4, <1>9, <2>2 DEF Spawn
  <2> QED BY <1>9, <2>1, <2>2 DEF Spawn
<1>10. CASE Disconnect(c)
  <2>1. Phases' = [Phases EXCEPT ![c] = "disconnecting"] /\ Phases[c] \in {"connected", "failed"}
    BY <1>10, <1>q DEF Disconnect, Phase, Phases
  <2>2. Life!Disconnect(c)
    BY <1>10, <1>a, <1>r, <2>1
    DEF Life!Disconnect, Life!Goes, Disconnect, Phases, Receiving, Announced
  <2> QED BY <2>2, <1>c
<1>11. CASE Close(c)
  <2>1. Phases' = [Phases EXCEPT ![c] = "disconnecting"] /\ Phases[c] = "disconnecting"
    BY <1>11, <1>q DEF Close, Phase, Phases
  <2>2. Phases' = Phases
    BY <2>1 DEF Phases
  <2> QED BY <1>11, <1>a, <1>b, <1>r, <2>2 DEF Close
<1>12. CASE Join(c)
  <2>1. Phases' = [Phases EXCEPT ![c] = "idle"] /\ Phases[c] = "disconnecting"
    BY <1>12, <1>q DEF Join, Phase, Phases
  <2>2. ~Receiving[c]
    BY <1>12 DEF Join, ReceiverGone, Receiving
  <2>3. Life!Return(c)
    BY <1>12, <1>a, <1>r, <2>1, <2>2
    DEF Life!Return, Life!Goes, Join, Phases, Receiving, Announced
  <2> QED BY <2>3, <1>c
<1>13. ASSUME NEW p \in {"startup", "loop", "receive", "track", "callback"},
              rxPc[c] \in {"startup", "loop", "receive", "track", "callback"},
              rxPc' = [rxPc EXCEPT ![c] = p]
       PROVE  Receiving' = Receiving
  BY <1>13, <1>s DEF Receiving
<1>14. ASSUME rxPc' = [rxPc EXCEPT ![c] = "done"], UNCHANGED <<apiPc, cSeq>>
       PROVE  Life!LifecycleNext
  <2>1. Receiving' = [Receiving EXCEPT ![c] = FALSE]
    BY <1>14, <1>s
  <2>2. Life!ReceiverEnds(c)
    BY <1>14, <1>a, <1>p, <2>1 DEF Life!ReceiverEnds, Phases, Receiving, Announced
  <2> QED BY <2>2, <1>c
<1>15. CASE RxStartup(c)
  BY <1>15, <1>13, <1>a, <1>b, <1>p DEF RxStartup
<1>16. CASE RxStartupFails(c)
  BY <1>16, <1>14 DEF RxStartupFails
<1>17. CASE RxLoop(c)
  BY <1>17, <1>13, <1>14, <1>a, <1>b, <1>p DEF RxLoop
<1>18. CASE RxAccept(c)
  <2>1. PICK p \in {"callback", "loop"} : rxPc' = [rxPc EXCEPT ![c] = p]
    BY <1>18 DEF RxAccept
  <2>2. Receiving' = Receiving /\ Receiving[c]
    BY <1>18, <2>1, <1>13 DEF RxAccept, Receiving
  <2>3. /\ cSeq' = [cSeq EXCEPT ![c] = cSeq'[c]]
        /\ cSeq'[c] \in Nat /\ cSeq'[c] > cSeq[c]
    <3>1. ntohl(datagram[c].seq) \in Nat
      BY ByteOrderRoundTrip DEF ntohl, SeqNo
    <3> QED BY <1>18, <3>1 DEF RxAccept, Tracks
  <2>4. Life!Accept(c)
    BY <1>18, <1>a, <1>p, <2>2, <2>3 DEF Life!Accept, RxAccept, Phases, Receiving, Announced
  <2> QED BY <2>4, <1>c
<1>19. CASE RxReject(c) \/ RxCallback(c)
  BY <1>19, <1>13, <1>a, <1>b, <1>p DEF RxReject, RxCallback
<1>20. CASE RxEvent(c) \/ RxOther(c)
  BY <1>20, <1>13, <1>a, <1>b, <1>p DEF RxEvent, RxReceive, RxOther, RxIgnore
<1>21. CASE RxSocketClosed(c) \/ RxRefused(c)
  BY <1>21, <1>14 DEF RxSocketClosed, RxRefused, RxReceiveFails
<1> QED
  BY <1>1, <1>2, <1>3, <1>5, <1>7, <1>8, <1>9, <1>10, <1>11, <1>12, <1>15, <1>16,
     <1>17, <1>18, <1>19, <1>20, <1>21
  DEF ClientStep, ApiConnect, ApiTeardown, RxInternal

\* The client library keeps its promises to the application, for any number of
\* clients and whatever the pad and the network do: mmp_connect() leaves a
\* receiver only where it succeeds, and none is left when mmp_disconnect()
\* returns (mmpcli.cpp, mmp_client::start, ~mmp_client).
THEOREM ImplementsLifecycle == Spec => LifecycleSpec
<1>1. Init => Life!LifecycleInit
  <2> SUFFICES ASSUME Init PROVE Life!LifecycleInit
    OBVIOUS
  <2>1. Phases = [c \in Endpoints |-> "idle"] /\ Receiving = [c \in Endpoints |-> FALSE]
    BY DEF Init, ClientInit, Phases, Phase, Receiving
  <2>2. Announced \subseteq Nat
    BY DEF Init, ServerInit, Announced
  <2> QED BY <2>1, <2>2 DEF Init, ClientInit, Life!LifecycleInit, Phases, Receiving, Announced
<1>2. TypeOK /\ SessionInv /\ [Next]_vars => [Life!LifecycleNext]_(Life!lifecycleVars)
  <2> SUFFICES ASSUME TypeOK, SessionInv, [Next]_vars
               PROVE  [Life!LifecycleNext]_(Life!lifecycleVars)
    OBVIOUS
  <2>1. CASE UNCHANGED clientVars
    BY <2>1, LifecycleServerStep DEF Life!LifecycleNext
  <2>2. ASSUME NEW c \in Endpoints,
               \/ ClientNext(c) \/ Discover(c)
               \/ RxEvent(c) \/ RxOther(c) \/ RxSocketClosed(c) \/ RxRefused(c)
        PROVE  [Life!LifecycleNext]_(Life!lifecycleVars)
    <3>1. UNCHANGED serverVars /\ (ClientNext(c) => ClientStep(c))
      BY <2>2 DEF ClientNext, Discover, RxEvent, RxOther, RxSocketClosed, RxRefused
    <3> QED BY <2>2, <3>1, LifecycleClientStep DEF TypeOK
  <2> QED BY <2>1, <2>2
    DEF Next, ServerNext, ServeRequest, ServeSocketLost, ServeRefused, vars
<1>3. Init => SessionInv
  BY DEF Init, ClientInit, SessionInv
<1>4. TypeOK /\ SessionInv /\ [Next]_vars => SessionInv'
  BY SessionStep DEF TypeOK
<1> QED
  BY <1>1, <1>2, <1>3, <1>4, TypeCorrect, PTL DEF Spec, LifecycleSpec, Life!LifecycleSpec
=============================================================================
