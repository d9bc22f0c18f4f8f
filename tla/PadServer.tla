----------------------------- MODULE PadServer -----------------------------
(***************************************************************************)
(* The UDP server of the magic mouse pad: server.h and server.cpp.         *)
(*                                                                         *)
(* Two threads share one server object.  The UI thread constructs it,      *)
(* calls send() from its window procedure for every mouse event, and runs  *)
(* the destructor.  The thread of serve() creates and binds the socket,    *)
(* then answers discovery requests and registers clients until it is told  *)
(* to stop.                                                                *)
(*                                                                         *)
(* "sent" holds every datagram the server passed to sendto() and never     *)
(* shrinks: a peer may read any of it at any time, more than once or       *)
(* never, which is how UDP loses, duplicates, delays and reorders.         *)
(***************************************************************************)
EXTENDS Wire

\* An operator whose name has an underscore is a mutant of the operator that
\* follows: a plausible mistake, used to show that a property would notice it.

CONSTANTS
    Garbage,       \* what a sockaddr_storage holds before it is written
    EarlierEvents, \* mouse events of the pad before the first application came
    MaxEvents,     \* bound: mouse events sent, the earlier ones included
    ButtonEvents,  \* numbers of the events that are button events
    ShortSenders   \* machines that may send datagrams too short to hold an id

ASSUME GarbageAssumption == Garbage \notin Endpoints
ASSUME MaxEventsAssumption == MaxEvents \in Nat /\ EarlierEvents \in 0 .. MaxEvents
ASSUME ShortSendersAssumption == ShortSenders \subseteq Endpoints

VARIABLES
    running,   \* _running
    socket,    \* _socket: "none", "open", "bound" or "closed"
    seqNo,     \* _sequence_number
    clients,   \* _clients
    lock,      \* holder of _lock: "free", "ui" or "serve"
    uiPc,      \* where the UI thread is
    message,   \* the event the UI thread is sending: its number and the
               \*   sequence number put on the wire
    todo,      \* the clients send() has still to visit
    servePc,   \* where serve() is
    buffer,    \* message id at the start of serve()'s buffer
    peer,      \* serve()'s peer
    sent,      \* every datagram passed to sendto()
    nEvents,   \* number of events sent so far (history)
    fresh      \* whether the last recvfrom() filled the buffer (history)

uiVars     == <<uiPc, message, todo, nEvents>>
serveVars  == <<servePc, buffer, peer, fresh>>
serverVars == <<running, socket, seqNo, clients, lock, sent, uiVars, serveVars>>

Events == 0 .. MaxEvents - 1
Peers  == Endpoints \cup {Garbage}

\* The ids serve() tells apart; "other" is any id it ignores.
RequestIds == {"discover", "connect", "other"}

Kind(n) == IF n \in ButtonEvents THEN "mouse_button" ELSE "mouse_move"

\* A mouse event and an announcement as they are on the wire.  The number of
\* the event is not part of it; it tells us which event a datagram carries.
MouseMsg(to, n, seq) == [id |-> Kind(n), to |-> to, event |-> n, seq |-> seq]
AnnounceMsg(to, seq) == [id |-> "announce", to |-> to, event |-> 0, seq |-> seq]

Datagrams == [id : {"mouse_move", "mouse_button", "announce"},
              to : Peers, event : Nat, seq : SeqNo]

IsMouse_Any(m) == TRUE

IsMouse(m) == m.id # "announce"

\* send() without a client takes a sequence number and does nothing else, so
\* the earlier events leave no other trace.
ServerInit ==
    /\ running = TRUE
    /\ socket = "none"
    /\ seqNo = EarlierEvents % SeqMod
    /\ clients = {}
    /\ lock = "free"
    /\ uiPc = "idle"
    /\ message = [event |-> 0, seq |-> 0]
    /\ todo = {}
    /\ servePc = "socket"
    /\ buffer \in RequestIds      \* neither the buffer nor the peer
    /\ peer = Garbage             \* is initialised
    /\ sent = {}
    /\ nEvents = EarlierEvents
    /\ fresh = FALSE

LockFree_NoGuard == TRUE

LockFree == lock = "free"

-----------------------------------------------------------------------------
(* The UI thread: send(TMessage&), send(const char *, int), ~server().     *)

WireSeq_HostOrder == seqNo

WireSeq == htonl(seqNo)

\* send() takes its sequence number before it takes the lock.
UiSend ==
    /\ uiPc = "idle"
    /\ nEvents < MaxEvents
    /\ message' = [event |-> nEvents, seq |-> WireSeq]
    /\ seqNo' = (seqNo + 1) % SeqMod
    /\ nEvents' = nEvents + 1
    /\ uiPc' = "lock"
    /\ UNCHANGED <<running, socket, clients, lock, sent, todo, serveVars>>

Addressees_Everybody == Endpoints

Addressees == clients

UiLock ==
    /\ uiPc = "lock"
    /\ LockFree
    /\ lock' = "ui"
    /\ todo' = Addressees
    /\ uiPc' = "broadcast"
    /\ UNCHANGED <<running, socket, seqNo, clients, sent, message, nEvents, serveVars>>

\* sendto() works: the address is one of a machine and the socket is open.
UiSendTo(p) ==
    /\ uiPc = "broadcast"
    /\ p \in todo \cap Endpoints
    /\ socket \in {"open", "bound"}
    /\ sent' = sent \cup {MouseMsg(p, message.event, message.seq)}
    /\ todo' = todo \ {p}
    /\ UNCHANGED <<running, socket, seqNo, clients, lock, uiPc, message, nEvents, serveVars>>

\* sendto() fails, for whatever reason: the client is removed.
UiSendToFails(p) ==
    /\ uiPc = "broadcast"
    /\ p \in todo
    /\ clients' = clients \ {p}
    /\ todo' = todo \ {p}
    /\ UNCHANGED <<running, socket, seqNo, lock, sent, uiPc, message, nEvents, serveVars>>

UiUnlock ==
    /\ uiPc = "broadcast"
    /\ todo = {}
    /\ lock' = "free"
    /\ uiPc' = "idle"
    /\ UNCHANGED <<running, socket, seqNo, clients, sent, message, todo, nEvents, serveVars>>

UiDestroy ==
    /\ uiPc = "idle"
    /\ running' = FALSE
    /\ uiPc' = "close"
    /\ UNCHANGED <<socket, seqNo, clients, lock, sent, message, todo, nEvents, serveVars>>

\* _socket.reset() closes the handle it reads, then writes "none".  serve()
\* may write the member in between: nothing synchronises the two.
UiClose ==
    /\ uiPc = "close"
    /\ socket' = IF socket \in {"open", "bound"} THEN "closed" ELSE socket
    /\ uiPc' = "reset"
    /\ UNCHANGED <<running, seqNo, clients, lock, sent, message, todo, nEvents, serveVars>>

UiReset ==
    /\ uiPc = "reset"
    /\ socket' = "none"
    /\ uiPc' = "join"
    /\ UNCHANGED <<running, seqNo, clients, lock, sent, message, todo, nEvents, serveVars>>

UiJoin ==
    /\ uiPc = "join"
    /\ servePc = "done"
    /\ uiPc' = "gone"
    /\ UNCHANGED <<running, socket, seqNo, clients, lock, sent, message, todo, nEvents, serveVars>>

-----------------------------------------------------------------------------
(* The thread of serve().                                                  *)

\* WSAStartup() and WSASocket().
ServeSocket ==
    /\ servePc = "socket"
    /\ socket' = "open"
    /\ servePc' = "bind"
    /\ UNCHANGED <<running, seqNo, clients, lock, sent, uiVars, buffer, peer, fresh>>

ServeSocketFails ==
    /\ servePc = "socket"
    /\ servePc' = "error"
    /\ UNCHANGED <<running, socket, seqNo, clients, lock, sent, uiVars, buffer, peer, fresh>>

\* bind(), after coercing the family and falling back to the default port.
ServeBind ==
    /\ servePc = "bind"
    /\ socket = "open"
    /\ socket' = "bound"
    /\ servePc' = "loop"
    /\ UNCHANGED <<running, seqNo, clients, lock, sent, uiVars, buffer, peer, fresh>>

\* bind() fails: the port is taken, or the destructor closed the socket.
ServeBindFails ==
    /\ servePc = "bind"
    /\ servePc' = "error"
    /\ UNCHANGED <<running, socket, seqNo, clients, lock, sent, uiVars, buffer, peer, fresh>>

\* The user dismisses the message box that shows the exception.
ServeErrorDismissed ==
    /\ servePc = "error"
    /\ servePc' = "done"
    /\ UNCHANGED <<running, socket, seqNo, clients, lock, sent, uiVars, buffer, peer, fresh>>

KeepsServing_Forever == TRUE

KeepsServing == running

ServeLoop ==
    /\ servePc = "loop"
    /\ servePc' = IF KeepsServing THEN "receive" ELSE "done"
    /\ UNCHANGED <<running, socket, seqNo, clients, lock, sent, uiVars, buffer, peer, fresh>>

\* recvfrom() returns a datagram of peer p.
ServeReceive(id, p) ==
    /\ servePc = "receive"
    /\ socket = "bound"
    /\ buffer' = id
    /\ peer' = p
    /\ fresh' = TRUE
    /\ servePc' = "dispatch"
    /\ UNCHANGED <<running, socket, seqNo, clients, lock, sent, uiVars>>

\* A datagram of peer p that is too short to hold an id is skipped, but what
\* there is of it has replaced the first bytes of the buffer, and p is in peer.
ServeReceiveShort(p) ==
    /\ servePc = "receive"
    /\ socket = "bound"
    /\ buffer' \in RequestIds
    /\ peer' = p
    /\ fresh' = FALSE
    /\ servePc' = "loop"
    /\ UNCHANGED <<running, socket, seqNo, clients, lock, sent, uiVars>>

\* recvfrom() fails with -1.  The test "cnt < sizeof(mmp_msg_id)" is unsigned,
\* so -1 passes it and the previous contents of the buffer are dispatched
\* again.  p is what the call left in peer.
ServeReceiveFails(p) ==
    /\ servePc = "receive"
    /\ peer' = p
    /\ fresh' = FALSE
    /\ servePc' = "dispatch"
    /\ UNCHANGED <<running, socket, seqNo, clients, lock, sent, uiVars, buffer>>

\* The announcement carries the next sequence number as it is in memory.
\* sendto() to something that is no address fails, unnoticed.
ServeDiscover ==
    /\ servePc = "dispatch"
    /\ buffer = "discover"
    /\ sent' = IF peer \in Endpoints /\ socket = "bound"
                 THEN sent \cup {AnnounceMsg(peer, seqNo)} ELSE sent
    /\ servePc' = "loop"
    /\ UNCHANGED <<running, socket, seqNo, clients, lock, uiVars, buffer, peer, fresh>>

Registers_ByDefault == buffer \in {"connect", "other"}

Registers == buffer = "connect"

\* The lock is held until ServeNotify.
ServeConnect ==
    /\ servePc = "dispatch"
    /\ Registers
    /\ LockFree
    /\ lock' = "serve"
    /\ clients' = clients \cup {peer}
    /\ servePc' = "notify"
    /\ UNCHANGED <<running, socket, seqNo, sent, uiVars, buffer, peer, fresh>>

SendMessageReturns_Window == uiPc = "idle"

\* SendMessage() returns at once for a null window and for any other when the
\* thread that owns the window is back in its message loop.  mouse_pad::create
\* passes no window, so _window is null.
SendMessageReturns == TRUE

ServeNotify ==
    /\ servePc = "notify"
    /\ SendMessageReturns
    /\ lock' = "free"
    /\ servePc' = "loop"
    /\ UNCHANGED <<running, socket, seqNo, clients, sent, uiVars, buffer, peer, fresh>>

ServeOther ==
    /\ servePc = "dispatch"
    /\ buffer = "other"
    /\ servePc' = "loop"
    /\ UNCHANGED <<running, socket, seqNo, clients, lock, sent, uiVars, buffer, peer, fresh>>

-----------------------------------------------------------------------------
UiSendStep  == UiSend \/ UiLock \/ (\E p \in Peers : UiSendTo(p) \/ UiSendToFails(p)) \/ UiUnlock
UiStopStep  == UiDestroy \/ UiClose \/ UiReset \/ UiJoin
UiStep      == UiSendStep \/ UiStopStep
ServeSetup  == ServeSocket \/ ServeSocketFails \/ ServeBind \/ ServeBindFails \/ ServeErrorDismissed
ServeHandle == ServeDiscover \/ ServeConnect \/ ServeNotify \/ ServeOther
ServeInternal == ServeSetup \/ ServeLoop \/ ServeHandle

ServerTypeOK ==
    /\ running \in BOOLEAN
    /\ socket \in {"none", "open", "bound", "closed"}
    /\ seqNo \in SeqNo
    /\ clients \subseteq Peers
    /\ lock \in {"free", "ui", "serve"}
    /\ uiPc \in {"idle", "lock", "broadcast", "close", "reset", "join", "gone"}
    /\ message \in [event : Nat, seq : SeqNo]
    /\ todo \subseteq Peers
    /\ servePc \in {"socket", "bind", "error", "loop", "receive", "dispatch", "notify", "done"}
    /\ buffer \in RequestIds
    /\ peer \in Peers
    /\ sent \subseteq Datagrams
    /\ nEvents \in 0 .. MaxEvents
    /\ fresh \in BOOLEAN
=============================================================================
