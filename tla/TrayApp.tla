------------------------------ MODULE TrayApp ------------------------------
(***************************************************************************)
(* The tray application: magicmouse.cpp and tray_window.cpp.  It moves the *)
(* local mouse as the pad says; "Subscribe" in its menu connects it to the *)
(* pad once more and then drops the client it had.                         *)
(*                                                                         *)
(* A session is one client object: mmp_connect() makes it and starts its   *)
(* receiver thread, mmp_disconnect() destroys it.  If mmp_connect() fails, *)
(* the object is never destroyed.                                          *)
(*                                                                         *)
(* The message box for a failed subscription takes messages like the main  *)
(* loop, and nothing is left to do when it closes: it is the state "idle". *)
(* What a client does with a message is the subject of MmpClient; here a   *)
(* message is only the number that the pad gave it, in the byte order of   *)
(* the network.  The pad and the network are external: a datagram may be   *)
(* lost or overtaken.                                                      *)
(***************************************************************************)
EXTENDS ByteOrder, FiniteSets

\* An operator whose name has an underscore is a mutant of the operator that
\* follows.

CONSTANTS
    MaxSessions,   \* bound: subscriptions of the user
    EarlierEvents, \* messages of the pad before the program started
    MaxEvents      \* bound: messages of the pad, the earlier ones included

\* The numbers of the messages do not wrap.
ASSUME BoundsAssumption ==
    MaxSessions \in Nat /\ MaxEvents \in 0 .. SeqMod /\ EarlierEvents \in 0 .. MaxEvents

Sessions == 1 .. MaxSessions
NoSession == 0
Events == 0 .. MaxEvents - 1

VARIABLES
    uiPc,         \* where the user interface's thread is
    mousePad,     \* _mouse_pad
    victim,       \* the client whose destructor runs
    quitting,     \* whether the main loop has ended
    clients,      \* number of client objects that mmp_connect() has made
    running,      \* _running of each client
    socket,       \* _socket of each client: "none", "open" or "closed"
    seqNo,        \* _sequence_number of each client
    receiver,     \* where the receiver thread of each client is
    buffer,       \* the number in the message that it has received
    winsock,      \* references that the process has to Winsock (external)
    inbox,        \* datagrams on their way to each session (external)
    events,       \* messages that the pad has sent, which is the number of the
                  \*   next one (external)
    restTop       \* the newest message that has moved the mouse since the
                  \*   thread came to rest (history)

uiVars == <<uiPc, mousePad, victim, quitting, clients>>
sessionVars == <<running, socket, receiver>>
messageVars == <<seqNo, buffer, inbox>>
vars == <<uiVars, sessionVars, messageVars, events, winsock, restTop>>

\* The thread takes messages: it is in the main loop, or in a message box.
AtRest == uiPc = "idle"

Init ==
    /\ uiPc = "create"
    /\ mousePad = NoSession
    /\ victim = NoSession
    /\ quitting = FALSE
    /\ clients = 0
    /\ running = [s \in Sessions |-> FALSE]
    /\ socket = [s \in Sessions |-> "none"]
    /\ seqNo = [s \in Sessions |-> 0]
    /\ receiver = [s \in Sessions |-> "none"]
    /\ buffer = [s \in Sessions |-> 0]
    /\ winsock = 1                        \* of _tWinMain()
    /\ inbox = [s \in Sessions |-> {}]
    /\ events = EarlierEvents
    /\ restTop = 0

-----------------------------------------------------------------------------
(* The menu.                                                               *)

\* tray_window::create(): an end point in the registry that cannot be parsed
\* ends the program.
Create ==
    /\ uiPc = "create"
    /\ \/ uiPc' = "idle" /\ UNCHANGED quitting
       \/ uiPc' = "final" /\ quitting' = TRUE
    /\ UNCHANGED <<mousePad, victim, clients, sessionVars, messageVars,
                   events, winsock, restTop>>

Subscribe ==
    /\ AtRest
    /\ clients < MaxSessions
    /\ clients' = clients + 1
    /\ uiPc' = "startup"
    /\ restTop' = 0
    /\ UNCHANGED <<mousePad, victim, quitting, sessionVars, messageVars,
                   events, winsock>>

\* The main loop ends, and the tray window with its client is destroyed.
Exit ==
    /\ AtRest
    /\ quitting' = TRUE
    /\ victim' = mousePad
    /\ mousePad' = NoSession
    /\ uiPc' = IF mousePad = NoSession THEN "final" ELSE "stop"
    /\ restTop' = 0
    /\ UNCHANGED <<clients, sessionVars, messageVars, events, winsock>>

\* The clean-up of _tWinMain().
Final ==
    /\ uiPc = "final"
    /\ uiPc' = "done"
    /\ winsock' = winsock - 1
    /\ UNCHANGED <<mousePad, victim, quitting, clients, sessionVars,
                   messageVars, events, restTop>>

-----------------------------------------------------------------------------
(* mmp_connect(), for the client that was made last.                       *)

Current == clients

\* Every step may fail.  The error becomes an exception in connect(), which
\* forgets the client, and then a message box.
Fails == uiPc' = "idle"

Startup ==
    /\ uiPc = "startup"
    /\ \/ uiPc' = "discover" /\ winsock' = winsock + 1
       \/ Fails /\ UNCHANGED winsock
    /\ UNCHANGED <<mousePad, victim, quitting, clients, sessionVars,
                   messageVars, events, restTop>>

\* The pad announces the number of its next message in its own byte order, and
\* the client applies ntohl() to it all the same.
Announcements == {ntohl(n % SeqMod) : n \in EarlierEvents .. events}

\* discover() leaves the sequence number of the announcement in the client, if
\* there is one.  Without a timeout nothing makes sure that it returns.
Discover ==
    /\ uiPc = "discover"
    /\ \/ /\ uiPc' = "socket"
          /\ \/ \E n \in Announcements : seqNo' = [seqNo EXCEPT ![Current] = n]
             \/ UNCHANGED seqNo           \* the server is configured
       \/ Fails /\ UNCHANGED seqNo
    /\ UNCHANGED <<mousePad, victim, quitting, clients, sessionVars, buffer, inbox,
                   events, winsock, restTop>>

\* What lies in a socket that is closed, or that nobody receives from any more.
NobodyReads(s) == inbox' = [inbox EXCEPT ![s] = {}]

\* start(): the socket is made, and bound.
OpenSocket ==
    /\ uiPc = "socket"
    /\ running' = [running EXCEPT ![Current] = TRUE]
    /\ \/ uiPc' = "announce" /\ socket' = [socket EXCEPT ![Current] = "open"]
       \/ /\ Fails
          /\ \E state \in {"none", "open"} : socket' = [socket EXCEPT ![Current] = state]
    /\ UNCHANGED <<mousePad, victim, quitting, clients, receiver,
                   messageVars, events, winsock, restTop>>

Announce_Spawned ==
    /\ uiPc = "announce"
    /\ receiver' = [receiver EXCEPT ![Current] = "startup"]
    /\ uiPc' = "replace" \/ Fails
    /\ UNCHANGED <<mousePad, victim, quitting, clients, running, socket,
                   messageVars, events, winsock, restTop>>

\* start(): the connect request, after which the pad may send.
Announce ==
    /\ uiPc = "announce"
    /\ uiPc' = "spawn" \/ Fails
    /\ UNCHANGED <<mousePad, victim, quitting, clients, running, socket,
                   receiver, messageVars, events, winsock, restTop>>

Spawn ==
    /\ uiPc = "spawn"
    /\ \/ /\ uiPc' = "replace"
          /\ receiver' = [receiver EXCEPT ![Current] = "startup"]
          /\ UNCHANGED inbox
       \/ Fails /\ NobodyReads(Current) /\ UNCHANGED receiver
    /\ UNCHANGED <<mousePad, victim, quitting, clients, running, socket,
                   seqNo, buffer, events, winsock, restTop>>

\* The handle replaces the one before, which is then destroyed.
Replace ==
    /\ uiPc = "replace"
    /\ mousePad' = Current
    /\ victim' = mousePad
    /\ uiPc' = IF mousePad = NoSession THEN "idle" ELSE "stop"
    /\ UNCHANGED <<quitting, clients, sessionVars, messageVars, events,
                   winsock, restTop>>

-----------------------------------------------------------------------------
(* ~mmp_client().                                                          *)

Stop ==
    /\ uiPc = "stop"
    /\ running' = [running EXCEPT ![victim] = FALSE]
    /\ uiPc' = "close"
    /\ UNCHANGED <<mousePad, victim, quitting, clients, socket, receiver,
                   messageVars, events, winsock, restTop>>

Close_Skipped ==
    /\ uiPc = "close"
    /\ uiPc' = "join"
    /\ UNCHANGED <<mousePad, victim, quitting, clients, sessionVars,
                   messageVars, events, winsock, restTop>>

Close ==
    /\ uiPc = "close"
    /\ socket' = [socket EXCEPT ![victim] = "closed"]
    /\ NobodyReads(victim)
    /\ uiPc' = "join"
    /\ UNCHANGED <<mousePad, victim, quitting, clients, running, receiver,
                   seqNo, buffer, events, winsock, restTop>>

Join_Detached ==
    /\ uiPc = "join"
    /\ uiPc' = "cleanup"
    /\ UNCHANGED <<mousePad, victim, quitting, clients, sessionVars,
                   messageVars, events, winsock, restTop>>

Join ==
    /\ uiPc = "join"
    /\ receiver[victim] = "gone"
    /\ uiPc' = "cleanup"
    /\ UNCHANGED <<mousePad, victim, quitting, clients, sessionVars,
                   messageVars, events, winsock, restTop>>

CleanUp_Kept ==
    /\ uiPc = "cleanup"
    /\ victim' = NoSession
    /\ uiPc' = IF quitting THEN "final" ELSE "idle"
    /\ UNCHANGED <<mousePad, quitting, clients, sessionVars, messageVars,
                   events, winsock, restTop>>

CleanUp ==
    /\ uiPc = "cleanup"
    /\ winsock' = winsock - 1
    /\ victim' = NoSession
    /\ uiPc' = IF quitting THEN "final" ELSE "idle"
    /\ UNCHANGED <<mousePad, quitting, clients, sessionVars, messageVars,
                   events, restTop>>

-----------------------------------------------------------------------------
(* The receiver thread of a session: receive().                            *)

ReceiverStarts(s) ==
    /\ receiver[s] = "startup"
    /\ \/ /\ receiver' = [receiver EXCEPT ![s] = "loop"]
          /\ winsock' = winsock + 1
          /\ UNCHANGED inbox
       \/ /\ receiver' = [receiver EXCEPT ![s] = "gone"]
          /\ NobodyReads(s)
          /\ UNCHANGED winsock
    /\ UNCHANGED <<uiVars, running, socket, seqNo, buffer, events, restTop>>

Loop(s) ==
    /\ receiver[s] = "loop"
    /\ receiver' = [receiver EXCEPT ![s] = IF running[s] THEN "receive" ELSE "leave"]
    /\ UNCHANGED <<uiVars, running, socket, messageVars,
                   events, winsock, restTop>>

Receive(s) ==
    /\ receiver[s] = "receive"
    /\ socket[s] = "open"
    /\ \E n \in inbox[s] :
           /\ buffer' = [buffer EXCEPT ![s] = n]
           /\ inbox' = [inbox EXCEPT ![s] = @ \ {n}]
    /\ receiver' = [receiver EXCEPT ![s] = "handle"]
    /\ UNCHANGED <<uiVars, running, socket, seqNo, events,
                   winsock, restTop>>

\* recvfrom() fails, as it does when the socket has been closed.
ReceiveFails(s) ==
    /\ receiver[s] = "receive"
    /\ receiver' = [receiver EXCEPT ![s] = "leave"]
    /\ NobodyReads(s)
    /\ UNCHANGED <<uiVars, running, socket, seqNo, buffer,
                   events, winsock, restTop>>

Number(s) == ntohl(buffer[s])

\* A message that is news moves the mouse, or presses or releases a button,
\* unless on_mouse_button() does not know the button.
Handle(s) ==
    /\ receiver[s] = "handle"
    /\ receiver' = [receiver EXCEPT ![s] = "loop"]
    /\ IF Number(s) > seqNo[s]
         THEN /\ seqNo' = [seqNo EXCEPT ![s] = Number(s)]
              /\ restTop' \in (IF AtRest THEN {Number(s), restTop} ELSE {0})
         ELSE UNCHANGED <<seqNo, restTop>>
    /\ buffer' = [buffer EXCEPT ![s] = 0]  \* not read again
    /\ UNCHANGED <<uiVars, running, socket, inbox, events,
                   winsock>>

Leave(s) ==
    /\ receiver[s] = "leave"
    /\ receiver' = [receiver EXCEPT ![s] = "gone"]
    /\ winsock' = winsock - 1
    /\ UNCHANGED <<uiVars, running, socket, messageVars,
                   events, restTop>>

-----------------------------------------------------------------------------
(* The pad and the network.                                                *)

\* A message goes to the sessions whose request the pad has got; it forgets none.
\* What nobody will receive is left out.
Receives(s) ==
    /\ socket[s] = "open"
    /\ receiver[s] \in {"startup", "loop", "receive", "handle"} \/ (s = Current /\ uiPc = "spawn")

PadSends_HostOrder ==
    /\ events < MaxEvents
    /\ events' = events + 1
    /\ \E reached \in SUBSET {s \in Sessions : Receives(s)} :
           inbox' = [s \in Sessions |->
                        IF s \in reached THEN inbox[s] \cup {events} ELSE inbox[s]]
    /\ UNCHANGED <<uiVars, sessionVars, seqNo, buffer, winsock, restTop>>

PadSends ==
    /\ events < MaxEvents
    /\ events' = events + 1
    /\ \E reached \in SUBSET {s \in Sessions : Receives(s)} :
           inbox' = [s \in Sessions |->
                        IF s \in reached THEN inbox[s] \cup {htonl(events)} ELSE inbox[s]]
    /\ UNCHANGED <<uiVars, sessionVars, seqNo, buffer, winsock, restTop>>

-----------------------------------------------------------------------------
MmpConnect == Startup \/ OpenSocket \/ Announce \/ Spawn

MmpDisconnect == Stop \/ Close \/ Join \/ CleanUp

UserInterface == Create \/ MmpConnect \/ Replace \/ MmpDisconnect \/ Final

Receiver(s) ==
    ReceiverStarts(s) \/ Loop(s) \/ Receive(s) \/ ReceiveFails(s) \/ Handle(s) \/ Leave(s)

Next ==
    \/ UserInterface \/ Discover
    \/ Subscribe \/ Exit
    \/ \E s \in Sessions : Receiver(s)
    \/ PadSends

Spec == Init /\ [][Next]_vars

\* The threads keep running.  recvfrom() on an open socket may wait forever;
\* on a closed one it fails.  A discovery without a deadline may last forever.
Awake(s) ==
    \/ ReceiverStarts(s) \/ Loop(s) \/ Handle(s) \/ Leave(s)
    \/ socket[s] = "closed" /\ ReceiveFails(s)

FairSpec ==
    Spec /\ WF_vars(UserInterface) /\ \A s \in Sessions : WF_vars(Awake(s))

-----------------------------------------------------------------------------
UiStates == {"create", "idle", "startup", "discover", "socket", "announce", "spawn",
             "replace", "stop", "close", "join", "cleanup", "final", "done"}
ReceiverStates == {"none", "startup", "loop", "receive", "handle", "leave", "gone"}

TypeOK ==
    /\ uiPc \in UiStates
    /\ mousePad \in 0 .. clients
    /\ victim \in 0 .. clients
    /\ quitting \in BOOLEAN
    /\ clients \in 0 .. MaxSessions
    /\ running \in [Sessions -> BOOLEAN]
    /\ socket \in [Sessions -> {"none", "open", "closed"}]
    /\ seqNo \in [Sessions -> SeqNo]
    /\ receiver \in [Sessions -> ReceiverStates]
    /\ buffer \in [Sessions -> SeqNo]
    /\ winsock \in Int
    /\ inbox \in [Sessions -> SUBSET {htonl(n) : n \in Events}]
    /\ events \in EarlierEvents .. MaxEvents
    /\ restTop \in SeqNo

Alive(s) == receiver[s] \notin {"none", "gone"}

\* While the user interface is at rest only the client it holds can move the
\* mouse, however many subscriptions have failed or were replaced; and when the
\* program has ended, none can.
OneInjectorAtRest ==
    /\ AtRest => \A s \in Sessions : Alive(s) => s = mousePad
    /\ uiPc \in {"final", "done"} => \A s \in Sessions : ~Alive(s)

\* While the user interface is at rest the mouse never goes back: what moves it
\* is newer than all that has moved it since.  (While a new client replaces an
\* old one, both move it.)
NoJumpBackAtRest ==
    [][\A s \in Sessions :
           AtRest /\ Handle(s) /\ seqNo'[s] # seqNo[s] => Number(s) > restTop]_vars

\* Who has a reference to Winsock: a receiver while it runs, the program until
\* it ends, and a client from its WSAStartup() to the end of its destructor.
Held == Cardinality({s \in Sessions : receiver[s] \in {"loop", "receive", "handle", "leave"}})

One(condition) == IF condition THEN 1 ELSE 0

InUse ==
    Held + One(uiPc # "done")
         + One(mousePad # NoSession)
         + One(victim # NoSession)
         + One(uiPc \in {"discover", "socket", "announce", "spawn", "replace"})

\* The clients that mmp_connect() has failed for.
Failed ==
    {s \in 1 .. clients :
        /\ receiver[s] = "none"
        /\ ~(s = Current /\ uiPc \in {"startup", "discover", "socket", "announce", "spawn"})}

\* Nobody uses Winsock without a reference, and a reference that nobody uses is
\* that of a client that mmp_connect() has failed for, after its WSAStartup():
\* all others are given back.
WinsockSuffices == winsock \in InUse .. InUse + Cardinality(Failed)

-----------------------------------------------------------------------------
(* The client objects that the tray application makes implement Lifecycle. *)

Phase(s) ==
    IF s = clients /\ uiPc \in {"startup", "discover"} THEN "discovering"
    ELSE IF s = clients /\ uiPc \in {"socket", "announce", "spawn"} THEN "starting"
    ELSE IF s = mousePad \/ (s = clients /\ uiPc = "replace") THEN "connected"
    ELSE IF s = victim THEN "disconnecting"
    ELSE IF s <= clients /\ receiver[s] = "none" THEN "failed"
    ELSE "idle"

Life == INSTANCE Lifecycle WITH
    Clients   <- Sessions,
    phase     <- [s \in Sessions |-> Phase(s)],
    last      <- seqNo,
    receiving <- [s \in Sessions |-> Alive(s)],
    announced <- Announcements

LifecycleSpec == Life!LifecycleSpec

-----------------------------------------------------------------------------
\* Neither a subscription nor the exit hangs, wherever the old receiver is and
\* whatever it does; for discover() itself see Discovery.
UserInterfaceReturns == uiPc \notin {"idle", "discover"} ~> uiPc \in {"idle", "discover", "done"}
=============================================================================
