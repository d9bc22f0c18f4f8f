--------------------------- MODULE TrayApp_proofs ---------------------------
(***************************************************************************)
(* Whatever the number of subscriptions and of messages: at rest only the  *)
(* client that the tray application holds moves the mouse, and it never    *)
(* moves it back.                                                          *)
(***************************************************************************)
EXTENDS TrayApp, ByteOrder_proofs, FiniteSetTheorems, TLAPS

\* The receiver threads that there are belong to the client that is held, to
\* the one that is destroyed, or to the one that has just connected.
Holders ==
    {mousePad, victim} \cup (IF uiPc = "replace" THEN {clients} ELSE {})

Subscribing == {"startup", "discover", "socket", "announce", "spawn"}
Destroying == {"stop", "close", "join", "cleanup"}

Accounted == \A s \in Sessions : Alive(s) => s \in Holders

\* A client has no receiver before mmp_connect() has come to its end.
NotYet ==
    \A s \in Sessions :
        (s > clients \/ (s = clients /\ uiPc \in Subscribing)) => receiver[s] = "none"

Victims ==
    /\ victim # NoSession <=> uiPc \in Destroying
    /\ uiPc = "cleanup" => receiver[victim] = "gone"

Ends ==
    /\ quitting => mousePad = NoSession /\ uiPc \in Destroying \cup {"final", "done"}
    /\ uiPc \in {"final", "done"} => quitting
    /\ uiPc = "create" => mousePad = NoSession

\* Where the mouse has come to since the thread is at rest.
Newest ==
    /\ ~AtRest => restTop = 0
    /\ AtRest /\ mousePad # NoSession => restTop <= seqNo[mousePad]
    /\ mousePad = NoSession => restTop = 0

\* During mmp_connect() the client that is held is an older one.
Older == uiPc \in Subscribing \cup {"replace"} => mousePad < clients

IInv == TypeOK /\ Accounted /\ NotYet /\ Victims /\ Ends /\ Older /\ Newest

-----------------------------------------------------------------------------
(* Types.                                                                  *)

WireNumbers == {htonl(n) : n \in Events}

\* Sequence numbers remain sequence numbers in either byte order.
LEMMA Numbers ==
  /\ SeqNo \subseteq Nat /\ 0 \in SeqNo
  /\ \A n \in Nat : n % SeqMod \in SeqNo
  /\ \A n \in SeqNo : htonl(n) \in SeqNo /\ ntohl(n) \in SeqNo
  /\ MaxSessions \in Nat /\ MaxEvents \in Nat /\ EarlierEvents \in 0 .. MaxEvents
  /\ Events \subseteq SeqNo /\ WireNumbers \subseteq SeqNo
<1>1. SeqMod \in Nat \ {0}
  <2>1. Radix \in Nat /\ Radix > 1
    BY RadixAssumption
  <2>2. ASSUME NEW a \in Nat, a > 0 PROVE Radix * a \in Nat /\ Radix * a > 0
    BY <2>1, <2>2
  <2>3. Radix * Radix \in Nat /\ Radix * Radix > 0
    BY <2>1, <2>2
  <2>4. Radix * (Radix * Radix) \in Nat /\ Radix * (Radix * Radix) > 0
    BY <2>2, <2>3
  <2> QED BY <2>2, <2>4 DEF SeqMod
<1>2. \A n \in SeqNo : htonl(n) \in SeqNo /\ ntohl(n) \in SeqNo
  BY ByteOrderRoundTrip DEF ntohl
<1>3. MaxSessions \in Nat /\ MaxEvents \in 0 .. SeqMod /\ EarlierEvents \in 0 .. MaxEvents
  BY BoundsAssumption DEF BoundsAssumption
<1>4. SeqNo \subseteq Nat /\ 0 \in SeqNo /\ Events \subseteq SeqNo
  BY <1>1, <1>3 DEF SeqNo, Events
<1>5. \A n \in Nat : n % SeqMod \in SeqNo
  BY <1>1, ModFacts DEF SeqNo
<1> QED BY <1>1, <1>2, <1>3, <1>4, <1>5 DEF WireNumbers

LEMMA BoundIsNat == MaxSessions \in Nat
BY BoundsAssumption DEF BoundsAssumption

LEMMA SmallFacts == MaxSessions \in Nat /\ \A n \in SeqNo : n \in Nat /\ 0 <= n
BY Numbers

\* What the pad may have announced is a set of sequence numbers that grows.
LEMMA AnnouncementTypes ==
  ASSUME events \in EarlierEvents .. MaxEvents
  PROVE  Announcements \subseteq SeqNo
<1>1. \A n \in EarlierEvents .. events : n % SeqMod \in SeqNo
  BY Numbers
<1> QED BY <1>1, Numbers DEF Announcements

LEMMA InitTypes == Init => TypeOK /\ Older
<1> SUFFICES ASSUME Init PROVE TypeOK /\ Older
  OBVIOUS
<1> USE Numbers DEF Init
<1>1. uiPc \in UiStates /\ mousePad \in 0 .. clients /\ victim \in 0 .. clients
      /\ clients \in 0 .. MaxSessions
  BY DEF UiStates, NoSession
<1>5. quitting \in BOOLEAN
  OBVIOUS
<1>2. running \in [Sessions -> BOOLEAN] /\ socket \in [Sessions -> {"none", "open", "closed"}]
      /\ receiver \in [Sessions -> ReceiverStates]
  BY DEF ReceiverStates
<1>3. seqNo \in [Sessions -> SeqNo] /\ buffer \in [Sessions -> SeqNo]
      /\ inbox \in [Sessions -> SUBSET WireNumbers]
  OBVIOUS
<1>4. winsock \in Int /\ events \in EarlierEvents .. MaxEvents /\ restTop \in SeqNo
  OBVIOUS
<1> QED BY <1>1, <1>2, <1>3, <1>4, <1>5 DEF TypeOK, Older, Subscribing, WireNumbers

\* A step of the user interface's thread, or of its user, keeps the types.
LEMMA UiTypes ==
  ASSUME TypeOK, Older, UserInterface \/ Discover \/ Subscribe \/ Exit
  PROVE  TypeOK'
<1> USE Numbers
    DEF TypeOK, Sessions, NoSession, UiStates, AtRest, Fails, Current, NobodyReads,
        uiVars, sessionVars, messageVars
<1>1. CASE Create
  BY <1>1 DEF Create
<1>2. CASE Startup
  BY <1>2 DEF Startup
<1>3. CASE OpenSocket
  BY <1>3 DEF OpenSocket
<1>4. CASE Announce
  BY <1>4 DEF Announce
<1>5. CASE Spawn
  BY <1>5 DEF Spawn, ReceiverStates
<1>6. CASE Replace
  BY <1>6 DEF Replace
<1>7. CASE Stop
  BY <1>7 DEF Stop
<1>8. CASE Close
  BY <1>8 DEF Close
<1>9. CASE Join
  BY <1>9 DEF Join
<1>10. CASE CleanUp
  BY <1>10 DEF CleanUp
<1>11. CASE Final
  BY <1>11 DEF Final
<1>12. CASE Discover
  <2>1. ASSUME NEW n \in Announcements, seqNo' = [seqNo EXCEPT ![Current] = n]
        PROVE  seqNo' \in [Sessions -> SeqNo]
    <3>1. n \in SeqNo
      BY AnnouncementTypes
    <3> QED BY <2>1, <3>1
  <2>2. seqNo' \in [Sessions -> SeqNo]
    BY <1>12, <2>1 DEF Discover
  <2> QED BY <1>12, <2>2 DEF Discover
<1>13. CASE Subscribe
  BY <1>13 DEF Subscribe
<1>14. CASE Exit
  BY <1>14 DEF Exit
<1> QED
  BY <1>1, <1>2, <1>3, <1>4, <1>5, <1>6, <1>7, <1>8, <1>9, <1>10, <1>11, <1>12, <1>13, <1>14
  DEF UserInterface, MmpConnect, MmpDisconnect

\* So does a step of a receiver.
LEMMA ReceiverTypes ==
  ASSUME TypeOK, NEW s \in Sessions, Receiver(s)
  PROVE  TypeOK'
<1>1. UNCHANGED <<uiVars, running, socket, events>>
  BY DEF Receiver, ReceiverStarts, Loop, Receive, ReceiveFails, Handle, Leave
<1>2. PICK state \in ReceiverStates : receiver' = [receiver EXCEPT ![s] = state]
  BY DEF Receiver, ReceiverStarts, Loop, Receive, ReceiveFails, Handle, Leave, ReceiverStates
<1>3. receiver' \in [Sessions -> ReceiverStates]
  BY <1>2 DEF TypeOK
<1>4. winsock' \in Int
  BY DEF TypeOK, Receiver, ReceiverStarts, Loop, Receive, ReceiveFails, Handle, Leave
<1>5. /\ seqNo' \in [Sessions -> SeqNo] /\ buffer' \in [Sessions -> SeqNo]
      /\ inbox' \in [Sessions -> SUBSET WireNumbers] /\ restTop' \in SeqNo
  <2>1. CASE Receive(s)
    <3>1. PICK n \in inbox[s] : /\ buffer' = [buffer EXCEPT ![s] = n]
                                /\ inbox' = [inbox EXCEPT ![s] = inbox[s] \ {n}]
      BY <2>1 DEF Receive
    <3>2. n \in SeqNo
      BY Numbers DEF TypeOK, WireNumbers
    <3> QED BY <2>1, <3>1, <3>2 DEF Receive, TypeOK, WireNumbers
  <2>2. CASE Handle(s)
    <3>1. buffer' \in [Sessions -> SeqNo]
      BY <2>2, Numbers DEF Handle, TypeOK
    <3>2. Number(s) \in SeqNo
      BY Numbers DEF Number, TypeOK
    <3>3. seqNo' \in [Sessions -> SeqNo]
      BY <2>2, <3>2 DEF Handle, TypeOK
    <3>4. restTop' \in SeqNo
      BY <2>2, <3>2, Numbers DEF Handle, TypeOK
    <3> QED BY <2>2, <3>1, <3>3, <3>4 DEF Handle, TypeOK, WireNumbers
  <2>3. CASE ~Receive(s) /\ ~Handle(s)
    BY <2>3 DEF TypeOK, WireNumbers, NobodyReads, messageVars, Receiver, ReceiverStarts, Loop,
                ReceiveFails, Leave
  <2> QED BY <2>1, <2>2, <2>3
<1> QED BY <1>1, <1>3, <1>4, <1>5 DEF TypeOK, WireNumbers, uiVars

\* And the pad and the network do.
LEMMA NetworkTypes ==
  ASSUME TypeOK, PadSends
  PROVE  TypeOK'
<1>1. events \in Events /\ events' \in EarlierEvents .. MaxEvents
  BY Numbers DEF PadSends, TypeOK, Events
<1>2. inbox' \in [Sessions -> SUBSET WireNumbers]
  <2>1. htonl(events) \in WireNumbers /\ inbox \in [Sessions -> SUBSET WireNumbers]
    BY <1>1 DEF TypeOK, WireNumbers
  <2> QED BY <2>1 DEF PadSends
<1>3. UNCHANGED <<uiVars, sessionVars, seqNo, buffer, winsock, restTop>>
  BY DEF PadSends
<1> QED BY <1>1, <1>2, <1>3 DEF TypeOK, WireNumbers, uiVars, sessionVars

\* During mmp_connect() the handle still is that of an older client.
LEMMA OlderStep == TypeOK /\ Older /\ [Next]_vars => Older'
<1> SUFFICES ASSUME TypeOK, Older, [Next]_vars PROVE Older'
  OBVIOUS
<1> USE BoundIsNat DEF TypeOK, Older, Subscribing, NoSession, uiVars
<1>1. CASE Subscribe
  BY <1>1 DEF Subscribe
<1>2. CASE Discover
  BY <1>2 DEF Discover, Fails
<1>3. CASE MmpConnect
  BY <1>3 DEF MmpConnect, Startup, OpenSocket, Announce, Spawn, Fails
<1>4. CASE Create \/ Replace \/ MmpDisconnect \/ Final \/ Exit
  BY <1>4 DEF Create, Replace, MmpDisconnect, Stop, Close, Join, CleanUp, Final, Exit
<1>5. ASSUME NEW s \in Sessions, Receiver(s) PROVE Older'
  BY <1>5 DEF Receiver, ReceiverStarts, Loop, Receive, ReceiveFails, Handle, Leave
<1>6. CASE PadSends
  BY <1>6 DEF PadSends
<1>7. CASE UNCHANGED vars
  BY <1>7 DEF vars
<1> QED BY <1>1, <1>2, <1>3, <1>4, <1>5, <1>6, <1>7 DEF Next, UserInterface

LEMMA TypeStep == TypeOK /\ Older /\ [Next]_vars => TypeOK'
<1> SUFFICES ASSUME TypeOK, Older, [Next]_vars PROVE TypeOK'
  OBVIOUS
<1>1. CASE UNCHANGED vars
  BY <1>1 DEF TypeOK, vars, uiVars, sessionVars, messageVars
<1> QED
  BY <1>1, UiTypes, ReceiverTypes, NetworkTypes DEF Next

\* The variables keep their types, for any number of subscriptions and messages.
THEOREM TypeCorrect == Spec => []TypeOK
<1> QED BY InitTypes, TypeStep, OlderStep, PTL DEF Spec

-----------------------------------------------------------------------------
(* The inductive invariant.                                                *)

\* What IInv says beyond the types.
Rest == Accounted /\ NotYet /\ Victims /\ Ends /\ Newest

LEMMA InitInv == Init => IInv
<1> SUFFICES ASSUME Init PROVE Rest
  BY InitTypes DEF IInv, Rest
<1> QED
  BY DEF Init, Rest, Accounted, NotYet, Victims, Ends, Newest, Alive, Subscribing, Destroying,
         NoSession, AtRest, Sessions

\* The steps of the menu.
LEMMA MenuStep ==
  ASSUME IInv, Create \/ Subscribe \/ Exit \/ Final
  PROVE  Rest'
<1> USE DEF IInv, Rest, Accounted, NotYet, Victims, Ends, Newest, Older, Alive, Holders, Subscribing,
            Destroying, AtRest, NoSession, uiVars, sessionVars, messageVars
<1>1. CASE Create
  BY <1>1 DEF Create, TypeOK
<1>2. CASE Subscribe
  BY <1>2 DEF Subscribe, TypeOK, Sessions
<1>3. CASE Exit
  BY <1>3 DEF Exit, Sessions
<1>4. CASE Final
  BY <1>4 DEF Final
<1> QED BY <1>1, <1>2, <1>3, <1>4

\* The steps of mmp_connect(), and of the assignment that follows it.
LEMMA ConnectStep ==
  ASSUME IInv, MmpConnect \/ Discover
  PROVE  Rest'
<1> USE DEF IInv, NoSession, Current, Fails, uiVars, sessionVars, messageVars
<1>1. UNCHANGED <<mousePad, victim, quitting, clients, restTop>>
  BY DEF MmpConnect, Startup, Discover, OpenSocket, Announce, Spawn
<1>2. uiPc \in Subscribing /\ uiPc' \in Subscribing \cup {"idle", "replace"}
  BY DEF MmpConnect, Startup, Discover, OpenSocket, Announce, Spawn, Subscribing
<1>3. victim = NoSession /\ restTop = 0 /\ ~quitting
  BY <1>2 DEF Subscribing, Destroying, Victims, Ends, Newest, AtRest
<1>4. \/ receiver' = receiver /\ uiPc' # "replace"
      \/ receiver' = [receiver EXCEPT ![clients] = "startup"] /\ uiPc' = "replace"
  BY DEF MmpConnect, Startup, Discover, OpenSocket, Announce, Spawn
<1>5. \A s \in Sessions : s # clients => receiver'[s] = receiver[s]
  BY <1>4 DEF TypeOK
<1>6. Accounted'
  BY <1>1, <1>2, <1>4, <1>5 DEF Accounted, Alive, Holders, Subscribing
<1>7. NotYet'
  <2> SUFFICES ASSUME NEW s \in Sessions,
                      s > clients \/ (s = clients /\ uiPc' \in Subscribing)
               PROVE  receiver'[s] = "none"
    BY <1>1 DEF NotYet
  <2>1. receiver[s] = "none"
    BY <1>2 DEF NotYet
  <2>2. CASE s = clients
    <3>1. ~(s > clients)
      BY <2>2 DEF TypeOK
    <3>2. uiPc' # "replace"
      BY <3>1 DEF Subscribing
    <3> QED BY <1>4, <2>1, <3>2
  <2>3. CASE s # clients
    BY <1>5, <2>1, <2>3
  <2> QED BY <2>2, <2>3
<1>8. Victims' /\ Ends'
  BY <1>1, <1>2, <1>3 DEF Victims, Ends, Subscribing, Destroying
<1>9. seqNo' \in [Sessions -> SeqNo] /\ mousePad' \in 0 .. MaxSessions
  BY TypeStep, <1>1, Numbers DEF TypeOK, Next, UserInterface
<1>10. Newest'
  <2>1. mousePad' # NoSession => 0 <= seqNo'[mousePad']
    <3>1. mousePad' # NoSession => mousePad' \in Sessions
      BY <1>9, SmallFacts DEF Sessions
    <3> QED BY <1>9, <3>1, SmallFacts
  <2> QED BY <1>1, <1>3, <2>1 DEF Newest
<1> QED BY <1>6, <1>7, <1>8, <1>10 DEF Rest

\* The new client is held, and the one before has to go.
LEMMA ReplaceStep ==
  ASSUME IInv, Replace
  PROVE  Rest'
<1> USE DEF IInv, Replace, NoSession, Current, sessionVars, messageVars
<1>1. victim = NoSession /\ restTop = 0 /\ ~quitting
  BY DEF Destroying, Victims, Ends, Newest, AtRest
<1>2. UNCHANGED <<quitting, clients, restTop, receiver, seqNo>> /\ mousePad' = clients
      /\ victim' = mousePad /\ uiPc' = IF mousePad = NoSession THEN "idle" ELSE "stop"
  OBVIOUS
<1>3. Accounted'
  BY <1>1, <1>2 DEF Accounted, Alive, Holders, Sessions
<1>4. NotYet'
  BY <1>2 DEF NotYet, Subscribing
<1>5. Victims' /\ Ends'
  BY <1>1, <1>2 DEF Victims, Ends, Destroying
<1>6. Newest'
  <2>1. mousePad' # NoSession => 0 <= seqNo'[mousePad']
    <3>1. mousePad' # NoSession => mousePad' \in Sessions
      BY <1>2, SmallFacts DEF TypeOK, Sessions
    <3>2. seqNo' \in [Sessions -> SeqNo]
      BY <1>2 DEF TypeOK
    <3> QED BY <3>1, <3>2, SmallFacts
  <2>2. mousePad' # NoSession
    BY <1>2 DEF Older, TypeOK
  <2> QED BY <1>1, <1>2, <2>1, <2>2 DEF Newest
<1> QED BY <1>3, <1>4, <1>5, <1>6 DEF Rest

\* The steps of the destructor.
LEMMA DisconnectStep ==
  ASSUME IInv, MmpDisconnect
  PROVE  Rest'
<1> USE DEF IInv, Rest, Accounted, NotYet, Victims, Ends, Newest, Older, Alive, Holders, Subscribing,
            Destroying, AtRest, NoSession, sessionVars, messageVars
<1>1. CASE Stop
  BY <1>1 DEF Stop
<1>2. CASE Close
  BY <1>2 DEF Close
<1>3. CASE Join
  BY <1>3 DEF Join
<1>4. CASE CleanUp
  <2>1. UNCHANGED <<mousePad, quitting, clients, receiver, seqNo, restTop>> /\ victim' = NoSession
        /\ uiPc' = IF quitting THEN "final" ELSE "idle"
    BY <1>4 DEF CleanUp
  <2>2. restTop = 0 /\ receiver[victim] = "gone"
    BY <1>4 DEF CleanUp
  <2>3. Accounted' /\ NotYet' /\ Victims' /\ Ends'
    BY <1>4, <2>1, <2>2 DEF CleanUp
  <2>4. mousePad # NoSession => mousePad \in Sessions /\ 0 <= seqNo[mousePad]
    <3>1. mousePad # NoSession => mousePad \in Sessions
      BY SmallFacts DEF TypeOK, Sessions
    <3> QED BY <3>1, SmallFacts DEF TypeOK
  <2>5. Newest'
    BY <2>1, <2>2, <2>4
  <2> QED BY <2>3, <2>5
<1> QED BY <1>1, <1>2, <1>3, <1>4 DEF MmpDisconnect

\* A receiver never comes back to life, and what it injects is news to its own
\* client, which is the one that is held when the interface is at rest.
LEMMA ReceiverStep ==
  ASSUME IInv, NEW s \in Sessions, Receiver(s)
  PROVE  Rest'
<1> USE DEF IInv, uiVars, messageVars
<1>1. receiver[s] \notin {"none", "gone"}
  BY DEF Receiver, ReceiverStarts, Loop, Receive, ReceiveFails, Handle, Leave
<1>2. \A t \in Sessions : t # s => receiver'[t] = receiver[t]
  BY DEF Receiver, ReceiverStarts, Loop, Receive, ReceiveFails, Handle, Leave, TypeOK
<1>3. UNCHANGED <<uiPc, mousePad, victim, quitting, clients>>
  BY DEF Receiver, ReceiverStarts, Loop, Receive, ReceiveFails, Handle, Leave
<1>4. Accounted'
  BY <1>1, <1>2, <1>3 DEF Accounted, Alive, Holders
<1>5. NotYet' /\ Ends'
  BY <1>1, <1>2, <1>3 DEF NotYet, Ends
<1>6. victim \in Sessions => (receiver[victim] = "gone" => receiver'[victim] = "gone")
  BY <1>1, <1>2
<1>7. Victims'
  BY <1>3, <1>6, Numbers
  DEF Victims, TypeOK, Sessions, NoSession, Destroying
<1>8. ASSUME Handle(s), AtRest PROVE Newest'
  <2>1. s = mousePad /\ s # NoSession
    BY <1>1, <1>8 DEF Accounted, Alive, Holders, Victims, Destroying, AtRest, NoSession, Sessions
  <2>2. restTop <= seqNo[s] /\ restTop \in Nat /\ seqNo[s] \in Nat /\ Number(s) \in Nat
    BY <1>8, <2>1, Numbers DEF Newest, TypeOK, Number
  <2>3. CASE Number(s) > seqNo[s]
    <3>1. seqNo'[s] = Number(s) /\ restTop' \in {Number(s), restTop}
      BY <1>8, <2>3 DEF Handle, TypeOK
    <3>2. restTop' <= seqNo'[s]
      BY <2>2, <2>3, <3>1
    <3> QED BY <1>3, <1>8, <2>1, <3>2 DEF Newest, AtRest
  <2>4. CASE ~(Number(s) > seqNo[s])
    BY <1>3, <1>8, <2>4 DEF Newest, Handle, AtRest
  <2> QED BY <2>3, <2>4
<1>9. ASSUME Handle(s), ~AtRest PROVE Newest'
  <2>1. restTop' = 0
    BY <1>9 DEF Newest, Handle
  <2> QED BY <1>3, <1>9, <2>1 DEF Newest, AtRest
<1>10. ASSUME ~Handle(s) PROVE Newest'
  <2>1. UNCHANGED <<seqNo, restTop>>
    BY <1>10 DEF Receiver, ReceiverStarts, Loop, Receive, ReceiveFails, Leave
  <2> QED BY <1>3, <2>1 DEF Newest, AtRest
<1> QED BY <1>4, <1>5, <1>7, <1>8, <1>9, <1>10 DEF Rest

LEMMA NetworkStep ==
  ASSUME IInv, PadSends \/ UNCHANGED vars
  PROVE  Rest'
BY DEF IInv, Rest, Accounted, NotYet, Victims, Ends, Newest, Alive, Holders, AtRest, PadSends, vars, uiVars, sessionVars, messageVars

LEMMA InvStep == IInv /\ [Next]_vars => IInv'
<1> SUFFICES ASSUME IInv, [Next]_vars PROVE IInv'
  OBVIOUS
<1>1. TypeOK' /\ Older'
  BY TypeStep, OlderStep DEF IInv
<1>2. Rest'
  BY MenuStep, ConnectStep, ReplaceStep, DisconnectStep, ReceiverStep, NetworkStep DEF Next, UserInterface
<1> QED BY <1>1, <1>2 DEF IInv, Rest

THEOREM Invariant == Spec => []IInv
<1> QED BY InitInv, InvStep, PTL DEF Spec

-----------------------------------------------------------------------------
(* What follows from it.                                                   *)

\* However many subscriptions fail or follow each other, at rest only the client
\* that is held can move the mouse, and none can once the program has ended.
THEOREM OnlyTheHeldInjects == Spec => []OneInjectorAtRest
<1>1. IInv => OneInjectorAtRest
  BY DEF IInv, Accounted, Holders, Victims, Ends, Destroying, OneInjectorAtRest, AtRest, NoSession,
         Sessions
<1> QED BY <1>1, Invariant, PTL

\* At rest the mouse is only moved by what is newer than what has moved it.
THEOREM NeverJumpsBack == Spec => NoJumpBackAtRest
<1>1. ASSUME IInv, NEW s \in Sessions, AtRest, Handle(s), seqNo'[s] # seqNo[s]
      PROVE  Number(s) > restTop
  <2>1. s = mousePad /\ mousePad # NoSession
    BY <1>1 DEF IInv, Accounted, Alive, Handle, Holders, Victims, Destroying, AtRest, NoSession,
                Sessions
  <2>2. Number(s) > seqNo[s] /\ seqNo[s] >= restTop
    BY <1>1, <2>1 DEF IInv, Newest, Handle, TypeOK
  <2>3. Number(s) \in Nat /\ seqNo[s] \in Nat /\ restTop \in Nat
    BY <1>1, Numbers DEF IInv, TypeOK, Number
  <2> QED BY <2>2, <2>3
<1>2. IInv => [\A s \in Sessions :
                  AtRest /\ Handle(s) /\ seqNo'[s] # seqNo[s] => Number(s) > restTop]_vars
  BY <1>1
<1> QED BY <1>2, Invariant, PTL DEF NoJumpBackAtRest

-----------------------------------------------------------------------------
(* The references to Winsock.                                              *)

Holding == {s \in Sessions : receiver[s] \in {"loop", "receive", "handle", "leave"}}

References == winsock - InUse >= 0 /\ winsock - InUse <= Cardinality(Failed)

LEMMA HeldIsNat == Held \in Nat /\ IsFiniteSet(Holding) /\ Held = Cardinality(Holding)
<1>1. IsFiniteSet(Sessions)
  BY Numbers, FS_Interval DEF Sessions
<1>2. IsFiniteSet(Holding)
  BY <1>1, FS_Subset DEF Holding
<1> QED BY <1>2, FS_CardinalityType DEF Held, Holding

\* The failed clients are finitely many, and remain failed; the client that
\* mmp_connect() works on is not one of them.
LEMMA FailedIsFinite ==
  ASSUME clients \in Nat
  PROVE  IsFiniteSet(Failed) /\ Cardinality(Failed) \in Nat
<1>1. IsFiniteSet(1 .. clients)
  BY FS_Interval
<1> QED BY <1>1, FS_Subset, FS_CardinalityType DEF Failed

LEMMA FailedStay ==
  ASSUME IInv, [Next]_vars
  PROVE  Failed \subseteq Failed'
<1> USE DEF IInv, Current, Failed, Sessions, uiVars, sessionVars
<1>1. \A s \in Failed : s \in Sessions
  BY BoundIsNat DEF TypeOK
<1>2. CASE Create \/ Final \/ Exit \/ Replace \/ MmpDisconnect
  BY <1>2 DEF Create, Final, Exit, Replace, MmpDisconnect, Stop, Close, Join, CleanUp, AtRest
<1>3. CASE Subscribe
  BY <1>3 DEF Subscribe, AtRest, TypeOK
<1>4. CASE MmpConnect \/ Discover
  <2>1. clients' = clients /\ uiPc \in Subscribing
    BY <1>4 DEF MmpConnect, Startup, Discover, OpenSocket, Announce, Spawn, Subscribing
  <2>2. \A s \in Sessions : s # clients => receiver'[s] = receiver[s]
    BY <1>4 DEF MmpConnect, Startup, Discover, OpenSocket, Announce, Spawn, TypeOK
  <2> QED BY <1>1, <2>1, <2>2 DEF Subscribing
<1>5. ASSUME NEW s \in Sessions, Receiver(s) PROVE Failed \subseteq Failed'
  <2>1. UNCHANGED <<uiPc, clients>> /\ receiver[s] # "none"
    BY <1>5 DEF Receiver, ReceiverStarts, Loop, Receive, ReceiveFails, Handle, Leave
  <2>2. \A t \in Sessions : t # s => receiver'[t] = receiver[t]
    BY <1>5 DEF Receiver, ReceiverStarts, Loop, Receive, ReceiveFails, Handle, Leave, TypeOK
  <2> QED BY <1>1, <2>1, <2>2
<1>6. CASE PadSends \/ UNCHANGED vars
  BY <1>6 DEF PadSends, vars
<1> QED BY <1>2, <1>3, <1>4, <1>5, <1>6 DEF Next, UserInterface

LEMMA FailedGrows ==
  ASSUME IInv, [Next]_vars
  PROVE  /\ Cardinality(Failed) \in Nat /\ Cardinality(Failed') \in Nat
         /\ Cardinality(Failed) <= Cardinality(Failed')
<1>1. clients \in Nat /\ clients' \in Nat
  BY TypeStep, BoundIsNat DEF IInv, TypeOK
<1>2. /\ IsFiniteSet(Failed) /\ Cardinality(Failed) \in Nat
      /\ IsFiniteSet(Failed') /\ Cardinality(Failed') \in Nat
  <2>1. IsFiniteSet(1 .. clients')
    BY <1>1, FS_Interval
  <2>2. IsFiniteSet(Failed')
    <3>1. Failed' \subseteq 1 .. clients'
      BY DEF Failed
    <3> QED BY <2>1, <3>1, FS_Subset
  <2> QED BY <1>1, <2>2, FailedIsFinite, FS_CardinalityType
<1> QED BY <1>2, FailedStay, FS_Subset

\* If mmp_connect() fails there is one more.
LEMMA FailsToConnect ==
  ASSUME IInv, MmpConnect \/ Discover, Fails, UNCHANGED receiver
  PROVE  Cardinality(Failed') = Cardinality(Failed) + 1
<1>1. clients' = clients /\ clients \in Sessions /\ uiPc \in Subscribing
  BY BoundIsNat DEF IInv, TypeOK, Older, Subscribing, Sessions, MmpConnect, Startup, Discover, OpenSocket,
                 Announce, Spawn
<1>2. receiver[clients] = "none"
  BY <1>1 DEF IInv, NotYet
<1>3. clients \notin Failed /\ Failed' = Failed \cup {clients}
  BY <1>1, <1>2 DEF Failed, Fails, Current, Subscribing, Sessions
<1>4. IsFiniteSet(Failed)
  BY FailedIsFinite DEF IInv, TypeOK
<1> QED BY <1>3, <1>4, FS_AddElement

LEMMA InitReferences == Init => References
<1> SUFFICES ASSUME Init PROVE References
  OBVIOUS
<1>1. Holding = {}
  BY DEF Init, Holding
<1>2. Held = 0
  BY <1>1, HeldIsNat, FS_EmptySet
<1>3. InUse = 1 /\ Cardinality(Failed) \in Nat
  BY <1>2, FailedIsFinite DEF Init, InUse, One
<1> QED BY <1>3 DEF Init, References

\* The user interface's thread takes and gives back references, and starts no
\* receiver that has one.
LEMMA UiReferences ==
  ASSUME IInv, References, UserInterface \/ Discover \/ Subscribe \/ Exit
  PROVE  References'
<1>1. Holding' = Holding
  <2>1. \/ UNCHANGED receiver
        \/ receiver[clients] = "none" /\ receiver' = [receiver EXCEPT ![clients] = "startup"]
    <3>1. CASE Spawn
      <4>1. clients \in Sessions
        BY <3>1, BoundIsNat DEF Spawn, IInv, TypeOK, Older, Subscribing, Sessions
      <4> QED BY <3>1, <4>1 DEF Spawn, Current, IInv, NotYet, Subscribing
    <3>2. CASE ~Spawn
      BY <3>2 DEF UserInterface, MmpConnect, MmpDisconnect, Create, Startup, OpenSocket, Announce,
                  Replace, Stop, Close, Join, CleanUp, Final, Discover, Subscribe, Exit, sessionVars
    <3> QED BY <3>1, <3>2
  <2> QED BY <2>1 DEF Holding, IInv, TypeOK
<1>2. Held' = Held /\ Held \in Nat
  BY <1>1, HeldIsNat DEF Held, Holding
<1>3. winsock \in Int /\ Cardinality(Failed) \in Nat /\ Cardinality(Failed') \in Nat
      /\ Cardinality(Failed) <= Cardinality(Failed')
  BY FailedGrows DEF IInv, TypeOK, Next
<1> HIDE DEF Held, Failed
<1> USE DEF References, InUse, One
<1>5. CASE Create \/ Subscribe \/ Exit \/ Final
  BY <1>2, <1>3, <1>5 DEF Create, Subscribe, Exit, Final, AtRest, IInv, Victims, Ends, Destroying,
                          NoSession
<1>6. CASE MmpConnect \/ Discover
  <2>1. CASE Fails
    <3>1. UNCHANGED <<receiver, winsock, mousePad, victim>> /\ uiPc \in Subscribing
      BY <1>6, <2>1 DEF MmpConnect, Startup, Discover, OpenSocket, Announce, Spawn, Fails, Subscribing,
                        sessionVars
    <3>2. Cardinality(Failed') = Cardinality(Failed) + 1
      BY <1>6, <2>1, <3>1, FailsToConnect
    <3> QED BY <1>2, <1>3, <2>1, <3>1, <3>2 DEF Fails, Subscribing
  <2>2. CASE ~Fails
    BY <1>2, <1>3, <1>6, <2>2 DEF MmpConnect, Startup, Discover, OpenSocket, Announce, Spawn, Fails
  <2> QED BY <2>1, <2>2
<1>7. CASE Replace
  BY <1>2, <1>3, <1>7 DEF Replace, Current, IInv, Victims, Destroying, NoSession, TypeOK, Older
<1>8. CASE MmpDisconnect
  BY <1>2, <1>3, <1>8 DEF MmpDisconnect, Stop, Close, Join, CleanUp, IInv, Victims, Destroying
<1> QED BY <1>5, <1>6, <1>7, <1>8 DEF UserInterface

LEMMA ReceiverReferences ==
  ASSUME IInv, References, NEW s \in Sessions, Receiver(s)
  PROVE  References'
<1>1. UNCHANGED <<uiPc, mousePad, victim, clients>>
  BY DEF Receiver, ReceiverStarts, Loop, Receive, ReceiveFails, Handle, Leave, uiVars
<1>2. winsock \in Int /\ winsock' \in Int /\ Held \in Nat /\ Held' \in Nat
  <2>1. IsFiniteSet(Sessions)
    BY Numbers, FS_Interval DEF Sessions
  <2>2. Cardinality(Holding') \in Nat
    BY <2>1, FS_Subset, FS_CardinalityType DEF Holding
  <2> QED BY <2>2, HeldIsNat, ReceiverTypes DEF IInv, TypeOK, Held, Holding
<1>3. winsock' - Held' = winsock - Held
  <2>1. CASE ReceiverStarts(s) /\ receiver'[s] = "loop"
    <3>1. Holding' = Holding \cup {s} /\ s \notin Holding /\ winsock' = winsock + 1
      BY <2>1 DEF ReceiverStarts, Holding, IInv, TypeOK
    <3>2. Cardinality(Holding \cup {s}) = Cardinality(Holding) + 1
      BY <3>1, HeldIsNat, FS_AddElement
    <3>3. Held' = Held + 1
      BY <3>1, <3>2, HeldIsNat DEF Held, Holding
    <3> QED BY <1>2, <3>1, <3>3
  <2>2. CASE Leave(s)
    <3>1. Holding' = Holding \ {s} /\ s \in Holding /\ winsock' = winsock - 1
      BY <2>2 DEF Leave, Holding, IInv, TypeOK
    <3>2. Cardinality(Holding \ {s}) = Cardinality(Holding) - 1
      BY <3>1, HeldIsNat, FS_RemoveElement
    <3>3. Held' = Held - 1
      BY <3>1, <3>2, HeldIsNat DEF Held, Holding
    <3> QED BY <1>2, <3>1, <3>3
  <2>3. CASE ~(ReceiverStarts(s) /\ receiver'[s] = "loop") /\ ~Leave(s)
    <3>1. Holding' = Holding /\ winsock' = winsock
      BY <2>3 DEF Receiver, ReceiverStarts, Loop, Receive, ReceiveFails, Handle, Holding, IInv, TypeOK
    <3>2. Held' = Held
      BY <3>1 DEF Held, Holding
    <3> QED BY <1>2, <3>1, <3>2
  <2> QED BY <2>1, <2>2, <2>3
<1> HIDE DEF Held
<1>4. winsock' - InUse' = winsock - InUse
  <2>1. PICK n \in Nat : InUse = Held + n /\ InUse' = Held' + n
    <3> DEFINE n == One(uiPc # "done") + One(mousePad # NoSession) + One(victim # NoSession)
                    + One(uiPc \in {"discover", "socket", "announce", "spawn", "replace"})
    <3>1. n \in Nat /\ InUse = Held + n /\ InUse' = Held' + n
      BY <1>1, <1>2 DEF InUse, One
    <3> QED BY <3>1
  <2>2. PICK h \in Int, k \in Int : h = Held /\ k = Held'
    BY <1>2
  <2>3. winsock' - (k + n) = winsock - (h + n)
    <3>1. winsock' - k = winsock - h
      BY <1>3, <2>2
    <3>2. winsock \in Int /\ winsock' \in Int
      BY <1>2
    <3>3. \A v \in Int, w \in Int : v - k = w - h => v - (k + n) = w - (h + n)
      OBVIOUS
    <3> QED BY <3>1, <3>2, <3>3
  <2> QED BY <2>1, <2>2, <2>3
<1>5. Cardinality(Failed) \in Nat /\ Cardinality(Failed') \in Nat
      /\ Cardinality(Failed) <= Cardinality(Failed')
  BY FailedGrows DEF Next
<1>6. InUse \in Int
  BY <1>2 DEF InUse, One
<1> QED BY <1>2, <1>4, <1>5, <1>6 DEF References

LEMMA ReferencesStep == IInv /\ References /\ [Next]_vars => References'
<1> SUFFICES ASSUME IInv, References, [Next]_vars PROVE References'
  OBVIOUS
<1>1. CASE PadSends \/ UNCHANGED vars
  BY <1>1 DEF PadSends, vars, uiVars, sessionVars, References, InUse, One, Failed, Current, Held
<1> QED BY <1>1, UiReferences, ReceiverReferences DEF Next

\* The program never uses Winsock without a reference, and gives back all of them
\* but those of clients that mmp_connect() has failed for, however often the user
\* subscribes (mmpcli.cpp, mmp_connect(); mmp_client.cpp, ~mmp_client() and
\* receive(); magicmouse.cpp, _tWinMain()).
THEOREM WinsockStays == Spec => []WinsockSuffices
<1>1. IInv /\ References => WinsockSuffices
  <2> SUFFICES ASSUME IInv, References PROVE WinsockSuffices
    OBVIOUS
  <2>1. Held \in Nat /\ winsock \in Int /\ Cardinality(Failed) \in Nat
    BY HeldIsNat, FailedIsFinite DEF IInv, TypeOK
  <2>2. InUse \in Int
    BY <2>1 DEF InUse, One
  <2> QED BY <2>1, <2>2 DEF References, WinsockSuffices
<1> QED BY <1>1, Invariant, InitReferences, ReferencesStep, PTL DEF Spec

-----------------------------------------------------------------------------
(* Lifecycle.                                                              *)

\* A client that does not exist yet has no sequence number, and the one that is
\* destroyed is not held any more.
Unborn == \A s \in Sessions : s > clients => seqNo[s] = 0
Dropped == victim = mousePad => victim = NoSession

LEMMA UnbornStep == IInv /\ Unborn /\ Dropped /\ [Next]_vars => Unborn' /\ Dropped'
<1> SUFFICES ASSUME IInv, Unborn, Dropped, [Next]_vars PROVE Unborn' /\ Dropped'
  OBVIOUS
<1> USE DEF Unborn, Dropped, IInv, TypeOK, uiVars, messageVars
<1>1. CASE Create \/ Final \/ Exit \/ MmpConnect \/ MmpDisconnect
  BY <1>1 DEF Create, Final, Exit, MmpConnect, Startup, OpenSocket, Announce, Spawn,
              MmpDisconnect, Stop, Close, Join, CleanUp, NoSession
<1>2. CASE Subscribe
  BY <1>2, BoundIsNat DEF Subscribe, Sessions
<1>3. CASE Discover
  <2>1. UNCHANGED <<clients, mousePad, victim>>
    BY <1>3 DEF Discover
  <2>2. \A s \in Sessions : s # clients => seqNo'[s] = seqNo[s]
    BY <1>3 DEF Discover, Current
  <2> QED BY <2>1, <2>2
<1>4. CASE Replace
  BY <1>4 DEF Replace, Current, Older
<1>5. ASSUME NEW s \in Sessions, Receiver(s) PROVE Unborn' /\ Dropped'
  <2>1. ~(s > clients)
    BY <1>5 DEF NotYet, Receiver, ReceiverStarts, Loop, Receive, ReceiveFails, Handle, Leave
  <2>2. UNCHANGED <<clients, mousePad, victim>> /\ \A t \in Sessions : t # s => seqNo'[t] = seqNo[t]
    BY <1>5 DEF Receiver, ReceiverStarts, Loop, Receive, ReceiveFails, Handle, Leave
  <2> QED BY <2>1, <2>2
<1>6. CASE PadSends \/ UNCHANGED vars
  BY <1>6 DEF PadSends, vars
<1> QED BY <1>1, <1>2, <1>3, <1>4, <1>5, <1>6 DEF Next, UserInterface

Phases == [s \in Sessions |-> Phase(s)]
Receiving == [s \in Sessions |-> Alive(s)]

\* The client that mmp_connect() works on changes its phase, and no other does.
LEMMA LifecycleConnectStep ==
  ASSUME IInv, MmpConnect \/ Discover
  PROVE  [Life!LifecycleNext]_(Life!lifecycleVars)
<1> USE DEF IInv, Current, Fails, sessionVars, messageVars
<1>1. UNCHANGED <<mousePad, victim, clients, events>> /\ uiPc \in Subscribing
  BY DEF MmpConnect, Startup, Discover, OpenSocket, Announce, Spawn, Subscribing
<1>0. Announcements' = Announcements
  BY <1>1 DEF Announcements
<1>2. clients \in Sessions /\ mousePad < clients /\ clients # victim /\ receiver[clients] = "none"
  BY <1>1, SmallFacts
  DEF TypeOK, Older, Sessions, Victims, NotYet, Subscribing, Destroying, NoSession
<1>3. \A s \in Sessions : s # clients => receiver'[s] = receiver[s]
  BY DEF MmpConnect, Startup, Discover, OpenSocket, Announce, Spawn, TypeOK
<1>4. Phases' = [Phases EXCEPT ![clients] = Phase(clients)']
  BY <1>1, <1>3 DEF Phases, Phase
<1>5. ASSUME Fails, UNCHANGED <<receiver, seqNo>> PROVE Life!LifecycleNext
  <2>1. Phase(clients)' = "failed"
    BY <1>1, <1>2, <1>5 DEF Phase, TypeOK
  <2>2. Phases[clients] \in {"discovering", "starting"}
    BY <1>1, <1>2 DEF Phases, Phase, Subscribing
  <2>3. Life!Fail(clients)
    BY <1>0, <1>1, <1>4, <1>5, <2>1, <2>2 DEF Life!Fail, Life!Goes, Phases, Alive
  <2> QED BY <1>2, <2>3 DEF Life!LifecycleNext
<1>6. ASSUME \/ {uiPc, uiPc'} \subseteq {"startup", "discover"}
             \/ {uiPc, uiPc'} \subseteq {"socket", "announce", "spawn"},
             UNCHANGED <<receiver, seqNo>>
      PROVE  UNCHANGED Life!lifecycleVars
  <2>1. Phases' = Phases
    BY <1>1, <1>6 DEF Phases, Phase
  <2> QED BY <1>0, <1>1, <1>6, <2>1 DEF Life!lifecycleVars, Phases, Alive
<1>7. CASE Startup
  BY <1>5, <1>6, <1>7 DEF Startup
<1>8. CASE Discover /\ uiPc' = "socket"
  <2>1. PICK n \in Announcements \cup {seqNo[clients]} : seqNo' = [seqNo EXCEPT ![clients] = n]
    <3>1. seqNo = [seqNo EXCEPT ![clients] = seqNo[clients]]
      BY DEF TypeOK
    <3> QED BY <1>8, <3>1 DEF Discover
  <2>2. Phases[clients] = "discovering" /\ Phase(clients)' = "starting"
    BY <1>1, <1>2, <1>8 DEF Discover, Phases, Phase
  <2>3. Life!Find(clients)
    BY <1>0, <1>1, <1>4, <1>8, <2>1, <2>2 DEF Life!Find, Life!Goes, Discover, Phases, Alive
  <2> QED BY <1>2, <2>3 DEF Life!LifecycleNext
<1>9. CASE Discover /\ Fails
  BY <1>5, <1>9 DEF Discover
<1>10. CASE OpenSocket
  BY <1>5, <1>6, <1>10 DEF OpenSocket
<1>11. CASE Announce
  BY <1>5, <1>6, <1>11 DEF Announce
<1>12. CASE Spawn /\ uiPc' = "replace"
  <2>1. receiver' = [receiver EXCEPT ![clients] = "startup"] /\ seqNo' = seqNo /\ uiPc = "spawn"
    BY <1>12 DEF Spawn
  <2>2. Phases[clients] = "starting" /\ Phase(clients)' = "connected"
    BY <1>1, <1>2, <1>12, <2>1 DEF Phases, Phase
  <2>3. Receiving' = [Receiving EXCEPT ![clients] = TRUE]
    BY <1>2, <2>1 DEF Receiving, Alive, TypeOK
  <2>4. Life!Start(clients)
    BY <1>0, <1>1, <1>4, <2>1, <2>2, <2>3 DEF Life!Start, Life!Goes, Phases, Receiving
  <2> QED BY <1>2, <2>4 DEF Life!LifecycleNext
<1>13. CASE Spawn /\ Fails
  BY <1>5, <1>13 DEF Spawn
<1> QED
  BY <1>7, <1>8, <1>9, <1>10, <1>11, <1>12, <1>13 DEF MmpConnect, Discover, Spawn

\* Where a client is given up, it is disconnected.
LEMMA LifecycleHandleStep ==
  ASSUME IInv, Unborn, Dropped,
         Create \/ Subscribe \/ Replace \/ Exit \/ Final \/ MmpDisconnect
  PROVE  [Life!LifecycleNext]_(Life!lifecycleVars)
<1> USE DEF IInv, AtRest, NoSession, Current, sessionVars, messageVars
<1>1. UNCHANGED <<receiver, seqNo, events>>
  BY DEF Create, Subscribe, Replace, Exit, Final, MmpDisconnect, Stop, Close, Join, CleanUp
<1>0. Announcements' = Announcements
  BY <1>1 DEF Announcements
<1>2. Receiving' = Receiving
  BY <1>1 DEF Receiving, Alive
<1>3. ASSUME UNCHANGED <<mousePad, victim, clients>>,
             {uiPc, uiPc'} \cap (Subscribing \cup {"replace"}) = {}
      PROVE  UNCHANGED Life!lifecycleVars
  <2>1. Phases' = Phases
    BY <1>1, <1>3 DEF Phases, Phase, Subscribing
  <2> QED BY <1>0, <1>1, <1>2, <2>1 DEF Life!lifecycleVars, Phases, Receiving
<1>4. CASE Create
  BY <1>3, <1>4 DEF Create, Subscribing
<1>5. CASE Final
  BY <1>3, <1>5 DEF Final, Subscribing
<1>6. CASE Stop \/ Close \/ Join
  BY <1>3, <1>6 DEF Stop, Close, Join, Subscribing
<1>7. CASE Subscribe
  <2>1. clients' = clients + 1 /\ clients' \in Sessions /\ UNCHANGED <<mousePad, victim>>
        /\ uiPc = "idle" /\ uiPc' = "startup"
    BY <1>7, BoundIsNat DEF Subscribe, Sessions, TypeOK
  <2>2. Phases[clients'] = "idle" /\ Phases' = [Phases EXCEPT ![clients'] = "discovering"]
    <3>1. ASSUME NEW s \in Sessions, s = clients' PROVE Phase(s) = "idle" /\ Phase(s)' = "discovering"
      BY <2>1, <3>1 DEF Phase, TypeOK
    <3>2. ASSUME NEW s \in Sessions, s # clients' PROVE Phase(s)' = Phase(s)
      BY <1>1, <2>1, <3>2 DEF Phase, TypeOK, Sessions
    <3> QED BY <2>1, <3>1, <3>2 DEF Phases
  <2>3. seqNo' = [seqNo EXCEPT ![clients'] = 0]
    BY <1>1, <2>1 DEF Unborn, TypeOK
  <2>4. Life!Connect(clients')
    BY <1>0, <1>1, <1>2, <2>2, <2>3 DEF Life!Connect, Life!Goes, Phases, Receiving
  <2> QED BY <2>1, <2>4 DEF Life!LifecycleNext
<1>8. ASSUME mousePad # NoSession, victim = NoSession, victim' = mousePad,
             mousePad' = NoSession \/ (mousePad' = clients /\ mousePad < clients /\ uiPc = "replace"),
             clients' = clients, uiPc' = "stop", uiPc \in {"idle", "replace"},
             uiPc = "replace" => mousePad' = clients
      PROVE  Life!LifecycleNext
  <2>1. mousePad \in Sessions
    BY <1>8, BoundIsNat DEF TypeOK, Sessions
  <2>2. Phases[mousePad] = "connected"
    BY <1>8, <2>1 DEF Phases, Phase, TypeOK
  <2>3. Phases' = [Phases EXCEPT ![mousePad] = "disconnecting"]
    <3>1. ASSUME NEW s \in Sessions, s = mousePad PROVE Phase(s)' = "disconnecting"
      BY <1>8, <3>1 DEF Phase, TypeOK, Sessions
    <3>2. ASSUME NEW s \in Sessions, s # mousePad PROVE Phase(s)' = Phase(s)
      BY <1>1, <1>8, <3>2 DEF Phase, TypeOK, Sessions
    <3> QED BY <2>1, <3>1, <3>2 DEF Phases
  <2>4. Life!Disconnect(mousePad)
    BY <1>0, <1>1, <1>2, <2>2, <2>3 DEF Life!Disconnect, Life!Goes, Phases, Receiving
  <2> QED BY <2>1, <2>4 DEF Life!LifecycleNext
<1>9. CASE Replace /\ mousePad # NoSession
  BY <1>8, <1>9 DEF Replace, Older, Victims, Destroying
<1>10. CASE Exit /\ mousePad # NoSession
  BY <1>8, <1>10 DEF Exit, Victims, Destroying
<1>11. CASE Replace /\ mousePad = NoSession
  <2>1. mousePad' = clients /\ victim' = NoSession /\ clients' = clients /\ uiPc' = "idle"
        /\ uiPc = "replace" /\ victim = NoSession
    BY <1>11 DEF Replace, Victims, Destroying
  <2>2. Phases' = Phases
    BY <1>1, <1>11, <2>1 DEF Phases, Phase, Sessions
  <2> QED BY <1>0, <1>1, <1>2, <2>2 DEF Life!lifecycleVars, Phases, Receiving
<1>12. CASE Exit /\ mousePad = NoSession
  BY <1>3, <1>12 DEF Exit, Victims, Destroying, Subscribing
<1>13. CASE CleanUp
  <2>1. victim \in Sessions /\ victim # mousePad /\ receiver[victim] = "gone"
    BY <1>13, BoundIsNat
    DEF CleanUp, Victims, Destroying, Dropped, TypeOK, Sessions
  <2>2. victim' = NoSession /\ UNCHANGED <<mousePad, clients>> /\ uiPc = "cleanup"
        /\ uiPc' \in {"final", "idle"}
    BY <1>13 DEF CleanUp
  <2>3. Phases[victim] = "disconnecting" /\ ~Receiving[victim]
    BY <2>1, <2>2 DEF Phases, Phase, Receiving, Alive
  <2>4. Phases' = [Phases EXCEPT ![victim] = "idle"]
    <3>1. ASSUME NEW s \in Sessions, s = victim PROVE Phase(s)' = "idle"
      BY <1>1, <2>1, <2>2, <3>1 DEF Phase, Sessions
    <3>2. ASSUME NEW s \in Sessions, s # victim PROVE Phase(s)' = Phase(s)
      BY <1>1, <2>2, <3>2 DEF Phase, Sessions
    <3> QED BY <2>1, <3>1, <3>2 DEF Phases
  <2>5. Life!Return(victim)
    BY <1>0, <1>1, <1>2, <2>3, <2>4 DEF Life!Return, Life!Goes, Phases, Receiving
  <2> QED BY <2>1, <2>5 DEF Life!LifecycleNext
<1> QED
  BY <1>4, <1>5, <1>6, <1>7, <1>9, <1>10, <1>11, <1>12, <1>13 DEF MmpDisconnect

\* A receiver takes what is newer, or ends.
LEMMA LifecycleReceiverStep ==
  ASSUME IInv, NEW s \in Sessions, Receiver(s)
  PROVE  [Life!LifecycleNext]_(Life!lifecycleVars)
<1> USE DEF IInv
<1>1. UNCHANGED <<uiPc, mousePad, victim, clients, events>>
  BY DEF Receiver, ReceiverStarts, Loop, Receive, ReceiveFails, Handle, Leave, uiVars
<1>0. Announcements' = Announcements
  BY <1>1 DEF Announcements
<1>2. PICK state \in ReceiverStates \ {"none"} : receiver' = [receiver EXCEPT ![s] = state]
  BY DEF Receiver, ReceiverStarts, Loop, Receive, ReceiveFails, Handle, Leave, ReceiverStates
<1>3. Alive(s)
  BY DEF Alive, Receiver, ReceiverStarts, Loop, Receive, ReceiveFails, Handle, Leave
<1>4. Phases' = Phases
  BY <1>1, <1>2, <1>3 DEF Phases, Phase, Alive, TypeOK
<1>5. state # "gone" => Receiving' = Receiving
  BY <1>2, <1>3 DEF Receiving, Alive, TypeOK
<1>6. CASE Handle(s) /\ seqNo' # seqNo
  <2>1. Receiving' = Receiving
    BY <1>2, <1>5, <1>6 DEF Handle, TypeOK
  <2>2. seqNo' = [seqNo EXCEPT ![s] = seqNo'[s]] /\ seqNo'[s] > seqNo[s] /\ seqNo'[s] \in Nat
    <3>1. Number(s) \in Nat
      BY Numbers DEF Number, TypeOK
    <3> QED BY <1>6, <3>1 DEF Handle, TypeOK
  <2>3. Life!Accept(s)
    BY <1>0, <1>1, <1>3, <1>4, <2>1, <2>2 DEF Life!Accept, Phases, Receiving
  <2> QED BY <2>3 DEF Life!LifecycleNext
<1>7. CASE seqNo' = seqNo /\ state # "gone"
  BY <1>0, <1>1, <1>4, <1>5, <1>7 DEF Life!lifecycleVars, Phases, Receiving
<1>8. CASE seqNo' = seqNo /\ state = "gone"
  <2>1. Receiving' = [Receiving EXCEPT ![s] = FALSE]
    BY <1>2, <1>8 DEF Receiving, Alive, TypeOK
  <2>2. Life!ReceiverEnds(s)
    BY <1>0, <1>1, <1>4, <1>8, <2>1 DEF Life!ReceiverEnds, Phases, Receiving
  <2> QED BY <2>2 DEF Life!LifecycleNext
<1>9. ~Handle(s) => seqNo' = seqNo
  BY DEF Receiver, ReceiverStarts, Loop, Receive, ReceiveFails, Leave, messageVars
<1> QED BY <1>6, <1>7, <1>8, <1>9

\* Every client that the tray application makes, for any number of subscriptions:
\* it is given up only through mmp_disconnect(), which returns when its receiver
\* is gone, and what mmp_connect() fails for has no receiver (tray_window.cpp,
\* connect() and ~tray_window(); mmp_client.cpp, start() and ~mmp_client()).
THEOREM ImplementsLifecycle == Spec => LifecycleSpec
<1>1. Init => Life!LifecycleInit /\ Unborn /\ Dropped
  <2> SUFFICES ASSUME Init PROVE Life!LifecycleInit /\ Unborn /\ Dropped
    OBVIOUS
  <2>1. ASSUME NEW s \in Sessions PROVE Phase(s) = "idle" /\ ~Alive(s) /\ seqNo[s] = 0
    BY <2>1 DEF Init, Phase, Alive, NoSession, Sessions
  <2>2. Announcements \subseteq Nat
    BY InitTypes, AnnouncementTypes, Numbers DEF TypeOK
  <2>3. Phases = [s \in Sessions |-> "idle"]
    BY <2>1 DEF Phases
  <2>4. Receiving = [s \in Sessions |-> FALSE]
    <3>1. \A s \in Sessions : Alive(s) = FALSE
      BY DEF Init, Alive
    <3> QED BY <3>1, Zenon DEF Receiving
  <2>5. Life!LifecycleInit
    BY <2>2, <2>3, <2>4 DEF Init, Life!LifecycleInit, Phases, Receiving
  <2> QED BY <2>1, <2>5 DEF Init, Unborn, Dropped
<1>2. IInv /\ Unborn /\ Dropped /\ [Next]_vars => [Life!LifecycleNext]_(Life!lifecycleVars)
  <2> SUFFICES ASSUME IInv, Unborn, Dropped, [Next]_vars
               PROVE  [Life!LifecycleNext]_(Life!lifecycleVars)
    OBVIOUS
  <2>1. CASE PadSends
    <3>1. events' = events + 1 /\ UNCHANGED <<uiVars, receiver, seqNo>>
      BY <2>1 DEF PadSends, sessionVars
    <3>2. Phases' = Phases /\ Receiving' = Receiving
      BY <3>1 DEF Phases, Phase, Receiving, Alive, uiVars
    <3>3. Announcements \subseteq Announcements' /\ Announcements' \subseteq Nat
      <4>1. events' \in EarlierEvents .. MaxEvents
        BY NetworkTypes, <2>1 DEF IInv, TypeOK
      <4>2. Announcements' \subseteq SeqNo
        <5>1. \A n \in EarlierEvents .. events' : n % SeqMod \in SeqNo
          BY <4>1, Numbers
        <5> QED BY <5>1, Numbers DEF Announcements
      <4>3. EarlierEvents .. events \subseteq EarlierEvents .. events'
        BY <3>1, Numbers DEF IInv, TypeOK
      <4> QED BY <4>2, <4>3, Numbers DEF Announcements
    <3>4. Life!PadAnnounces
      BY <3>1, <3>2, <3>3 DEF Life!PadAnnounces, Phases, Receiving
    <3> QED BY <3>4 DEF Life!LifecycleNext
  <2>2. CASE UNCHANGED vars
    BY <2>2 DEF vars, Announcements, uiVars, sessionVars, messageVars,
                Life!lifecycleVars, Phase, Alive
  <2> QED
    BY <2>1, <2>2, LifecycleConnectStep, LifecycleHandleStep, LifecycleReceiverStep
    DEF Next, UserInterface
<1> QED
  BY <1>1, <1>2, UnbornStep, Invariant, PTL DEF Spec, LifecycleSpec, Life!LifecycleSpec
=============================================================================
