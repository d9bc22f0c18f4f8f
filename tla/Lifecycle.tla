----------------------------- MODULE Lifecycle -----------------------------
(***************************************************************************)
(* What mmp_connect() and mmp_disconnect() promise of every client object: *)
(* mmp_connect() succeeds only with a thread that receives, this thread    *)
(* takes each time a message that is newer than the one before, starting   *)
(* from a number that a pad has announced or from 0, and when              *)
(* mmp_disconnect() returns, there is no such thread any more.             *)
(*                                                                         *)
(* mmp_connect() may fail at any point, and then there is no thread.  The  *)
(* thread may end at any time.                                             *)
(***************************************************************************)
EXTENDS Integers

CONSTANT Clients      \* the client objects

VARIABLES
    phase,       \* what each client is doing
    last,        \* the number of the last message that it took
    receiving,   \* whether it has a thread that receives
    announced    \* the numbers that pads have announced

lifecycleVars == <<phase, last, receiving, announced>>

LifecycleInit ==
    /\ phase = [c \in Clients |-> "idle"]
    /\ last = [c \in Clients |-> 0]
    /\ receiving = [c \in Clients |-> FALSE]
    /\ announced \subseteq Nat

Goes(c, from, to) ==
    /\ phase[c] \in from
    /\ \E p \in to : phase' = [phase EXCEPT ![c] = p]

\* The application makes a client, which looks for a pad unless it knows one.
Connect(c) ==
    /\ Goes(c, {"idle"}, {"discovering", "starting", "failed"})
    /\ last' = [last EXCEPT ![c] = 0]
    /\ UNCHANGED <<receiving, announced>>

\* It starts from a number that a pad has announced.
Find(c) ==
    /\ Goes(c, {"discovering"}, {"starting"})
    /\ \E n \in announced \cup {last[c]} : last' = [last EXCEPT ![c] = n]
    /\ UNCHANGED <<receiving, announced>>

Fail(c) ==
    /\ Goes(c, {"discovering", "starting"}, {"failed"})
    /\ UNCHANGED <<last, receiving, announced>>

Start(c) ==
    /\ Goes(c, {"starting"}, {"connected"})
    /\ receiving' = [receiving EXCEPT ![c] = TRUE]
    /\ UNCHANGED <<last, announced>>

Accept(c) ==
    /\ receiving[c]
    /\ last'[c] \in Nat /\ last'[c] > last[c]
    /\ last' = [last EXCEPT ![c] = last'[c]]
    /\ UNCHANGED <<phase, receiving, announced>>

ReceiverEnds(c) ==
    /\ receiving' = [receiving EXCEPT ![c] = FALSE]
    /\ UNCHANGED <<phase, last, announced>>

Disconnect(c) ==
    /\ Goes(c, {"connected", "failed"}, {"disconnecting"})
    /\ UNCHANGED <<last, receiving, announced>>

Return(c) ==
    /\ Goes(c, {"disconnecting"}, {"idle"})
    /\ ~receiving[c]
    /\ UNCHANGED <<last, receiving, announced>>

PadAnnounces ==
    /\ announced \subseteq announced'
    /\ announced' \subseteq Nat
    /\ UNCHANGED <<phase, last, receiving>>

LifecycleNext ==
    \/ PadAnnounces
    \/ \E c \in Clients :
           \/ Connect(c) \/ Find(c) \/ Fail(c) \/ Start(c)
           \/ Accept(c) \/ ReceiverEnds(c)
           \/ Disconnect(c) \/ Return(c)

LifecycleSpec == LifecycleInit /\ [][LifecycleNext]_lifecycleVars
=============================================================================
