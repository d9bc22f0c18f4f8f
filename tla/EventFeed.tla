----------------------------- MODULE EventFeed -----------------------------
(***************************************************************************)
(* What the mouse pad promises the applications that listen to it: each    *)
(* of them sees some of the events that were posted to it while it was a   *)
(* subscriber, every one at most once and in the order they happened.      *)
(* Events may get lost and subscribers may be dropped.                     *)
(***************************************************************************)
EXTENDS Integers, Sequences

CONSTANTS
    Receivers,   \* the applications
    Numbers      \* the events, numbered in the order they happen

VARIABLES
    subscribers,   \* receivers the pad posts events to
    posted,        \* what was posted to each receiver
    feed           \* what each receiver has seen since it was (re)started

feedVars == <<subscribers, posted, feed>>

FeedInit ==
    /\ subscribers = {}
    /\ posted = [r \in Receivers |-> {}]
    /\ feed = [r \in Receivers |-> <<>>]

Subscribe(r) ==
    /\ subscribers' = subscribers \cup {r}
    /\ UNCHANGED <<posted, feed>>

Drop(r) ==
    /\ subscribers' = subscribers \ {r}
    /\ UNCHANGED <<posted, feed>>

\* An event is posted to one subscriber after the other, and never an event
\* that is older than one that was posted before.
Post(r, n) ==
    /\ r \in subscribers
    /\ \A q \in Receivers : \A k \in posted[q] : k <= n
    /\ posted' = [posted EXCEPT ![r] = @ \cup {n}]
    /\ UNCHANGED <<subscribers, feed>>

Deliver(r, n) ==
    /\ n \in posted[r]
    /\ \A i \in DOMAIN feed[r] : feed[r][i] < n
    /\ feed' = [feed EXCEPT ![r] = Append(@, n)]
    /\ UNCHANGED <<subscribers, posted>>

Restart(r) ==
    /\ feed' = [feed EXCEPT ![r] = <<>>]
    /\ UNCHANGED <<subscribers, posted>>

FeedNext ==
    \E r \in Receivers :
        \/ Subscribe(r) \/ Drop(r) \/ Restart(r)
        \/ \E n \in Numbers : Post(r, n) \/ Deliver(r, n)

FeedSpec == FeedInit /\ [][FeedNext]_feedVars
=============================================================================
