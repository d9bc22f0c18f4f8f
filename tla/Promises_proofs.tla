--------------------------- MODULE Promises_proofs ---------------------------
(***************************************************************************)
(* What an application may rely on, from the abstract specifications alone: *)
(* everything that implements EventFeed and Lifecycle has these properties. *)
(***************************************************************************)
EXTENDS EventFeed, Lifecycle, TLAPS

-----------------------------------------------------------------------------
(* EventFeed.                                                              *)

FeedTyped == feed \in [Receivers -> Seq(Numbers)] /\ posted \in [Receivers -> SUBSET Numbers]

\* Each application sees the events in the order in which they happened, and
\* none of them twice.
InOrder ==
    \A r \in Receivers : \A i, j \in DOMAIN feed[r] : i < j => feed[r][i] < feed[r][j]

\* And it sees none that the pad has not posted to it.
OnlyPosted == \A r \in Receivers : \A i \in DOMAIN feed[r] : feed[r][i] \in posted[r]

LEMMA FeedInitial == FeedInit => FeedTyped /\ InOrder /\ OnlyPosted
<1> SUFFICES ASSUME FeedInit PROVE FeedTyped /\ InOrder /\ OnlyPosted
  OBVIOUS
<1>1. \A r \in Receivers : feed[r] = <<>> /\ posted[r] = {}
  BY DEF FeedInit
<1>2. FeedTyped
  BY DEF FeedInit, FeedTyped
<1> QED BY <1>1, <1>2 DEF InOrder, OnlyPosted

\* What the delivery of an event does to a feed.
LEMMA Delivery ==
  ASSUME FeedTyped, NEW r \in Receivers, NEW n \in Numbers, Deliver(r, n)
  PROVE  /\ \A q \in Receivers : q # r => feed'[q] = feed[q]
         /\ DOMAIN feed'[r] = DOMAIN feed[r] \cup {Len(feed[r]) + 1}
         /\ DOMAIN feed[r] = 1 .. Len(feed[r]) /\ Len(feed[r]) \in Nat
         /\ \A i \in DOMAIN feed[r] : feed'[r][i] = feed[r][i]
         /\ feed'[r][Len(feed[r]) + 1] = n
         /\ feed' \in [Receivers -> Seq(Numbers)]
<1>1. feed[r] \in Seq(Numbers) /\ feed'[r] = Append(feed[r], n)
      /\ \A q \in Receivers : q # r => feed'[q] = feed[q]
  BY DEF FeedTyped, Deliver
<1>2. feed' \in [Receivers -> Seq(Numbers)]
  BY <1>1 DEF FeedTyped, Deliver
<1> QED BY <1>1, <1>2

LEMMA FeedStep ==
  FeedTyped /\ InOrder /\ OnlyPosted /\ [FeedNext]_feedVars
    => FeedTyped' /\ InOrder' /\ OnlyPosted'
<1> SUFFICES ASSUME FeedTyped, InOrder, OnlyPosted, [FeedNext]_feedVars
             PROVE  FeedTyped' /\ InOrder' /\ OnlyPosted'
  OBVIOUS
<1>1. ASSUME UNCHANGED <<feed, posted>> PROVE FeedTyped' /\ InOrder' /\ OnlyPosted'
  BY <1>1 DEF FeedTyped, InOrder, OnlyPosted
<1>2. ASSUME NEW r \in Receivers, NEW n \in Numbers, Post(r, n)
      PROVE  FeedTyped' /\ InOrder' /\ OnlyPosted'
  <2>1. posted' \in [Receivers -> SUBSET Numbers] /\ feed' = feed
        /\ \A q \in Receivers : posted[q] \subseteq posted'[q]
    BY <1>2 DEF Post, FeedTyped
  <2> QED BY <2>1 DEF FeedTyped, InOrder, OnlyPosted
<1>3. ASSUME NEW r \in Receivers, NEW n \in Numbers, Deliver(r, n)
      PROVE  FeedTyped' /\ InOrder' /\ OnlyPosted'
  <2>1. posted' = posted /\ n \in posted[r] /\ \A i \in DOMAIN feed[r] : feed[r][i] < n
    BY <1>3 DEF Deliver
  <2>2. FeedTyped'
    BY <1>3, <2>1, Delivery DEF FeedTyped
  <2>3. InOrder'
    <3> SUFFICES ASSUME NEW q \in Receivers, NEW i \in DOMAIN feed'[q], NEW j \in DOMAIN feed'[q], i < j
                 PROVE  feed'[q][i] < feed'[q][j]
      BY DEF InOrder
    <3>1. CASE q # r
      BY <1>3, <3>1, Delivery DEF InOrder
    <3>2. CASE q = r /\ j \in DOMAIN feed[r]
      <4>1. i \in DOMAIN feed[r]
        BY <1>3, <3>2, Delivery
      <4> QED BY <1>3, <3>2, <4>1, Delivery DEF InOrder
    <3>3. CASE q = r /\ j = Len(feed[r]) + 1
      <4>1. i \in DOMAIN feed[r]
        BY <1>3, <3>3, Delivery
      <4> QED BY <1>3, <2>1, <3>3, <4>1, Delivery
    <3> QED BY <1>3, <3>1, <3>2, <3>3, Delivery
  <2>4. OnlyPosted'
    BY <1>3, <2>1, Delivery DEF OnlyPosted
  <2> QED BY <2>2, <2>3, <2>4
<1>4. ASSUME NEW r \in Receivers, Restart(r) PROVE FeedTyped' /\ InOrder' /\ OnlyPosted'
  <2>1. posted' = posted /\ feed' \in [Receivers -> Seq(Numbers)] /\ feed'[r] = <<>>
        /\ \A q \in Receivers : q # r => feed'[q] = feed[q]
    BY <1>4 DEF Restart, FeedTyped
  <2>2. DOMAIN feed'[r] = {}
    BY <2>1
  <2>3. ASSUME NEW q \in Receivers, q # r PROVE feed'[q] = feed[q]
    BY <2>1, <2>3
  <2>4. InOrder'
    BY <2>2, <2>3 DEF InOrder
  <2>5. OnlyPosted'
    BY <2>1, <2>2, <2>3 DEF OnlyPosted
  <2> QED BY <2>1, <2>4, <2>5 DEF FeedTyped
<1> QED
  BY <1>1, <1>2, <1>3, <1>4 DEF FeedNext, Subscribe, Drop, feedVars

\* Whatever implements the feed, by however many messages and whatever is lost:
\* an application sees events that were posted to it, each at most once, and in
\* the order in which they happened (server::send, mmp_client::on_message).
THEOREM FeedKeepsOrder == FeedSpec => [](InOrder /\ OnlyPosted)
<1> QED BY FeedInitial, FeedStep, PTL DEF FeedSpec

-----------------------------------------------------------------------------
(* Lifecycle.                                                              *)

\* A thread takes messages only between the success of mmp_connect() and the
\* return of mmp_disconnect().
ReceivesOnlyWhileConnected ==
    \A c \in Clients : receiving[c] => phase[c] \in {"connected", "disconnecting"}

Counts ==
    /\ phase \in [Clients -> {"idle", "discovering", "starting", "connected", "failed",
                              "disconnecting"}]
    /\ last \in [Clients -> Nat]
    /\ receiving \in [Clients -> BOOLEAN]
    /\ announced \subseteq Nat
    /\ \A c \in Clients : phase[c] = "discovering" => last[c] = 0

LEMMA LifecycleInitial == LifecycleInit => Counts /\ ReceivesOnlyWhileConnected
BY DEF LifecycleInit, Counts, ReceivesOnlyWhileConnected

LEMMA LifecycleStep ==
  Counts /\ ReceivesOnlyWhileConnected /\ [LifecycleNext]_lifecycleVars
    => Counts' /\ ReceivesOnlyWhileConnected'
<1> SUFFICES ASSUME Counts, ReceivesOnlyWhileConnected, [LifecycleNext]_lifecycleVars
             PROVE  Counts' /\ ReceivesOnlyWhileConnected'
  OBVIOUS
<1> USE DEF Counts, ReceivesOnlyWhileConnected, Goes
<1>1. CASE PadAnnounces \/ UNCHANGED lifecycleVars
  BY <1>1 DEF PadAnnounces, lifecycleVars
<1>2. ASSUME NEW c \in Clients, Connect(c) PROVE Counts' /\ ReceivesOnlyWhileConnected'
  BY <1>2 DEF Connect
<1>3. ASSUME NEW c \in Clients, Find(c) PROVE Counts' /\ ReceivesOnlyWhileConnected'
  BY <1>3 DEF Find
<1>4. ASSUME NEW c \in Clients, Fail(c) PROVE Counts' /\ ReceivesOnlyWhileConnected'
  BY <1>4 DEF Fail
<1>5. ASSUME NEW c \in Clients, Start(c) PROVE Counts' /\ ReceivesOnlyWhileConnected'
  BY <1>5 DEF Start
<1>6. ASSUME NEW c \in Clients, Accept(c) PROVE Counts' /\ ReceivesOnlyWhileConnected'
  BY <1>6 DEF Accept
<1>7. ASSUME NEW c \in Clients, ReceiverEnds(c) PROVE Counts' /\ ReceivesOnlyWhileConnected'
  BY <1>7 DEF ReceiverEnds
<1>8. ASSUME NEW c \in Clients, Disconnect(c) PROVE Counts' /\ ReceivesOnlyWhileConnected'
  BY <1>8 DEF Disconnect
<1>9. ASSUME NEW c \in Clients, Return(c) PROVE Counts' /\ ReceivesOnlyWhileConnected'
  BY <1>9 DEF Return
<1> QED
  BY <1>1, <1>2, <1>3, <1>4, <1>5, <1>6, <1>7, <1>8, <1>9 DEF LifecycleNext

\* No client that has failed, or is not connected, or whose mmp_disconnect() has
\* returned, has a thread that could call the application (mmpcli.cpp,
\* mmp_connect and mmp_disconnect).
THEOREM NoReceiverWithoutConnection == LifecycleSpec => []ReceivesOnlyWhileConnected
<1> QED BY LifecycleInitial, LifecycleStep, PTL DEF LifecycleSpec

\* The number of the last message only ever goes up, until the application
\* connects the next client (mmp_client::receive).
OnlyForward == [][\A c \in Clients : last'[c] < last[c] => phase[c] = "idle"]_lifecycleVars

THEOREM NeverBackwards == LifecycleSpec => OnlyForward
<1>1. ASSUME Counts, [LifecycleNext]_lifecycleVars, NEW c \in Clients, last'[c] < last[c]
      PROVE  phase[c] = "idle" \/ UNCHANGED lifecycleVars
  <2> USE <1>1 DEF Counts
  <2>1. ASSUME last' = last PROVE FALSE
    BY <2>1
  <2>2. ASSUME NEW d \in Clients, Connect(d) PROVE phase[c] = "idle"
    BY <2>2 DEF Connect, Goes
  <2>3. ASSUME NEW d \in Clients, Find(d) PROVE FALSE
    BY <2>3 DEF Find, Goes
  <2>4. ASSUME NEW d \in Clients, Accept(d) PROVE FALSE
    <3>1. last'[d] \in Nat /\ last'[d] > last[d] /\ \A e \in Clients : e # d => last'[e] = last[e]
      BY <2>4 DEF Accept
    <3> QED BY <3>1
  <2> QED
    BY <2>1, <2>2, <2>3, <2>4
    DEF LifecycleNext, lifecycleVars, PadAnnounces, Fail, Start, ReceiverEnds, Disconnect, Return
<1>2. Counts /\ [LifecycleNext]_lifecycleVars
        => [\A c \in Clients : last'[c] < last[c] => phase[c] = "idle"]_lifecycleVars
  BY <1>1
<1> QED
  BY <1>2, LifecycleInitial, LifecycleStep, PTL DEF LifecycleSpec, OnlyForward
=============================================================================
