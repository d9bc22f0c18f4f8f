-------------------------- MODULE MousePad_proofs --------------------------
(***************************************************************************)
(* Theorems about the window of the mouse pad, for windows of every size,  *)
(* hands of every speed and queues of every length.                        *)
(***************************************************************************)
EXTENDS MousePad, TLAPS

-----------------------------------------------------------------------------
(* Arithmetic of positions, and the queue.                                 *)

LEMMA PlusType ==
  ASSUME NEW p \in Positions, NEW q \in Positions
  PROVE  Plus(p, q) \in Positions /\ \A a \in Axes : Plus(p, q)[a] = p[a] + q[a]
BY DEF Plus, Positions

LEMMA MessageType ==
  ASSUME NEW pos \in Positions, NEW at \in Positions
  PROVE  /\ At(Move, pos, at) \in Inputs
         /\ At(Input("pause", "none"), pos, at) \in Inputs
         /\ \A b \in Buttons, kind \in {"down", "up"} : At(Input(kind, b), pos, at) \in Inputs
BY DEF At, Move, Input, Inputs

LEMMA SizeType ==
  ASSUME NEW s \in [Axes -> Sizes]
  PROVE  \A a \in Axes : s[a] \in Nat
<1>1. \A w \in Sizes : w \in Nat
  BY SizesAssumption
<1> QED BY <1>1

\* What posting a message makes of the queue.
LEMMA PostType ==
  ASSUME NEW q \in Seq(Inputs), NEW m \in Inputs
  PROVE  Post(q, m) \in Seq(Inputs)
BY DEF Post

LEMMA HeadType ==
  ASSUME NEW q \in Seq(Inputs), q # <<>>
  PROVE  /\ Head(q) \in Inputs
         /\ Tail(q) \in Seq(Inputs)
         /\ Head(q) = q[1]
         /\ Len(q) \in Nat \ {0}
         /\ Len(Tail(q)) = Len(q) - 1
         /\ \A i \in 1 .. Len(q) - 1 : Tail(q)[i] = q[i + 1]
OBVIOUS

LEMMA InputFields ==
  ASSUME NEW m \in Inputs
  PROVE  /\ m.pos \in Positions
         /\ m.hand \in Positions
         /\ m.kind \in {"move", "pause", "down", "up"}
         /\ m.kind \in {"down", "up"} => m.button \in Buttons
BY DEF Inputs

-----------------------------------------------------------------------------
(* The screen, and what the window hears.                                  *)

\* The cursor is somewhere on the screen, and stays where it is put in the
\* client area, of which the window hears.
LEMMA OnScreenType ==
  ASSUME NEW pos \in Positions
  PROVE  OnScreen(pos) \in Positions
<1>1. \A a \in Axes : pos[a] \in Int /\ Lowest[a] \in Int /\ Highest[a] \in Int
  BY ScreenAssumption DEF Positions
<1> QED BY <1>1 DEF OnScreen, Positions

LEMMA InsideStays ==
  ASSUME size \in [Axes -> Sizes], NEW pos \in Positions, Inside(pos)
  PROVE  OnScreen(pos) = pos /\ Hears(pos)
<1>1. ASSUME NEW a \in Axes PROVE ~(pos[a] < Lowest[a]) /\ ~(pos[a] > Highest[a])
  <2>1. /\ pos[a] \in Int /\ Lowest[a] \in Int /\ Highest[a] \in Int
        /\ size[a] \in Nat /\ size[a] \in Sizes
    BY <1>1, ScreenAssumption, SizeType DEF Positions
  <2>2. 0 <= pos[a] /\ pos[a] < size[a]
    BY <1>1 DEF Inside
  <2>3. Lowest[a] <= 0 /\ size[a] - 1 <= Highest[a]
    BY <1>1, <2>1, ScreenAssumption
  <2> QED BY <2>1, <2>2, <2>3
<1>2. OnScreen(pos) = [a \in Axes |-> pos[a]]
  BY <1>1 DEF OnScreen
<1>3. OnScreen(pos) = pos
  BY <1>2 DEF Positions
<1> QED BY <1>3 DEF Hears

\* A hand that moves by a pixel cannot get a captured cursor any farther than to
\* the frame of the window.
LEMMA NextToTheWindow ==
  ASSUME TypeOK, captured, Inside(cursor), NEW pos \in Positions,
         \A a \in Axes : pos[a] - cursor[a] \in -1 .. 1
  PROVE  Hears(pos)
<1>1. ASSUME NEW a \in Axes PROVE -Frame <= pos[a] /\ pos[a] < size[a] + Frame
  <2>1. /\ pos[a] \in Int /\ cursor[a] \in Int /\ size[a] \in Nat /\ Frame \in Nat \ {0}
        /\ pos[a] - cursor[a] \in -1 .. 1
    BY <1>1, FrameAssumption, SizeType DEF TypeOK, Positions
  <2>2. 0 <= cursor[a] /\ cursor[a] < size[a]
    BY <1>1 DEF Inside
  <2> QED BY <2>1, <2>2
<1> QED BY <1>1 DEF Hears, OnFrame

-----------------------------------------------------------------------------
(* Types.                                                                  *)

LEMMA TypeInit == Init => TypeOK
<1> SUFFICES ASSUME Init PROVE TypeOK
  OBVIOUS
<1>1. Zero \in Positions
  BY DEF Zero, Positions
<1>2. size \in [Axes -> Sizes]
  BY DEF Init
<1>3. moves \in 0 .. MaxMoves /\ inputs \in 0 .. MaxInputs
  BY BoundsAssumption DEF Init
<1>4. {reported, hand, handThen} \subseteq Positions /\ {d, cursor} \subseteq Positions
  BY <1>1 DEF Init
<1>5. queue \in Seq(Inputs)
  BY DEF Init
<1>6. {smooth, active, captured, heard} \subseteq BOOLEAN
  BY DEF Init
<1>7. held \subseteq Buttons /\ down \subseteq Buttons /\ swallowed \subseteq Buttons
  BY DEF Init
<1> QED BY <1>2, <1>3, <1>4, <1>5, <1>6, <1>7 DEF TypeOK

LEMMA TypeNext == TypeOK /\ [Next]_padVars => TypeOK'
<1> SUFFICES ASSUME TypeOK, [Next]_padVars PROVE TypeOK'
  OBVIOUS
<1> USE DEF TypeOK
<1>1. ASSUME NEW step \in Steps, HandMoves(step) PROVE TypeOK'
  <2>1. step \in Positions
    BY BoundsAssumption DEF Steps, Positions
  <2>2. cursor' \in Positions /\ hand' \in Positions
    BY <1>1, <2>1, PlusType, OnScreenType DEF HandMoves
  <2>3. queue' \in Seq(Inputs)
    <3>1. Post(queue, At(Move, cursor', hand')) \in Seq(Inputs)
      BY <2>2, MessageType, PostType
    <3> QED BY <1>1, <3>1 DEF HandMoves
  <2>4. moves' \in 0 .. MaxMoves
    BY <1>1, BoundsAssumption DEF HandMoves
  <2>5. smooth' \in BOOLEAN /\ heard' \in BOOLEAN
    BY <1>1 DEF HandMoves, Hears
  <2> QED BY <1>1, <2>2, <2>3, <2>4, <2>5 DEF HandMoves, windowVars
<1>2. ASSUME NEW b \in Buttons, Press(b) PROVE TypeOK'
  <2>1. queue' \in Seq(Inputs)
    BY <1>2, MessageType DEF Press
  <2>2. inputs' \in 0 .. MaxInputs
    BY <1>2, BoundsAssumption DEF Press
  <2> QED BY <1>2, <2>1, <2>2 DEF Press, windowVars
<1>3. ASSUME NEW b \in Buttons, Release(b) PROVE TypeOK'
  <2>1. queue' \in Seq(Inputs)
    BY <1>3, MessageType DEF Release
  <2>2. inputs' \in 0 .. MaxInputs
    BY <1>3, BoundsAssumption DEF Release
  <2>3. swallowed' \subseteq Buttons
    BY <1>3 DEF Release
  <2> QED BY <1>3, <2>1, <2>2, <2>3 DEF Release, windowVars
<1>4. ASSUME PauseKey PROVE TypeOK'
  <2>1. queue' \in Seq(Inputs)
    BY <1>4, MessageType DEF PauseKey
  <2>2. inputs' \in 0 .. MaxInputs
    BY <1>4, BoundsAssumption DEF PauseKey
  <2> QED BY <1>4, <2>1, <2>2 DEF PauseKey, windowVars
<1>5. ASSUME LoseCapture PROVE TypeOK'
  <2>1. inputs' \in 0 .. MaxInputs
    BY <1>5, BoundsAssumption DEF LoseCapture
  <2> QED BY <1>5, <2>1 DEF LoseCapture, windowVars
<1>6. ASSUME OnResize PROVE TypeOK'
  <2>1. queue' \in Seq(Inputs)
    <3>1. Post(queue, At(Move, cursor, hand)) \in Seq(Inputs)
      BY MessageType, PostType
    <3> QED BY <1>6, <3>1 DEF OnResize
  <2>2. inputs' \in 0 .. MaxInputs
    BY <1>6, BoundsAssumption DEF OnResize
  <2>3. captured' \in BOOLEAN /\ smooth' \in BOOLEAN /\ heard' \in BOOLEAN
    BY <1>6 DEF OnResize, Hears
  <2> QED BY <1>6, <2>1, <2>2, <2>3 DEF OnResize
<1>7. ASSUME OnMouseMove PROVE TypeOK'
  <2> DEFINE x   == Message.pos
             pos == [a \in Axes |-> Wrap(x[a], size[a])]
  <2>1. queue # <<>>
    BY <1>7 DEF OnMouseMove, Handles
  <2>2. Message \in Inputs /\ Tail(queue) \in Seq(Inputs)
    BY <2>1, HeadType DEF Message
  <2>3. x \in Positions /\ Message.hand \in Positions
    BY <2>2, InputFields
  <2>4. \A a \in Axes : size[a] \in Int /\ x[a] \in Int
    <3>1. \A a \in Axes : size[a] \in Int
      BY SizeType DEF TypeOK
    <3>2. \A a \in Axes : x[a] \in Int
      BY <2>3 DEF Positions
    <3> QED BY <3>1, <3>2
  <2>5. pos \in Positions
    BY <2>4 DEF Positions, Wrap
  <2>6. d' \in Positions
    <3>1. d' = [a \in Axes |-> d[a] + Shift(x[a], size[a])]
      BY <1>7 DEF OnMouseMove
    <3>2. \A a \in Axes : d[a] + Shift(x[a], size[a]) \in Int
      BY <2>4 DEF Positions, Shift
    <3> QED BY <3>1, <3>2 DEF Positions
  <2> HIDE DEF x, pos
  <2>7. /\ cursor' \in {cursor, OnScreen(pos)}
        /\ queue' \in {Tail(queue), Post(Tail(queue), At(Move, cursor', hand))}
        /\ heard' \in {heard, Hears(cursor')}
    BY <1>7 DEF OnMouseMove, x, pos
  <2>8. cursor' \in Positions /\ queue' \in Seq(Inputs) /\ heard' \in BOOLEAN
    <3>1. cursor' \in Positions /\ Hears(cursor') \in BOOLEAN
      BY <2>5, <2>7, OnScreenType DEF Hears
    <3> QED BY <2>2, <2>7, <3>1, MessageType, PostType
  <2>9. reported' \in Positions /\ handThen' \in Positions
    <3>1. \/ reported' = Plus(x, d') /\ handThen' = Message.hand
          \/ reported' = reported /\ handThen' = handThen
      BY <1>7 DEF OnMouseMove, Report, x
    <3> QED BY <2>3, <2>6, <3>1, PlusType
  <2> QED BY <1>7, <2>6, <2>8, <2>9 DEF OnMouseMove
<1>8. ASSUME OnMouseDown PROVE TypeOK'
  <2>1. queue # <<>> /\ Message.kind = "down"
    BY <1>8 DEF OnMouseDown, Handles
  <2>2. Message \in Inputs /\ Tail(queue) \in Seq(Inputs)
    BY <2>1, HeadType DEF Message
  <2>3. Message.pos \in Positions /\ Message.hand \in Positions /\ Pressed \in Buttons
    BY <2>1, <2>2, InputFields DEF Pressed
  <2>4. reported' \in Positions /\ handThen' \in Positions
    BY <1>8, <2>3, PlusType DEF OnMouseDown, Report
  <2>5. down' \subseteq Buttons /\ queue' \in Seq(Inputs)
    BY <1>8, <2>2, <2>3 DEF OnMouseDown
  <2> QED BY <1>8, <2>4, <2>5 DEF OnMouseDown
<1>9. ASSUME OnMouseUp PROVE TypeOK'
  <2>1. queue # <<>>
    BY <1>9 DEF OnMouseUp, Handles
  <2>2. Message \in Inputs /\ Tail(queue) \in Seq(Inputs)
    BY <2>1, HeadType DEF Message
  <2>3. Message.pos \in Positions /\ Message.hand \in Positions /\ Message.button \in Buttons
    BY <1>9, <2>2, InputFields DEF OnMouseUp, Handles
  <2>4. reported' \in Positions /\ handThen' \in Positions
    BY <1>9, <2>3, PlusType DEF OnMouseUp, Report
  <2>5. down' \subseteq Buttons /\ swallowed' \subseteq Buttons /\ queue' \in Seq(Inputs)
    BY <1>9, <2>2, <2>3 DEF OnMouseUp
  <2> QED BY <1>9, <2>4, <2>5 DEF OnMouseUp
<1>10. ASSUME OnKeyDown PROVE TypeOK'
  <2>1. queue # <<>>
    BY <1>10 DEF OnKeyDown, Handles
  <2>2. queue' \in Seq(Inputs)
    BY <1>10, <2>1, HeadType DEF OnKeyDown
  <2>3. active' \in BOOLEAN /\ captured' \in BOOLEAN
    BY <1>10 DEF OnKeyDown
  <2> QED BY <1>10, <2>2, <2>3 DEF OnKeyDown
<1>11. CASE UNCHANGED padVars
  BY <1>11 DEF padVars, windowVars, systemVars, historyVars
<1> QED BY <1>1, <1>2, <1>3, <1>4, <1>5, <1>6, <1>7, <1>8, <1>9, <1>10, <1>11
        DEF Next, Handle

\* The variables keep their types.
THEOREM TypeCorrect == Spec => []TypeOK
BY TypeInit, TypeNext, PTL DEF Spec

-----------------------------------------------------------------------------
(* The cursor comes back.  If the window has heard of where the cursor is, *)
(* it is in the window, unless the move that has brought it there still    *)
(* waits: such a move puts it back.                                        *)

HasSize == \A a \in Axes : size[a] > 0

AnnouncedBy(q) == \E i \in DOMAIN q : q[i].kind = "move" /\ q[i].pos = cursor

Returning == HasSize /\ heard => Inside(cursor) \/ AnnouncedBy(queue)

\* A move that is posted is in the queue, and so are the others messages but
\* the move it replaces.
LEMMA Posted ==
  ASSUME NEW q \in Seq(Inputs), NEW m \in Inputs
  PROVE  /\ \E i \in DOMAIN Post(q, m) : Post(q, m)[i] = m
         /\ Len(Post(q, m)) \in {Len(q), Len(q) + 1}
BY DEF Post

\* Where the cursor is put: where it was only if that is in the window.
LEMMA WrapsInside ==
  ASSUME NEW x \in Int, NEW w \in Nat, w > 0
  PROVE  /\ 0 <= Wrap(x, w) /\ Wrap(x, w) < w
         /\ Wrap(x, w) + Shift(x, w) = x \/ x \notin -1 .. w
         /\ Shift(x, w) \in {-w, 0, w}
         /\ Wrap(x, w) = x => Shift(x, w) = 0
BY DEF Wrap, Shift

LEMMA ReturningInit == Init => Returning
<1> SUFFICES ASSUME Init, HasSize PROVE Inside(cursor)
  BY DEF Returning
<1>1. size \in [Axes -> Sizes]
  BY DEF Init
<1>2. \A a \in Axes : size[a] \in Nat
  BY <1>1, SizeType
<1>3. \A a \in Axes : cursor[a] = 0 /\ size[a] > 0
  BY DEF Init, Zero, HasSize
<1>4. ASSUME NEW a \in Axes PROVE 0 <= cursor[a] /\ cursor[a] < size[a]
  BY <1>2, <1>3, <1>4
<1> QED BY <1>4 DEF Inside

LEMMA ReturningNext == TypeOK /\ Returning /\ [Next]_padVars => Returning'
<1> SUFFICES ASSUME TypeOK, Returning, [Next]_padVars PROVE Returning'
  OBVIOUS
<1>1. \A m \in Inputs : m.kind = "move" /\ m.pos = cursor' /\ queue' = Post(queue, m)
          => AnnouncedBy(queue)'
  BY Posted DEF TypeOK, AnnouncedBy
<1>2. ASSUME NEW step \in Steps, HandMoves(step) PROVE Returning'
  <2>1. cursor' \in Positions /\ hand' \in Positions
    BY TypeNext DEF TypeOK
  <2>2. At(Move, cursor', hand') \in Inputs
    BY <2>1, MessageType
  <2>3. heard' => AnnouncedBy(queue)'
    BY <1>1, <1>2, <2>2 DEF HandMoves, At, Move
  <2> QED BY <2>3 DEF Returning
\* An input is queued behind the others.
<1>3. ASSUME NEW m \in Inputs, queue' = Append(queue, m), UNCHANGED <<size, cursor, heard>>
      PROVE  Returning'
  <2>1. AnnouncedBy(queue) => AnnouncedBy(queue)'
    BY <1>3 DEF AnnouncedBy, TypeOK
  <2> QED BY <1>3, <2>1 DEF Returning, HasSize, Inside
<1>4. ASSUME UNCHANGED <<size, cursor, queue, heard>> PROVE Returning'
  BY <1>4 DEF Returning, HasSize, Inside, AnnouncedBy
<1>5. ASSUME NEW b \in Buttons, Press(b) PROVE Returning'
  <2>1. At(Input("down", b), cursor, hand) \in Inputs
    BY MessageType DEF TypeOK
  <2> QED BY <1>3, <1>5, <2>1 DEF Press, windowVars
<1>6. ASSUME NEW b \in Buttons, Release(b) PROVE Returning'
  <2>1. At(Input("up", b), cursor, hand) \in Inputs
    BY MessageType DEF TypeOK
  <2>2. CASE captured \/ Inside(cursor)
    BY <1>3, <1>6, <2>1, <2>2 DEF Release, windowVars
  <2>3. CASE ~(captured \/ Inside(cursor))
    BY <1>4, <1>6, <2>3 DEF Release, windowVars
  <2> QED BY <2>2, <2>3
<1>7. ASSUME PauseKey PROVE Returning'
  <2>1. At(Input("pause", "none"), cursor, hand) \in Inputs
    BY MessageType DEF TypeOK
  <2> QED BY <1>3, <1>7, <2>1 DEF PauseKey, windowVars
<1>8. ASSUME LoseCapture PROVE Returning'
  BY <1>4, <1>8 DEF LoseCapture, windowVars
<1>9. ASSUME OnResize PROVE Returning'
  <2>1. At(Move, cursor, hand) \in Inputs
    BY MessageType DEF TypeOK
  <2>2. heard' => AnnouncedBy(queue)'
    BY <1>1, <1>9, <2>1 DEF OnResize, At, Move
  <2> QED BY <2>2 DEF Returning
<1>10. ASSUME OnMouseMove PROVE Returning'
  <2> DEFINE x   == Message.pos
             pos == [a \in Axes |-> Wrap(x[a], size[a])]
  <2> SUFFICES ASSUME HasSize', heard' PROVE Inside(cursor)' \/ AnnouncedBy(queue)'
    BY DEF Returning
  <2>1. queue # <<>> /\ size' = size /\ HasSize
    BY <1>10 DEF OnMouseMove, Handles, HasSize
  <2>2. Message \in Inputs /\ Message = queue[1]
    BY <2>1, HeadType DEF Message, TypeOK
  <2>3. x \in Positions
    BY <2>2, InputFields
  <2>4. \A a \in Axes : 0 <= pos[a] /\ pos[a] < size[a]
    <3>1. \A a \in Axes : size[a] \in Nat /\ size[a] > 0
      BY <2>1, SizeType DEF TypeOK, HasSize
    <3>2. \A a \in Axes : x[a] \in Int
      BY <2>3 DEF Positions
    <3> QED BY <3>1, <3>2, WrapsInside
  <2> HIDE DEF x, pos
  <2>5. CASE pos # x
    <3>1. cursor' = OnScreen(pos)
      BY <1>10, <2>5 DEF OnMouseMove, x, pos
    <3>2. pos \in Positions
      <4>1. \A a \in Axes : x[a] \in Int
        BY <2>3 DEF Positions
      <4>2. \A a \in Axes : size[a] \in Nat
        BY SizeType DEF TypeOK
      <4> QED BY <4>1, <4>2 DEF pos, Wrap, Positions
    <3>3. cursor' = pos
      BY <2>4, <3>1, <3>2, InsideStays DEF Inside, TypeOK
    <3> QED BY <2>1, <2>4, <3>3 DEF Inside
  <2>6. CASE pos = x
    <3>1. cursor' = cursor /\ queue' = Tail(queue) /\ heard' = heard
      BY <1>10, <2>6 DEF OnMouseMove, x, pos
    <3>2. CASE Inside(cursor)
      BY <2>1, <3>1, <3>2 DEF Inside
    <3>3. CASE cursor = x
      BY <2>1, <2>4, <2>6, <3>1, <3>3 DEF Inside
    <3>4. ASSUME NEW i \in DOMAIN queue, queue[i].kind = "move", queue[i].pos = cursor, i # 1
          PROVE  AnnouncedBy(queue)'
      <4>1. i - 1 \in DOMAIN Tail(queue) /\ Tail(queue)[i - 1] = queue[i]
        BY <2>1, <3>4, HeadType DEF TypeOK
      <4> QED BY <3>1, <3>4, <4>1 DEF AnnouncedBy
    <3> QED BY <2>1, <2>2, <3>1, <3>2, <3>3, <3>4 DEF Returning, AnnouncedBy, x
  <2> QED BY <2>5, <2>6
\* Any other message that is handled is not a move.
<1>11. ASSUME queue # <<>>, queue[1].kind # "move", queue' = Tail(queue),
              UNCHANGED <<size, cursor, heard>>
       PROVE  Returning'
  <2>1. ASSUME NEW i \in DOMAIN queue, queue[i].kind = "move"
        PROVE  i - 1 \in DOMAIN Tail(queue) /\ Tail(queue)[i - 1] = queue[i]
    <3>1. i # 1
      BY <1>11, <2>1
    <3> QED BY <1>11, <3>1, HeadType DEF TypeOK
  <2>2. AnnouncedBy(queue) => AnnouncedBy(queue)'
    BY <1>11, <2>1 DEF AnnouncedBy
  <2> QED BY <1>11, <2>2 DEF Returning, HasSize, Inside
<1>12. ASSUME OnMouseDown \/ OnMouseUp \/ OnKeyDown PROVE Returning'
  <2>1. queue # <<>> /\ Message = queue[1]
    BY <1>12, HeadType DEF OnMouseDown, OnMouseUp, OnKeyDown, Handles, Message, TypeOK
  <2> QED BY <1>11, <1>12, <2>1 DEF OnMouseDown, OnMouseUp, OnKeyDown, Handles
<1>13. CASE UNCHANGED padVars
  BY <1>4, <1>13 DEF padVars, windowVars, systemVars, historyVars
<1> QED BY <1>2, <1>5, <1>6, <1>7, <1>8, <1>9, <1>10, <1>12, <1>13 DEF Next, Handle

\* Once the pad has handled its input the cursor is in the window, if the window
\* has heard of the hand's last movement, however fast and far that was, however
\* wide the frame and the screen are and however often the window is resized.
THEOREM CursorReturns == Spec => []CursorComesBack
<1>1. Returning => CursorComesBack
  BY DEF Returning, CursorComesBack, HasSize, AnnouncedBy
<1> QED BY <1>1, TypeInit, TypeNext, ReturningInit, ReturningNext, PTL DEF Spec

-----------------------------------------------------------------------------
(* The buttons.  The last word about a button, of the queue or else of the *)
(* clients, is what the user last did with it, unless a release is missing. *)

Speaks(m, b) == m.kind \in {"down", "up"} /\ m.button = b

Agreed(q, h, dn, b) ==
    \A i \in 0 .. Len(q) :
        /\ i # 0 => Speaks(q[i], b)
        /\ \A j \in i + 1 .. Len(q) : ~Speaks(q[j], b)
        => (b \in h <=> IF i = 0 THEN b \in dn ELSE q[i].kind = "down")

ButtonInv == \A b \in Buttons \ swallowed : Agreed(queue, held, down, b)

\* A message that is appended has the last word about its button.
LEMMA AppendAgrees ==
  ASSUME NEW q \in Seq(Inputs), NEW m \in Inputs, NEW h, NEW dn, NEW h2, NEW b,
         Speaks(m, b) \/ Agreed(q, h, dn, b),
         b \in h2 <=> IF Speaks(m, b) THEN m.kind = "down" ELSE b \in h
  PROVE  Agreed(Append(q, m), h2, dn, b)
<1> DEFINE r == Append(q, m)
<1>1. /\ Len(q) \in Nat /\ Len(r) = Len(q) + 1
      /\ \A i \in 1 .. Len(q) : r[i] = q[i]
      /\ r[Len(q) + 1] = m
  OBVIOUS
<1> HIDE DEF r
<1>2. SUFFICES ASSUME NEW i \in 0 .. Len(r),
                      i # 0 => Speaks(r[i], b),
                      \A j \in i + 1 .. Len(r) : ~Speaks(r[j], b)
               PROVE  b \in h2 <=> IF i = 0 THEN b \in dn ELSE r[i].kind = "down"
  BY DEF Agreed, r
<1>3. CASE i = Len(q) + 1
  BY <1>1, <1>2, <1>3
<1>4. CASE i # Len(q) + 1
  <2>1. i \in 0 .. Len(q) /\ ~Speaks(m, b)
    BY <1>1, <1>2, <1>4
  <2>2. \A j \in i + 1 .. Len(q) : ~Speaks(q[j], b)
    BY <1>1, <1>2
  <2>3. i # 0 => Speaks(q[i], b) /\ q[i] = r[i]
    BY <1>1, <1>2, <2>1
  <2> QED BY <2>1, <2>2, <2>3 DEF Agreed
<1> QED BY <1>3, <1>4

\* A move says nothing about buttons.
LEMMA PostAgrees ==
  ASSUME NEW q \in Seq(Inputs), NEW m \in Inputs, m.kind = "move",
         NEW h, NEW dn, NEW b, Agreed(q, h, dn, b)
  PROVE  Agreed(Post(q, m), h, dn, b)
<1>1. CASE Post(q, m) = Append(q, m)
  BY <1>1, AppendAgrees DEF Speaks
<1>2. CASE /\ q # <<>> /\ q[Len(q)].kind = "move"
           /\ Post(q, m) = [q EXCEPT ![Len(q)] = m]
  <2> DEFINE r == [q EXCEPT ![Len(q)] = m]
  <2>1. Len(r) = Len(q) /\ Len(q) \in Nat
    OBVIOUS
  <2>2. \A i \in 1 .. Len(q) : r[i] = q[i] \/ (r[i].kind = "move" /\ q[i].kind = "move")
    BY <1>2
  <2> HIDE DEF r
  <2>3. \A i \in 1 .. Len(q) : Speaks(r[i], b) <=> Speaks(q[i], b)
    BY <2>2 DEF Speaks
  <2>4. \A i \in 1 .. Len(q) : r[i].kind = q[i].kind
    BY <2>2
  <2>5. Agreed(r, h, dn, b)
    BY <2>1, <2>3, <2>4 DEF Agreed
  <2> QED BY <1>2, <2>5 DEF r
<1> QED BY <1>1, <1>2 DEF Post

\* A message that is handled leaves its word with the clients, unless the user
\* has had another word since.
LEMMA HandleAgrees ==
  ASSUME NEW q \in Seq(Inputs), q # <<>>, NEW h, NEW dn, NEW dn2, NEW b,
         Agreed(q, h, dn, b),
         \/ b \in dn2 <=> IF Speaks(q[1], b) THEN q[1].kind = "down" ELSE b \in dn
         \/ Speaks(q[1], b) /\ ~(b \in h <=> q[1].kind = "down")
  PROVE  Agreed(Tail(q), h, dn2, b)
<1> DEFINE r == Tail(q)
<1>1. /\ Len(q) \in Nat \ {0} /\ Len(r) = Len(q) - 1
      /\ \A i \in 1 .. Len(q) - 1 : r[i] = q[i + 1]
  BY HeadType
<1> HIDE DEF r
<1>2. SUFFICES ASSUME NEW i \in 0 .. Len(r),
                      i # 0 => Speaks(r[i], b),
                      \A j \in i + 1 .. Len(r) : ~Speaks(r[j], b)
               PROVE  b \in h <=> IF i = 0 THEN b \in dn2 ELSE r[i].kind = "down"
  BY DEF Agreed, r
<1>3. \A j \in i + 2 .. Len(q) : ~Speaks(q[j], b)
  <2> TAKE j \in i + 2 .. Len(q)
  <2>1. j - 1 \in i + 1 .. Len(r) /\ r[j - 1] = q[j]
    BY <1>1, <1>2
  <2> QED BY <1>2, <2>1
<1>4. CASE i # 0
  <2>1. i + 1 \in 0 .. Len(q) /\ i + 1 # 0 /\ (i + 1) + 1 = i + 2 /\ r[i] = q[i + 1]
    BY <1>1, <1>2, <1>4
  <2>2. Speaks(q[i + 1], b)
    BY <1>2, <1>4, <2>1
  <2> QED BY <1>3, <1>4, <2>1, <2>2 DEF Agreed
<1>5. CASE i = 0 /\ Speaks(q[1], b)
  <2>1. 1 \in 0 .. Len(q) /\ \A j \in 1 + 1 .. Len(q) : ~Speaks(q[j], b)
    BY <1>1, <1>3, <1>5
  <2> QED BY <1>5, <2>1 DEF Agreed
<1>6. CASE i = 0 /\ ~Speaks(q[1], b)
  <2>1. 0 \in 0 .. Len(q) /\ \A j \in 0 + 1 .. Len(q) : ~Speaks(q[j], b)
    BY <1>1, <1>3, <1>6
  <2> QED BY <1>6, <2>1 DEF Agreed
<1> QED BY <1>4, <1>5, <1>6

LEMMA ButtonInit == Init => ButtonInv
<1> SUFFICES ASSUME Init PROVE ButtonInv
  OBVIOUS
<1>1. Len(queue) = 0 /\ held = {} /\ down = {}
  BY DEF Init
<1> QED BY <1>1 DEF ButtonInv, Agreed

LEMMA ButtonNext == TypeOK /\ ButtonInv /\ [Next]_padVars => ButtonInv'
<1> SUFFICES ASSUME TypeOK, ButtonInv, [Next]_padVars PROVE ButtonInv'
  OBVIOUS
<1> USE DEF TypeOK
\* A move is posted, or nothing happens to the queue.
<1>1. ASSUME UNCHANGED <<down, held, swallowed>>,
             \/ queue' = queue
             \/ \E m \in Inputs : m.kind = "move" /\ queue' = Post(queue, m)
      PROVE  ButtonInv'
  <2>1. CASE queue' = queue
    BY <1>1, <2>1 DEF ButtonInv
  <2>2. ASSUME NEW m \in Inputs, m.kind = "move", queue' = Post(queue, m)
        PROVE  ButtonInv'
    BY <1>1, <2>2, PostAgrees DEF ButtonInv
  <2> QED BY <1>1, <2>1, <2>2
\* An input is queued.
<1>2. ASSUME NEW m \in Inputs, queue' = Append(queue, m), UNCHANGED down,
             \A b \in Buttons \ swallowed' :
                 /\ Speaks(m, b) \/ b \notin swallowed
                 /\ b \in held' <=> IF Speaks(m, b) THEN m.kind = "down" ELSE b \in held
      PROVE  ButtonInv'
  BY <1>2, AppendAgrees DEF ButtonInv
\* A message is handled.
<1>3. ASSUME queue # <<>>, queue' = Tail(queue), UNCHANGED held, swallowed \subseteq swallowed',
             \A b \in Buttons \ swallowed' :
                 \/ b \in down' <=> IF Speaks(queue[1], b) THEN queue[1].kind = "down" ELSE b \in down
                 \/ Speaks(queue[1], b) /\ ~(b \in held <=> queue[1].kind = "down")
      PROVE  ButtonInv'
  BY <1>3, HandleAgrees DEF ButtonInv
<1>4. ASSUME NEW step \in Steps, HandMoves(step) PROVE ButtonInv'
  <2>1. cursor' \in Positions /\ hand' \in Positions
    BY TypeNext
  <2>2. At(Move, cursor', hand') \in Inputs /\ At(Move, cursor', hand').kind = "move"
    BY <2>1, MessageType DEF At, Move
  <2> QED BY <1>1, <1>4, <2>2 DEF HandMoves, windowVars
\* A press is the last word, even about a button whose release is missing.
<1>5. ASSUME NEW c \in Buttons, Press(c) PROVE ButtonInv'
  <2> DEFINE m == At(Input("down", c), cursor, hand)
  <2>1. m \in Inputs
    BY MessageType
  <2>2. \A b \in Buttons : b \in held' <=> IF Speaks(m, b) THEN m.kind = "down" ELSE b \in held
    BY <1>5 DEF Press, Speaks, At, Input
  <2>3. Speaks(m, c) /\ swallowed' = swallowed \ {c}
    BY <1>5 DEF Press, Speaks, At, Input
  <2> HIDE DEF m
  <2>4. \A b \in Buttons \ swallowed' : Speaks(m, b) \/ b \notin swallowed
    BY <2>3
  <2>5. queue' = Append(queue, m) /\ UNCHANGED down
    BY <1>5 DEF Press, windowVars, m
  <2> QED BY <1>2, <2>1, <2>2, <2>4, <2>5
<1>6. ASSUME NEW c \in Buttons, Release(c), captured \/ Inside(cursor) PROVE ButtonInv'
  <2> DEFINE m == At(Input("up", c), cursor, hand)
  <2>1. m \in Inputs
    BY MessageType
  <2>2. \A b \in Buttons : b \in held' <=> IF Speaks(m, b) THEN m.kind = "down" ELSE b \in held
    BY <1>6 DEF Release, Speaks, At, Input
  <2>3. queue' = Append(queue, m) /\ UNCHANGED <<down, swallowed>>
    BY <1>6 DEF Release, windowVars
  <2> QED BY <1>2, <2>1, <2>2, <2>3
\* Nobody is told of a release elsewhere.
<1>7. ASSUME NEW c \in Buttons, Release(c), ~(captured \/ Inside(cursor)) PROVE ButtonInv'
  <2>1. swallowed' = swallowed \cup {c} /\ held' = held \ {c} /\ UNCHANGED <<queue, down>>
    BY <1>7 DEF Release, windowVars
  <2> QED BY <2>1 DEF ButtonInv, Agreed
<1>8. ASSUME PauseKey PROVE ButtonInv'
  <2> DEFINE m == At(Input("pause", "none"), cursor, hand)
  <2>1. m \in Inputs
    BY MessageType
  <2>2. \A b \in Buttons : b \in held' <=> IF Speaks(m, b) THEN m.kind = "down" ELSE b \in held
    BY <1>8 DEF PauseKey, Speaks, At, Input
  <2> QED BY <1>2, <1>8, <2>1, <2>2 DEF PauseKey, windowVars
<1>9. ASSUME OnResize PROVE ButtonInv'
  <2>1. At(Move, cursor, hand) \in Inputs /\ At(Move, cursor, hand).kind = "move"
    BY MessageType DEF At, Move
  <2> QED BY <1>1, <1>9, <2>1 DEF OnResize
<1>10. ASSUME OnMouseMove PROVE ButtonInv'
  <2> DEFINE m == At(Move, cursor', hand)
  <2>1. queue # <<>> /\ UNCHANGED <<down, held, swallowed>>
    BY <1>10 DEF OnMouseMove, Handles
  <2>2. queue[1].kind = "move" /\ Message = queue[1] /\ Tail(queue) \in Seq(Inputs)
    BY <1>10, <2>1, HeadType DEF OnMouseMove, Handles, Message
  <2>3. \A b \in Buttons \ swallowed : Agreed(Tail(queue), held, down, b)
    BY <2>1, <2>2, HandleAgrees DEF ButtonInv, Speaks
  <2>4. cursor' \in Positions
    BY TypeNext
  <2>5. m \in Inputs /\ m.kind = "move"
    BY <2>4, MessageType DEF At, Move
  <2>6. queue' \in {Tail(queue), Post(Tail(queue), m)}
    BY <1>10 DEF OnMouseMove
  <2> HIDE DEF m
  <2>7. ASSUME NEW b \in Buttons \ swallowed PROVE Agreed(queue', held, down, b)
    <3>1. Agreed(Tail(queue), held, down, b)
      BY <2>3
    <3>2. Agreed(Post(Tail(queue), m), held, down, b)
      BY <2>2, <2>5, <3>1, PostAgrees
    <3> QED BY <2>6, <3>1, <3>2
  <2> QED BY <2>1, <2>7 DEF ButtonInv
<1>11. ASSUME OnMouseDown PROVE ButtonInv'
  <2>1. queue # <<>> /\ queue[1].kind = "down" /\ Message = queue[1]
    BY <1>11, HeadType DEF OnMouseDown, Handles, Message
  <2>2. \A b \in Buttons : b \in down' <=> IF Speaks(queue[1], b) THEN queue[1].kind = "down"
                                           ELSE b \in down
    BY <1>11, <2>1 DEF OnMouseDown, Pressed, Speaks
  <2> QED BY <1>3, <1>11, <2>1, <2>2 DEF OnMouseDown
\* A window that is not active ignores a release, which does not matter if the
\* user has pressed the button again.
<1>12. ASSUME OnMouseUp PROVE ButtonInv'
  <2>1. queue # <<>> /\ queue[1].kind = "up" /\ Message = queue[1]
    BY <1>12, HeadType DEF OnMouseUp, Handles, Message
  <2>2. queue' = Tail(queue) /\ held' = held /\ swallowed \subseteq swallowed'
    BY <1>12 DEF OnMouseUp
  <2>3. CASE active
    <3>1. down' = down \ {queue[1].button}
      BY <1>12, <2>1, <2>3 DEF OnMouseUp, Forwards
    <3>2. \A b \in Buttons : b \in down' <=> IF Speaks(queue[1], b) THEN queue[1].kind = "down"
                                             ELSE b \in down
      BY <2>1, <3>1 DEF Speaks
    <3> QED BY <1>3, <2>1, <2>2, <3>2
  <2>4. CASE ~active
    <3>1. down' = down /\ swallowed' = swallowed \cup ({queue[1].button} \ held)
      BY <1>12, <2>1, <2>4 DEF OnMouseUp, Forwards
    <3>2. \A b \in Buttons \ swallowed' : Speaks(queue[1], b) => b \in held
      BY <3>1 DEF Speaks
    <3>3. \A b \in Buttons \ swallowed' :
              \/ b \in down' <=> IF Speaks(queue[1], b) THEN queue[1].kind = "down" ELSE b \in down
              \/ Speaks(queue[1], b) /\ ~(b \in held <=> queue[1].kind = "down")
      BY <2>1, <3>1, <3>2
    <3> QED BY <1>3, <2>1, <2>2, <3>3
  <2> QED BY <2>3, <2>4
<1>13. ASSUME OnKeyDown PROVE ButtonInv'
  <2>1. queue # <<>> /\ queue[1].kind = "pause"
    BY <1>13, HeadType DEF OnKeyDown, Handles, Message
  <2> QED BY <1>3, <1>13, <2>1 DEF OnKeyDown, Speaks
<1>14. CASE LoseCapture \/ UNCHANGED padVars
  BY <1>1, <1>14 DEF LoseCapture, padVars, windowVars, systemVars, historyVars
<1> QED BY <1>4, <1>5, <1>6, <1>7, <1>8, <1>9, <1>10, <1>11, <1>12, <1>13, <1>14
        DEF Next, Handle

\* Once the pad has handled its input the clients hold exactly the buttons that
\* the user holds, however presses and releases are mixed with moves, pauses,
\* resizes and losses of the capture; but for a button whose release was missed.
THEOREM ClientsHoldWhatTheUserHolds == Spec => []ButtonsAgree
<1>1. ButtonInv /\ TypeOK => ButtonsAgree
  <2> SUFFICES ASSUME ButtonInv, queue = <<>>, NEW b \in Buttons \ swallowed
               PROVE  b \in down <=> b \in held
    BY DEF ButtonsAgree
  <2>1. Len(queue) = 0
    OBVIOUS
  <2> QED BY <2>1 DEF ButtonInv, Agreed
<1> QED BY <1>1, TypeInit, TypeNext, ButtonInit, ButtonNext, PTL DEF Spec

-----------------------------------------------------------------------------
(* A window that keeps up with the hand.  The hand does not move while     *)
(* input waits.  One move at most waits: the one of the hand, which is the *)
(* next message, or the one with which the window puts the cursor back.    *)
(* The inputs before that one are off by the width of the window.          *)

Waits == \E i \in DOMAIN queue : queue[i].kind = "move"

OffByAWidth(p, q) == \A a \in Axes : p[a] - q[a] \in {-size[a], 0, size[a]}

Tracks ==
    /\ HasSize
    /\ \A a \in Axes : hand[a] = cursor[a] + d[a]
    /\ \A a \in Axes : cursor[a] \in -1 .. size[a]
    /\ Inside(cursor) \/ (queue # <<>> /\ queue[1].kind = "move")

InPlace(i) ==
    /\ queue[i].hand = hand
    /\ OffByAWidth(queue[i].pos, cursor)
    /\ \/ queue[i].pos = cursor
       \/ /\ queue[i].kind # "move"
          /\ \E j \in DOMAIN queue : j > i /\ queue[j].kind = "move"

Messages == \A i \in DOMAIN queue : InPlace(i)

OneMove ==
    \A i, j \in DOMAIN queue :
        queue[i].kind = "move" /\ queue[j].kind = "move" => i = j

Reports ==
    /\ active => Waits \/ \A a \in Axes : reported[a] = hand[a]
    /\ OffByAWidth(reported, handThen)

InStep == smooth => Tracks /\ Messages /\ OneMove /\ Reports

LEMMA Components ==
  ASSUME NEW p \in Positions
  PROVE  \A a \in Axes : p[a] \in Int
BY DEF Positions

LEMMA MessageComponents ==
  ASSUME TypeOK
  PROVE  \A i \in DOMAIN queue : queue[i] \in Inputs /\ queue[i].pos \in Positions
                                 /\ \A a \in Axes : queue[i].pos[a] \in Int
<1>1. \A i \in DOMAIN queue : queue[i] \in Inputs
  BY DEF TypeOK
<1>2. \A i \in DOMAIN queue : queue[i].pos \in Positions
  BY <1>1, InputFields
<1> QED BY <1>1, <1>2 DEF Positions

LEMMA InStepInit == Init => InStep
<1> SUFFICES ASSUME Init PROVE InStep
  OBVIOUS
<1>1. \A a \in Axes : size[a] \in Nat
  <2>1. size \in [Axes -> Sizes]
    BY DEF Init
  <2> QED BY <2>1, SizeType
<1>2. \A a \in Axes : /\ size[a] \in Nat /\ size[a] > 0 /\ d[a] = 0 /\ cursor[a] = 0
                      /\ hand[a] = 0 /\ reported[a] = 0 /\ handThen[a] = 0
  <2>1. \A a \in Axes : size[a] # 0
    BY DEF Init
  <2>2. \A a \in Axes : /\ d[a] = 0 /\ cursor[a] = 0
                        /\ hand[a] = 0 /\ reported[a] = 0 /\ handThen[a] = 0
    BY DEF Init, Zero
  <2>3. ASSUME NEW a \in Axes PROVE size[a] > 0
    <3>1. size[a] \in Nat /\ size[a] # 0
      BY <1>1, <2>1, <2>3
    <3> QED BY <3>1
  <2> QED BY <1>1, <2>2, <2>3
<1>3. DOMAIN queue = {}
  BY DEF Init
<1>4. Tracks
  BY <1>2 DEF Tracks, HasSize, Inside
<1>5. Messages /\ OneMove
  BY <1>3 DEF Messages, OneMove
<1>6. Reports
  BY <1>2 DEF Reports, OffByAWidth
<1> QED BY <1>4, <1>5, <1>6 DEF InStep

\* A hand that moves a captured cursor by a pixel while nothing waits, and a
\* window whose layout changes then.
LEMMA LoneMove ==
  ASSUME TypeOK, TypeOK', InStep, smooth,
         queue = <<>>, NEW m \in Inputs, queue' = Post(queue, m),
         m.kind = "move", m.pos = cursor', m.hand = hand',
         UNCHANGED <<size, d, active, reported, handThen>>,
         \A a \in Axes : /\ cursor'[a] - cursor[a] \in -1 .. 1
                         /\ hand'[a] - hand[a] = cursor'[a] - cursor[a]
  PROVE  InStep'
<1>1. \A a \in Axes : size[a] \in Nat /\ d[a] \in Int
  BY SizeType, Components DEF TypeOK
<1>2. \A a \in Axes : cursor[a] \in Int /\ hand[a] \in Int
  BY Components DEF TypeOK
<1>3. \A a \in Axes : cursor'[a] \in Int /\ hand'[a] \in Int
  BY Components DEF TypeOK
<1>4. DOMAIN queue' = {1} /\ queue'[1] = m /\ queue' # <<>>
  BY DEF Post
<1>5. Tracks /\ Reports
  BY DEF InStep
<1>6. Inside(cursor)
  BY <1>5 DEF Tracks
<1>7. Tracks'
  <2>1. HasSize'
    BY <1>5 DEF Tracks, HasSize
  <2>2. \A a \in Axes : hand'[a] = cursor'[a] + d'[a]
    BY <1>1, <1>2, <1>3, <1>5 DEF Tracks
  <2>3. \A a \in Axes : cursor'[a] \in -1 .. size'[a]
    BY <1>1, <1>2, <1>3, <1>6 DEF Inside
  <2> QED BY <1>4, <2>1, <2>2, <2>3 DEF Tracks
<1>8. Messages'
  <2>1. OffByAWidth(m.pos, cursor)'
    BY <1>1, <1>3 DEF OffByAWidth
  <2> QED BY <1>4, <2>1 DEF Messages, InPlace
<1>9. OneMove'
  BY <1>4 DEF OneMove
<1>10. Reports'
  <2>1. OffByAWidth(reported, handThen)'
    BY <1>5 DEF Reports, OffByAWidth
  <2>2. Waits'
    BY <1>4 DEF Waits
  <2> QED BY <2>1, <2>2 DEF Reports
<1> QED BY <1>7, <1>8, <1>9, <1>10 DEF InStep

\* An input is queued where the cursor is.
LEMMA InputWaits ==
  ASSUME TypeOK, InStep, smooth' = smooth,
         NEW m \in Inputs, queue' = Append(queue, m),
         m.kind # "move", m.pos = cursor, m.hand = hand,
         UNCHANGED <<size, d, cursor, hand, active, reported, handThen>>
  PROVE  InStep'
<1> SUFFICES ASSUME smooth PROVE Tracks' /\ Messages' /\ OneMove' /\ Reports'
  BY DEF InStep
<1>1. \A a \in Axes : size[a] \in Nat
  BY SizeType DEF TypeOK
<1>2. \A a \in Axes : cursor[a] \in Int
  BY Components DEF TypeOK
<1>3. Tracks /\ Messages /\ OneMove /\ Reports
  BY DEF InStep
<1>4. /\ Len(queue) \in Nat /\ DOMAIN queue = 1 .. Len(queue)
      /\ DOMAIN queue' = 1 .. Len(queue) + 1
      /\ \A i \in DOMAIN queue : queue'[i] = queue[i]
      /\ queue'[Len(queue) + 1] = m
  BY DEF TypeOK
<1>5. Tracks'
  <2>1. HasSize' /\ (Inside(cursor) => Inside(cursor)')
    BY <1>3 DEF Tracks, HasSize, Inside
  <2>2. queue # <<>> /\ queue[1].kind = "move" => queue' # <<>> /\ queue'[1].kind = "move"
    BY <1>4 DEF TypeOK
  <2> QED BY <1>3, <2>1, <2>2 DEF Tracks
<1>6. Messages'
  <2>1. OffByAWidth(m.pos, cursor)
    BY <1>1, <1>2 DEF OffByAWidth
  <2>3. ASSUME NEW i \in DOMAIN queue PROVE InPlace(i)'
    <3>1. InPlace(i) /\ queue'[i] = queue[i]
      BY <1>3, <1>4, <2>3 DEF Messages
    <3>2. OffByAWidth(queue[i].pos, cursor)'
      BY <3>1 DEF InPlace, OffByAWidth
    <3>3. ASSUME NEW j \in DOMAIN queue, j > i, queue[j].kind = "move"
          PROVE  j \in DOMAIN queue' /\ queue'[j].kind = "move"
      BY <1>4, <3>3
    <3>4. queue'[i].hand = hand'
      BY <3>1 DEF InPlace
    <3>5. CASE queue[i].pos = cursor
      BY <3>1, <3>2, <3>4, <3>5 DEF InPlace
    <3>6. CASE /\ queue[i].kind # "move"
               /\ \E j \in DOMAIN queue : j > i /\ queue[j].kind = "move"
      <4>1. PICK j \in DOMAIN queue : j > i /\ queue[j].kind = "move"
        BY <3>6
      <4>2. j \in DOMAIN queue' /\ queue'[j].kind = "move"
        BY <3>3, <4>1
      <4>3. queue'[i].kind # "move"
        BY <3>1, <3>6
      <4> QED BY <3>2, <3>4, <4>1, <4>2, <4>3 DEF InPlace
    <3> QED BY <3>1, <3>5, <3>6 DEF InPlace
  <2>4. ASSUME NEW i, i = Len(queue) + 1 PROVE InPlace(i)'
    <3>1. queue'[i] = m
      BY <1>4, <2>4
    <3>2. OffByAWidth(queue[i].pos, cursor)'
      BY <2>1, <3>1 DEF OffByAWidth
    <3> QED BY <3>1, <3>2 DEF InPlace
  <2>5. \A i \in DOMAIN queue' : i \in DOMAIN queue \/ i = Len(queue) + 1
    BY <1>4
  <2> QED BY <2>3, <2>4, <2>5 DEF Messages
<1>7. OneMove'
  BY <1>3, <1>4 DEF OneMove
<1>8. Reports'
  <2>1. OffByAWidth(reported, handThen)'
    BY <1>3 DEF Reports, OffByAWidth
  <2>2. Waits => Waits'
    BY <1>4 DEF Waits
  <2> QED BY <1>3, <2>1, <2>2 DEF Reports
<1> QED BY <1>5, <1>6, <1>7, <1>8

\* An input is handled: what is behind it stays in place.
LEMMA InputHandled ==
  ASSUME TypeOK, InStep, smooth' = smooth,
         queue # <<>>, queue[1].kind # "move", queue' = Tail(queue),
         UNCHANGED <<size, d, cursor, hand>>,
         \/ reported' = Plus(queue[1].pos, d) /\ handThen' = queue[1].hand
         \/ UNCHANGED <<reported, handThen>> /\ (active' => active)
  PROVE  InStep'
<1> SUFFICES ASSUME smooth PROVE Tracks' /\ Messages' /\ OneMove' /\ Reports'
  BY DEF InStep
<1>1. \A a \in Axes : size[a] \in Nat
  BY SizeType DEF TypeOK
<1>2. \A a \in Axes : cursor[a] \in Int /\ d[a] \in Int
  BY Components DEF TypeOK
<1>3. Tracks /\ Messages /\ OneMove /\ Reports
  BY DEF InStep
<1>4. /\ Len(queue) \in Nat \ {0} /\ DOMAIN queue = 1 .. Len(queue)
      /\ DOMAIN queue' = 1 .. Len(queue) - 1
      /\ \A i \in DOMAIN queue' : i + 1 \in DOMAIN queue /\ queue'[i] = queue[i + 1]
      /\ \A i \in DOMAIN queue : i # 1 => i - 1 \in DOMAIN queue' /\ queue'[i - 1] = queue[i]
  BY HeadType DEF TypeOK
<1>5. Tracks'
  <2>1. Inside(cursor)
    BY <1>3 DEF Tracks
  <2>2. HasSize' /\ Inside(cursor)'
    BY <1>3, <2>1 DEF Tracks, HasSize, Inside
  <2> QED BY <1>3, <2>2 DEF Tracks
<1>6. Messages'
  <2> SUFFICES ASSUME NEW i \in DOMAIN queue' PROVE InPlace(i)'
    BY DEF Messages
  <2>1. InPlace(i + 1) /\ queue'[i] = queue[i + 1]
    BY <1>3, <1>4 DEF Messages
  <2>2. OffByAWidth(queue[i].pos, cursor)'
    BY <2>1 DEF InPlace, OffByAWidth
  <2>3. queue'[i].hand = hand'
    BY <2>1 DEF InPlace
  <2>4. CASE queue[i + 1].pos = cursor
    BY <2>1, <2>2, <2>3, <2>4 DEF InPlace
  <2>5. CASE /\ queue[i + 1].kind # "move"
             /\ \E j \in DOMAIN queue : j > i + 1 /\ queue[j].kind = "move"
    <3>1. PICK j \in DOMAIN queue : j > i + 1 /\ queue[j].kind = "move"
      BY <2>5
    <3>2. j - 1 \in DOMAIN queue' /\ queue'[j - 1].kind = "move" /\ j - 1 > i
      BY <1>4, <3>1
    <3> QED BY <2>1, <2>2, <2>3, <2>5, <3>2 DEF InPlace
  <2> QED BY <2>1, <2>4, <2>5 DEF InPlace
<1>7. OneMove'
  BY <1>3, <1>4 DEF OneMove
<1>8. Waits => Waits'
  BY <1>4 DEF Waits
<1>9. Reports'
  <2>1. CASE reported' = Plus(queue[1].pos, d) /\ handThen' = queue[1].hand
    <3>1. InPlace(1)
      BY <1>3, <1>4 DEF Messages
    <3>2. \A a \in Axes : queue[1].pos[a] \in Int
      BY <1>4, MessageComponents
    <3>3. \A a \in Axes : /\ reported'[a] = queue[1].pos[a] + d[a]
                          /\ handThen'[a] = cursor[a] + d[a]
                          /\ hand'[a] = cursor[a] + d[a]
      BY <1>3, <2>1, <3>1 DEF Plus, InPlace, Tracks
    <3>4. \A a \in Axes : reported'[a] - handThen'[a] = queue[1].pos[a] - cursor[a]
      BY <1>2, <3>2, <3>3
    <3>5. OffByAWidth(reported, handThen)'
      BY <3>1, <3>4 DEF InPlace, OffByAWidth
    <3>6. CASE queue[1].pos = cursor
      BY <3>3, <3>5, <3>6 DEF Reports
    <3>7. CASE \E j \in DOMAIN queue : j > 1 /\ queue[j].kind = "move"
      BY <1>8, <3>5, <3>7 DEF Reports, Waits
    <3> QED BY <3>1, <3>6, <3>7 DEF InPlace
  <2>2. CASE UNCHANGED <<reported, handThen>> /\ (active' => active)
    BY <1>3, <1>8, <2>2 DEF Reports, OffByAWidth
  <2> QED BY <2>1, <2>2
<1> QED BY <1>5, <1>6, <1>7, <1>9

\* The move is handled: it is where the cursor is, and nothing else is off.  If
\* it is outside, the cursor moves by a width and so does the offset.
LEMMA MoveHandled ==
  ASSUME TypeOK, InStep, smooth, OnMouseMove
  PROVE  InStep'
<1> DEFINE x   == Message.pos
           pos == [a \in Axes |-> Wrap(x[a], size[a])]
<1>1. Tracks /\ Messages /\ OneMove /\ Reports
  BY DEF InStep
<1>2. queue # <<>> /\ Message = queue[1] /\ queue[1].kind = "move"
  BY HeadType DEF OnMouseMove, Handles, Message, TypeOK
<1>3. /\ Len(queue) \in Nat \ {0} /\ DOMAIN queue = 1 .. Len(queue)
      /\ Tail(queue) \in Seq(Inputs) /\ DOMAIN Tail(queue) = 1 .. Len(queue) - 1
      /\ Len(Tail(queue)) = Len(queue) - 1
      /\ \A i \in DOMAIN Tail(queue) : i + 1 \in DOMAIN queue /\ Tail(queue)[i] = queue[i + 1]
  BY <1>2, HeadType DEF TypeOK
<1>4. \A i \in DOMAIN queue : queue[i].kind = "move" => i = 1
  BY <1>1, <1>2, <1>3 DEF OneMove
<1>5. \A i \in DOMAIN queue : queue[i].pos = cursor /\ queue[i].hand = hand
  <2> SUFFICES ASSUME NEW i \in DOMAIN queue PROVE queue[i].pos = cursor /\ queue[i].hand = hand
    OBVIOUS
  <2>1. InPlace(i)
    BY <1>1 DEF Messages
  <2>2. i >= 1
    BY <1>3
  <2>3. ~ \E j \in DOMAIN queue : j > i /\ queue[j].kind = "move"
    BY <1>3, <1>4, <2>2
  <2> QED BY <2>1, <2>3 DEF InPlace
<1>6. x = cursor /\ Message.hand = hand
  BY <1>2, <1>3, <1>5
<1>7. \A a \in Axes : size[a] \in Nat
  BY SizeType DEF TypeOK
<1>8. \A a \in Axes : cursor[a] \in Int /\ d[a] \in Int /\ hand[a] \in Int
  BY Components DEF TypeOK
<1>9. \A a \in Axes : size[a] > 0 /\ cursor[a] \in -1 .. size[a] /\ hand[a] = cursor[a] + d[a]
  BY <1>1 DEF Tracks, HasSize
<1>10. \A a \in Axes : /\ pos[a] \in Int
                       /\ 0 <= pos[a] /\ pos[a] < size[a]
                       /\ Shift(cursor[a], size[a]) \in {-size[a], 0, size[a]}
                       /\ pos[a] + Shift(cursor[a], size[a]) = cursor[a]
                       /\ pos[a] = cursor[a] => Shift(cursor[a], size[a]) = 0
  <2> SUFFICES ASSUME NEW a \in Axes
               PROVE  /\ Wrap(cursor[a], size[a]) \in Int
                      /\ 0 <= Wrap(cursor[a], size[a]) /\ Wrap(cursor[a], size[a]) < size[a]
                      /\ Shift(cursor[a], size[a]) \in {-size[a], 0, size[a]}
                      /\ Wrap(cursor[a], size[a]) + Shift(cursor[a], size[a]) = cursor[a]
                      /\ Wrap(cursor[a], size[a]) = cursor[a] => Shift(cursor[a], size[a]) = 0
    BY <1>6
  <2>1. cursor[a] \in Int /\ size[a] \in Nat /\ size[a] > 0 /\ cursor[a] \in -1 .. size[a]
    BY <1>7, <1>8, <1>9
  <2> HIDE DEF x, pos
  <2> QED BY <2>1 DEF Wrap, Shift
<1>11. \A a \in Axes : d'[a] = d[a] + Shift(cursor[a], size[a])
  BY <1>6 DEF OnMouseMove
<1>i. OnScreen(pos) = pos /\ Hears(pos)
  <2>1. pos \in Positions /\ Inside(pos)
    BY <1>10 DEF Positions, Inside
  <2> HIDE DEF pos
  <2> QED BY <2>1, InsideStays DEF TypeOK
<1>12. /\ IF pos # x
            THEN cursor' = pos /\ queue' = Post(Tail(queue), At(Move, pos, hand))
            ELSE cursor' = cursor /\ queue' = Tail(queue)
       /\ IF active
            THEN reported' = Plus(x, d') /\ handThen' = Message.hand
            ELSE UNCHANGED <<reported, handThen>>
       /\ UNCHANGED <<smooth, size, active, hand>>
  BY <1>i DEF OnMouseMove, Forwards, Report
<1> HIDE DEF x, pos
<1>13. \A a \in Axes : cursor'[a] = pos[a]
  BY <1>6, <1>12
<1>14. Tracks'
  <2>1. HasSize' /\ Inside(cursor)'
    BY <1>9, <1>10, <1>12, <1>13 DEF HasSize, Inside
  <2>2. \A a \in Axes : cursor'[a] + d'[a] = cursor[a] + d[a]
    <3> TAKE a \in Axes
    <3>1. /\ cursor'[a] = pos[a] /\ d'[a] = d[a] + Shift(cursor[a], size[a])
          /\ pos[a] \in Int /\ d[a] \in Int /\ Shift(cursor[a], size[a]) \in {-size[a], 0, size[a]}
          /\ size[a] \in Nat
          /\ pos[a] + Shift(cursor[a], size[a]) = cursor[a]
      BY <1>7, <1>8, <1>10, <1>11, <1>13
    <3> QED BY <3>1
  <2>3. \A a \in Axes : hand'[a] = cursor'[a] + d'[a]
    BY <1>9, <1>12, <2>2
  <2>4. \A a \in Axes : cursor'[a] \in -1 .. size'[a]
    BY <1>7, <1>10, <1>12, <1>13
  <2> QED BY <2>1, <2>3, <2>4 DEF Tracks
<1>15. \A a \in Axes : cursor[a] - pos[a] \in {-size[a], 0, size[a]}
  <2> TAKE a \in Axes
  <2>1. /\ pos[a] \in Int /\ size[a] \in Nat /\ cursor[a] \in Int
        /\ Shift(cursor[a], size[a]) \in {-size[a], 0, size[a]}
        /\ pos[a] + Shift(cursor[a], size[a]) = cursor[a]
    BY <1>7, <1>8, <1>10
  <2> QED BY <2>1
\* What the clients are told.
<1>16. OffByAWidth(reported, handThen)'
  <2>1. CASE active
    <3>1. \A a \in Axes : reported'[a] = cursor[a] + d'[a] /\ handThen'[a] = cursor[a] + d[a]
      BY <1>6, <1>9, <1>12, <2>1 DEF Plus
    <3>2. \A a \in Axes : reported'[a] - handThen'[a] \in {-size[a], 0, size[a]}
      <4> TAKE a \in Axes
      <4>1. /\ reported'[a] = cursor[a] + (d[a] + Shift(cursor[a], size[a]))
            /\ handThen'[a] = cursor[a] + d[a]
            /\ cursor[a] \in Int /\ d[a] \in Int /\ size[a] \in Nat
            /\ Shift(cursor[a], size[a]) \in {-size[a], 0, size[a]}
        BY <1>7, <1>8, <1>10, <1>11, <3>1
      <4> QED BY <4>1
    <3> QED BY <1>12, <3>2 DEF OffByAWidth
  <2>2. CASE ~active
    BY <1>1, <1>12, <2>2 DEF Reports, OffByAWidth
  <2> QED BY <2>1, <2>2
<1>17. \A i \in DOMAIN Tail(queue) :
           /\ Tail(queue)[i].pos = cursor /\ Tail(queue)[i].hand = hand
           /\ Tail(queue)[i].kind # "move"
  BY <1>3, <1>4, <1>5
<1>18. CASE pos = x
  <2>1. cursor' = cursor /\ queue' = Tail(queue)
    BY <1>12, <1>18
  <2>2. Messages'
    <3> SUFFICES ASSUME NEW i \in DOMAIN queue' PROVE InPlace(i)'
      BY DEF Messages
    <3>1. queue'[i].pos = cursor' /\ queue'[i].hand = hand'
      BY <1>12, <1>17, <2>1
    <3>2. OffByAWidth(queue[i].pos, cursor)'
      BY <1>7, <1>8, <1>12, <2>1, <3>1 DEF OffByAWidth
    <3> QED BY <3>1, <3>2 DEF InPlace
  <2>3. OneMove'
    BY <1>17, <2>1 DEF OneMove
  <2>4. active' => \A a \in Axes : reported'[a] = hand'[a]
    <3> SUFFICES ASSUME active', NEW a \in Axes PROVE reported'[a] = hand'[a]
      OBVIOUS
    <3>1. d'[a] = d[a] + 0
      BY <1>6, <1>10, <1>11, <1>18
    <3>2. reported'[a] = cursor[a] + d'[a] /\ hand'[a] = cursor[a] + d[a]
      BY <1>6, <1>9, <1>12 DEF Plus
    <3> QED BY <1>8, <3>1, <3>2
  <2> QED BY <1>12, <1>14, <1>16, <2>2, <2>3, <2>4 DEF InStep, Reports
<1>19. CASE pos # x
  <2> DEFINE m == At(Move, pos, hand)
             n == Len(queue)
  <2>1. m.kind = "move" /\ m.pos = pos /\ m.hand = hand
    BY DEF At, Move
  <2>2. Len(queue) # 1 => Tail(queue)[Len(queue) - 1].kind # "move"
    <3>1. Len(queue) # 1 => Len(queue) - 1 \in DOMAIN Tail(queue)
      BY <1>3
    <3> QED BY <1>17, <3>1
  <2>3. cursor' = pos /\ queue' = Append(Tail(queue), m)
    <3>1. cursor' = pos /\ queue' = Post(Tail(queue), m)
      BY <1>12, <1>19
    <3>2. ~ (Tail(queue) # <<>> /\ Tail(queue)[Len(Tail(queue))].kind = "move")
      BY <1>3, <2>2
    <3> QED BY <3>1, <3>2 DEF Post
  <2> HIDE DEF m
  <2>4. /\ DOMAIN queue' = 1 .. n
        /\ \A i \in 1 .. n - 1 : i \in DOMAIN Tail(queue) /\ queue'[i] = Tail(queue)[i]
        /\ queue'[n] = m
        /\ n \in Nat \ {0}
    BY <1>3, <2>3
  <2> HIDE DEF n
  <2>5. Messages'
    <3> SUFFICES ASSUME NEW i \in 1 .. n PROVE InPlace(i)'
      BY <2>4 DEF Messages
    <3>1. CASE i = n
      <4>1. queue'[i].pos = cursor' /\ queue'[i].hand = hand'
        BY <1>12, <2>1, <2>3, <2>4, <3>1
      <4>2. \A a \in Axes : queue'[i].pos[a] - cursor'[a] = 0
        BY <1>10, <1>13, <4>1
      <4>3. OffByAWidth(queue[i].pos, cursor)'
        BY <1>12, <4>2 DEF OffByAWidth
      <4> QED BY <4>1, <4>3 DEF InPlace
    <3>2. CASE i # n
      <4>1. /\ queue'[i].pos = cursor /\ queue'[i].hand = hand'
            /\ queue'[i].kind # "move"
        BY <1>12, <1>17, <2>4, <3>2
      <4>2. OffByAWidth(queue[i].pos, cursor)'
        BY <1>12, <1>13, <1>15, <4>1 DEF OffByAWidth
      <4>3. n \in DOMAIN queue' /\ n > i /\ queue'[n].kind = "move"
        BY <2>1, <2>4, <3>2
      <4> QED BY <4>1, <4>2, <4>3 DEF InPlace
    <3> QED BY <3>1, <3>2
  <2>6. OneMove'
    <3>1. \A i \in DOMAIN queue' : queue'[i].kind = "move" => i = n
      BY <1>17, <2>4
    <3> QED BY <3>1 DEF OneMove
  <2>7. Waits'
    BY <2>1, <2>4 DEF Waits
  <2> QED BY <1>14, <1>16, <2>5, <2>6, <2>7 DEF InStep, Reports
<1> QED BY <1>18, <1>19

LEMMA InStepNext == TypeOK /\ InStep /\ [Next]_padVars => InStep'
<1> SUFFICES ASSUME TypeOK, InStep, [Next]_padVars, smooth' PROVE InStep'
  BY DEF InStep
<1>1. TypeOK'
  BY TypeNext
\* Nothing that matters here changes.
<1>2. ASSUME UNCHANGED <<size, d, cursor, queue, active, reported, hand, handThen, smooth>>
      PROVE  InStep'
  <2>1. Tracks /\ Messages /\ OneMove /\ Reports
    BY <1>2 DEF InStep
  <2>2. Tracks' /\ OneMove' /\ Reports'
    BY <1>2, <2>1 DEF Tracks, HasSize, Inside, OneMove, Reports, Waits, OffByAWidth
  <2>3. Messages'
    BY <1>2, <2>1 DEF Messages, InPlace, OffByAWidth
  <2> QED BY <2>2, <2>3 DEF InStep
<1>3. ASSUME NEW step \in Steps, HandMoves(step) PROVE InStep'
  <2> DEFINE m == At(Move, cursor', hand')
  <2>1. step \in Positions
    BY BoundsAssumption DEF Steps, Positions
  <2>2. cursor' \in Positions /\ hand' \in Positions
    BY <1>1 DEF TypeOK
  <2>3. m \in Inputs /\ m.kind = "move" /\ m.pos = cursor' /\ m.hand = hand'
    BY <2>2, MessageType DEF At, Move
  <2>4. smooth /\ queue = <<>> /\ \A a \in Axes : step[a] \in -1 .. 1
    BY <1>3 DEF HandMoves
  <2>5. \A a \in Axes : /\ cursor'[a] - cursor[a] \in -1 .. 1
                        /\ hand'[a] - hand[a] = cursor'[a] - cursor[a]
    <3> TAKE a \in Axes
    <3>1. cursor[a] \in Int /\ hand[a] \in Int
      BY Components DEF TypeOK
    <3>2. cursor' = Plus(cursor, step) /\ hand' = Plus(hand, step)
      BY <1>3 DEF HandMoves
    <3>3. cursor'[a] = cursor[a] + step[a] /\ hand'[a] = hand[a] + step[a]
      BY <3>2 DEF Plus
    <3> QED BY <2>4, <3>1, <3>3
\* The window hears of such a movement.
  <2>6. Hears(cursor')
    <3>1. Inside(cursor)
      BY <2>4 DEF InStep, Tracks
    <3>2. captured \/ Inside(cursor')
      BY <1>3 DEF HandMoves
    <3> QED BY <2>2, <2>5, <3>1, <3>2, NextToTheWindow DEF Hears
  <2>7. queue' = Post(queue, m) /\ UNCHANGED <<size, d, active, reported, handThen>>
    BY <1>3, <2>6 DEF HandMoves, windowVars
  <2> HIDE DEF m
  <2> QED BY <1>1, <2>3, <2>4, <2>5, <2>7, LoneMove
<1>4. ASSUME NEW b \in Buttons, Press(b) PROVE InStep'
  <2>1. At(Input("down", b), cursor, hand) \in Inputs
    BY MessageType DEF TypeOK
  <2> QED BY <1>4, <2>1, InputWaits DEF Press, windowVars, At, Input
<1>5. ASSUME NEW b \in Buttons, Release(b) PROVE InStep'
  <2>1. At(Input("up", b), cursor, hand) \in Inputs
    BY MessageType DEF TypeOK
  <2>2. CASE captured \/ Inside(cursor)
    BY <1>5, <2>1, <2>2, InputWaits DEF Release, windowVars, At, Input
  <2>3. CASE ~(captured \/ Inside(cursor))
    BY <1>2, <1>5, <2>3 DEF Release, windowVars
  <2> QED BY <2>2, <2>3
<1>6. ASSUME PauseKey PROVE InStep'
  <2>1. At(Input("pause", "none"), cursor, hand) \in Inputs
    BY MessageType DEF TypeOK
  <2> QED BY <1>6, <2>1, InputWaits DEF PauseKey, windowVars, At, Input
<1>7. ASSUME LoseCapture PROVE InStep'
  BY <1>2, <1>7 DEF LoseCapture, windowVars
<1>8. ASSUME OnResize PROVE InStep'
  <2> DEFINE m == At(Move, cursor, hand)
  <2>1. m \in Inputs /\ m.kind = "move" /\ m.pos = cursor' /\ m.hand = hand'
    BY <1>8, MessageType DEF OnResize, TypeOK, At, Move
  <2>2. /\ smooth /\ queue = <<>> /\ queue' = Post(queue, m)
        /\ UNCHANGED <<size, d, active, reported, handThen, cursor, hand>>
    <3>1. smooth /\ queue = <<>> /\ UNCHANGED <<size, d, active, reported, handThen, cursor, hand>>
      BY <1>8 DEF OnResize
    <3>2. Inside(cursor)'
      BY <3>1 DEF InStep, Tracks, Inside
    <3>3. heard'
      BY <1>8, <3>2 DEF OnResize, Hears
    <3> QED BY <1>8, <3>1, <3>3 DEF OnResize
  <2>3. \A a \in Axes : /\ cursor'[a] - cursor[a] \in -1 .. 1
                        /\ hand'[a] - hand[a] = cursor'[a] - cursor[a]
    <3> TAKE a \in Axes
    <3>1. cursor[a] \in Int /\ hand[a] \in Int
      BY Components DEF TypeOK
    <3> QED BY <2>2, <3>1
  <2> HIDE DEF m
  <2> QED BY <1>1, <2>1, <2>2, <2>3, LoneMove
<1>9. ASSUME OnMouseMove PROVE InStep'
  <2>1. smooth
    BY <1>9 DEF OnMouseMove
  <2> QED BY <1>9, <2>1, MoveHandled
<1>10. ASSUME OnMouseDown \/ OnMouseUp \/ OnKeyDown PROVE InStep'
  <2>1. queue # <<>> /\ Message = queue[1] /\ queue[1].kind # "move"
    BY <1>10, HeadType DEF OnMouseDown, OnMouseUp, OnKeyDown, Handles, Message, TypeOK
  <2>2. queue' = Tail(queue) /\ UNCHANGED <<smooth, size, d, cursor, hand>>
    BY <1>10 DEF OnMouseDown, OnMouseUp, OnKeyDown
  <2>3. \/ reported' = Plus(queue[1].pos, d) /\ handThen' = queue[1].hand
        \/ UNCHANGED <<reported, handThen>> /\ (active' => active)
    BY <1>10, <2>1 DEF OnMouseDown, OnMouseUp, OnKeyDown, Forwards, Report
  <2> QED BY <2>1, <2>2, <2>3, InputHandled
<1>11. CASE UNCHANGED padVars
  BY <1>2, <1>11 DEF padVars, windowVars, systemVars, historyVars
<1> QED BY <1>3, <1>4, <1>5, <1>6, <1>7, <1>8, <1>9, <1>10, <1>11 DEF Next, Handle

\* Once a window that keeps up with the hand has handled its input, the clients
\* are where the hand is, after any way over the edges of any window.
THEOREM NoPixelIsLost == Spec => []PixelPerfect
<1>1. InStep /\ TypeOK => PixelPerfect
  <2> SUFFICES ASSUME InStep, TypeOK, queue = <<>>, active, smooth PROVE reported = hand
    BY DEF PixelPerfect
  <2>1. ~Waits
    BY DEF Waits
  <2>2. \A a \in Axes : reported[a] = hand[a]
    BY <2>1 DEF InStep, Reports
  <2>3. reported \in [Axes -> Int] /\ hand \in [Axes -> Int]
    BY DEF TypeOK, Positions
  <2> QED BY <2>2, <2>3
<1> QED BY <1>1, TypeInit, TypeNext, InStepInit, InStepNext, PTL DEF Spec

\* What the clients are told of a window that keeps up with the hand is wrong
\* by a width of the window at most.
THEOREM NeverFurtherOff == Spec => []AtMostOneWidthOff
<1>1. InStep => AtMostOneWidthOff
  BY DEF InStep, Reports, OffByAWidth, AtMostOneWidthOff
<1> QED BY <1>1, TypeInit, TypeNext, InStepInit, InStepNext, PTL DEF Spec
=============================================================================
