-------------------------- MODULE Transform_proofs --------------------------
(***************************************************************************)
(* For every screen, every configuration and any number of messages: a     *)
(* client that clips stays on its screen, and one that sets the start sees *)
(* the movements since the first message.                                  *)
(***************************************************************************)
EXTENDS Transform, TLAPS

\* The offset is taken once, from the first message.
OffsetOfFirst ==
    "set_start" \in flags =>
        IF messages = 0 THEN updateOffset ELSE ~updateOffset /\ offset = Minus(Start, first)

IInv == TypeOK /\ OffsetOfFirst /\ StaysOnScreen /\ RelativeToStart

-----------------------------------------------------------------------------
(* Points.                                                                 *)

LEMMA PointsArePoints == \A p \in Points : IsPoint(p)
<1> SUFFICES ASSUME NEW p \in Points PROVE IsPoint(p)
  OBVIOUS
<1> USE DEF Points
<1>1. p = [x |-> p.x, y |-> p.y]
  OBVIOUS
<1>2. {p.x, p.y} \subseteq Int
  BY CoordinatesAssumption
<1> QED BY <1>1, <1>2 DEF IsPoint

LEMMA SumsArePoints ==
  ASSUME NEW p, NEW q, IsPoint(p), {q.x, q.y} \subseteq Int
  PROVE  IsPoint(Plus(p, q)) /\ IsPoint(Minus(p, q)) /\ IsPoint(Minus(q, p))
BY DEF IsPoint, Plus, Minus

\* clip() returns a point of the area, whatever the point.
LEMMA ClipStaysWithin ==
  ASSUME NEW p, NEW area, IsPoint(p), {area.x, area.y} \subseteq Nat
  PROVE  IsPoint(Clip(p, area)) /\ Within(Clip(p, area), area)
<1> USE DEF IsPoint
<1>1. \A v \in Int, max \in Nat : Limit(v, max) \in 0 .. max
  BY DEF Limit
<1>2. Limit(p.x, area.x) \in 0 .. area.x /\ Limit(p.y, area.y) \in 0 .. area.y
  BY <1>1
<1> QED BY <1>2 DEF Clip, Within

-----------------------------------------------------------------------------
LEMMA InitInv == Init => IInv
<1> SUFFICES ASSUME Init PROVE IInv
  OBVIOUS
<1> USE DEF Init
<1>1. \A p \in {offset, position, first, last, onDesktop} : IsPoint(p)
  BY DEF Origin, IsPoint
<1>2. /\ updateOffset \in BOOLEAN
      /\ "set_start" \notin flags => ~updateOffset
      /\ "set_start" \in flags => updateOffset
  <2>1. updateOffset = ("set_start" \in flags)
    OBVIOUS
  <2>2. CASE "set_start" \in flags
    <3>1. updateOffset = TRUE
      BY <2>1, <2>2
    <3> QED BY <2>2, <3>1
  <2>3. CASE "set_start" \notin flags
    <3>1. ~updateOffset
      BY <2>1, <2>3, Zenon
    <3> QED BY <2>1, <2>3, <3>1
  <2> QED BY <2>2, <2>3
<1>3. flags \subseteq AllFlags /\ showCount \in Int /\ messages \in 0 .. MaxMessages
  BY MaxMessagesAssumption
<1>4. OffsetOfFirst
  BY <1>2, Zenon DEF OffsetOfFirst
<1>5. StaysOnScreen /\ RelativeToStart
  BY DEF StaysOnScreen, RelativeToStart
<1> QED BY <1>1, <1>2, <1>3, <1>4, <1>5 DEF IInv, TypeOK

\* What the client knows and makes of a message.
Global == IF "clip" \in flags THEN Clip(Plus(last', offset'), Virtual) ELSE Plus(last', offset')
Local == IF "local" \in flags THEN Minus(Global, LocalOffset) ELSE Global

LEMMA MessageStep ==
  ASSUME IInv, NEW p \in Points, XformPosition(p)
  PROVE  IInv'
<1> USE DEF IInv, UpdatesOffset
<1>1. IsPoint(p) /\ IsPoint(offset)
  BY PointsArePoints DEF TypeOK
<1>2. /\ last' = p /\ UNCHANGED flags /\ updateOffset' = FALSE /\ messages' = messages + 1
      /\ messages < MaxMessages
      /\ offset' = IF updateOffset THEN Minus(Start, p) ELSE offset
      /\ first' = IF messages = 0 THEN p ELSE first
  BY DEF XformPosition
<1>3. onDesktop' = Local
  BY <1>2 DEF XformPosition, Local, Global
<1>4. position' = IF {"clip", "local"} \subseteq flags THEN Clip(Local, Desktop) ELSE Local
  BY <1>2 DEF XformPosition, Local, Global
<1>5. IsPoint(offset')
  BY <1>1, <1>2, SumsArePoints, PointsAssumption
<1>6. IsPoint(Plus(p, offset'))
  BY <1>1, <1>5, SumsArePoints DEF IsPoint
<1>7. IsPoint(Global) /\ ("clip" \in flags => Within(Global, Virtual))
  BY <1>2, <1>6, ClipStaysWithin, SizeAssumption DEF Global
<1>8. IsPoint(Local)
  BY <1>7, SumsArePoints, PointsAssumption DEF Local
<1>9. IsPoint(Clip(Local, Desktop)) /\ Within(Clip(Local, Desktop), Desktop)
  BY <1>8, ClipStaysWithin, SizeAssumption
<1>10. StaysOnScreen'
  BY <1>2, <1>4, <1>7, <1>9 DEF StaysOnScreen, Local
<1>11. OffsetOfFirst'
  BY <1>2 DEF OffsetOfFirst, TypeOK
<1>12. RelativeToStart'
  <2> SUFFICES ASSUME "set_start" \in flags, "clip" \notin flags
               PROVE  Local = Minus(Plus(Start, Minus(p, first')),
                                    IF "local" \in flags THEN LocalOffset ELSE Origin)
    BY <1>2, <1>3 DEF RelativeToStart
  <2>1. offset' = Minus(Start, first')
    BY <1>2 DEF OffsetOfFirst
  <2>2. IsPoint(first') /\ {p.x, p.y, first'.x, first'.y} \subseteq Int
    BY <1>1, <1>2 DEF TypeOK, IsPoint
  <2>3. Global = Plus(p, Minus(Start, first'))
    BY <1>2, <2>1 DEF Global
  <2> QED BY <2>2, <2>3, PointsAssumption DEF Local, Plus, Minus, Origin
<1>13. TypeOK'
  <2>1. \A q \in {offset', position', first', last', onDesktop'} : IsPoint(q)
    BY <1>1, <1>2, <1>3, <1>4, <1>5, <1>8, <1>9 DEF TypeOK
  <2>2. "set_start" \notin flags' => ~updateOffset' /\ offset' = Origin
    BY <1>2 DEF TypeOK
  <2>3. updateOffset' \in BOOLEAN /\ flags' \subseteq AllFlags
    BY <1>2 DEF TypeOK
  <2>5. showCount' \in {showCount, showCount - 1, showCount + 1}
    BY DEF XformPosition
  <2>6. showCount' \in Int
    BY <2>5 DEF TypeOK
  <2>4. messages' \in 0 .. MaxMessages
    BY <1>2, MaxMessagesAssumption DEF TypeOK
  <2> QED BY <2>1, <2>2, <2>3, <2>4, <2>6 DEF TypeOK
<1> QED BY <1>10, <1>11, <1>12, <1>13

LEMMA InvStep == IInv /\ [Next]_vars => IInv'
<1> SUFFICES ASSUME IInv, [Next]_vars PROVE IInv'
  OBVIOUS
<1>1. CASE Next
  BY <1>1, MessageStep DEF Next
<1>2. CASE UNCHANGED vars
  BY <1>2 DEF vars, IInv, TypeOK, OffsetOfFirst, StaysOnScreen, RelativeToStart
<1> QED BY <1>1, <1>2

LEMMA Invariant == Spec => []IInv
<1> QED BY InitInv, InvStep, PTL DEF Spec

\* The variables keep their types.
THEOREM TypeCorrect == Spec => []TypeOK
<1> QED BY Invariant, PTL DEF IInv

\* A client that clips hands out positions on its screen, whatever the pad sends.
THEOREM OnScreen == Spec => []StaysOnScreen
<1> QED BY Invariant, PTL DEF IInv

\* A client that sets the start sees the movements since the first message.
THEOREM StartIsRelative == Spec => []RelativeToStart
<1> QED BY Invariant, PTL DEF IInv
=============================================================================
