----------------------------- MODULE Transform -----------------------------
(***************************************************************************)
(* mmp_client::xform_position() and mmp_client::clip(): what a client does *)
(* to the positions it receives before it hands them to the application.   *)
(*                                                                         *)
(* A step is one accepted message whose kind has a callback.  Coordinates  *)
(* stay far from the limits of an int32_t.                                 *)
(*                                                                         *)
(* External: Windows keeps a counter that ShowCursor(TRUE) increments and  *)
(* ShowCursor(FALSE) decrements; the cursor is visible while it is not     *)
(* negative.                                                               *)
(***************************************************************************)
EXTENDS Integers

\* An operator whose name has an underscore is a mutant of the operator that
\* follows.

CONSTANTS
    Coordinates,   \* coordinates the pad may send
    Virtual,       \* _config.width and _config.height
    Desktop,       \* SM_CXVIRTUALSCREEN and SM_CYVIRTUALSCREEN
    Start,         \* _config.start_x and _config.start_y
    LocalOffset,   \* _config.offset_x and _config.offset_y
    MaxMessages    \* bound: messages in a behaviour

ASSUME CoordinatesAssumption == Coordinates \subseteq Int
ASSUME SizeAssumption == {Virtual.x, Virtual.y, Desktop.x, Desktop.y} \subseteq Nat
ASSUME PointsAssumption == {Start.x, Start.y, LocalOffset.x, LocalOffset.y} \subseteq Int
ASSUME MaxMessagesAssumption == MaxMessages \in Nat

VARIABLES
    flags,          \* _config.flags
    updateOffset,   \* _update_offset
    offset,         \* _offset
    position,       \* the position given to the callback
    showCount,      \* the counter of ShowCursor() (external)
    first,          \* the first position received (history)
    last,           \* the last position received (history)
    onDesktop,      \* that position on the local desktop, unclipped (history)
    messages        \* number of messages (history)

vars == <<flags, updateOffset, offset, position, showCount, first, last,
          onDesktop, messages>>

AllFlags == {"clip", "local", "hide_remote", "set_start"}
Points == [x : Coordinates, y : Coordinates]
Origin == [x |-> 0, y |-> 0]
Plus(p, q) == [x |-> p.x + q.x, y |-> p.y + q.y]
Minus(p, q) == [x |-> p.x - q.x, y |-> p.y - q.y]

\* clip(): the clipped position ...
Limit_NoUpper(v, max) == IF v < 0 THEN 0 ELSE v
Limit(v, max) == IF v < 0 THEN 0 ELSE IF v > max THEN max ELSE v
Clip(p, area) == [x |-> Limit(p.x, area.x), y |-> Limit(p.y, area.y)]

\* ... and the return value, which a negative y resets to false.
ClipReturns(p, area) ==
    /\ ~ p.y < 0
    /\ p.x < 0 \/ p.x > area.x \/ p.y > area.y

Init ==
    /\ flags \in SUBSET AllFlags
    /\ updateOffset = ("set_start" \in flags)    \* start()
    /\ offset = Origin
    /\ position = Origin
    /\ showCount = 0
    /\ first = Origin
    /\ last = Origin
    /\ onDesktop = Origin
    /\ messages = 0

UpdatesOffset_Always == TRUE
UpdatesOffset_NoReset == "set_start" \in flags
UpdatesOffset == updateOffset

\* xform_position() for a message that holds position p.
XformPosition(p) ==
    LET global == IF "clip" \in flags THEN Clip(Plus(p, offset'), Virtual)
                                      ELSE Plus(p, offset')
        local  == IF "local" \in flags THEN Minus(global, LocalOffset) ELSE global
    IN  /\ messages < MaxMessages
        /\ offset' = IF UpdatesOffset THEN Minus(Start, p) ELSE offset
        /\ updateOffset' = FALSE
        /\ onDesktop' = local
        /\ IF {"clip", "local"} \subseteq flags
             THEN /\ position' = Clip(local, Desktop)
                  /\ showCount' = IF "hide_remote" \notin flags THEN showCount
                                  ELSE IF ClipReturns(local, Desktop) THEN showCount - 1
                                  ELSE showCount + 1
             ELSE /\ position' = local
                  /\ UNCHANGED showCount
        /\ first' = IF messages = 0 THEN p ELSE first
        /\ last' = p
        /\ messages' = messages + 1
        /\ UNCHANGED flags

Next == \E p \in Points : XformPosition(p)

Spec == Init /\ [][Next]_vars

-----------------------------------------------------------------------------
IsPoint(p) == p = [x |-> p.x, y |-> p.y] /\ {p.x, p.y} \subseteq Int

TypeOK ==
    /\ flags \subseteq AllFlags
    /\ updateOffset \in BOOLEAN
    /\ "set_start" \notin flags => ~updateOffset /\ offset = Origin
    /\ \A p \in {offset, position, first, last, onDesktop} : IsPoint(p)
    /\ showCount \in Int
    /\ messages \in 0 .. MaxMessages

Within(p, area) == p.x \in 0 .. area.x /\ p.y \in 0 .. area.y

\* A client that clips hands out positions of its desktop, if it asked for local
\* ones, and of the virtual screen otherwise, even after an offset was applied.
StaysOnScreen ==
    messages > 0 /\ "clip" \in flags =>
        Within(position, IF "local" \in flags THEN Desktop ELSE Virtual)

\* A client that sets the start position sees the pad's movements relative to
\* the first position it received: what had been done on the pad before does
\* not matter (_update_offset, mmp_flag_set_start).
RelativeToStart ==
    messages > 0 /\ "set_start" \in flags /\ "clip" \notin flags =>
        onDesktop = Minus(Plus(Start, Minus(last, first)),
                          IF "local" \in flags THEN LocalOffset ELSE Origin)

\* The cursor is hidden only while it is not on the local desktop: when a
\* position inside has come it is shown, whatever came before it
\* (mmp_configuration.h, mmp_flag_hide_remote; here for clients that clip).
ShownInside ==
    /\ {"clip", "local", "hide_remote"} \subseteq flags
    /\ messages > 0
    /\ Within(onDesktop, Desktop)
    => showCount >= 0
=============================================================================
