----------------------------- MODULE MousePad -----------------------------
(***************************************************************************)
(* The window of the magic mouse pad: mouse_pad.cpp.                       *)
(*                                                                         *)
(* The window captures the mouse and puts it back whenever it leaves the   *)
(* client area, "like a treadmill"; _dx and _dy count how far the mouse    *)
(* has come that way.  Both axes are handled alike, so what is kept for x  *)
(* and for y is a function on Axes.                                        *)
(*                                                                         *)
(* Windows is external: it moves the cursor with the hand as far as the    *)
(* edge of the screen, decides of what the window hears, keeps the input   *)
(* in a queue, merges a move with a move at the end of the queue, and      *)
(* queues a move for SetCursorPos().  The window procedure takes the input *)
(* one message at a time, in order.  The window does not move on the       *)
(* screen, no other window covers it, and presses that it does not hear    *)
(* are left out.                                                           *)
(***************************************************************************)
EXTENDS Integers, Sequences

\* An operator whose name has an underscore is a mutant of the operator that
\* follows.

CONSTANTS
    Axes,         \* the axes
    Sizes,        \* sizes the window may have along an axis; 0 is minimised
    Frame,        \* width of the window's frame (external)
    Lowest,       \* first and last position of the cursor on the screen, along
    Highest,      \*   each axis, seen from the client area (external)
    Buttons,      \* mouse buttons
    MaxStep,      \* bound: distance the hand moves at once
    MaxMoves,     \* bound: movements of the hand
    MaxPending,   \* bound: queued messages when there is new input
    MaxInputs     \* bound: presses, releases, pauses and resizes

ASSUME SizesAssumption == Sizes \subseteq Nat
ASSUME FrameAssumption == Frame \in Nat \ {0}
ASSUME ScreenAssumption ==
    /\ Lowest \in [Axes -> Int] /\ Highest \in [Axes -> Int]
    /\ \A a \in Axes : /\ Lowest[a] <= 0 /\ 0 <= Highest[a]
                      /\ \A w \in Sizes : w - 1 <= Highest[a]
ASSUME BoundsAssumption == {MaxStep, MaxMoves, MaxPending, MaxInputs} \subseteq Nat

VARIABLES
    size,         \* _width, _height
    d,            \* _dx, _dy
    active,       \* _active
    captured,     \* whether the window has the mouse capture (external)
    cursor,       \* position of the cursor in the client area (external)
    queue,        \* input that the window has not handled yet (external)
    held,         \* buttons that are pressed (external)
    reported,     \* position of the last message to the clients
    down,         \* buttons the clients believe to be pressed
    hand,         \* how far the hand has moved the mouse (history)
    heard,        \* whether the window hears, or has heard, of where the cursor
                  \*   is (history)
    handThen,     \* value of hand when the last message was queued (history)
    moves,        \* counts movements of the hand (history)
    inputs,       \* counts presses, releases, pauses and resizes (history)
    swallowed,    \* buttons whose last release the window has not heard, or has
                  \*   heard while it was paused (history)
    smooth        \* whether the window has kept up with a hand that moves one
                  \*   pixel at a time, has left the window only while it had
                  \*   the capture and was never stopped by the edge of the
                  \*   screen, and whether the window has kept its size, and
                  \*   its layout while input was waiting (history)

windowVars == <<size, d, active, reported, down>>
systemVars == <<captured, cursor, queue, held>>
historyVars == <<hand, heard, handThen, moves, inputs, swallowed, smooth>>
padVars == <<windowVars, systemVars, historyVars>>

Positions == [Axes -> Int]
Zero == [a \in Axes |-> 0]
Plus(p, q) == [a \in Axes |-> p[a] + q[a]]
Minus(p, q) == [a \in Axes |-> p[a] - q[a]]

\* Every message carries the position of the cursor when it was queued and,
\* as history, where the hand was.
Move == [kind |-> "move", button |-> "none"]
Input(kind, button) == [kind |-> kind, button |-> button]
At(msg, pos, at) == [kind |-> msg.kind, button |-> msg.button, pos |-> pos, hand |-> at]

\* A move replaces a move at the end of the queue.
Post(q, msg) ==
    IF msg.kind = "move" /\ q # <<>> /\ q[Len(q)].kind = "move"
      THEN [q EXCEPT ![Len(q)] = msg]
      ELSE Append(q, msg)

\* The window is shown and its size is known before the first input arrives.
Init ==
    /\ size \in [Axes -> Sizes \ {0}]
    /\ d = Zero
    /\ active = FALSE
    /\ captured = FALSE
    /\ cursor = Zero
    /\ queue = <<>>
    /\ held = {}
    /\ reported = Zero
    /\ down = {}
    /\ hand = Zero
    /\ heard = TRUE
    /\ handThen = Zero
    /\ moves = 0
    /\ inputs = 0
    /\ swallowed = {}
    /\ smooth = TRUE

-----------------------------------------------------------------------------
(* Windows.                                                                *)

Inside(pos) == \A a \in Axes : 0 <= pos[a] /\ pos[a] < size[a]
OnFrame(pos) == \A a \in Axes : -Frame <= pos[a] /\ pos[a] < size[a] + Frame

\* The capture (SetCapture) gives the window what happens over other windows of
\* its thread, of which it has none but its own frame, and as long as a button
\* is down what happens anywhere.
Hears(pos) == Inside(pos) \/ (captured /\ (held # {} \/ OnFrame(pos)))

\* The cursor stays on the screen.
OnScreen(pos) ==
    [a \in Axes |-> IF pos[a] < Lowest[a] THEN Lowest[a]
                   ELSE IF pos[a] > Highest[a] THEN Highest[a] ELSE pos[a]]

\* The mouse moves, as far and as fast as the user likes.
HandMoves(step) ==
    /\ Len(queue) <= MaxPending
    /\ moves < MaxMoves
    /\ hand' = Plus(hand, step)
    /\ cursor' = OnScreen(Plus(cursor, step))
    /\ heard' = Hears(cursor')
    /\ queue' = IF heard' THEN Post(queue, At(Move, cursor', hand')) ELSE queue
    /\ moves' = moves + 1
    /\ smooth' = /\ smooth
                 /\ queue = <<>>
                 /\ \A a \in Axes : step[a] \in -1 .. 1
                 /\ cursor' = Plus(cursor, step)
                 /\ captured \/ Inside(cursor')
    /\ UNCHANGED <<windowVars, captured, held, handThen, inputs, swallowed>>

Press(b) ==
    /\ Len(queue) <= MaxPending
    /\ inputs < MaxInputs
    /\ b \notin held
    /\ Hears(cursor)
    /\ held' = held \cup {b}
    /\ queue' = Append(queue, At(Input("down", b), cursor, hand))
    /\ inputs' = inputs + 1
    /\ swallowed' = swallowed \ {b}
    /\ UNCHANGED <<moves, smooth, windowVars, captured, cursor, hand, heard, handThen>>

\* Who releases a button outside of a window without the capture tells another.
Release(b) ==
    /\ Len(queue) <= MaxPending
    /\ inputs < MaxInputs
    /\ b \in held
    /\ held' = held \ {b}
    /\ queue' = IF captured \/ Inside(cursor)
                  THEN Append(queue, At(Input("up", b), cursor, hand)) ELSE queue
    /\ swallowed' = IF captured \/ Inside(cursor) THEN swallowed ELSE swallowed \cup {b}
    /\ inputs' = inputs + 1
    /\ UNCHANGED <<moves, smooth, windowVars, captured, cursor, hand, heard, handThen>>

PauseKey ==
    /\ Len(queue) <= MaxPending
    /\ inputs < MaxInputs
    /\ queue' = Append(queue, At(Input("pause", "none"), cursor, hand))
    /\ inputs' = inputs + 1
    /\ UNCHANGED <<moves, smooth, windowVars, captured, cursor, held, hand, heard, handThen, swallowed>>

\* Another window takes the capture.
LoseCapture ==
    /\ captured
    /\ inputs < MaxInputs
    /\ captured' = FALSE
    /\ inputs' = inputs + 1
    /\ UNCHANGED <<moves, smooth, windowVars, cursor, queue, held, hand, heard, handThen, swallowed>>

-----------------------------------------------------------------------------
(* The window procedure.                                                   *)

Message == Head(queue)
Handles(kind) == queue # <<>> /\ Message.kind = kind

\* set_position() and the message to the clients.
Report(pos, offset) == reported' = Plus(pos, offset)

\* on_mouse_move(): where the cursor is put, and what is added to _dx and _dy.
Wrap_Late(x, w) == IF x < 0 THEN w - 1 ELSE IF x > w THEN 0 ELSE x
Wrap_Outside(x, w) == IF x < 0 THEN w ELSE IF x >= w THEN -1 ELSE x
Shift_Unsigned(x, w) == IF x < 0 \/ x >= w THEN w ELSE 0
Shift_Short(x, w) == IF x < 0 THEN 1 - w ELSE IF x >= w THEN w - 1 ELSE 0

Wrap(x, w)  == IF x < 0 THEN w - 1 ELSE IF x >= w THEN 0 ELSE x
Shift(x, w) == IF x < 0 THEN -w ELSE IF x >= w THEN w ELSE 0

Forwards_Inactive == ~active
Forwards == active

OnMouseMove ==
    /\ Handles("move")
    /\ LET x   == Message.pos
           pos == [a \in Axes |-> Wrap(x[a], size[a])]
       IN /\ d' = [a \in Axes |-> d[a] + Shift(x[a], size[a])]
          /\ IF pos # x
               THEN /\ cursor' = OnScreen(pos)        \* SetCursorPos()
                    /\ heard' = Hears(cursor')
                    /\ queue' = IF heard' THEN Post(Tail(queue), At(Move, cursor', hand))
                                          ELSE Tail(queue)
               ELSE /\ queue' = Tail(queue)
                    /\ UNCHANGED <<cursor, heard>>
          /\ IF Forwards
               THEN Report(x, d') /\ handThen' = Message.hand
               ELSE UNCHANGED <<reported, handThen>>
    /\ UNCHANGED <<moves, smooth, size, active, down, captured, held, hand, inputs, swallowed>>

Pressed_Kind == Message.kind
Pressed == Message.button

\* on_mouse_down() reads the size again if it is not known; a minimised window
\* gets no input, so that GetClientRect() has nothing else to say.
OnMouseDown ==
    /\ Handles("down")
    /\ active' = TRUE
    /\ captured' = TRUE
    /\ Report(Message.pos, d)
    /\ handThen' = Message.hand
    /\ down' = down \cup {Pressed}
    /\ queue' = Tail(queue)
    /\ UNCHANGED <<moves, smooth, size, d, cursor, held, hand, heard, inputs, swallowed>>

OnMouseUp ==
    /\ Handles("up")
    /\ IF Forwards
         THEN /\ Report(Message.pos, d)
              /\ handThen' = Message.hand
              /\ down' = down \ {Message.button}
         ELSE UNCHANGED <<reported, handThen, down>>
    /\ swallowed' = IF active THEN swallowed ELSE swallowed \cup ({Message.button} \ held)
    /\ queue' = Tail(queue)
    /\ UNCHANGED <<moves, smooth, size, d, active, captured, cursor, held, hand, heard, inputs>>

\* The Pause key releases the capture.
OnKeyDown ==
    /\ Handles("pause")
    /\ active' = FALSE
    /\ captured' = IF active THEN FALSE ELSE captured
    /\ queue' = Tail(queue)
    /\ UNCHANGED <<moves, smooth, size, d, reported, down, cursor, held, hand, heard, handThen,
                   inputs, swallowed>>

\* WM_SIZE is sent, not queued, and Windows queues a move when the layout of
\* the windows changes.  A border that is dragged takes the capture away.
OnResize ==
    /\ inputs < MaxInputs
    /\ size' \in [Axes -> Sizes]
    /\ \E keeps \in BOOLEAN : captured' = (captured /\ keeps)
    /\ UNCHANGED <<moves, d, active, reported, down, cursor, held, hand, handThen, swallowed>>
    /\ heard' = Hears(cursor)'
    /\ queue' = IF heard' THEN Post(queue, At(Move, cursor, hand)) ELSE queue
    /\ inputs' = inputs + 1
    /\ smooth' = (smooth /\ size' = size /\ queue = <<>>)

-----------------------------------------------------------------------------
Handle == OnMouseMove \/ OnMouseDown \/ OnMouseUp \/ OnKeyDown

Steps == [Axes -> -MaxStep .. MaxStep] \ {Zero}

Next ==
    \/ \E step \in Steps : HandMoves(step)
    \/ \E b \in Buttons : Press(b) \/ Release(b)
    \/ PauseKey \/ LoseCapture \/ OnResize
    \/ Handle

Spec == Init /\ [][Next]_padVars

\* The message loop keeps taking messages.
FairSpec == Spec /\ WF_padVars(Handle)

-----------------------------------------------------------------------------
Inputs ==
    [kind : {"move", "pause"}, button : {"none"}, pos : Positions, hand : Positions]
        \cup [kind : {"down", "up"}, button : Buttons, pos : Positions, hand : Positions]

TypeOK ==
    /\ size \in [Axes -> Sizes]
    /\ d \in Positions
    /\ active \in BOOLEAN
    /\ captured \in BOOLEAN
    /\ cursor \in Positions
    /\ queue \in Seq(Inputs)
    /\ held \subseteq Buttons
    /\ down \subseteq Buttons
    /\ {reported, hand, handThen} \subseteq Positions
    /\ heard \in BOOLEAN
    /\ moves \in 0 .. MaxMoves
    /\ inputs \in 0 .. MaxInputs
    /\ swallowed \subseteq Buttons
    /\ smooth \in BOOLEAN

\* However far the hand goes, once the pad has handled its input the cursor is
\* back in the window, if Windows has let the window hear of where it went: while
\* the window has the capture, that is everywhere as long as a button is down,
\* and otherwise no farther than its frame (on_mouse_move, on_mouse_down).
CursorComesBack ==
    queue = <<>> /\ heard /\ (\A a \in Axes : size[a] > 0) => Inside(cursor)

\* When the pad has handled its input, the clients hold exactly the buttons that
\* the user holds, whatever takes the mouse away from the pad and gives it back:
\* they are wrong only about a button whose release the pad has not heard, or has
\* heard while it was paused, and only until the button is pressed again
\* (on_mouse_down, on_mouse_up).
ButtonsAgree ==
    queue = <<>> => \A b \in Buttons \ swallowed : b \in down <=> b \in held

\* Once a window that keeps up with the hand has handled its input, the clients
\* are where the hand is: not a pixel is lost at the edges, nor in a corner
\* (README: "pixel-perfect"), as long as the screen goes on behind the edge.
PixelPerfect == queue = <<>> /\ active /\ smooth => reported = hand

\* The message of a move across an edge is wrong by the width of the window
\* (on_mouse_move adds to _dx before it sends the old position), never by more:
\* the move that SetCursorPos() causes puts the clients right again.
AtMostOneWidthOff ==
    smooth => \A a \in Axes : reported[a] - handThen[a] \in {-size[a], 0, size[a]}

\* Putting the cursor back makes Windows post another move; that never goes on
\* forever, whatever the size of the window.
Settles == []<>(queue = <<>>)
=============================================================================
