\* Two axes; a slow hand and a fast one, a window that may be minimised.
CONSTANTS
    Axes <- TwoAxes
    Sizes = {0, 2}
    Frame = 1
    Lowest <- ScreenFrom
    Highest <- ScreenTo
    Buttons = {left}
    MaxStep = 1
    MaxMoves = 3
    MaxPending = 1
    MaxInputs = 3
SPECIFICATION FairSpec
INVARIANTS
    TypeOK
    CursorComesBack
    ButtonsAgree
    PixelPerfect
    AtMostOneWidthOff
PROPERTY
    Settles
CHECK_DEADLOCK FALSE
