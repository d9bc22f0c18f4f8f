\* A virtual screen of three pixels, a desktop of one, and every choice of flags.
CONSTANTS
    Coordinates <- TestCoordinates
    Virtual <- TestVirtual
    Desktop <- TestDesktop
    Start <- TestStart
    LocalOffset <- TestLocalOffset
    MaxMessages = 3
SPECIFICATION Spec
CHECK_DEADLOCK FALSE
INVARIANTS
    TypeOK
    StaysOnScreen
    RelativeToStart
