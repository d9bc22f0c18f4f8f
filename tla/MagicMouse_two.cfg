\* Two applications, one session each, two events.
CONSTANTS
    Radix = 2
    Endpoints = {c1, c2}
    Garbage = Garbage
    EarlierEvents = 0
    MaxEvents = 2
    ButtonEvents <- SecondIsButton
    ShortSenders = {}
    Discovering = {}
    Callbacks <- AllCallbacks
    MaxSessions = 1
SPECIFICATION Spec
INVARIANTS
    RegisteredAsked
    SendIteratesAlone
PROPERTIES
    FeedSpec
CONSTRAINT
    AllStay
SYMMETRY Symmetry
CHECK_DEADLOCK FALSE
