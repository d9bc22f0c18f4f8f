\* One application that discovers the pad.
CONSTANTS
    Radix = 2
    Endpoints = {c1}
    Garbage = Garbage
    EarlierEvents = 0
    MaxEvents = 2
    ButtonEvents <- SecondIsButton
    ShortSenders = {}
    Discovering = {c1}
    Callbacks <- AllCallbacks
    MaxSessions = 1
SPECIFICATION FairSpec
INVARIANT
    AnnouncesInNetworkOrder
CHECK_DEADLOCK FALSE
