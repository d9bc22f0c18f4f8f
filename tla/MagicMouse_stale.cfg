\* One application, and a failing recvfrom() of the server.
CONSTANTS
    Radix = 2
    Endpoints = {c1}
    Garbage = Garbage
    EarlierEvents = 0
    MaxEvents = 2
    ButtonEvents <- SecondIsButton
    ShortSenders = {}
    Discovering = {}
    Callbacks <- AllCallbacks
    MaxSessions = 1
SPECIFICATION FairSpec
PROPERTY
    FreshRegistrations
CHECK_DEADLOCK FALSE
