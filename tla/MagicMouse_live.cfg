\* One application that discovers a pad which has used 15 of its 16 numbers, and
\* everything that has to return.
CONSTANTS
    Radix = 2
    Endpoints = {c1}
    Garbage = Garbage
    EarlierEvents = 15
    MaxEvents = 17
    ButtonEvents <- LastIsButton
    ShortSenders = {}
    Discovering = {c1}
    Callbacks <- AllCallbacks
    MaxSessions = 1
SPECIFICATION FairSpec
INVARIANTS
    TypeOK
    HeardOnce
PROPERTIES
    SendReturns
    ShutdownReturns
    DisconnectReturns
    LifecycleSpec
CHECK_DEADLOCK FALSE
