\* One application, two sessions, three events, and datagrams without an id.
CONSTANTS
    Radix = 2
    Endpoints = {c1}
    Garbage = Garbage
    EarlierEvents = 0
    MaxEvents = 3
    ButtonEvents <- SecondIsButton
    ShortSenders = {c1}
    Discovering = {}
    Callbacks <- AllCallbacks
    MaxSessions = 2
SPECIFICATION Spec
INVARIANTS
    Inv
    InOrder
    NoCallbackAfterDisconnect
PROPERTIES
    RejectsOnlyThePastOrFirst
    FeedSpec
    LifecycleSpec
CHECK_DEADLOCK FALSE
