\* Three subscriptions, and two messages of the pad, 7 and 8.  Numbers are words
\* of four bits: the announcements 7, 8 and 9 are understood as 14, 1 and 9, so
\* that a client starts before both messages, or ahead of them.
CONSTANTS
    MaxSessions = 3
    Radix = 2
    EarlierEvents = 7
    MaxEvents = 9
SPECIFICATION FairSpec
INVARIANTS
    TypeOK
    OneInjectorAtRest
    WinsockSuffices
PROPERTIES
    NoJumpBackAtRest
    LifecycleSpec
    UserInterfaceReturns
CHECK_DEADLOCK FALSE
