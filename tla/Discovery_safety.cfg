\* Two pads, two adapters, two calls that configure the client, two rounds of
\* broadcasts.
CONSTANTS
    pad1 = pad1
    pad2 = pad2
    Base = 2
    DefaultPort = 1
    Hosts = {pad1, pad2}
    Pads = {pad1, pad2}
    Adapters = {eth, wlan}
    SeqNos = {1}
    MaxRounds = 2
    Files <- SomeFiles
    NamedPorts = {0, 1, 2}
    Strings <- SomeStrings
    LookUps <- SomeLookUps
    Keys <- SomeKeys
    MaxCalls = 2
SPECIFICATION FairSpec
INVARIANTS
    TypeOK
    SuccessIsOneAnnouncement
    SuccessLeavesNoWorker
    NoHalfParsedServer
    DiscoveryMeetsThePads
    ConnectMeetsThePad
    SocketFitsServer
PROPERTIES
    TimedCallReturns
    LifecycleSpec
CHECK_DEADLOCK FALSE
