\* A client that looks for its pad, after at most two calls that configure it.
CONSTANTS
    pad1 = pad1
    pad2 = pad2
    Base = 2
    DefaultPort = 1
    Hosts = {pad1, pad2}
    Pads = {pad1, pad2}
    Adapters = {eth, wlan}
    SeqNos = {1}
    MaxRounds = 1
    Files <- SomeFiles
    NamedPorts = {1}
    Strings = {}
    LookUps = {}
    Keys = {}
    MaxCalls = 2
SPECIFICATION FairSpec
INVARIANT
    TriesToDiscover
CHECK_DEADLOCK FALSE
