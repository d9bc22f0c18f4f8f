\* The registry holds a start position, with and without an offset.
CONSTANTS
    pad1 = pad1
    pad2 = pad2
    Base = 2
    DefaultPort = 1
    Hosts = {pad1, pad2}
    Pads = {pad1, pad2}
    Adapters = {eth, wlan}
    SeqNos = {1}
    MaxRounds = 1
    Files <- SomeFiles
    NamedPorts = {1}
    Strings <- SomeStrings
    LookUps <- SomeLookUps
    Keys <- StartKeys
    MaxCalls = 1
SPECIFICATION FairSpec
PROPERTY
    StartAsConfigured
CHECK_DEADLOCK FALSE
