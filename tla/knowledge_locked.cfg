SPECIFICATION Spec
CONSTANTS
    Proc = {gw, cli}
    Readers = {}
    n1 = n1
    n2 = n2
    Node = {n1, n2}
    NoNode = NoNode
    Time = {1, 2}
    Packets <- MCPackets
    RecentLen = 1
    TalkersLimit = 1
    MaxPackets = 3
    Faults = FALSE
    Limits <- MCLimits
    Since = {2}
    RadioNodes = {n1}
CHECK_DEADLOCK FALSE
INVARIANT EveryPacketRecorded
