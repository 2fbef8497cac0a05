SPECIFICATION Spec
CONSTANTS
    Proc = {gw, cli}
    Readers = {cli}
    n1 = n1
    n2 = n2
    Node = {n1, n2}
    NoNode = NoNode
    Time = {1, 2}
    Packets <- MCPackets
    RecentLen = 1
    TalkersLimit = 1
    MaxPackets = 3
    Faults = TRUE
    Limits <- MCLimits
    Since = {2}
    RadioNodes = {n1}
INVARIANTS TypeOK CountsFit TextsRecorded SummaryAddsUp GatesWithhold
PROPERTIES KnowledgeStays
