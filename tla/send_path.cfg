SPECIFICATION SendSpec
CONSTANTS
    Node = {n1}
    Name = {"secure", "ops", "Primary"}
    Alias = {"Primary"}
    NoName = ""
    Senders = {s1}
    Tables <- MCTables
    NoLink = NoLink
    ToolSpecs <- MCToolSpecs
    SidecarSpec <- MCSidecar
    Indices <- MCIndices
    MaxParts = 2
INVARIANTS TypeOK PolicyKept AnswerInOrder BudgetIsForAir
PROPERTIES SendEnds
