SPECIFICATION SendSpec
CONSTANTS
    Node = {n1}
    Name = {"secure", "ops", "Primary"}
    Alias = {"Primary"}
    NoName = ""
    Senders = {s1}
    Tables <- MCOneTable
    NoLink = NoLink
    ToolSpecs <- MCWildcard
    SidecarSpec <- MCSidecar
    Indices <- MCIndices
    MaxParts = 2
INVARIANT WildcardSparesPrimary
