SPECIFICATION Spec
CONSTANTS
    Channels = {ch0}
    Nodes = {n1}
    Global = Global
    MaxSends = 3
    MaxChannelSends = 2
    MaxDmSends = 2
    Cooldown = 2
    Window = 3
    Horizon = 5
    Never = Never
    NoRefusal = NoRefusal
INVARIANTS TypeOK WindowBudget ChargedTogether HintIsExact
PROPERTY BudgetSpec
