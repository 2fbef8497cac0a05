SPECIFICATION GatewaySpec
CONSTANTS
    Node = {"me", "peer"}
    Name = {"secure", "ops", "Primary"}
    Alias = {"Primary"}
    NoName = ""
    Me = "me"
    Word = {"mesh", "bot", "hi", "!me", "me"}
    IdNames <- MCIdNames
    Radios <- MCRadios
    NoLink = NoLink
    Packets <- MCPackets
    Configs <- MCConfigs
    MaxEvents = 1
INVARIANTS NamesFollowed
