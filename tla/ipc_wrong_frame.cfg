SPECIFICATION Spec
CONSTANTS
    Bots = {b1}
    Tools = {t1}
    Publisher = Publisher
    BotKinds = {"register"}
    HighWater = 1
    QueueLimit = 1
    MaxInbox = 1
    MaxMessages = 1
    MaxStops = 0
    WaitsForClients = {FALSE}
    NoOne = NoOne
CHECK_DEADLOCK FALSE
INVARIANT ResponseIsForRequest
