SPECIFICATION FairSpec
CONSTANTS
    Bots = {b1}
    Tools = {t1}
    Publisher = Publisher
    BotKinds = {"register", "work"}
    HighWater = 1
    QueueLimit = 1
    MaxInbox = 1
    MaxMessages = 0
    MaxStops = 1
    WaitsForClients = {TRUE}
    NoOne = NoOne
CHECK_DEADLOCK FALSE
INVARIANT BotHasHandler
PROPERTIES RegistrationHolds AskedIsAnswered
