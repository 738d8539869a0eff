SPECIFICATION FairSpec
CONSTANTS
    Clients = {c1}
    Query = query
    NoThread = none
    Envs = {{"refuse"}, {"no_device", "drop", "partial", "loss", "refuse"},
            {"slow", "echo", "refuse", "early"}, {"drop", "slow"}}
    QueueBound = 2
    WakeBound = 1
INVARIANTS
    TypeOK
PROPERTIES
    PairedIfPrompt
    ServesOneAtATime
    CommandReturns
    KeepsMeasuring
