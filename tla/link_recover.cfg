SPECIFICATION FairSpec
CONSTANTS
    Clients = {c1, c2}
    Query = query
    NoThread = none
    IsEv = FALSE
    UsePP = TRUE
    Commands = {"set_duty_cycle"}
    Envs = {{}, {"drop", "partial"}}
    QueueBound = 1
    WakeBound = 1
PROPERTIES
    
    CommandReturns
