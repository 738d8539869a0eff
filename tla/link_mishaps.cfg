SPECIFICATION Spec
CONSTANTS
    Clients = {c1, c2}
    Query = query
    NoThread = none
    IsEv = TRUE
    UsePP = TRUE
    Commands = {"set_cp_state"}
    Envs = {{"drop", "no_device", "loss", "slow", "early", "coalesce"},
            {"partial", "drop", "loss"}}
    QueueBound = 2
    WakeBound = 2
SYMMETRY Interchangeable
INVARIANTS
    TypeOK
    WaiterOwnsAnswer
PROPERTIES
    ExpectationStable
    MeasuresInitialised
    MeasurementIsAwaited
    ServesOneAtATime
