SPECIFICATION Spec
CONSTANTS
    Limits = {l1, l2}
    InitialLimits = l0
    Uuids = {u1, u2}
    NoUuid = none
    MaxRefusals = 2
    Consumers = {"token_provider", "stop_button"}
    Chars = {a, b}
    Enter = enter
    Stop = stop
    TrimLength = 2
    Trim = 1
    QueueBound = 3
    MaxTyped = 4
    MaxOverflows = 1
INVARIANTS
    TypeOK
    LinkAgrees
    InputHandled
PROPERTIES
    MatchingEnds
    LimitsReachLeaf
