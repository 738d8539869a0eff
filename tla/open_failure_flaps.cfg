SPECIFICATION Spec
CONSTANTS
    Clients = {c1}
    Query = query
    NoThread = none
    IsEv = FALSE
    UsePP = TRUE
    Commands = {"set_duty_cycle", "pwm_disable"}
    Envs = {{"no_device"}}
    QueueBound = 2
    WakeBound = 1
PROPERTIES
    ClosedInErrorOnly
