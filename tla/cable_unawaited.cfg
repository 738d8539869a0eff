SPECIFICATION Spec
CONSTANTS
    Clients = {c1}
    Query = query
    NoThread = none
    IsEv = FALSE
    UsePP = FALSE
    Commands = {"set_duty_cycle", "pwm_disable"}
    Envs = {{}}
    QueueBound = 2
    WakeBound = 1
PROPERTIES
    RequestIsAwaited
