SPECIFICATION FairSpec
CONSTANTS
    Clients = {c1}
    Query = query
    NoThread = none
    IsEv = FALSE
    UsePP = TRUE
    Commands = {"set_duty_cycle", "pwm_disable"}
    Envs = {{"drop"}}
    QueueBound = 2
    WakeBound = 1
PROPERTIES
    ConnectionReestablished
