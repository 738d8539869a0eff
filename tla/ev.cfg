SPECIFICATION Spec
CONSTANTS
    KL02Ampacities = {"A_20"}
    CpReadings <- Mixed
    DutyReadings <- SomeDuties
    EvCpStates = {"C"}
    KL02Envs = {{"defects", "preemption"}, {"reconnect", "partial"}}
    MCUEnvs = {{"partial"}, {"glitch", "preemption"}}
INVARIANTS
    TypeOK
    DutyErrorEnds
    
    
    CpStateTracked
