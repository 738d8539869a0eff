SPECIFICATION Spec
CONSTANTS
    Ampacities = {"A_20", "A_32"}
    CpReadings <- Mixed
    Envs = {{"preemption"}, {"defects", "preemption"}}
INVARIANTS
    TypeOK
    FaultsAgree
    CpErrorFollowsMeasurement
    ProximityRecovers
    CpStateTracked
    AmpacityKnownToBoth
PROPERTIES
    PlugRemovalReportedUndisturbed
