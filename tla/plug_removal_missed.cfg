SPECIFICATION Spec
CONSTANTS
    Ampacities = {"A_20", "A_32"}
    CpReadings <- Mixed
    Envs = {{"defects"}}
PROPERTIES
    PlugRemovalReported
