SPECIFICATION Spec
CONSTANTS
    Measured <- MCMeasured
    Noises <- MCNoises
    Chunks <- MCChunks
INVARIANTS
    AnswerIsHandled
    HandledIsSent
    CpBandIsTolerance
    PpBandsMeet
    DutyIsMeaningful
CHECK_DEADLOCK FALSE
