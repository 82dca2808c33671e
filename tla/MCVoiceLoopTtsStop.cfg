CONSTANTS
    MaxTurns = 1
    MaxAborts = 1
    MaxStops = 0
    Setups <- Abortings
SPECIFICATION Spec
INVARIANTS
    TtsStartIsStopped
