CONSTANTS
    MaxGen = 2
    MaxBodies = 2
    MaxTime = 2
    MinGap = 1
    MaxPerTurn = 1
    QueueSize = 2
    Setups = {"motions", "leds"}
SPECIFICATION Spec
CHECK_DEADLOCK FALSE
INVARIANTS StaleBodyIsSilent MotionsAreCounted IdleIsShown
