CONSTANTS
    MaxTurns = 1
    MaxAborts = 0
    MaxStops = 1
    Setups <- Closings
SPECIFICATION FairSpec
PROPERTIES
    GoroutinesEnd
