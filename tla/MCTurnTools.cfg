SPECIFICATION Spec
CONSTANTS
    Kinds = {"lookup", "device", "refused"}
    MaxMade = 3
    MaxChunks = 4
    MaxPerBatch = 2
    Policies <- ThePolicies
CHECK_DEADLOCK FALSE
INVARIANTS EveryCallIsAccounted SilentTurnsAskedTwice FollowUpIsBounded
PROPERTIES CancelEnds
