SPECIFICATION FairSpec
CONSTANTS
    Providers <- MCProviders
    MockItems <- MCMockItems
    Reads = 4
    EventsCap = 1
CHECK_DEADLOCK FALSE
INVARIANTS NothingIsDropped CodecIsAlive
PROPERTIES ImplementsOrderedStream GivenUpEnds
