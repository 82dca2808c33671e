CONSTANTS
    c1 = c1
    c2 = c2
    Broker = Broker
    Callers <- TwoCallers
    LastPage = 2
    MaxCalls <- CallsOf
SPECIFICATION FairSpec
CHECK_DEADLOCK FALSE
INVARIANTS EntriesAreAwaited OneDiscovery
PROPERTIES ImplementsToolCalls DiscoveryCompletes
