SPECIFICATION Spec
CONSTANTS
    Profiles = {"main", "spare", "keyless"}
    DefaultProfile = "main"
    Fallbacks <- TheFallbacks
    Unbuildable = {"keyless"}
    YellowLimit = 2
    ErrorLimit = 2
    Observers = {1, 2, 3}
    DefaultMode = "casual"
    Bridges = {"hermes"}
    RateLimit = 2
    Minute = 2
    MaxErrors = 2
    Cooldown = 2
    MaxTime = 2
    Routers = {1, 2, 3}
    Writers = {1, 2, 3}
    RecentLimit = 1
    PromptItems = 2
    PromptTurns = 1
    Spoken = {"spare", "keyless"}
    Offered = {"casual", "roleplay"}
    Features = {"profiles", "agents", "memory", "tools", "device"}
    MaxTurns <- TheTurns
    MaxAdmin <- TheAdmin
    MaxPumps = 2
    MaxStarts = 2
    Configs <- TheConfigs
    Entities = {"climate", "light", "lock"}
    Keys = {"degrees", "fan", "entity_id"}
    Sections <- TheSections
    Speakers = {1, 2, 3}
    AskedCues <- TheAsked
    AskedIds = {"greet", "info", "other"}
    Pages <- ThePages
    QueueSize = 2
INVARIANTS RateIsKept RecentsAreNewest AcceptedStarts SentIsConfigured
    OfferedIsTried ListIsCheckedFirst CatalogIsTrue
PROPERTIES FallbackIsEarned CooldownIsEarned FactsAreKept ConversationIsRecorded
CHECK_DEADLOCK FALSE
