CONSTANTS
    MaxTurns = 2
    MaxAborts = 1
    MaxStops = 1
    Setups <- FaultsOrStop
SPECIFICATION Spec
INVARIANTS
    CurrentAudioIsSpeaking
    ExpiredTurnIsSilent
    CompletedIsClosed
    CancelledTurnsAreRecorded
    OneTurnIsLive
