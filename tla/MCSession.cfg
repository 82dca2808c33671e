CONSTANTS
    FirstGenerations <- MCFirstGenerations
    MaxGen = 6
SPECIFICATION Spec
INVARIANTS TurnOwnsGeneration
PROPERTIES TurnsHaveFreshGenerations SpeaksOncePerGeneration RetiredGenerationsStayRetired
