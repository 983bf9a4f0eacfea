CONSTANTS
    Games = {"g1", "g2"}
    Origins = {"g1"}
    MaxEdits = 2
SPECIFICATION ConfigSpec
INVARIANTS OverridesEnd
PROPERTIES MainKeepsItsValue SavedReturns SavingLeavesSettings
