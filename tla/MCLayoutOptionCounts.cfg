SPECIFICATION OptionsSpec
CONSTANTS
    Games = {"g1"}
    MaxChanges = 1
INVARIANTS
    LayoutOptionCounts
