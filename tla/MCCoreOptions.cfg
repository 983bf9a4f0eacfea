SPECIFICATION StorageSpec
CONSTANTS
    Games = {"g1", "g2"}
    MaxChanges = 3
INVARIANTS
    StorageTypeOK
    CoreSeesOption
    FlushGuarantees
    StorageIsolated
PROPERTIES
    OptionReturns
    OwnFileOnly
