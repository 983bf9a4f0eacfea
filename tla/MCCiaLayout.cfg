CONSTANTS
    Word = 67108864
    MaxInput = 20000
    FileSizes = {8223, 8224, 14399, 14400, 14912, 15424, 20000, 20001}
    Fields = {0, 3, 19, 20, 384, 3124, 3172, 1048577}
    Lengths = {0, 511, 512, 1024, 20000, 20001, 67108863}
    Counts = {0, 1, 2, 257}
SPECIFICATION Spec
INVARIANTS
    AccessesInside
    SectionsInOrder
    ContentsFill
CHECK_DEADLOCK FALSE
