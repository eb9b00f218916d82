CONSTANTS
    Keys = {1, 2, 3, 4}
    MaxTables = 3
    Targets = {0, 1, 2, 3, 4, 5}
    None = None
SPECIFICATION Spec
INVARIANT DataMatchesIndex SeekFindsTable
PROPERTY ForwardContract
