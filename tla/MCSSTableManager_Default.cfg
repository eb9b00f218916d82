CONSTANTS
    L0Zones <- MCDefaultL0Zones
    MinSSZones <- MCMinSSZones
    LevelCount <- MCDefaultLevelCount
    Lanes <- MCDefaultLanes
    ZoneCap = 2
    Zones <- MCZones
    WordBits = 8
SPECIFICATION Spec
INVARIANT DivisionTiles
CHECK_DEADLOCK FALSE
