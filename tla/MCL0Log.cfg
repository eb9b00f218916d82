CONSTANTS
    ZoneCap <- MCZoneCap
    NZones <- MCNZones
    MaxTableLbas <- MCMaxTableLbas
    MaxTables <- MCMaxTables

SPECIFICATION Spec

INVARIANT TypeOK
INVARIANT LiveTablesIntact
INVARIANT NoSpaceLeak

CHECK_DEADLOCK FALSE
