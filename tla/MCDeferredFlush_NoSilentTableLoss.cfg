CONSTANTS
    MaxFlushes <- MCMaxFlushes
    MaxTables <- MCMaxTables
    MaxDeferred <- MCMaxDeferred
    DeferModes = {TRUE}
    FlushOutcomes = {"ok", "fail"}
    SpuriousWakeups = TRUE

SPECIFICATION Spec

INVARIANT NoSilentTableLoss

CHECK_DEADLOCK FALSE
