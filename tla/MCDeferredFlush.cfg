CONSTANTS
    MaxFlushes <- MCMaxFlushes
    MaxTables <- MCMaxTables
    MaxDeferred <- MCMaxDeferred
    DeferModes = {TRUE, FALSE}
    FlushOutcomes = {"ok", "fail"}
    SpuriousWakeups = TRUE

SPECIFICATION Spec

INVARIANT TypeOK
INVARIANT MailboxBounded
INVARIANT DrainedOnReturn
INVARIANT InlineNoSilentTableLoss

CHECK_DEADLOCK FALSE
