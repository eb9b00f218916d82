CONSTANTS
    k1 = k1
    k2 = k2
    NoKey = NoKey
    LevelCount = 2
    Metas <- MCMetas
    Keys <- MCKeys
    Names = {"bytewise"}
    Seqs = {0, 7}
    Frags = {"frag"}
    MaxOps = 3
SPECIFICATION Spec
INVARIANT RoundTrip
CHECK_DEADLOCK FALSE
