CONSTANTS
    t1 = t1
    t2 = t2
    t3 = t3
    t4 = t4
    Threads <- MCThreads
    NReaders <- MCNReaders

SPECIFICATION Spec

INVARIANT TypeOK
INVARIANT SlotExclusive
INVARIANT NoLostWakeup

PROPERTY WaitersAreWoken
