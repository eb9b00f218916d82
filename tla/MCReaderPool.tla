---------------------------- MODULE MCReaderPool ----------------------------
(* Four reader threads competing for two L0 reader slots, so that a      *)
(* thread has to wait on cv_ and to rescan after a release.               *)
EXTENDS ReaderPool, TLC

CONSTANTS t1, t2, t3, t4

MCThreads == {t1, t2, t3, t4}

MCNReaders == 2

=============================================================================
