--------------------------- MODULE MCDeferredFlush ---------------------------
(* Two flushes of up to three tables each, with at most one deferred      *)
(* write: the driver blocks on a full mailbox, the worker drains it        *)
(* before or after the teardown, and storage written by the first flush is *)
(* read again by the second.  Without deferred writes, a failure at any   *)
(* of the three positions of a flush.                                     *)
EXTENDS DeferredFlush

MCMaxFlushes == 2

MCMaxTables == 3

MCMaxDeferred == 1
=============================================================================
