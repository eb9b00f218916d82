------------------------------ MODULE MCL0Log ------------------------------
(* Three zones of two LBAs and tables of one to three LBAs: tables start   *)
(* and end inside zones, span zone boundaries, and the head wraps around   *)
(* the log more than once within MaxTables writes.                         *)
EXTENDS L0Log

MCZoneCap == 2

MCNZones == 3

MCMaxTableLbas == 3

MCMaxTables == 7
=============================================================================
