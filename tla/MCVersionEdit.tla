--------------------------- MODULE MCVersionEdit ---------------------------
(***************************************************************************)
(* Model of ZnsVersionEdit for TLC: two levels (L0 and one LN level), two  *)
(* table metas (an L0 table with one LBA, an LN table with two regions),   *)
(* two keys, and up to three calls before each encoding.                   *)
(***************************************************************************)
EXTENDS VersionEdit

CONSTANTS k1, k2

MCMetas ==
    { [number |-> 1, lba |-> 4, regions |-> <<>>, numbers |-> 2,
       lba_count |-> 1, smallest |-> k1, largest |-> k2],
      [number |-> 2, lba |-> 0, regions |-> << <<8, 2>>, <<16, 1>> >>,
       numbers |-> 3, lba_count |-> 3, smallest |-> k1, largest |-> k2] }

MCKeys == {k1, k2}
====
