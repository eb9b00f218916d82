---------------------------- MODULE MCCommitCodec ----------------------------
(* LBAs of 16 bytes with the 8-byte header, so 8 payload bytes per          *)
(* fragment: lengths 1 and 8 give one Full fragment, 9 gives First/Last    *)
(* and 20 gives First/Middle/Last; two commits, so that the reader goes    *)
(* from one record to the next.  Lengths up to 32 fit SpaceNeeded.          *)
EXTENDS CommitCodec

MCLba == 16

MCHeader == 8

MCLengths == {1, 8, 9, 20}

\* A payload of 40 bytes takes 5 fragments; SpaceNeeded(40) is 4 LBAs.
MCLongLengths == {9, 40}

MCMaxCommits == 2
=============================================================================
