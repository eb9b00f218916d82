----------------------------- MODULE LNIteratorSpec -----------------------------
(***************************************************************************)
(* What an iterator over one LSM level promises (the rocksdb::Iterator     *)
(* contract LNIterator implements): a cursor over the sorted set of the    *)
(* level's keys, either on one key or not Valid().                         *)
(***************************************************************************)
EXTENDS Naturals, FiniteSets

CONSTANTS
    KeySets,  \* the sets of keys a level may hold
    Targets,  \* the keys a caller seeks to
    None      \* the cursor of an iterator that is not Valid()

VARIABLES
    keys,     \* the keys of the level
    cur,      \* the key the iterator is on, or None
    call      \* the last method the caller invoked

avars == <<keys, cur, call>>

Least(S) == IF S = {} THEN None ELSE CHOOSE k \in S : \A j \in S : k <= j
Greatest(S) == IF S = {} THEN None ELSE CHOOSE k \in S : \A j \in S : j <= k

AInit ==
    /\ keys \in KeySets
    /\ cur = None
    /\ call = "none"

ASeek(t) == call' = "Seek" /\ cur' = Least({k \in keys : t <= k})

ASeekForPrev(t) == call' = "SeekForPrev" /\ cur' = Greatest({k \in keys : k <= t})

ASeekToFirst == call' = "SeekToFirst" /\ cur' = Least(keys)

ASeekToLast == call' = "SeekToLast" /\ cur' = Greatest(keys)

ANext == cur # None /\ call' = "Next" /\ cur' = Least({k \in keys : cur < k})

APrev == cur # None /\ call' = "Prev" /\ cur' = Greatest({k \in keys : k < cur})

ANextState ==
    /\ \/ \E t \in Targets : ASeek(t) \/ ASeekForPrev(t)
       \/ ASeekToFirst \/ ASeekToLast \/ ANext \/ APrev
    /\ UNCHANGED keys

ASpec == AInit /\ [][ANextState]_avars

(***************************************************************************)
(* The forward part of the contract alone: Prev and SeekForPrev may leave  *)
(* the cursor on any key or on none, and every other call still behaves   *)
(* as above from wherever that is.                                         *)
(***************************************************************************)
AAnyBackward ==
    /\ call' \in {"Prev", "SeekForPrev"}
    /\ cur' \in keys \cup {None}

AForwardNextState ==
    /\ \/ \E t \in Targets : ASeek(t)
       \/ ASeekToFirst \/ ASeekToLast \/ ANext \/ AAnyBackward
    /\ UNCHANGED keys

AForwardSpec == AInit /\ [][AForwardNextState]_avars
=============================================================================
