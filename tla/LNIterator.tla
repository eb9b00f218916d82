------------------------------- MODULE LNIterator -------------------------------
(***************************************************************************)
(* The two-level iterator over an LN level (sstable_ln_iterator.cc):       *)
(* LNZoneIterator walks the vector of the level's tables (index_ in        *)
(* 0 .. size(), size() meaning not Valid()), and LNIterator keeps, through *)
(* InitDataZone, a data iterator over the table the index is on.           *)
(*                                                                         *)
(* A table's data iterator (made by zone_function_, not under src/) is a   *)
(* cursor dpos over the table's sorted keys: 1 .. Len valid, 0 not yet     *)
(* positioned, Len + 1 past the end.  Tables hold at least one key         *)
(* (CopySSTable refuses an empty one), are sorted, and cover disjoint      *)
(* ranges in order.  A call whose assert(Valid()) fails is not taken.      *)
(***************************************************************************)
EXTENDS Naturals, Sequences, SequencesExt, SSTableIndex

CONSTANTS
    Keys,       \* the user keys
    MaxTables,  \* the most tables in the level
    Targets,    \* the keys a caller seeks to
    None        \* a null data iterator

ASSUME LNIteratorAssumption ==
    /\ Keys \subseteq Nat /\ Targets \subseteq Nat
    /\ MaxTables \in Nat
    /\ None \notin Nat

\* The runs a table can hold: its keys in order.
Runs == {SetToSortSeq(S, <) : S \in SUBSET Keys \ {{}}}

\* The level's tables in order, their key ranges disjoint and increasing.
Levels ==
    UNION {{t \in [0 .. n - 1 -> Runs] :
               \A i \in 0 .. n - 2 : t[i][Len(t[i])] < t[i + 1][1]}
           : n \in 0 .. MaxTables}

VARIABLES
    tables,  \* (*slist_)[i], as the keys of table i
    it,      \* [idx |-> index_iter_'s index_, dtab |-> data_iter_'s table or None, dpos]
    call     \* the last method the caller invoked (history, for the refinement)

vars == <<tables, it, call>>

N == Cardinality(DOMAIN tables)

\* The largest keys of the tables: what FindSSTableIndex compares.
Largest == [i \in 0 .. N - 1 |-> tables[i][Len(tables[i])]]

DValid(s) == s.dtab # None /\ s.dpos \in 1 .. Len(tables[s.dtab])

\* The data iterator's own moves.
DSeek(s, t) ==
    LET run == tables[s.dtab]
        ge  == {p \in 1 .. Len(run) : t <= run[p]}
    IN [s EXCEPT !.dpos = IF ge = {} THEN Len(run) + 1
                          ELSE CHOOSE p \in ge : \A q \in ge : p <= q]

DSeekToFirst(s) == [s EXCEPT !.dpos = 1]

DSeekToLast(s) == [s EXCEPT !.dpos = Len(tables[s.dtab])]

DNext(s) == [s EXCEPT !.dpos = @ + 1]

\* Apply a data-iterator move when the data iterator is not null.
IfData(s, moved) == IF s.dtab # None THEN moved ELSE s

(***************************************************************************)
(* InitDataZone: null data iterator when the index is not Valid(); keep    *)
(* the data iterator when the index's handle is the one it was made for;   *)
(* otherwise a new, unpositioned one for the index's table.               *)
(***************************************************************************)
\* Mutant: the data iterator is kept whenever there is one.
InitDataZoneNoHandle(s) ==
    CASE s.idx >= N    -> [s EXCEPT !.dtab = None]
      [] s.dtab # None -> s
      [] OTHER         -> [s EXCEPT !.dtab = s.idx, !.dpos = 0]

InitDataZone(s) ==
    CASE s.idx >= N        -> [s EXCEPT !.dtab = None]
      [] s.dtab = s.idx    -> s
      [] OTHER             -> [s EXCEPT !.dtab = s.idx, !.dpos = 0]

(***************************************************************************)
(* SkipEmptyDataLbasForward / Backward: while the data iterator is null or *)
(* not Valid(), stop with a null one when the index is not Valid(), else   *)
(* move the index (Next; Prev wraps 0 to size()), InitDataZone and         *)
(* SeekToFirst.  One pass is SkipStep; N + 1 passes reach the fixpoint.    *)
(***************************************************************************)
\* The index move of one pass: Next forward, Prev (0 wraps to size()) backward.
IndexMove(i, forward) ==
    IF forward THEN i + 1 ELSE IF i = 0 THEN N ELSE i - 1

SkipStep(s, forward) ==
    IF s.idx >= N THEN [s EXCEPT !.dtab = None]
    ELSE LET m == InitDataZone([s EXCEPT !.idx = IndexMove(@, forward)])
         IN IfData(m, DSeekToFirst(m))

SkipLoop(s, forward) ==
    LET loop[k \in 0 .. N + 1] ==
          IF k = 0 THEN s
          ELSE IF DValid(loop[k - 1]) THEN loop[k - 1]
               ELSE SkipStep(loop[k - 1], forward)
    IN loop[N + 1]

SkipForward(s) == SkipLoop(s, TRUE)

SkipBackward(s) == SkipLoop(s, FALSE)

\* LNIterator::Seek: index_iter_.Seek (FindSSTableIndex), InitDataZone,
\* data_iter_.Seek, SkipEmptyDataLbasForward.
SeekIt(t) ==
    LET s == InitDataZone([it EXCEPT !.idx = FindSSTableIndex(Largest, N, t)])
    IN SkipForward(IfData(s, DSeek(s, t)))

\* LNIterator::Prev: data_iter_.Next(), SkipEmptyDataLbasBackward.
PrevIt(s) == SkipBackward(DNext(s))

Init ==
    /\ tables \in Levels
    /\ it = [idx |-> N, dtab |-> None, dpos |-> 0]
    /\ call = "none"

Seek(t) ==
    /\ call' = "Seek"
    /\ it' = SeekIt(t)
    /\ UNCHANGED tables

\* SeekForPrev: Seek then Prev, whose assert(Valid()) needs a key >= t.
SeekForPrev(t) ==
    /\ call' = "SeekForPrev"
    /\ DValid(SeekIt(t))
    /\ it' = PrevIt(SeekIt(t))
    /\ UNCHANGED tables

SeekToFirst ==
    /\ call' = "SeekToFirst"
    /\ it' = LET s == InitDataZone([it EXCEPT !.idx = 0])
             IN SkipForward(IfData(s, DSeekToFirst(s)))
    /\ UNCHANGED tables

\* Mutant: the index is put on size() rather than size() - 1.
SeekToLastPastEnd ==
    /\ call' = "SeekToLast"
    /\ it' = LET s == InitDataZone([it EXCEPT !.idx = N])
             IN SkipForward(IfData(s, DSeekToLast(s)))
    /\ UNCHANGED tables

SeekToLast ==
    /\ call' = "SeekToLast"
    /\ it' = LET s == InitDataZone([it EXCEPT !.idx = IF N = 0 THEN 0 ELSE N - 1])
             IN SkipForward(IfData(s, DSeekToLast(s)))
    /\ UNCHANGED tables

NextEntry ==
    /\ call' = "Next"
    /\ DValid(it)
    /\ it' = SkipForward(DNext(it))
    /\ UNCHANGED tables

Prev ==
    /\ call' = "Prev"
    /\ DValid(it)
    /\ it' = PrevIt(it)
    /\ UNCHANGED tables

Next ==
    \/ \E t \in Targets : Seek(t)
    \/ SeekToFirst \/ SeekToLast \/ NextEntry
    \/ Prev
    \/ \E t \in Targets : SeekForPrev(t)

Spec == Init /\ [][Next]_vars
-----------------------------------------------------------------------------
TypeOK ==
    /\ tables \in Levels
    /\ it.idx \in 0 .. N
    /\ it.dtab \in (0 .. N - 1) \cup {None}
    /\ it.dpos \in 0 .. Cardinality(Keys) + 1
    /\ call \in {"none", "Seek", "SeekForPrev", "SeekToFirst", "SeekToLast", "Next", "Prev"}

\* The keys of the level, and the key LNIterator::key() returns.
KeysOf == UNION {Range(tables[i]) : i \in DOMAIN tables}

CurKey == IF DValid(it) THEN tables[it.dtab][it.dpos] ELSE None

(***************************************************************************)
(* The data iterator always reads the table the index iterator is on, so   *)
(* that value() and the handle InitDataZone compares describe the table    *)
(* key() comes from, whatever mix of seeks and moves led there.            *)
(***************************************************************************)
DataMatchesIndex == it.dtab # None => it.dtab = it.idx

(***************************************************************************)
(* For the level's vector of largest keys and every target, the binary     *)
(* search of FindSSTableIndex (the index Seek puts the index iterator on)  *)
(* returns the first table whose largest key is not below the target, or   *)
(* size() when there is none: the reference LowerBound.                    *)
(***************************************************************************)
SeekFindsTable ==
    \A t \in Targets : FindSSTableIndex(Largest, N, t) = LowerBound(Largest, N, t)

(***************************************************************************)
(* LNIterator implements the iterator contract of LNIteratorSpec over the  *)
(* level's keys: Seek lands on the least key >= target (FindSSTableIndex   *)
(* picks the table, the data iterator the key), Next on the following key  *)
(* across table boundaries, Prev on the preceding one.                     *)
(***************************************************************************)
Abs == INSTANCE LNIteratorSpec WITH KeySets <- SUBSET Keys, keys <- KeysOf, cur <- CurKey,
                         call <- call

AbsSpec == Abs!ASpec

(***************************************************************************)
(* Seek, SeekToFirst, SeekToLast and Next keep the contract whatever the   *)
(* calls before them, Prev and SeekForPrev included, left the two          *)
(* iterators in.                                                           *)
(***************************************************************************)
ForwardContract == Abs!AForwardSpec

=============================================================================
