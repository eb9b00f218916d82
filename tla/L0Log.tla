------------------------------- MODULE L0Log -------------------------------
(***************************************************************************)
(* One L0 circular log (TropoL0SSTable, tropodb_l0_sstable.cc): SSTables   *)
(* are appended at the write head by WriteSSTable and reclaimed at the     *)
(* write tail, in whole zones, by TryInvalidateSSZones.                    *)
(*                                                                         *)
(* The zone log itself (SZD::SZDCircularLog: head, tail, Append,           *)
(* ConsumeTail, wrapped_addr) is not under src/; it is modelled from the   *)
(* interface the spec gives it (section 6).  LBAs are 0 .. Cap-1 (the      *)
(* log's min_zone_head is taken as 0).  owner records which table's bytes  *)
(* each LBA holds on the device, so that a reset or an overwrite of a live *)
(* table is visible.                                                       *)
(*                                                                         *)
(* The caller of TryInvalidateSSZones, the version set that decides which  *)
(* tables are obsolete and keeps the returned remaining_metas for the next *)
(* attempt, is not under src/ either: Obsolete and the use of pending are  *)
(* modelled from spec section 4.2 (victims passed in on-log order).        *)
(***************************************************************************)
EXTENDS Naturals, FiniteSets, Sequences

CONSTANTS
    ZoneCap,      \* zone_cap_: LBAs per zone
    NZones,       \* zones of this L0 log
    MaxTableLbas, \* the largest table a flush writes, in LBAs
    MaxTables     \* bound on the number of tables written in a run

ASSUME L0LogAssumption ==
    /\ ZoneCap \in Nat \ {0}
    /\ NZones \in Nat \ {0}
    /\ MaxTableLbas \in Nat \ {0}
    /\ MaxTables \in Nat

\* max_zone_head_ - min_zone_head_
Cap == NZones * ZoneCap

LBAs == 0 .. Cap - 1

\* The content of an LBA that holds no table.
Free == 0

\* Table numbers start at 1 (SSZoneMetaData::number, assigned by the version set).
Numbers == 1 .. MaxTables

Metas == [number : Numbers, lba : LBAs, lba_count : 1 .. Cap]

VARIABLES
    head,       \* log_.GetWriteHead()
    tail,       \* log_.GetWriteTail()
    used,       \* LBAs between tail and head (distinguishes full from empty)
    owner,      \* owner[b]: number of the table whose data LBA b holds, or Free
    live,       \* metas of tables the LSM tree still references
    pending,    \* metas of obsolete tables (and remainders) not yet reclaimed
    nextNumber  \* the number the next written table gets

vars == <<head, tail, used, owner, live, pending, nextNumber>>

\* wrapped_addr: address arithmetic that wraps around the log's LBA range.
Wrapped(x) == x % Cap

Blocks(m) == {Wrapped(m.lba + k) : k \in 0 .. m.lba_count - 1}

\* The LBAs of the written part of the log, from the tail to the head.
Window == {Wrapped(tail + k) : k \in 0 .. used - 1}

Init ==
    /\ head = 0
    /\ tail = 0
    /\ used = 0
    /\ owner = [b \in LBAs |-> Free]
    /\ live = {}
    /\ pending = {}
    /\ nextNumber = 1

(***************************************************************************)
(* WriteSSTable: refuse when !EnoughSpaceAvailable (log_.SpaceLeft), else  *)
(* meta->L0.lba = log_.GetWriteHead() and log_.Append, which advances the  *)
(* head by the LBAs written and stores them in meta->lba_count.            *)
(***************************************************************************)
\* Mutant: WriteSSTable without the EnoughSpaceAvailable check.
WriteSSTableNoSpaceCheck(n) ==
    /\ nextNumber <= MaxTables
    /\ LET m == [number |-> nextNumber, lba |-> head, lba_count |-> n]
       IN /\ live' = live \cup {m}
          /\ owner' = [b \in LBAs |-> IF b \in Blocks(m) THEN m.number ELSE owner[b]]
    /\ head' = Wrapped(head + n)
    /\ used' = used + n
    /\ nextNumber' = nextNumber + 1
    /\ UNCHANGED <<tail, pending>>

WriteSSTable(n) ==
    /\ nextNumber <= MaxTables
    /\ used + n <= Cap
    /\ LET m == [number |-> nextNumber, lba |-> head, lba_count |-> n]
       IN /\ live' = live \cup {m}
          /\ owner' = [b \in LBAs |-> IF b \in Blocks(m) THEN m.number ELSE owner[b]]
    /\ head' = Wrapped(head + n)
    /\ used' = used + n
    /\ nextNumber' = nextNumber + 1
    /\ UNCHANGED <<tail, pending>>

\* A compaction makes a live table obsolete; the version set queues its meta.
Obsolete(m) ==
    /\ live' = live \ {m}
    /\ pending' = pending \cup {m}
    /\ UNCHANGED <<head, tail, used, owner, nextNumber>>

(***************************************************************************)
(* The victims of TryInvalidateSSZones in on-log order.  Table numbers     *)
(* grow in write order, and a remainder meta carries the number of the     *)
(* last table it stands for, so on-log order is number order.              *)
(***************************************************************************)
InLogOrder(S) ==
    [i \in 1 .. Cardinality(S) |->
        CHOOSE m \in S : Cardinality({x \in S : x.number < m.number}) = i - 1]

(***************************************************************************)
(* The walk of TryInvalidateSSZones over metas[1..] (lines 322-348): the   *)
(* state before metas[0] is looked at, and the loop body for metas[i].     *)
(* blocks counts from the start of the tail zone; each time it reaches     *)
(* zone_cap_ the span through i is added to blocks_to_delete, upto = i + 1 *)
(* (here: i, as s is 1-based), the mock takes that table's number and      *)
(* blocks restarts from 0.  A repeated number stops the walk with          *)
(* Corruption, a non-adjacent table stops it (break); once stopped, the    *)
(* rest of the loop does not run.  The tests are made in the code's order. *)
(***************************************************************************)
WalkStart(s) ==
    [blocks  |-> (s[1].lba % ZoneCap) + s[1].lba_count,
     btd     |-> 0,
     upto    |-> 0,
     prev    |-> s[1],
     mocknum |-> s[1].number,
     stop    |-> FALSE,
     corrupt |-> FALSE]

\* Mutant: the walk does not stop at a table that is not adjacent.
WalkStepNoAdjacency(acc, m, i) ==
    LET b == acc.blocks + m.lba_count
    IN IF acc.stop THEN acc
       ELSE IF acc.prev.number = m.number
            THEN [acc EXCEPT !.stop = TRUE, !.corrupt = TRUE]
       ELSE IF b >= ZoneCap
            THEN [acc EXCEPT !.blocks = 0, !.btd = @ + b, !.upto = i,
                             !.prev = m, !.mocknum = m.number]
       ELSE [acc EXCEPT !.blocks = b, !.prev = m]

WalkStep(acc, m, i) ==
    LET b == acc.blocks + m.lba_count
    IN IF acc.stop THEN acc
       ELSE IF acc.prev.number = m.number
            THEN [acc EXCEPT !.stop = TRUE, !.corrupt = TRUE]
       ELSE IF Wrapped(acc.prev.lba + acc.prev.lba_count) # m.lba
            THEN [acc EXCEPT !.stop = TRUE]
       ELSE IF b >= ZoneCap
            THEN [acc EXCEPT !.blocks = 0, !.btd = @ + b, !.upto = i,
                             !.prev = m, !.mocknum = m.number]
       ELSE [acc EXCEPT !.blocks = b, !.prev = m]

\* The state of the walk after each of metas[0..i-1] (1-based: s[1..i]).
WalkFn(s) ==
    LET w[i \in 1 .. Len(s)] ==
          IF i = 1 THEN WalkStart(s) ELSE WalkStep(w[i - 1], s[i], i)
    IN w

Walk(s) == WalkFn(s)[Len(s)]

(***************************************************************************)
(* The reset of the tail zones: log_.ConsumeTail(tail, tail + k) frees the *)
(* k LBAs from the tail (k a multiple of zone_cap_).                       *)
(***************************************************************************)
ConsumeTail(k) ==
    /\ owner' = [b \in LBAs |->
                    IF b \in {Wrapped(tail + j) : j \in 0 .. k - 1}
                    THEN Free ELSE owner[b]]
    /\ tail' = Wrapped(tail + k)
    /\ used' = used - k

(***************************************************************************)
(* TryInvalidateSSZones(metas, remaining_metas) with metas the queued      *)
(* victims in log order, and the caller keeping remaining_metas as its new *)
(* queue.                                                                  *)
(*  - victims not at the tail: every meta is returned and nothing is       *)
(*    reset, a stuttering step (so is the Corruption return, which leaves  *)
(*    the queue and the log alone);                                        *)
(*  - otherwise blocks_to_delete is rounded down to whole zones; when it   *)
(*    was not whole, metas[0] is reused as the remainder "mock" for the    *)
(*    LBAs [tail + safe, tail + blocks_to_delete) and returned first;      *)
(*    ConsumeTail resets the whole zones; metas[upto..] are returned.      *)
(***************************************************************************)
\* Mutant: the remainder of a partly reclaimed zone is not returned.
TryInvalidateSSZonesNoMock ==
    /\ pending # {}
    /\ LET s    == InLogOrder(pending)
           r    == Walk(s)
           safe == (r.btd \div ZoneCap) * ZoneCap
       IN /\ tail = s[1].lba
          /\ ~r.corrupt
          /\ pending' = {s[k] : k \in r.upto + 1 .. Len(s)}
          /\ IF safe > 0
             THEN ConsumeTail(safe)
             ELSE UNCHANGED <<owner, tail, used>>
          /\ UNCHANGED <<head, live, nextNumber>>

TryInvalidateSSZones ==
    /\ pending # {}
    /\ LET s    == InLogOrder(pending)
           r    == Walk(s)
           safe == (r.btd \div ZoneCap) * ZoneCap
           mock == [number |-> r.mocknum,
                    lba |-> Wrapped(tail + safe),
                    lba_count |-> r.btd - safe]
           rest == {s[k] : k \in r.upto + 1 .. Len(s)}
       IN /\ tail = s[1].lba
          /\ ~r.corrupt
          /\ pending' = IF r.btd % ZoneCap # 0 THEN {mock} \cup rest ELSE rest
          /\ IF safe > 0
             THEN ConsumeTail(safe)
             ELSE UNCHANGED <<owner, tail, used>>
          /\ UNCHANGED <<head, live, nextNumber>>

Next ==
    \/ \E n \in 1 .. MaxTableLbas : WriteSSTable(n)
    \/ \E m \in live : Obsolete(m)
    \/ TryInvalidateSSZones

Spec == Init /\ [][Next]_vars

-----------------------------------------------------------------------------
TypeOK ==
    /\ head \in LBAs
    /\ tail \in LBAs
    /\ used \in 0 .. Cap
    /\ owner \in [LBAs -> Numbers \cup {Free}]
    /\ live \subseteq Metas
    /\ pending \subseteq Metas
    /\ nextNumber \in 1 .. MaxTables + 1

(***************************************************************************)
(* No zone reset and no append ever destroys a table the LSM tree still    *)
(* references: every LBA of a live table still holds that table's data.   *)
(* A reset over a live table needs a tail walk that counts a table that is *)
(* not obsolete or not adjacent; an overwrite needs the head to wrap over  *)
(* the tail.                                                               *)
(***************************************************************************)
LiveTablesIntact ==
    \A m \in live : \A b \in Blocks(m) : owner[b] = m.number

(***************************************************************************)
(* No dead space is lost: every written LBA between the tail and the head  *)
(* belongs to a live table or to a queued victim (an obsolete table or the *)
(* remainder meta TryInvalidateSSZones returns), so it is reset by some    *)
(* later TryInvalidateSSZones; and nothing outside that window is written. *)
(***************************************************************************)
NoSpaceLeak ==
    /\ \A b \in LBAs : owner[b] # Free <=> b \in Window
    /\ \A b \in Window : \E m \in live \cup pending : b \in Blocks(m)
=============================================================================
