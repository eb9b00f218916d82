---------------------------- MODULE VersionEdit ----------------------------
(***************************************************************************)
(* ZnsVersionEdit (index/zns_version_edit.cc): the record of one change of *)
(* the LSM-tree index that is appended to the manifest.  Callers fill an   *)
(* edit with AddSSDefinition, RemoveSSDefinition and the setters of the    *)
(* header; EncodeTo serialises it and DecodeFrom parses a serialised edit  *)
(* back.                                                                   *)
(*                                                                         *)
(* The byte string is abstracted to a sequence of tokens: one token per    *)
(* Put* call of EncodeTo (a tag, a varint, a fixed8 or a length-prefixed   *)
(* slice) and one Get* call of DecodeFrom consumes one token, failing when *)
(* the input is exhausted.  An internal key is a model value; its Encode() *)
(* and DecodeFrom() are inverse, so the token carries the key itself.      *)
(***************************************************************************)
EXTENDS Naturals, Sequences, SequencesExt

CONSTANTS
    LevelCount,   \* ZnsConfig::level_count
    Metas,        \* the SSZoneMetaData values callers pass (small set)
    Keys,         \* internal keys (model values)
    NoKey,        \* a default-constructed (empty) InternalKey
    Names,        \* comparator names
    Seqs,         \* sequence numbers, table numbers and range bounds
    Frags,        \* fragmented-log payloads
    MaxOps        \* bound on the calls made on one edit (a natural)

VARIABLES
    edit,      \* the ZnsVersionEdit being built
    ops,       \* calls made so far (bounded by MaxOps)
    written,   \* the edit as it was when it was last encoded
    decoded,   \* the edit DecodeFrom rebuilt from that encoding
    dstatus    \* "none" before the first encoding, else DecodeFrom's Status

vars == <<edit, ops, written, decoded, dstatus>>

Levels == 0..(LevelCount - 1)

(* A default-constructed SSZoneMetaData; L0 and LN hold the two location   *)
(* formats, lba (one LBA) and regions (a list of <<lba, size>> pairs).     *)
EmptyMeta == [number |-> 0, lba |-> 0, regions |-> <<>>, numbers |-> 0,
              lba_count |-> 0, smallest |-> NoKey, largest |-> NoKey]

(* ZnsVersionEdit::Clear(), also run by the constructor.                   *)
Cleared == [has_comparator |-> FALSE, comparator |-> "",
            has_last_sequence |-> FALSE, last_sequence |-> 0,
            has_next_ss_number |-> FALSE, ss_number |-> 0,
            new_ss |-> <<>>, deleted_ss |-> {}, deleted_ss_pers |-> <<>>,
            has_deleted_range |-> FALSE, deleted_range |-> <<0, 0>>,
            compact_pointers |-> <<>>, fragmented_data |-> <<>>]

(* The copy AddSSDefinition makes: number, the location of the level's     *)
(* format only, and the counters and keys.                                 *)
AddedCopy(level, meta) ==
    [EmptyMeta EXCEPT !.number = meta.number,
                      !.lba = IF level = 0 THEN meta.lba ELSE 0,
                      !.regions = IF level = 0 THEN <<>> ELSE meta.regions,
                      !.numbers = meta.numbers, !.lba_count = meta.lba_count,
                      !.smallest = meta.smallest, !.largest = meta.largest]

(***************************************************************************)
(* EncodeTo                                                                *)
(***************************************************************************)
EncodeLocation(level, m) ==
    IF level = 0 THEN <<m.lba>>
    ELSE <<Len(m.regions)>> \o FlattenSeq(m.regions)

EncodeCounters(m) == <<m.numbers, m.lba_count, m.smallest, m.largest>>

(* A kDeletedSSTable record always uses the LN location format.            *)
EncodeDeleted(d) ==
    <<"kDeletedSSTable", d[1], d[2].number>>
        \o EncodeLocation(1, d[2]) \o EncodeCounters(d[2])

EncodeNew(n) ==
    <<"kNewSSTable", n[1], n[2].number>>
        \o EncodeLocation(n[1], n[2]) \o EncodeCounters(n[2])

EncodePointer(p) == <<"kCompactPointer", p[1], p[2]>>

EncodeFrag(f) == <<"kFragmentedData", f[1], f[2]>>

EncodeTo(e) ==
    (IF e.has_comparator THEN <<"kComparator", e.comparator>> ELSE <<>>)
    \o (IF e.has_last_sequence
          THEN <<"kLastSequence", e.last_sequence>> ELSE <<>>)
    \o (IF e.has_next_ss_number
          THEN <<"kNextSSTableNumber", e.ss_number>> ELSE <<>>)
    \o FlattenSeq([i \in DOMAIN e.compact_pointers |->
                     EncodePointer(e.compact_pointers[i])])
    \o (IF e.has_deleted_range
          THEN <<"kDeletedRange">> \o e.deleted_range ELSE <<>>)
    \o FlattenSeq([i \in DOMAIN e.deleted_ss_pers |->
                     EncodeDeleted(e.deleted_ss_pers[i])])
    \o FlattenSeq([i \in DOMAIN e.new_ss |-> EncodeNew(e.new_ss[i])])
    \o FlattenSeq([i \in DOMAIN e.fragmented_data |->
                     EncodeFrag(e.fragmented_data[i])])

(***************************************************************************)
(* DecodeFrom.  The loop state is the read position, msg (the reason, or   *)
(* "none" while it is nullptr), the edit decoded into, and the one         *)
(* SSZoneMetaData m the function reuses for every table entry.             *)
(***************************************************************************)
Avail(b, p, k) == p + k - 1 <= Len(b)

Failed(d) == [d EXCEPT !.msg = "corruption"]

(* GetLevel: a fixed8 below ZnsConfig::level_count.                        *)
GetLevel(b, p) == Avail(b, p, 1) /\ b[p] < LevelCount

(* DecodeL0 reads number, L0.lba, numbers, lba_count and the two keys into *)
(* m; the LN fields of m keep what an earlier entry left there.            *)
DecodeL0(b, p, m) ==
    IF Avail(b, p, 6)
    THEN [ok |-> TRUE, pos |-> p + 6,
          m |-> [m EXCEPT !.number = b[p], !.lba = b[p + 1],
                          !.numbers = b[p + 2], !.lba_count = b[p + 3],
                          !.smallest = b[p + 4], !.largest = b[p + 5]]]
    ELSE [ok |-> FALSE, pos |-> p, m |-> m]

(* DecodeLN reads number and lba_regions (at most 8), the region pairs,    *)
(* then numbers, lba_count and the two keys; m.lba keeps its old value.    *)
DecodeLN(b, p, m) ==
    IF Avail(b, p, 2) /\ b[p + 1] <= 8 /\ Avail(b, p + 2 + 2 * b[p + 1], 4)
    THEN LET r == b[p + 1]
             q == p + 2 + 2 * r
         IN [ok |-> TRUE, pos |-> q + 4,
             m |-> [m EXCEPT !.number = b[p],
                      !.regions = [i \in 1..r |-> <<b[p + 2 * i],
                                                    b[p + 2 * i + 1]>>],
                      !.numbers = b[q], !.lba_count = b[q + 1],
                      !.smallest = b[q + 2], !.largest = b[q + 3]]]
    ELSE [ok |-> FALSE, pos |-> p, m |-> m]

(* GetLevel followed by DecodeLevel, for a table entry at position p.      *)
DecodeEntry(b, p, m) ==
    IF ~GetLevel(b, p) THEN [ok |-> FALSE, pos |-> p, m |-> m]
    ELSE IF b[p] = 0 THEN DecodeL0(b, p + 1, m)
    ELSE DecodeLN(b, p + 1, m)

(* One pass of the while loop: the tag at d.pos and the case it selects.   *)
DecodeStep(b, d) ==
    LET t == b[d.pos]
        p == d.pos + 1
        e == d.e
        entry == DecodeEntry(b, p, d.m)
    IN CASE t = "kComparator" ->
              IF Avail(b, p, 1)
              THEN [d EXCEPT !.pos = p + 1,
                      !.e = [e EXCEPT !.comparator = b[p],
                                      !.has_comparator = TRUE]]
              ELSE Failed(d)
         [] t = "kLastSequence" ->
              IF Avail(b, p, 1)
              THEN [d EXCEPT !.pos = p + 1,
                      !.e = [e EXCEPT !.last_sequence = b[p],
                                      !.has_last_sequence = TRUE]]
              ELSE Failed(d)
         [] t = "kNextSSTableNumber" ->
              IF Avail(b, p, 1)
              THEN [d EXCEPT !.pos = p + 1,
                      !.e = [e EXCEPT !.ss_number = b[p],
                                      !.has_next_ss_number = TRUE]]
              ELSE Failed(d)
         [] t = "kDeletedRange" ->
              IF Avail(b, p, 2)
              THEN [d EXCEPT !.pos = p + 2,
                      !.e = [e EXCEPT !.deleted_range = <<b[p], b[p + 1]>>,
                                      !.has_deleted_range = TRUE]]
              ELSE Failed(d)
         [] t = "kDeletedSSTable" ->
              IF entry.ok
              THEN [d EXCEPT !.pos = entry.pos, !.m = entry.m,
                      !.e = [e EXCEPT !.deleted_ss_pers =
                                        Append(@, <<b[p], entry.m>>)]]
              ELSE Failed(d)
         [] t = "kNewSSTable" ->
              IF entry.ok
              THEN [d EXCEPT !.pos = entry.pos, !.m = entry.m,
                      !.e = [e EXCEPT !.new_ss = Append(@, <<b[p], entry.m>>)]]
              ELSE Failed(d)
         [] t = "kCompactPointer" ->
              IF GetLevel(b, p) /\ Avail(b, p + 1, 1)
              THEN [d EXCEPT !.pos = p + 2,
                      !.e = [e EXCEPT !.compact_pointers =
                                        Append(@, <<b[p], b[p + 1]>>)]]
              ELSE Failed(d)
         [] t = "kFragmentedData" ->
              IF GetLevel(b, p) /\ Avail(b, p + 1, 1)
              THEN [d EXCEPT !.pos = p + 2,
                      !.e = [e EXCEPT !.fragmented_data =
                                        Append(@, <<b[p], b[p + 1]>>)]]
              ELSE Failed(d)
         [] OTHER -> Failed(d)

(* DecodeFrom(b) into the edit "into": every pass consumes at least two    *)
(* tokens, so Len(b) passes run the loop to its end.  The result is OK     *)
(* when no case failed and the input is used up.                           *)
DecodeFrom(b, into) ==
    LET loop[k \in 0..Len(b)] ==
          IF k = 0 THEN [pos |-> 1, msg |-> "none", e |-> into, m |-> EmptyMeta]
          ELSE LET d == loop[k - 1]
               IN IF d.msg = "none" /\ d.pos <= Len(b)
                  THEN DecodeStep(b, d) ELSE d
        d == loop[Len(b)]
    IN [status |-> IF d.msg = "none" /\ d.pos > Len(b)
                   THEN "ok" ELSE "corruption",
        e |-> d.e]

(***************************************************************************)
(* The calls made on an edit.  Each is one call of the API; ops bounds     *)
(* their number.                                                           *)
(***************************************************************************)
Call(e2) ==
    /\ ops < MaxOps
    /\ edit' = e2
    /\ ops' = ops + 1
    /\ UNCHANGED <<written, decoded, dstatus>>

Init ==
    /\ edit = Cleared
    /\ ops = 0
    /\ written = Cleared
    /\ decoded = Cleared
    /\ dstatus = "none"

Clear == Call(Cleared)

AddSSDefinition(level, meta) ==
    Call([edit EXCEPT !.new_ss = Append(@, <<level, AddedCopy(level, meta)>>)])

(* RemoveSSDefinition records <<level, number>> in deleted_ss_, and keeps  *)
(* the whole meta in deleted_ss_pers_ only for a table outside L0.         *)
RemoveSSDefinition(level, meta) ==
    Call([edit EXCEPT !.deleted_ss = @ \cup {<<level, meta.number>>},
                      !.deleted_ss_pers =
                          IF level # 0 THEN Append(@, <<level, meta>>) ELSE @])

SetComparatorName(name) ==
    Call([edit EXCEPT !.has_comparator = TRUE, !.comparator = name])

SetLastSequence(s) ==
    Call([edit EXCEPT !.has_last_sequence = TRUE, !.last_sequence = s])

SetNextSSTableNumber(n) ==
    Call([edit EXCEPT !.has_next_ss_number = TRUE, !.ss_number = n])

AddDeletedRange(first, last) ==
    Call([edit EXCEPT !.has_deleted_range = TRUE,
                      !.deleted_range = <<first, last>>])

AddCompactPointer(level, key) ==
    Call([edit EXCEPT !.compact_pointers = Append(@, <<level, key>>)])

AddFragmentedData(level, frag) ==
    Call([edit EXCEPT !.fragmented_data = Append(@, <<level, frag>>)])

(* The manifest round trip: EncodeTo the edit, then DecodeFrom the bytes   *)
(* into a freshly constructed edit, as recovery does.                      *)
EncodeDecode ==
    LET r == DecodeFrom(EncodeTo(edit), Cleared)
    IN /\ written' = edit
       /\ decoded' = r.e
       /\ dstatus' = r.status
       /\ UNCHANGED <<edit, ops>>

Next ==
    \/ Clear
    \/ \E level \in Levels, meta \in Metas :
          \/ AddSSDefinition(level, meta)
          \/ RemoveSSDefinition(level, meta)
    \/ \E name \in Names : SetComparatorName(name)
    \/ \E s \in Seqs : SetLastSequence(s) \/ SetNextSSTableNumber(s)
    \/ \E first, last \in Seqs : AddDeletedRange(first, last)
    \/ \E level \in Levels, key \in Keys : AddCompactPointer(level, key)
    \/ \E level \in Levels, frag \in Frags : AddFragmentedData(level, frag)
    \/ EncodeDecode

Spec == Init /\ [][Next]_vars

-----------------------------------------------------------------------------
(* The fields of a table entry the format carries at its level: an L0      *)
(* entry its LBA, an LN entry its regions.  The other location of a        *)
(* decoded entry is whatever DecodeFrom's reused m held before.            *)
CarriedMeta(level, m) ==
    IF level = 0 THEN [m EXCEPT !.regions = <<>>] ELSE [m EXCEPT !.lba = 0]

Carried(e) ==
    [e EXCEPT
        !.new_ss = [i \in DOMAIN @ |-> <<@[i][1], CarriedMeta(@[i][1], @[i][2])>>],
        !.deleted_ss_pers =
            [i \in DOMAIN @ |-> <<@[i][1], CarriedMeta(@[i][1], @[i][2])>>]]

(* Spec 4.3/8: decoding the encoding of any edit succeeds and gives back   *)
(* the same edit, every new, deleted and pointer entry included, for the   *)
(* edits AddSSDefinition, RemoveSSDefinition and the setters build.        *)
RoundTrip ==
    dstatus # "none" => /\ dstatus = "ok"
                        /\ Carried(decoded) = Carried(written)
====
