---------------------------- MODULE CommitCodec ----------------------------
(***************************************************************************)
(* The commit codec of TropoDB (TropoCommitter, tropodb_committer.cc):     *)
(* Commit frames a payload into fragments of at most one LBA, each with an *)
(* 8-byte header (crc, 24-bit length, type), and appends SpaceNeeded bytes *)
(* of them to a zone log; CommitToCharArray frames it into memory.         *)
(* SeekCommitReader (on the device, cursor in LBAs) and                    *)
(* SeekCommitReaderString (on a string, cursor in bytes) read the          *)
(* fragments back and reassemble the payloads.                             *)
(*                                                                         *)
(* A payload is the sequence of its bytes; byte j of the k-th commit is    *)
(* the token <<k, j>>, so that a byte lost, duplicated or moved is         *)
(* visible.  A fragment is one LBA of the log: its header fields and its   *)
(* body.  The CRC, crc32c over the type byte and the body, is modelled by  *)
(* what it does: it is the pair <<type, body>> it was computed from.       *)
(* Bytes past the body of an LBA are zero and play no part.                *)
(***************************************************************************)
EXTENDS Naturals, Sequences

CONSTANTS
    Lba,         \* lba_size_
    Header,      \* kTropoHeaderSize
    Lengths,     \* the payload lengths the callers commit
    MaxCommits   \* bound on the number of commits of a run

ASSUME CommitCodecAssumption ==
    /\ Header \in Nat \ {0}
    /\ Lba \in Nat /\ Lba > Header
    /\ Lengths \subseteq Nat \ {0} /\ Lengths # {}
    /\ MaxCommits \in Nat \ {0}

\* The payload bytes a fragment holds at most (avail in the encoder).
Avail == Lba - Header

Types == {"full", "first", "middle", "last", "invalid"}

Payload(k, n) == [j \in 1 .. n |-> <<k, j>>]

\* A payload byte destroyed on the medium.
Flipped == <<0, 0>>

(***************************************************************************)
(* SpaceNeeded (lines 50-55): data_size / lba_size_ + 1 headers, plus the  *)
(* data, rounded up to whole LBAs.                                         *)
(***************************************************************************)
\* Mutant: one header per full LBA of data, without the "+ 1" for the last.
SpaceNeededNoExtraHeader(n) ==
    LET fragcount == n \div Lba
        size_needed == fragcount * Header + n
    IN ((size_needed + Lba - 1) \div Lba) * Lba

SpaceNeeded(n) ==
    LET fragcount == n \div Lba + 1
        size_needed == fragcount * Header + n
    IN ((size_needed + Lba - 1) \div Lba) * Lba

\* A fragment as written: the header fields, the body and its CRC.
Fragment(type, body) ==
    [crc |-> <<type, body>>, len |-> Len(body), type |-> type, body |-> body]

(***************************************************************************)
(* The do-while loop of the encoder (lines 76-115 and 139-183): fragment i *)
(* takes min(left, avail) bytes; its type follows from whether it is the   *)
(* first (begin) and whether it takes what is left (end).  Each fragment   *)
(* but the last fills its LBA exactly (fragment_length + kTropoHeaderSize  *)
(* = lba_size_), so fragment i starts LBA i of the buffer.                 *)
(***************************************************************************)
NFrags(n) == IF n = 0 THEN 1 ELSE (n + Avail - 1) \div Avail

Encode(p) ==
    LET n == Len(p)
        F == NFrags(n)
    IN [i \in 1 .. F |->
          LET begin == i = 1
              end   == i = F
              type  == IF begin /\ end THEN "full"
                       ELSE IF begin THEN "first"
                       ELSE IF end THEN "last"
                       ELSE "middle"
              last  == IF end THEN n ELSE i * Avail
          IN Fragment(type, SubSeq(p, (i - 1) * Avail + 1, last))]

(***************************************************************************)
(* What reaches the log or the caller: the first SpaceNeeded bytes of the  *)
(* encoding.  Commit appends size_needed bytes of write_buffer_ (line      *)
(* 185); CommitToCharArray allocates size_needed bytes (line 73).          *)
(* Fragments the encoder puts past that are written out of bounds and      *)
(* never stored.                                                           *)
(***************************************************************************)
Stored(p) == SubSeq(Encode(p), 1, SpaceNeeded(Len(p)) \div Lba)

VARIABLES
    log,        \* the fragments stored, one per LBA, in append order
    committed,  \* the payloads committed so far
    corrupted,  \* whether a fragment's body was damaged on the medium
    mode,       \* the reader: "device" (GetCommitReader, SeekCommitReader)
                \* or "string" (GetCommitReaderString, SeekCommitReaderString)
    rpc,        \* "closed", "idle" (between two seeks) or "seeking"
    rptr,       \* reader.commit_ptr
    rend,       \* reader.commit_end
    scratch,    \* reader.scratch
    infrag,     \* in_fragmented_record
    out,        \* the records the reader returned, in order
    expect      \* the payloads committed when the reader was opened

vars == <<log, committed, corrupted, mode, rpc, rptr, rend, scratch, infrag,
          out, expect>>

Init ==
    /\ log = <<>>
    /\ committed = <<>>
    /\ corrupted = FALSE
    /\ mode = "device"
    /\ rpc = "closed"
    /\ rptr = 0
    /\ rend = 0
    /\ scratch = <<>>
    /\ infrag = FALSE
    /\ out = <<>>
    /\ expect = <<>>

(***************************************************************************)
(* Commit (lines 119-201), or CommitToCharArray (lines 65-117) with the    *)
(* caller appending the array to its string: frame the payload and store   *)
(* SpaceNeeded bytes of it.                                                *)
(***************************************************************************)
Commit(n) ==
    /\ Len(committed) < MaxCommits
    /\ LET p == Payload(Len(committed) + 1, n)
       IN /\ log' = log \o Stored(p)
          /\ committed' = Append(committed, p)
    /\ UNCHANGED <<corrupted, rpc, rptr, rend, scratch, infrag, out, expect, mode>>

\* One payload byte of one stored fragment is damaged (at most once a run).
Corrupt(i) ==
    /\ ~corrupted
    /\ log' = [log EXCEPT ![i].body = [@ EXCEPT ![1] = Flipped]]
    /\ corrupted' = TRUE
    /\ UNCHANGED <<committed, rpc, rptr, rend, scratch, infrag, out, expect, mode>>

(***************************************************************************)
(* GetCommitReader(begin, end) over the whole log (lines 211-229), or      *)
(* GetCommitReaderString over the whole string (lines 330-338): the        *)
(* cursor starts at 0; the device reader refuses an empty range.           *)
(***************************************************************************)
End(m) == IF m = "device" THEN Len(log) ELSE Len(log) * Lba

OpenReader(m) ==
    /\ rpc = "closed"
    /\ log # <<>>
    /\ mode' = m
    /\ rpc' = "idle"
    /\ rptr' = 0
    /\ rend' = End(m)
    /\ out' = <<>>
    /\ expect' = committed
    /\ UNCHANGED <<log, committed, corrupted, scratch, infrag>>

(***************************************************************************)
(* A seek, before its loop (lines 238-243 and 342-347): false when the     *)
(* cursor is at the end (the caller stops reading), else clear the         *)
(* scratch and start the loop.                                             *)
(***************************************************************************)
SeekBegin ==
    /\ rpc = "idle"
    /\ IF rptr >= rend
       THEN /\ rpc' = "closed"
            /\ UNCHANGED <<scratch, infrag>>
       ELSE /\ rpc' = "seeking"
            /\ scratch' = <<>>
            /\ infrag' = FALSE
    /\ UNCHANGED <<log, committed, corrupted, rptr, rend, out, expect, mode>>

\* The LBA of the log the cursor points at.
At(ptr) == IF mode = "device" THEN ptr + 1 ELSE ptr \div Lba + 1

\* to_read (lines 247-250 and 351-353): one LBA, or what is left of the range.
ToRead == IF mode = "device"
          THEN IF (rend - rptr) * Lba > Lba THEN Lba ELSE (rend - rptr) * Lba
          ELSE IF rend - rptr > Lba THEN Lba ELSE rend - rptr

\* The cursor step after a fragment of the given length.
\* Mutant: the device step counts the header and rounds up one LBA too far.
AdvanceDeviceWithHeader(len) == (len + Header + Lba) \div Lba

AdvanceDevice(len) == (len + Lba - 1) \div Lba

AdvanceString(len) == ((len + Header + Lba - 1) \div Lba) * Lba

Advance(len) == IF mode = "device" THEN AdvanceDevice(len) ELSE AdvanceString(len)

(***************************************************************************)
(* The type the reader acts on (lines 257-287 and 356-378): the header's   *)
(* type, or Invalid when header and length overrun what was read, or when  *)
(* the CRC over type and body does not match.                              *)
(***************************************************************************)
\* Mutant: the CRC is not checked.
ReadTypeNoCrc(f) ==
    IF Header + f.len > ToRead THEN "invalid" ELSE f.type

ReadType(f) ==
    IF Header + f.len > ToRead \/ f.crc # <<f.type, f.body>>
    THEN "invalid" ELSE f.type

\* A seek returns: true with a record, or false.
Return(ok, rec) ==
    /\ rpc' = IF ok THEN "idle" ELSE "closed"
    /\ out' = IF ok THEN Append(out, rec) ELSE out

(***************************************************************************)
(* One iteration of the loop of SeekCommitReader (lines 245-318) or       *)
(* SeekCommitReaderString (lines 349-410).  The loop ends, returning       *)
(* false, when the cursor leaves [commit_start, commit_end).               *)
(***************************************************************************)
SeekStep ==
    /\ rpc = "seeking"
    /\ IF rptr >= rend
       THEN /\ Return(FALSE, <<>>)
            /\ UNCHANGED <<rptr, scratch, infrag>>
       ELSE LET f == log[At(rptr)]
                t == ReadType(f)
            IN /\ rptr' = rptr + Advance(f.len)
               /\ CASE t = "full" ->
                         /\ scratch' = f.body
                         /\ Return(TRUE, f.body)
                         /\ UNCHANGED infrag
                    [] t = "first" ->
                         /\ scratch' = f.body
                         /\ infrag' = TRUE
                         /\ UNCHANGED <<rpc, out>>
                    [] t = "middle" ->
                         /\ scratch' = IF infrag THEN scratch \o f.body ELSE scratch
                         /\ UNCHANGED <<rpc, out, infrag>>
                    [] t = "last" ->
                         IF infrag
                         THEN /\ scratch' = scratch \o f.body
                              /\ Return(TRUE, scratch \o f.body)
                              /\ UNCHANGED infrag
                         ELSE UNCHANGED <<scratch, rpc, out, infrag>>
                    [] OTHER ->
                         /\ infrag' = FALSE
                         /\ scratch' = <<>>
                         /\ Return(FALSE, <<>>)
    /\ UNCHANGED <<log, committed, corrupted, rend, expect, mode>>

Next ==
    \/ \E n \in Lengths : Commit(n)
    \/ \E i \in 1 .. Len(log) : Corrupt(i)
    \/ \E m \in {"device", "string"} : OpenReader(m)
    \/ SeekBegin
    \/ SeekStep

Spec == Init /\ [][Next]_vars
-----------------------------------------------------------------------------
Tokens == (0 .. MaxCommits) \X (0 .. Lba * 8)

Fragments == [crc : Types \X Seq(Tokens), len : Nat, type : Types, body : Seq(Tokens)]

TypeOK ==
    /\ log \in Seq(Fragments)
    /\ committed \in Seq(Seq(Tokens))
    /\ corrupted \in BOOLEAN
    /\ mode \in {"device", "string"}
    /\ rpc \in {"closed", "idle", "seeking"}
    /\ rptr \in 0 .. rend
    /\ rend \in 0 .. End(mode)
    /\ scratch \in Seq(Tokens)
    /\ infrag \in BOOLEAN
    /\ out \in Seq(Seq(Tokens))
    /\ expect \in Seq(Seq(Tokens))

\* s is a prefix of t.
IsPrefixOf(s, t) == Len(s) <= Len(t) /\ \A i \in 1 .. Len(s) : s[i] = t[i]

(***************************************************************************)
(* A reader only returns what was committed, in commit order, each record  *)
(* whole: no fragment of another record, no damaged body (the CRC check),  *)
(* no record skipped.  Damage may end the reading early, never change it.  *)
(***************************************************************************)
ReadsCommitted == IsPrefixOf(out, expect)

(***************************************************************************)
(* On an undamaged log, a reader that reports the end has returned every   *)
(* payload committed before it was opened (spec: commit(p) then reading    *)
(* yields exactly [p]; two commits yield [p1, p2]).                        *)
(***************************************************************************)
AllRead == (rpc = "closed" /\ ~corrupted) => out = expect
=============================================================================
