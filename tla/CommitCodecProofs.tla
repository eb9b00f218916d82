-------------------------- MODULE CommitCodecProofs --------------------------
(***************************************************************************)
(* Proofs that the commit reader returns what was committed, in order and  *)
(* whole (ReadsCommitted), and everything of an undamaged log (AllRead),   *)
(* for every LBA size, header size, set of payload lengths and number of   *)
(* commits for which the space Commit reserves holds every fragment the    *)
(* encoder makes (CommitFits).                                             *)
(*                                                                         *)
(* The inductive invariant lays the log out as the encodings of the        *)
(* committed payloads one after the other: st[k] is the LBA at which the   *)
(* k-th commit starts.  An open reader is at the start of the record after *)
(* the ones it returned, or j fragments into it with those j fragments'    *)
(* bodies in its scratch; its range ends where the commits it was opened   *)
(* on end.                                                                 *)
(***************************************************************************)
EXTENDS CommitCodec, SequenceTheorems, TLAPS

(***************************************************************************)
(* SpaceNeeded reserves an LBA for every fragment Encode makes: a header   *)
(* per fragment fits in what it adds for the headers.  The run             *)
(* commit_long_payload shows a length outside it.                          *)
(***************************************************************************)
CommitFits == \A n \in Lengths : SpaceNeeded(n) = NFrags(n) * Lba

\* The hypotheses of the lemmas below.
Hyp == CommitCodecAssumption /\ CommitFits

\* The cursor's unit: one per LBA on the device, Lba bytes per LBA in a string.
Unit == IF mode = "device" THEN 1 ELSE Lba

\* The number of fragments, and LBAs, a payload takes.
FragsOf(p) == NFrags(Len(p))

\* A fragment with its first payload byte destroyed by Corrupt.
Damage(g) == [g EXCEPT !.body = [@ EXCEPT ![1] = Flipped]]

\* A payload byte: the commit and its position (TypeOK bounds them for TLC).
Tok == Nat \X Nat

Frag == [crc : Types \X Seq(Tok), len : Nat, type : Types, body : Seq(Tok)]

Typing ==
    /\ log \in Seq(Frag)
    /\ committed \in Seq(Seq(Tok))
    /\ corrupted \in BOOLEAN
    /\ mode \in {"device", "string"}
    /\ rpc \in {"closed", "idle", "seeking"}
    /\ rptr \in Nat /\ rend \in Nat
    /\ scratch \in Seq(Tok)
    /\ infrag \in BOOLEAN
    /\ out \in Seq(Seq(Tok))
    /\ expect \in Seq(Seq(Tok))

\* The k-th commit is the payload Payload(k, n) of a length the callers use.
CommittedPayloads ==
    \A k \in 1 .. Len(committed) : \E n \in Lengths : committed[k] = Payload(k, n)

(***************************************************************************)
(* The log is the encodings of the commits one after the other, the k-th   *)
(* from LBA st[k] + 1 on; once the log was damaged, a fragment may be the  *)
(* encoder's with its first byte destroyed.                                *)
(***************************************************************************)
Layout(st) ==
    /\ st[1] = 0
    /\ \A k \in 1 .. Len(committed) : st[k + 1] = st[k] + FragsOf(committed[k])
    /\ st[Len(committed) + 1] = Len(log)
    /\ \A a, b \in 1 .. Len(committed) + 1 : a < b => st[a] < st[b]
    /\ \A k \in 1 .. Len(committed) : \A i \in 1 .. FragsOf(committed[k]) :
          \/ log[st[k] + i] = Encode(committed[k])[i]
          \/ corrupted /\ log[st[k] + i] = Damage(Encode(committed[k])[i])

(***************************************************************************)
(* An open reader: opened on the first Len(expect) commits, its range ends *)
(* where they end, it has returned the first Len(out) of them, and it is   *)
(* at the start of the next one, or seeking j fragments into it.           *)
(***************************************************************************)
ReaderAt(st) ==
    rpc # "closed" =>
        /\ IsPrefixOf(expect, committed)
        /\ rend = Unit * st[Len(expect) + 1]
        /\ Len(out) <= Len(expect)
        /\ rpc = "idle" => rptr = Unit * st[Len(out) + 1]
        /\ rpc = "seeking" =>
              /\ Len(out) < Len(expect)
              /\ \E j \in 0 .. FragsOf(expect[Len(out) + 1]) - 1 :
                    /\ rptr = Unit * (st[Len(out) + 1] + j)
                    /\ infrag = (j > 0)
                    /\ scratch = SubSeq(expect[Len(out) + 1], 1, j * Avail)

IInv ==
    /\ Typing
    /\ CommittedPayloads
    /\ \E st \in [1 .. Len(committed) + 1 -> 0 .. Len(log)] :
          Layout(st) /\ ReaderAt(st)
    /\ ReadsCommitted
    /\ AllRead

-----------------------------------------------------------------------------
\* Quotient and remainder of a natural by a positive divisor.
LEMMA DivBounds ==
    ASSUME NEW x \in Nat, NEW d \in Nat \ {0}
    PROVE  /\ x \div d \in Nat
           /\ (x \div d) * d <= x
           /\ x < (x \div d) * d + d
BY SMT

\* A multiple of d divided by d.
LEMMA DivMultiple ==
    ASSUME NEW x \in Nat, NEW d \in Nat \ {0}
    PROVE  (d * x) \div d = x
BY SMT

\* A product of naturals.
LEMMA MulNat ==
    ASSUME NEW x \in Nat, NEW y \in Nat
    PROVE  x * y \in Nat
BY SMT

\* One more multiple of d.
LEMMA MulSucc ==
    ASSUME NEW x \in Nat, NEW d \in Nat
    PROVE  d * x + d = d * (x + 1)
BY SMT

\* A positive factor keeps the order of naturals.
LEMMA MulLess ==
    ASSUME NEW x \in Nat, NEW y \in Nat, NEW d \in Nat \ {0}, x < y
    PROVE  d * x < d * y /\ d * x + d <= d * y
BY SMT

\* The payload room of a fragment, Avail, is positive and smaller than a block.
LEMMA AvailPositive ==
    ASSUME CommitCodecAssumption
    PROVE  Avail \in Nat \ {0} /\ Avail < Lba /\ Lba \in Nat \ {0}
BY DEF CommitCodecAssumption, Avail

\* NFrags(n) is the least number of fragments of Avail bytes that hold n bytes.
LEMMA NFragsBounds ==
    ASSUME CommitCodecAssumption, NEW n \in Nat \ {0}
    PROVE  /\ NFrags(n) \in Nat \ {0}
           /\ (NFrags(n) - 1) * Avail < n
           /\ n <= NFrags(n) * Avail
<1>1. Avail \in Nat \ {0}
  BY AvailPositive
<1>2. NFrags(n) = (n + Avail - 1) \div Avail
  BY DEF NFrags
<1>3. /\ (n + Avail - 1) \div Avail \in Nat
      /\ ((n + Avail - 1) \div Avail) * Avail <= n + Avail - 1
      /\ n + Avail - 1 < ((n + Avail - 1) \div Avail) * Avail + Avail
  BY <1>1, DivBounds
<1>4. QED
  BY <1>1, <1>2, <1>3

\* The last payload byte fragment i of an n-byte payload takes.
Hi(n, i) == IF i = NFrags(n) THEN n ELSE i * Avail

\* Fragment i of the encoding takes bytes (i-1)*Avail+1 .. Hi(n, i), at least one.
LEMMA FragRange ==
    ASSUME CommitCodecAssumption, NEW n \in Nat \ {0}, NEW i \in 1 .. NFrags(n)
    PROVE  /\ (i - 1) * Avail < Hi(n, i)
           /\ Hi(n, i) <= n
           /\ Hi(n, i) - (i - 1) * Avail <= Avail
           /\ i < NFrags(n) => Hi(n, i) = i * Avail
<1>1. Avail \in Nat \ {0} /\ NFrags(n) \in Nat \ {0}
      /\ (NFrags(n) - 1) * Avail < n /\ n <= NFrags(n) * Avail
  BY AvailPositive, NFragsBounds
<1>2. CASE i = NFrags(n)
  BY <1>1, <1>2 DEF Hi
<1>3. CASE i < NFrags(n)
  <2>1. i * Avail <= (NFrags(n) - 1) * Avail
    BY <1>1, <1>3
  <2>2. QED
    BY <1>1, <1>3, <2>1 DEF Hi
<1>4. QED
  BY <1>1, <1>2, <1>3

\* The header fields of a fragment.
LEMMA FragmentFields ==
    ASSUME NEW t, NEW b
    PROVE  /\ Fragment(t, b).body = b /\ Fragment(t, b).type = t
           /\ Fragment(t, b).crc = <<t, b>> /\ Fragment(t, b).len = Len(b)
BY DEF Fragment

\* The payload bytes of fragment i of p.
Body(p, i) == SubSeq(p, (i - 1) * Avail + 1, Hi(Len(p), i))

\* What the encoder puts in fragment i of payload p.
LEMMA EncodeFrag ==
    ASSUME CommitCodecAssumption, NEW p \in Seq(Tok), Len(p) # 0,
           NEW i \in 1 .. NFrags(Len(p))
    PROVE  /\ Len(Encode(p)) = NFrags(Len(p))
           /\ Encode(p)[i].body = Body(p, i)
           /\ Encode(p)[i].len = Hi(Len(p), i) - (i - 1) * Avail
           /\ Encode(p)[i].len \in 1 .. Avail
           /\ Encode(p)[i].crc = <<Encode(p)[i].type, Encode(p)[i].body>>
           /\ Encode(p)[i].type =
                 IF i = 1 THEN IF i = NFrags(Len(p)) THEN "full" ELSE "first"
                 ELSE IF i = NFrags(Len(p)) THEN "last" ELSE "middle"
           /\ Body(p, i) \in Seq(Tok)
           /\ Encode(p)[i] \in Frag
<1> DEFINE n == Len(p)
           lo == (i - 1) * Avail + 1
           ty == IF i = 1 THEN IF i = NFrags(n) THEN "full" ELSE "first"
                 ELSE IF i = NFrags(n) THEN "last" ELSE "middle"
<1>1. n \in Nat \ {0} /\ NFrags(n) \in Nat \ {0} /\ Avail \in Nat \ {0}
  BY NFragsBounds, AvailPositive
<1>2. lo - 1 < Hi(n, i) /\ Hi(n, i) <= n /\ Hi(n, i) - (lo - 1) <= Avail
  BY <1>1, FragRange
<1>3. lo \in 1 .. n /\ Hi(n, i) \in lo .. n
  <2>1. (i - 1) * Avail \in Nat
    BY <1>1
  <2>2. QED
    BY <1>1, <1>2, <2>1 DEF Hi
<1>4. Len(Encode(p)) = NFrags(n) /\ Encode(p)[i] = Fragment(ty, Body(p, i))
  BY <1>1 DEF Encode, Hi, Body
<1>5. Body(p, i) \in Seq(Tok) /\ Len(Body(p, i)) = Hi(n, i) - (lo - 1)
  BY <1>1, <1>3, SubSeqProperties DEF Body
<1>6. Len(Body(p, i)) \in 1 .. Avail
  BY <1>1, <1>2, <1>3, <1>5
<1>7. /\ Encode(p)[i].body = Body(p, i) /\ Encode(p)[i].type = ty
      /\ Encode(p)[i].crc = <<ty, Body(p, i)>> /\ Encode(p)[i].len = Len(Body(p, i))
  BY <1>4, FragmentFields
<1>8. Encode(p)[i].len = Hi(Len(p), i) - (i - 1) * Avail
  BY <1>1, <1>3, <1>5, <1>7
<1>9. Encode(p)[i].crc = <<Encode(p)[i].type, Encode(p)[i].body>>
  BY <1>7
<1>10. Encode(p)[i].len \in 1 .. Avail
  BY <1>6, <1>7
<1>11. Fragment(ty, Body(p, i)) \in Frag
  BY <1>5, <1>6 DEF Fragment, Frag, Types
<1>12. QED
  BY <1>4, <1>5, <1>7, <1>8, <1>9, <1>10, <1>11

\* The encoding of a payload is a sequence of fragments.
LEMMA EncodeIsSeq ==
    ASSUME CommitCodecAssumption, NEW p \in Seq(Tok), Len(p) # 0
    PROVE  Encode(p) \in Seq(Frag)
<1>1. NFrags(Len(p)) \in Nat \ {0}
  BY NFragsBounds
<1>2. \A i \in 1 .. NFrags(Len(p)) : Encode(p)[i] \in Frag
  BY EncodeFrag
<1>3. Encode(p) = [i \in 1 .. NFrags(Len(p)) |-> Encode(p)[i]]
  BY DEF Encode
<1>4. QED
  BY <1>1, <1>2, <1>3

\* The k-th commit of an n-byte payload is a sequence of n bytes.
LEMMA PayloadIsSeq ==
    ASSUME NEW k \in Nat, NEW n \in Nat
    PROVE  Payload(k, n) \in Seq(Tok) /\ Len(Payload(k, n)) = n
BY DEF Payload, Tok

(***************************************************************************)
(* Where the reservation fits, Commit stores the whole encoding: the       *)
(* SpaceNeeded(n) bytes it appends are the NFrags(n) fragments.            *)
(***************************************************************************)
LEMMA StoredIsEncode ==
    ASSUME CommitCodecAssumption, CommitFits,
           NEW p \in Seq(Tok), Len(p) \in Lengths
    PROVE  Stored(p) = Encode(p)
<1>1. Len(p) \in Nat \ {0} /\ NFrags(Len(p)) \in Nat \ {0} /\ Lba \in Nat \ {0}
  BY NFragsBounds, AvailPositive DEF CommitCodecAssumption
<1>2. SpaceNeeded(Len(p)) \div Lba = NFrags(Len(p))
  <2>1. SpaceNeeded(Len(p)) = Lba * NFrags(Len(p))
    BY <1>1 DEF CommitFits
  <2>2. QED
    BY <1>1, <2>1, DivMultiple
<1>3. Encode(p) \in Seq(Frag) /\ Len(Encode(p)) = NFrags(Len(p))
  BY <1>1, EncodeIsSeq, EncodeFrag
<1>4. QED
  BY <1>2, <1>3, SubSeqFull DEF Stored

(***************************************************************************)
(* The bytes before fragment i and the body of fragment i are the bytes up *)
(* to Hi: the reader's scratch grows by one fragment at a time.            *)
(***************************************************************************)
LEMMA Reassemble ==
    ASSUME CommitCodecAssumption, NEW p \in Seq(Tok), Len(p) # 0,
           NEW i \in 1 .. NFrags(Len(p))
    PROVE  SubSeq(p, 1, (i - 1) * Avail) \o Body(p, i) = SubSeq(p, 1, Hi(Len(p), i))
<1>1. Len(p) \in Nat \ {0} /\ NFrags(Len(p)) \in Nat \ {0} /\ Avail \in Nat \ {0}
  BY NFragsBounds, AvailPositive
<1>2. (i - 1) * Avail < Hi(Len(p), i) /\ Hi(Len(p), i) <= Len(p)
  BY <1>1, FragRange
<1>3. (i - 1) * Avail \in 0 .. Len(p) /\ Hi(Len(p), i) \in (i - 1) * Avail .. Len(p)
  BY <1>1, <1>2 DEF Hi
<1>4. QED
  BY <1>1, <1>3, ConcatAdjacentSubSeq DEF Body
-----------------------------------------------------------------------------
\* What is known of the k-th commit: Payload(k, n) for a length n of Lengths.
LEMMA CommittedFacts ==
    ASSUME CommitCodecAssumption, CommittedPayloads, committed \in Seq(Seq(Tok)),
           NEW k \in 1 .. Len(committed)
    PROVE  /\ committed[k] \in Seq(Tok)
           /\ Len(committed[k]) \in Lengths
           /\ Len(committed[k]) \in Nat \ {0}
           /\ FragsOf(committed[k]) \in Nat \ {0}
           /\ \A j \in 1 .. Len(committed[k]) : committed[k][j] = <<k, j>>
<1>1. PICK n \in Lengths : committed[k] = Payload(k, n)
  BY DEF CommittedPayloads
<1>2. n \in Nat \ {0}
  BY DEF CommitCodecAssumption
<1>3. Len(committed[k]) = n
  BY <1>1, <1>2, PayloadIsSeq
<1>4. NFrags(n) \in Nat \ {0}
  BY <1>2, NFragsBounds
<1>5. committed[k] \in Seq(Tok)
  BY ElementOfSeq
<1>6. FragsOf(committed[k]) = NFrags(n)
  BY <1>3 DEF FragsOf
<1>7. \A j \in 1 .. n : committed[k][j] = <<k, j>>
  BY <1>1 DEF Payload
<1>8. QED
  BY <1>1, <1>2, <1>3, <1>4, <1>5, <1>6, <1>7

\* The fragments of the k-th commit lie inside the log.
LEMMA InLog ==
    ASSUME CommitCodecAssumption, CommittedPayloads, committed \in Seq(Seq(Tok)),
           log \in Seq(Frag),
           NEW st \in [1 .. Len(committed) + 1 -> 0 .. Len(log)], Layout(st),
           NEW k \in 1 .. Len(committed), NEW i \in 1 .. FragsOf(committed[k])
    PROVE  /\ st[k] + i \in 1 .. st[k + 1]
           /\ st[k + 1] <= Len(log)
           /\ st[k] + i \in 1 .. Len(log)
<1>1. FragsOf(committed[k]) \in Nat \ {0}
  BY CommittedFacts
<1>2. st[k + 1] = st[k] + FragsOf(committed[k])
  BY DEF Layout
<1>3. st[k + 1] <= st[Len(committed) + 1] /\ st[Len(committed) + 1] = Len(log)
  <2>1. Len(committed) \in Nat
    OBVIOUS
  <2>2. CASE k + 1 < Len(committed) + 1
    <3>1. \A a, b \in 1 .. Len(committed) + 1 : a < b => st[a] < st[b]
      BY DEF Layout
    <3>2. k + 1 \in 1 .. Len(committed) + 1 /\ Len(committed) + 1 \in 1 .. Len(committed) + 1
      BY <2>1
    <3>3. st[k + 1] < st[Len(committed) + 1]
      BY <2>2, <3>1, <3>2
    <3>4. QED
      BY <3>3 DEF Layout
  <2>3. CASE k + 1 = Len(committed) + 1
    BY <2>3 DEF Layout
  <2>4. QED
    BY <2>1, <2>2, <2>3
<1>4. st[k] \in Nat /\ st[k + 1] \in Nat
  <2>1. \A x \in 1 .. Len(committed) + 1 : st[x] \in 0 .. Len(log)
    OBVIOUS
  <2>2. k + 1 \in 1 .. Len(committed) + 1
    OBVIOUS
  <2>3. QED
    BY <2>1, <2>2
<1>5. QED
  BY <1>1, <1>2, <1>3, <1>4

\* The inductive invariant holds in the initial state: an empty log and a reader at block 0.
LEMMA InitIInv ==
    ASSUME CommitCodecAssumption, Init
    PROVE  IInv
<1>1. Typing
  BY EmptySeq DEF Init, Typing
<1>2. CommittedPayloads /\ ReadsCommitted /\ AllRead
  BY DEF Init, CommittedPayloads, ReadsCommitted, AllRead, IsPrefixOf
<1>3. LET st == [k \in 1 .. 1 |-> 0] IN
        /\ st \in [1 .. Len(committed) + 1 -> 0 .. Len(log)]
        /\ Layout(st) /\ ReaderAt(st)
  BY DEF Init, Layout, ReaderAt
<1>4. QED
  BY <1>1, <1>2, <1>3 DEF IInv

(***************************************************************************)
(* Commit appends the encoding of the next payload: the layout grows by    *)
(* one commit, and an open reader, whose range ends before it, is not      *)
(* affected.                                                               *)
(***************************************************************************)
LEMMA CommitIInv ==
    ASSUME CommitCodecAssumption, CommitFits, IInv, NEW n \in Lengths, Commit(n)
    PROVE  IInv'
<1> DEFINE L == Len(committed)
           p == Payload(L + 1, n)
           st2(st) == [k \in 1 .. L + 2 |-> IF k <= L + 1 THEN st[k] ELSE Len(log) + NFrags(n)]
<1>1. Typing /\ CommittedPayloads
  BY DEF IInv
<1>2. PICK st \in [1 .. L + 1 -> 0 .. Len(log)] : Layout(st) /\ ReaderAt(st)
  BY DEF IInv
<1>3. /\ L \in Nat /\ Len(log) \in Nat /\ n \in Nat \ {0} /\ NFrags(n) \in Nat \ {0}
      /\ p \in Seq(Tok) /\ Len(p) = n
  <2>1. L \in Nat /\ Len(log) \in Nat
    BY <1>1 DEF Typing
  <2>2. n \in Nat \ {0}
    BY DEF CommitCodecAssumption
  <2>3. NFrags(n) \in Nat \ {0}
    BY <2>2, NFragsBounds
  <2>4. p \in Seq(Tok) /\ Len(p) = n
    BY <2>1, <2>2, PayloadIsSeq
  <2>5. QED
    BY <2>1, <2>2, <2>3, <2>4
<1>4. Encode(p) \in Seq(Frag) /\ Len(Encode(p)) = NFrags(n) /\ Stored(p) = Encode(p)
  BY <1>3, EncodeIsSeq, EncodeFrag, StoredIsEncode
<1>5. /\ log' = log \o Encode(p) /\ committed' = Append(committed, p)
      /\ UNCHANGED <<corrupted, rpc, rptr, rend, scratch, infrag, out, expect, mode>>
  BY <1>4 DEF Commit
<1>6. /\ log' \in Seq(Frag) /\ Len(log') = Len(log) + NFrags(n)
      /\ \A x \in 1 .. Len(log) : log'[x] = log[x]
      /\ \A i \in 1 .. NFrags(n) : log'[Len(log) + i] = Encode(p)[i]
  <2>1. log \in Seq(Frag)
    BY <1>1 DEF Typing
  <2>2. /\ log \o Encode(p) \in Seq(Frag)
        /\ Len(log \o Encode(p)) = Len(log) + Len(Encode(p))
        /\ \A x \in 1 .. Len(log) + Len(Encode(p)) :
              (log \o Encode(p))[x] = IF x <= Len(log) THEN log[x] ELSE Encode(p)[x - Len(log)]
    BY <2>1, <1>4, ConcatProperties
  <2>3. \A i \in 1 .. NFrags(n) : /\ Len(log) + i \in 1 .. Len(log) + Len(Encode(p))
                                 /\ ~(Len(log) + i <= Len(log))
                                 /\ (Len(log) + i) - Len(log) = i
    BY <1>3, <1>4
  <2>4. \A i \in 1 .. NFrags(n) : (log \o Encode(p))[Len(log) + i] = Encode(p)[i]
    BY <2>2, <2>3
  <2>5. \A x \in 1 .. Len(log) : x \in 1 .. Len(log) + Len(Encode(p)) /\ x <= Len(log)
    BY <1>3, <1>4
  <2>6. \A x \in 1 .. Len(log) : (log \o Encode(p))[x] = log[x]
    BY <2>2, <2>5
  <2>7. QED
    BY <1>4, <1>5, <2>2, <2>4, <2>6
<1>7. /\ committed' \in Seq(Seq(Tok)) /\ Len(committed') = L + 1
      /\ \A k \in 1 .. L : committed'[k] = committed[k]
      /\ committed'[L + 1] = p
  BY <1>1, <1>3, <1>5, AppendProperties DEF Typing
<1>8. Typing'
  BY <1>1, <1>5, <1>6, <1>7 DEF Typing
<1>9. CommittedPayloads'
  <2>1. SUFFICES ASSUME NEW k \in 1 .. L + 1
                 PROVE  \E m \in Lengths : committed'[k] = Payload(k, m)
    BY <1>7 DEF CommittedPayloads
  <2>2. CASE k <= L
    <3>1. k \in 1 .. L
      BY <1>3, <2>2
    <3>2. \E m \in Lengths : committed[k] = Payload(k, m)
      BY <1>1, <3>1 DEF CommittedPayloads
    <3>3. QED
      BY <1>7, <3>1, <3>2
  <2>3. CASE k = L + 1
    BY <1>7, <2>3
  <2>4. QED
    BY <1>3, <2>2, <2>3
<1>11. \A x \in 1 .. L + 1 : st[x] \in 0 .. Len(log)
  OBVIOUS
<1>10. PICK s2 \in [1 .. L + 2 -> 0 .. Len(log) + NFrags(n)] :
          /\ \A x \in 1 .. L + 1 : s2[x] = st[x]
          /\ s2[L + 2] = Len(log) + NFrags(n)
  <2>1. st2(st) \in [1 .. L + 2 -> 0 .. Len(log) + NFrags(n)]
    BY <1>3, <1>11
  <2>2. \A x \in 1 .. L + 1 : st2(st)[x] = st[x]
    BY <1>3
  <2>3. st2(st)[L + 2] = Len(log) + NFrags(n)
    BY <1>3
  <2>4. QED
    BY <2>1, <2>2, <2>3
<1>12. st[L + 1] = Len(log) /\ st[1] = 0
  BY <1>2 DEF Layout
<1>13. \A a \in 1 .. L + 1 : st[a] <= Len(log)
  BY <1>3, <1>11
<1>14. s2 \in [1 .. Len(committed') + 1 -> 0 .. Len(log')]
  BY <1>3, <1>6, <1>7, <1>10
<1>15. Layout(s2)'
  <2>1. \A k \in 1 .. L + 1 : s2[k + 1] = s2[k] + FragsOf(committed'[k])
    <3>1. \A k \in 1 .. L : st[k + 1] = st[k] + FragsOf(committed[k])
      BY <1>2 DEF Layout
    <3>2. FragsOf(p) = NFrags(n)
      BY <1>3 DEF FragsOf
    <3>3. SUFFICES ASSUME NEW k \in 1 .. L + 1
                   PROVE  s2[k + 1] = s2[k] + FragsOf(committed'[k])
      OBVIOUS
    <3>4. CASE k <= L
      <4>1. k \in 1 .. L /\ k + 1 \in 1 .. L + 1
        BY <1>3, <3>4
      <4>2. s2[k + 1] = st[k + 1] /\ s2[k] = st[k]
        BY <1>10, <4>1
      <4>3. QED
        BY <1>7, <3>1, <4>1, <4>2
    <3>5. CASE k = L + 1
      <4>1. s2[k + 1] = Len(log) + NFrags(n)
        BY <1>10, <3>5
      <4>2. s2[k] = Len(log)
        BY <1>10, <1>12, <3>5
      <4>3. QED
        BY <1>7, <3>2, <3>5, <4>1, <4>2
    <3>6. QED
      BY <1>3, <3>4, <3>5
  <2>2. \A a, b \in 1 .. L + 2 : a < b => s2[a] < s2[b]
    <3>1. \A a, b \in 1 .. L + 1 : a < b => st[a] < st[b]
      BY <1>2 DEF Layout
    <3>2. QED
      BY <1>3, <1>10, <1>13, <3>1
  <2>3. \A k \in 1 .. L + 1 : \A i \in 1 .. FragsOf(committed'[k]) :
           \/ log'[s2[k] + i] = Encode(committed'[k])[i]
           \/ corrupted' /\ log'[s2[k] + i] = Damage(Encode(committed'[k])[i])
    <3>1. SUFFICES ASSUME NEW k \in 1 .. L + 1, NEW i \in 1 .. FragsOf(committed'[k])
                   PROVE  \/ log'[s2[k] + i] = Encode(committed'[k])[i]
                          \/ corrupted' /\ log'[s2[k] + i] = Damage(Encode(committed'[k])[i])
      OBVIOUS
    <3>2. CASE k <= L
      <4>1. k \in 1 .. L
        BY <3>2
      <4>2. st[k] + i \in 1 .. Len(log) /\ committed'[k] = committed[k]
        BY <1>1, <1>2, <1>7, <4>1, InLog DEF Typing
      <4>3. \/ log[st[k] + i] = Encode(committed[k])[i]
            \/ corrupted /\ log[st[k] + i] = Damage(Encode(committed[k])[i])
        BY <1>2, <4>1, <4>2 DEF Layout
      <4>4. QED
        BY <1>5, <1>6, <1>10, <4>1, <4>2, <4>3
    <3>3. CASE k = L + 1
      <4>1. committed'[k] = p /\ s2[k] = Len(log) /\ i \in 1 .. NFrags(n)
        BY <1>3, <1>7, <1>10, <1>12, <3>3 DEF FragsOf
      <4>2. QED
        BY <1>6, <4>1
    <3>4. QED
      BY <1>3, <3>2, <3>3
  <2>4. s2[1] = 0 /\ s2[L + 2] = Len(log')
    BY <1>3, <1>6, <1>10, <1>12
  <2>7. s2 \in [1 .. L + 2 -> Nat]
    BY <1>3, <1>10
  <2>5. Len(committed') = L + 1
    BY <1>7
  <2>6. QED
    BY <2>1, <2>2, <2>3, <2>4, <2>5, <2>7 DEF Layout
<1>16. ReaderAt(s2)'
  <2>1. CASE rpc = "closed"
    BY <1>5, <2>1 DEF ReaderAt
  <2>2. CASE rpc # "closed"
    <3>1. IsPrefixOf(expect, committed) /\ Len(out) <= Len(expect)
      BY <1>2, <2>2 DEF ReaderAt
    <3>2. Len(expect) <= L /\ Len(out) \in Nat /\ Len(expect) \in Nat
      BY <1>1, <3>1 DEF IsPrefixOf, Typing
    <3>3. IsPrefixOf(expect, committed')
      BY <1>7, <3>1, <3>2 DEF IsPrefixOf
    <3>4. s2[Len(expect) + 1] = st[Len(expect) + 1]
          /\ s2[Len(out) + 1] = st[Len(out) + 1]
      BY <1>10, <3>1, <3>2
    <3>5. rend = Unit * st[Len(expect) + 1]
      BY <1>2, <2>2 DEF ReaderAt
    <3>6. rpc = "idle" => rptr = Unit * st[Len(out) + 1]
      BY <1>2, <2>2 DEF ReaderAt
    <3>7. rpc = "seeking" =>
              /\ Len(out) < Len(expect)
              /\ \E j \in 0 .. FragsOf(expect[Len(out) + 1]) - 1 :
                    /\ rptr = Unit * (st[Len(out) + 1] + j)
                    /\ infrag = (j > 0)
                    /\ scratch = SubSeq(expect[Len(out) + 1], 1, j * Avail)
      BY <1>2, <2>2 DEF ReaderAt
    <3>8. Unit' = Unit
      BY <1>5 DEF Unit
    <3>9. QED
      BY <1>5, <2>2, <3>1, <3>3, <3>4, <3>5, <3>6, <3>7, <3>8 DEF ReaderAt
  <2>3. QED
    BY <2>1, <2>2
<1>17. ReadsCommitted' /\ AllRead'
  BY <1>1, <1>5, <1>2 DEF IInv, ReadsCommitted, AllRead
<1>18. \E z \in [1 .. Len(committed') + 1 -> 0 .. Len(log')] : Layout(z)' /\ ReaderAt(z)'
  BY <1>14, <1>15, <1>16
<1>19. QED
  BY <1>8, <1>9, <1>17, <1>18 DEF IInv

(***************************************************************************)
(* Corrupt damages a fragment of an undamaged log: that fragment becomes   *)
(* the damaged form of the encoder's, the others stay as they were.        *)
(***************************************************************************)
LEMMA CorruptIInv ==
    ASSUME CommitCodecAssumption, IInv, NEW i \in 1 .. Len(log), Corrupt(i)
    PROVE  IInv'
<1>1. Typing /\ CommittedPayloads
  BY DEF IInv
<1>2. PICK st \in [1 .. Len(committed) + 1 -> 0 .. Len(log)] : Layout(st) /\ ReaderAt(st)
  BY DEF IInv
<1>3. /\ log' = [log EXCEPT ![i] = Damage(log[i])]
      /\ corrupted' = TRUE /\ ~corrupted
      /\ UNCHANGED <<committed, rpc, rptr, rend, scratch, infrag, out, expect, mode>>
  BY DEF Corrupt, Damage
<1>4. log[i] \in Frag
  BY <1>1 DEF Typing
<1>5. Damage(log[i]) \in Frag
  <2>1. \A b \in Seq(Tok) : [b EXCEPT ![1] = Flipped] \in Seq(Tok)
    <3>1. Flipped \in Tok
      BY DEF Flipped, Tok
    <3>2. SUFFICES ASSUME NEW b \in Seq(Tok) PROVE [b EXCEPT ![1] = Flipped] \in Seq(Tok)
      OBVIOUS
    <3>3. CASE 1 \in 1 .. Len(b)
      BY <3>1, <3>3, ExceptSeq
    <3>4. CASE Len(b) = 0
      <4>1. b = <<>>
        BY <3>4, EmptySeq
      <4>2. [b EXCEPT ![1] = Flipped] = b
        BY <4>1
      <4>3. QED
        BY <4>2
    <3>5. QED
      BY <3>3, <3>4, LenProperties
  <2>2. QED
    BY <1>4, <2>1 DEF Damage, Frag
<1>6. /\ log' \in Seq(Frag) /\ Len(log') = Len(log)
      /\ \A x \in 1 .. Len(log) : x # i => log'[x] = log[x]
      /\ log'[i] = Damage(log[i])
  BY <1>1, <1>3, <1>5 DEF Typing
<1>7. Typing'
  BY <1>1, <1>3, <1>6 DEF Typing
<1>8. CommittedPayloads'
  BY <1>1, <1>3 DEF CommittedPayloads
<1>9. st \in [1 .. Len(committed') + 1 -> 0 .. Len(log')]
  BY <1>3, <1>6
<1>10. Layout(st)'
  <2>1. \A k \in 1 .. Len(committed) : \A j \in 1 .. FragsOf(committed[k]) :
           \/ log'[st[k] + j] = Encode(committed[k])[j]
           \/ corrupted' /\ log'[st[k] + j] = Damage(Encode(committed[k])[j])
    <3>1. SUFFICES ASSUME NEW k \in 1 .. Len(committed), NEW j \in 1 .. FragsOf(committed[k])
                   PROVE  \/ log'[st[k] + j] = Encode(committed[k])[j]
                          \/ corrupted' /\ log'[st[k] + j] = Damage(Encode(committed[k])[j])
      OBVIOUS
    <3>2. st[k] + j \in 1 .. Len(log)
      BY <1>1, <1>2, InLog DEF Typing
    <3>3. log[st[k] + j] = Encode(committed[k])[j]
      BY <1>2, <1>3 DEF Layout
    <3>4. CASE st[k] + j = i
      BY <1>3, <1>6, <3>3, <3>4
    <3>5. CASE st[k] + j # i
      BY <1>6, <3>2, <3>3, <3>5
    <3>6. QED
      BY <3>4, <3>5
  <2>2. QED
    BY <1>2, <1>3, <1>6, <2>1 DEF Layout
<1>11. ReaderAt(st)'
  BY <1>2, <1>3 DEF ReaderAt, Unit
<1>12. ReadsCommitted' /\ AllRead'
  BY <1>3 DEF IInv, ReadsCommitted, AllRead
<1>13. QED
  BY <1>7, <1>8, <1>9, <1>10, <1>11, <1>12 DEF IInv

(***************************************************************************)
(* OpenReader starts at LBA 0 with its range ending at the end of the log, *)
(* which is where the commits made so far end.                             *)
(***************************************************************************)
LEMMA OpenReaderIInv ==
    ASSUME CommitCodecAssumption, IInv, NEW m \in {"device", "string"}, OpenReader(m)
    PROVE  IInv'
<1>1. Typing /\ CommittedPayloads
  BY DEF IInv
<1>2. PICK st \in [1 .. Len(committed) + 1 -> 0 .. Len(log)] : Layout(st) /\ ReaderAt(st)
  BY DEF IInv
<1>3. /\ mode' = m /\ rpc' = "idle" /\ rptr' = 0 /\ rend' = End(m)
      /\ out' = <<>> /\ expect' = committed
      /\ UNCHANGED <<log, committed, corrupted, scratch, infrag>>
  BY DEF OpenReader
<1>4. st[1] = 0 /\ st[Len(committed) + 1] = Len(log) /\ Len(log) \in Nat /\ Lba \in Nat
  BY <1>1, <1>2 DEF Layout, Typing, CommitCodecAssumption
<1>5. Typing'
  BY <1>1, <1>3, <1>4, EmptySeq DEF Typing, End
<1>6. rend' = Unit' * st[Len(expect') + 1] /\ rptr' = Unit' * st[Len(out') + 1]
  BY <1>3, <1>4 DEF End, Unit
<1>7. IsPrefixOf(expect', committed') /\ IsPrefixOf(out', expect') /\ Len(out') <= Len(expect')
  BY <1>1, <1>3 DEF IsPrefixOf, Typing
<1>8. ReaderAt(st)'
  BY <1>3, <1>6, <1>7 DEF ReaderAt
<1>9. QED
  BY <1>1, <1>2, <1>3, <1>5, <1>7, <1>8 DEF IInv, CommittedPayloads, Layout, ReadsCommitted, AllRead

\* What an open reader knows of the records it was opened on and returned.
LEMMA ReaderFacts ==
    ASSUME CommitCodecAssumption, Typing, CommittedPayloads, ReadsCommitted,
           NEW st \in [1 .. Len(committed) + 1 -> 0 .. Len(log)], Layout(st), ReaderAt(st),
           rpc # "closed"
    PROVE  /\ Len(out) \in Nat /\ Len(expect) \in Nat
           /\ Len(out) <= Len(expect) /\ Len(expect) <= Len(committed)
           /\ \A r \in 1 .. Len(expect) : expect[r] = committed[r]
           /\ \A r \in 1 .. Len(out) : out[r] = expect[r]
           /\ Unit \in Nat \ {0}
           /\ \A x \in 1 .. Len(committed) + 1 : st[x] \in Nat
           /\ rend = Unit * st[Len(expect) + 1]
           /\ Len(out) < Len(expect) => st[Len(out) + 1] < st[Len(expect) + 1]
<1>1. Len(out) \in Nat /\ Len(expect) \in Nat /\ Len(committed) \in Nat
  BY DEF Typing
<1>2. /\ Len(out) <= Len(expect) /\ Len(expect) <= Len(committed)
      /\ \A r \in 1 .. Len(expect) : expect[r] = committed[r]
      /\ \A r \in 1 .. Len(out) : out[r] = expect[r]
      /\ rend = Unit * st[Len(expect) + 1]
  BY DEF ReaderAt, IsPrefixOf, ReadsCommitted
<1>3. Unit \in Nat \ {0}
  BY DEF Unit, CommitCodecAssumption
<1>4. \A x \in 1 .. Len(committed) + 1 : st[x] \in Nat
  OBVIOUS
<1>5. ASSUME Len(out) < Len(expect) PROVE st[Len(out) + 1] < st[Len(expect) + 1]
  <2>1. \A a, b \in 1 .. Len(committed) + 1 : a < b => st[a] < st[b]
    BY DEF Layout
  <2>2. Len(out) + 1 \in 1 .. Len(committed) + 1 /\ Len(expect) + 1 \in 1 .. Len(committed) + 1
        /\ Len(out) + 1 < Len(expect) + 1
    BY <1>1, <1>2, <1>5
  <2>3. QED
    BY <2>1, <2>2
<1>6. QED
  BY <1>1, <1>2, <1>3, <1>4, <1>5

(***************************************************************************)
(* SeekBegin at the end of the range closes the reader, which has then     *)
(* returned every record; before it, the reader is at the start of the     *)
(* next record with nothing in its scratch.                                *)
(***************************************************************************)
LEMMA SeekBeginIInv ==
    ASSUME CommitCodecAssumption, IInv, SeekBegin
    PROVE  IInv'
<1>1. Typing /\ CommittedPayloads /\ ReadsCommitted
  BY DEF IInv
<1>2. PICK st \in [1 .. Len(committed) + 1 -> 0 .. Len(log)] : Layout(st) /\ ReaderAt(st)
  BY DEF IInv
<1>3. rpc = "idle" /\ UNCHANGED <<log, committed, corrupted, rptr, rend, out, expect, mode>>
  BY DEF SeekBegin
<1>4. /\ Len(out) \in Nat /\ Len(expect) \in Nat
      /\ Len(out) <= Len(expect) /\ Len(expect) <= Len(committed)
      /\ \A r \in 1 .. Len(expect) : expect[r] = committed[r]
      /\ \A r \in 1 .. Len(out) : out[r] = expect[r]
      /\ Unit \in Nat \ {0}
      /\ \A x \in 1 .. Len(committed) + 1 : st[x] \in Nat
      /\ rend = Unit * st[Len(expect) + 1]
      /\ Len(out) < Len(expect) => st[Len(out) + 1] < st[Len(expect) + 1]
  BY <1>1, <1>2, <1>3, ReaderFacts
<1>5. rptr = Unit * st[Len(out) + 1]
  BY <1>2, <1>3 DEF ReaderAt
<1>6. st[Len(out) + 1] \in Nat /\ st[Len(expect) + 1] \in Nat
  BY <1>4
<1>7. Len(out) < Len(expect) => rptr < rend
  BY <1>4, <1>5, <1>6, MulLess
<1>8. Len(out) = Len(expect) => rptr = rend
  BY <1>4, <1>5
<1>9. Layout(st)' /\ CommittedPayloads' /\ ReadsCommitted'
      /\ st \in [1 .. Len(committed') + 1 -> 0 .. Len(log')]
  BY <1>1, <1>2, <1>3 DEF Layout, CommittedPayloads, ReadsCommitted
<1>10. CASE rptr >= rend
  <2>1. rpc' = "closed" /\ UNCHANGED <<scratch, infrag>>
    BY <1>10 DEF SeekBegin
  <2>2. Len(out) = Len(expect)
    BY <1>4, <1>5, <1>6, <1>7, <1>10
  <2>3. out = expect
    BY <1>1, <1>4, <2>2, SeqEqual DEF Typing
  <2>4. Typing' /\ ReaderAt(st)' /\ AllRead'
    BY <1>1, <1>3, <2>1, <2>3 DEF Typing, ReaderAt, AllRead
  <2>5. QED
    BY <1>9, <2>4 DEF IInv
<1>11. CASE ~(rptr >= rend)
  <2>1. rpc' = "seeking" /\ scratch' = <<>> /\ infrag' = FALSE
    BY <1>11 DEF SeekBegin
  <2>2. Len(out) < Len(expect)
    BY <1>4, <1>8, <1>11
  <2>3. /\ Len(out) + 1 \in 1 .. Len(committed)
        /\ expect[Len(out) + 1] = committed[Len(out) + 1]
    BY <1>4, <2>2
  <2>4. /\ expect[Len(out) + 1] \in Seq(Tok)
        /\ FragsOf(expect[Len(out) + 1]) \in Nat \ {0}
    BY <1>1, <2>3, CommittedFacts DEF Typing
  <2>5. /\ 0 \in 0 .. FragsOf(expect[Len(out) + 1]) - 1
        /\ rptr' = Unit' * (st[Len(out') + 1] + 0)
        /\ infrag' = (0 > 0)
        /\ scratch' = SubSeq(expect'[Len(out') + 1], 1, 0 * Avail)
    <3>1. SubSeq(expect[Len(out) + 1], 1, 0) = <<>>
      BY SubSeqEmpty
    <3>2. 0 * Avail = 0
      BY AvailPositive
    <3>3. Unit' = Unit /\ out' = out /\ expect' = expect
      BY <1>3 DEF Unit
    <3>4. rptr' = Unit' * (st[Len(out') + 1] + 0)
      BY <1>3, <1>5, <1>6, <3>3
    <3>5. scratch' = SubSeq(expect'[Len(out') + 1], 1, 0 * Avail)
      BY <2>1, <3>1, <3>2, <3>3
    <3>6. 0 \in 0 .. FragsOf(expect[Len(out) + 1]) - 1
      BY <2>4
    <3>7. infrag' = (0 > 0)
      <4>1. (0 > 0) = FALSE
        OBVIOUS
      <4>2. infrag' = FALSE
        BY <2>1
      <4>3. QED
        BY <4>1, <4>2
    <3>8. QED
      BY <3>4, <3>5, <3>6, <3>7
  <2>6. ReaderAt(st)'
    <3>1. \E j \in 0 .. FragsOf(expect'[Len(out') + 1]) - 1 :
             /\ rptr' = Unit' * (st[Len(out') + 1] + j)
             /\ infrag' = (j > 0)
             /\ scratch' = SubSeq(expect'[Len(out') + 1], 1, j * Avail)
      BY <1>3, <2>5
    <3>2. /\ IsPrefixOf(expect', committed') /\ rend' = Unit' * st[Len(expect') + 1]
          /\ Len(out') < Len(expect')
      BY <1>2, <1>3, <2>2 DEF ReaderAt, Unit
    <3>3. QED
      BY <2>1, <3>1, <3>2 DEF ReaderAt
  <2>7. Typing' /\ AllRead'
    BY <1>1, <1>3, <2>1, EmptySeq DEF Typing, AllRead
  <2>8. QED
    BY <1>9, <2>6, <2>7 DEF IInv
<1>12. QED
  BY <1>10, <1>11

\* The cursor at LBA y points at fragment y + 1 of the log.
LEMMA AtCursor ==
    ASSUME CommitCodecAssumption, mode \in {"device", "string"}, NEW y \in Nat
    PROVE  At(Unit * y) = y + 1
<1>1. CASE mode = "device"
  BY <1>1 DEF At, Unit
<1>2. CASE mode = "string"
  <2>1. Lba \in Nat \ {0}
    BY DEF CommitCodecAssumption
  <2>2. (Lba * y) \div Lba = y
    BY <2>1, DivMultiple
  <2>3. QED
    BY <1>2, <2>2 DEF At, Unit
<1>3. QED
  BY <1>1, <1>2

\* With at least one LBA left in the range, a whole LBA is read.
LEMMA ToReadLba ==
    ASSUME CommitCodecAssumption, mode \in {"device", "string"},
           NEW a \in Nat, NEW b \in Nat, a < b, rptr = Unit * a, rend = Unit * b
    PROVE  ToRead = Lba
<1>1. Lba \in Nat \ {0}
  BY DEF CommitCodecAssumption
<1>2. CASE mode = "device"
  <2>1. rend - rptr = b - a /\ b - a \in Nat \ {0}
    BY <1>2 DEF Unit
  <2>2. (b - a) * Lba >= Lba
    BY <1>1, <2>1
  <2>3. QED
    BY <1>2, <2>1, <2>2 DEF ToRead
<1>3. CASE mode = "string"
  <2>1. rend - rptr = Lba * (b - a) /\ b - a \in Nat \ {0}
    BY <1>3 DEF Unit
  <2>2. Lba * (b - a) >= Lba
    BY <1>1, <2>1
  <2>3. QED
    BY <1>3, <2>1, <2>2 DEF ToRead
<1>4. QED
  BY <1>2, <1>3

\* A fragment of at most Avail bytes moves the cursor by one LBA.
LEMMA AdvanceOne ==
    ASSUME CommitCodecAssumption, mode \in {"device", "string"}, NEW len \in 1 .. Avail
    PROVE  Advance(len) = Unit
<1>1. Avail \in Nat \ {0} /\ Avail < Lba /\ Lba \in Nat \ {0} /\ Header \in Nat
  BY AvailPositive DEF CommitCodecAssumption
<1>2. CASE mode = "device"
  <2>1. (len + Lba - 1) \div Lba = 1
    <3>1. len + Lba - 1 \in Lba .. 2 * Lba - 1
      BY <1>1
    <3>2. QED
      BY <1>1, <3>1
  <2>2. QED
    BY <1>2, <2>1 DEF Advance, AdvanceDevice, Unit
<1>3. CASE mode = "string"
  <2>1. (len + Header + Lba - 1) \div Lba = 1
    <3>1. len + Header + Lba - 1 \in Lba .. 2 * Lba - 1
      BY <1>1 DEF Avail
    <3>2. QED
      BY <1>1, <3>1
  <2>2. QED
    BY <1>3, <2>1 DEF Advance, AdvanceString, Unit
<1>4. QED
  BY <1>2, <1>3

\* The cursor stays a natural.
LEMMA AdvanceNat ==
    ASSUME CommitCodecAssumption, NEW len \in Nat
    PROVE  Advance(len) \in Nat
<1>1. Lba \in Nat \ {0} /\ Header \in Nat
  BY DEF CommitCodecAssumption
<1>2. AdvanceDevice(len) \in Nat /\ AdvanceString(len) \in Nat
  BY <1>1, DivBounds DEF AdvanceDevice, AdvanceString
<1>3. QED
  BY <1>2 DEF Advance

\* An intact fragment read as a whole LBA is taken at its header's type.
LEMMA IntactType ==
    ASSUME CommitCodecAssumption, NEW p \in Seq(Tok), Len(p) # 0,
           NEW i \in 1 .. NFrags(Len(p)), ToRead = Lba
    PROVE  ReadType(Encode(p)[i]) = Encode(p)[i].type
<1>1. Encode(p)[i].len \in 1 .. Avail
      /\ Encode(p)[i].crc = <<Encode(p)[i].type, Encode(p)[i].body>>
  BY EncodeFrag
<1>2. Header + Encode(p)[i].len <= ToRead
  BY <1>1, AvailPositive DEF Avail, CommitCodecAssumption
<1>3. QED
  BY <1>1, <1>2 DEF ReadType

(***************************************************************************)
(* A damaged fragment fails the CRC check: its first byte was a payload    *)
(* byte, never the destroyed one.                                          *)
(***************************************************************************)
LEMMA DamagedInvalid ==
    ASSUME CommitCodecAssumption, NEW p \in Seq(Tok), Len(p) # 0,
           \A x \in 1 .. Len(p) : p[x] # Flipped,
           NEW i \in 1 .. NFrags(Len(p))
    PROVE  /\ ReadType(Damage(Encode(p)[i])) = "invalid"
           /\ Damage(Encode(p)[i]).len \in Nat
<1> DEFINE g == Encode(p)[i]
           lo == (i - 1) * Avail + 1
<1>1. /\ g.body = Body(p, i) /\ g.len \in 1 .. Avail /\ g \in Frag
      /\ Body(p, i) \in Seq(Tok)
  BY EncodeFrag
<1>2. Len(p) \in Nat \ {0} /\ NFrags(Len(p)) \in Nat \ {0} /\ Avail \in Nat \ {0}
  BY NFragsBounds, AvailPositive
<1>3. lo \in 1 .. Len(p) /\ lo <= Hi(Len(p), i) /\ Hi(Len(p), i) \in 1 .. Len(p)
  <2>1. (i - 1) * Avail < Hi(Len(p), i) /\ Hi(Len(p), i) <= Len(p)
    BY <1>2, FragRange
  <2>2. (i - 1) * Avail \in Nat /\ Hi(Len(p), i) \in Nat
    BY <1>2 DEF Hi
  <2>3. QED
    BY <2>1, <2>2
<1>4. Body(p, i)[1] = p[lo] /\ 1 \in DOMAIN Body(p, i)
  <2>1. \A x \in lo .. Hi(Len(p), i) : p[x] \in Tok
    BY <1>3
  <2>2. /\ Len(SubSeq(p, lo, Hi(Len(p), i))) = Hi(Len(p), i) - lo + 1
        /\ \A x \in 1 .. Hi(Len(p), i) - lo + 1 :
              SubSeq(p, lo, Hi(Len(p), i))[x] = p[lo + x - 1]
        /\ SubSeq(p, lo, Hi(Len(p), i)) \in Seq(Tok)
    BY <1>3, <2>1, SubSeqProperties
  <2>3. 1 \in 1 .. Hi(Len(p), i) - lo + 1 /\ lo + 1 - 1 = lo
    BY <1>3
  <2>4. QED
    BY <2>2, <2>3 DEF Body
<1>5. /\ Damage(g).body[1] = Flipped /\ Damage(g).crc = g.crc
      /\ Damage(g).type = g.type /\ Damage(g).len = g.len
  BY <1>1, <1>4 DEF Damage
<1>6. g.crc = <<g.type, g.body>> /\ g.body[1] # Flipped
  BY <1>1, <1>3, <1>4, EncodeFrag
<1>7. Damage(g).crc # <<Damage(g).type, Damage(g).body>>
  BY <1>5, <1>6
<1>8. ReadType(Damage(g)) = "invalid"
  BY <1>7 DEF ReadType
<1>9. QED
  BY <1>1, <1>5, <1>8

(***************************************************************************)
(* SeekStep reads the fragment at the cursor, j fragments into the next    *)
(* record e.  Intact, it is the encoder's fragment j+1 of e: the reader    *)
(* returns e when it ends the record, else moves one fragment further with *)
(* its body added to the scratch.  Damaged, it fails the CRC check and the *)
(* reader closes.  The end of the range is never reached mid-record.       *)
(***************************************************************************)
LEMMA SeekStepIInv ==
    ASSUME CommitCodecAssumption, IInv, SeekStep
    PROVE  IInv'
<1> DEFINE r == Len(out) + 1
           e == expect[r]
           F == FragsOf(e)
           E == Len(expect)
<1>1. Typing /\ CommittedPayloads /\ ReadsCommitted
  BY DEF IInv
<1>2. PICK st \in [1 .. Len(committed) + 1 -> 0 .. Len(log)] : Layout(st) /\ ReaderAt(st)
  BY DEF IInv
<1>3. rpc = "seeking" /\ UNCHANGED <<log, committed, corrupted, rend, expect, mode>>
  BY DEF SeekStep
<1>4. /\ Len(out) \in Nat /\ E \in Nat
      /\ Len(out) <= E /\ E <= Len(committed)
      /\ \A x \in 1 .. E : expect[x] = committed[x]
      /\ \A x \in 1 .. Len(out) : out[x] = expect[x]
      /\ Unit \in Nat \ {0}
      /\ \A x \in 1 .. Len(committed) + 1 : st[x] \in Nat
      /\ rend = Unit * st[E + 1]
  BY <1>1, <1>2, <1>3, ReaderFacts
<1>5. Len(out) < E
  BY <1>2, <1>3 DEF ReaderAt
<1>6. PICK j \in 0 .. F - 1 :
         /\ rptr = Unit * (st[r] + j)
         /\ infrag = (j > 0)
         /\ scratch = SubSeq(e, 1, j * Avail)
  BY <1>2, <1>3 DEF ReaderAt
<1>7. /\ r \in 1 .. Len(committed) /\ e = committed[r]
      /\ e \in Seq(Tok) /\ Len(e) \in Nat \ {0} /\ F \in Nat \ {0}
      /\ \A x \in 1 .. Len(e) : e[x] = <<r, x>>
  <2>1. r \in 1 .. E /\ r \in 1 .. Len(committed)
    BY <1>4, <1>5
  <2>2. e = committed[r]
    BY <1>4, <2>1
  <2>3. /\ committed[r] \in Seq(Tok) /\ Len(committed[r]) \in Nat \ {0}
        /\ FragsOf(committed[r]) \in Nat \ {0}
        /\ \A x \in 1 .. Len(committed[r]) : committed[r][x] = <<r, x>>
    BY <1>1, <2>1, CommittedFacts DEF Typing
  <2>4. QED
    BY <2>1, <2>2, <2>3
<1>6a. PICK i \in 1 .. F : i = j + 1
  BY <1>6, <1>7
<1>8. /\ st[r] \in Nat /\ st[E + 1] \in Nat
      /\ st[r + 1] = st[r] + F
      /\ st[r + 1] <= st[E + 1]
  <2>1. r \in 1 .. Len(committed) + 1 /\ r + 1 \in 1 .. Len(committed) + 1
        /\ E + 1 \in 1 .. Len(committed) + 1
    BY <1>4, <1>5
  <2>2. st[r + 1] = st[r] + F
    BY <1>2, <1>7 DEF Layout
  <2>3. CASE r + 1 < E + 1
    <3>1. \A a, b \in 1 .. Len(committed) + 1 : a < b => st[a] < st[b]
      BY <1>2 DEF Layout
    <3>2. QED
      BY <1>4, <2>1, <2>2, <2>3, <3>1
  <2>4. CASE r + 1 = E + 1
    BY <1>4, <2>1, <2>2, <2>4
  <2>5. QED
    BY <1>4, <1>5, <2>1, <2>2, <2>3, <2>4
<1>9. /\ mode \in {"device", "string"} /\ Unit' = Unit
      /\ rptr < rend /\ ToRead = Lba /\ At(rptr) = st[r] + i
  <2>1. mode \in {"device", "string"} /\ Unit' = Unit
    BY <1>1, <1>3 DEF Typing, Unit
  <2>2. st[r] + j < st[E + 1] /\ st[r] + j \in Nat
    BY <1>7, <1>8
  <2>3. Unit * (st[r] + j) < Unit * st[E + 1]
    BY <1>4, <1>8, <2>2, MulLess
  <2>4. ToRead = Lba
    BY <1>4, <1>6, <1>8, <2>1, <2>2, ToReadLba
  <2>5. At(rptr) = st[r] + j + 1
    BY <1>6, <2>1, <2>2, AtCursor
  <2>6. rptr < rend
    <3>1. rptr = Unit * (st[r] + j) /\ rend = Unit * st[E + 1]
      BY <1>4, <1>6
    <3>2. QED
      BY <2>3, <3>1, Zenon
  <2>7. st[r] + j + 1 = st[r] + i
    <3>1. j \in Nat /\ i = j + 1
      BY <1>6, <1>6a, <1>7
    <3>2. st[r] \in Nat
      BY <1>8
    <3>3. QED
      BY <3>1, <3>2
  <2>8. QED
    BY <2>1, <2>4, <2>5, <2>6, <2>7
<1> DEFINE f == log[st[r] + i]
<1>10. /\ rptr' = rptr + Advance(f.len)
       /\ ReadType(f) = "full" =>
             /\ scratch' = f.body /\ rpc' = "idle" /\ out' = Append(out, f.body)
             /\ infrag' = infrag
       /\ ReadType(f) = "first" =>
             /\ scratch' = f.body /\ infrag' = TRUE /\ rpc' = rpc /\ out' = out
       /\ ReadType(f) = "middle" =>
             /\ scratch' = IF infrag THEN scratch \o f.body ELSE scratch
             /\ rpc' = rpc /\ out' = out /\ infrag' = infrag
       /\ ReadType(f) = "last" /\ infrag =>
             /\ scratch' = scratch \o f.body /\ rpc' = "idle"
             /\ out' = Append(out, scratch \o f.body) /\ infrag' = infrag
       /\ ReadType(f) \notin {"full", "first", "middle", "last"} =>
             /\ infrag' = FALSE /\ scratch' = <<>> /\ rpc' = "closed" /\ out' = out
  <2> DEFINE t == ReadType(f)
  <2>1. log[At(rptr)] = f /\ ~(rptr >= rend)
    <3>1. rptr \in Nat /\ rend \in Nat
      BY <1>1 DEF Typing
    <3>2. QED
      BY <1>9, <3>1
  <2>2. /\ rptr' = rptr + Advance(f.len)
        /\ CASE t = "full" ->
                  /\ scratch' = f.body
                  /\ Return(TRUE, f.body)
                  /\ UNCHANGED infrag
             [] t = "first" ->
                  /\ scratch' = f.body
                  /\ infrag' = TRUE
                  /\ UNCHANGED <<rpc, out>>
             [] t = "middle" ->
                  /\ scratch' = IF infrag THEN scratch \o f.body ELSE scratch
                  /\ UNCHANGED <<rpc, out, infrag>>
             [] t = "last" ->
                  IF infrag
                  THEN /\ scratch' = scratch \o f.body
                       /\ Return(TRUE, scratch \o f.body)
                       /\ UNCHANGED infrag
                  ELSE UNCHANGED <<scratch, rpc, out, infrag>>
             [] OTHER ->
                  /\ infrag' = FALSE
                  /\ scratch' = <<>>
                  /\ Return(FALSE, <<>>)
    BY <2>1 DEF SeekStep
  <2>3. QED
    BY <2>2, Zenon DEF Return
<1>11. /\ Layout(st)' /\ CommittedPayloads'
       /\ st \in [1 .. Len(committed') + 1 -> 0 .. Len(log')]
  BY <1>1, <1>2, <1>3 DEF Layout, CommittedPayloads
(* The reader returns e and is at the start of the record after it.        *)
<1>12. ASSUME rpc' = "idle", out' = Append(out, e), rptr' = Unit * st[r + 1],
              scratch' \in Seq(Tok), infrag' \in BOOLEAN
       PROVE  IInv'
  <2>1. out' \in Seq(Seq(Tok)) /\ Len(out') = r /\ out'[r] = e
        /\ \A x \in 1 .. Len(out) : out'[x] = out[x]
    BY <1>1, <1>4, <1>7, <1>12, AppendProperties DEF Typing
  <2>2. Typing'
    <3>1. st[r + 1] \in Nat
      BY <1>7, <1>8
    <3>2. rptr' \in Nat
      BY <1>4, <1>12, <3>1
    <3>3. QED
      BY <1>1, <1>3, <1>12, <2>1, <3>2 DEF Typing
  <2>3. ReadsCommitted'
    <3>1. Len(out') <= Len(expect')
      BY <1>3, <1>5, <2>1
    <3>2. \A x \in 1 .. Len(out') : out'[x] = expect'[x]
      <4>1. SUFFICES ASSUME NEW x \in 1 .. Len(out') PROVE out'[x] = expect'[x]
        OBVIOUS
      <4>2. CASE x = r
        BY <1>3, <2>1, <4>2
      <4>3. CASE x # r
        <5>1. x \in 1 .. Len(out)
          BY <1>4, <2>1, <4>3
        <5>2. QED
          BY <1>3, <1>4, <2>1, <5>1
      <4>4. QED
        BY <4>2, <4>3
    <3>3. QED
      BY <3>1, <3>2 DEF ReadsCommitted, IsPrefixOf
  <2>4. ReaderAt(st)'
    BY <1>2, <1>3, <1>5, <1>9, <1>12, <2>1 DEF ReaderAt
  <2>5. QED
    BY <1>11, <1>12, <2>2, <2>3, <2>4 DEF IInv, AllRead
(* The reader is j2 fragments into e, with their bodies in its scratch.    *)
<1>13. ASSUME NEW j2 \in 1 .. F - 1, rpc' = "seeking", out' = out,
              rptr' = Unit * (st[r] + j2), infrag' = TRUE,
              scratch' = SubSeq(e, 1, j2 * Avail), scratch' \in Seq(Tok)
       PROVE  IInv'
  <2>1. Typing'
    <3>1. rptr' \in Nat
      <4>1. st[r] + j2 \in Nat
        BY <1>7, <1>8
      <4>2. QED
        BY <1>4, <1>13, <4>1, MulNat
    <3>2. QED
      BY <1>1, <1>3, <1>13, <3>1 DEF Typing
  <2>2. ReadsCommitted'
    BY <1>1, <1>3, <1>13 DEF ReadsCommitted
  <2>3. infrag' = (j2 > 0)
    <3>1. (j2 > 0) = TRUE
      BY <1>7
    <3>2. QED
      BY <1>13, <3>1
  <2>4. \E j3 \in 0 .. FragsOf(expect'[Len(out') + 1]) - 1 :
           /\ rptr' = Unit' * (st[Len(out') + 1] + j3)
           /\ infrag' = (j3 > 0)
           /\ scratch' = SubSeq(expect'[Len(out') + 1], 1, j3 * Avail)
    <3>1. j2 \in 0 .. F - 1
      BY <1>7
    <3>2. QED
      BY <1>3, <1>9, <1>13, <2>3, <3>1
  <2>5. ReaderAt(st)'
    <3>1. /\ IsPrefixOf(expect', committed') /\ rend' = Unit' * st[Len(expect') + 1]
          /\ Len(out') < Len(expect') /\ Len(out') <= Len(expect')
      BY <1>2, <1>3, <1>4, <1>5, <1>9, <1>13 DEF ReaderAt
    <3>2. rpc' # "closed" /\ rpc' # "idle" /\ rpc' = "seeking"
      BY <1>13
    <3>3. QED
      BY <2>4, <3>1, <3>2 DEF ReaderAt
  <2>6. QED
    BY <1>11, <1>13, <2>1, <2>2, <2>5 DEF IInv, AllRead
<1>14. i \in 1 .. NFrags(Len(e)) /\ F = NFrags(Len(e)) /\ j \in Nat /\ i = j + 1
  BY <1>6, <1>6a, <1>7 DEF FragsOf
<1>15. CASE f = Encode(e)[i]
  <2>1. /\ ReadType(f) = f.type
        /\ f.body = Body(e, i) /\ f.len \in 1 .. Avail
        /\ f.type = IF i = 1 THEN IF i = F THEN "full" ELSE "first"
                    ELSE IF i = F THEN "last" ELSE "middle"
        /\ Body(e, i) \in Seq(Tok)
    BY <1>7, <1>9, <1>14, <1>15, IntactType, EncodeFrag
  <2>2. rptr' = Unit * (st[r] + i)
    <3>1. Advance(f.len) = Unit
      BY <1>9, <2>1, AdvanceOne
    <3>2. st[r] + j \in Nat /\ st[r] + j + 1 = st[r] + i
      <4>1. j \in Nat
        BY <1>14
      <4>2. st[r] \in Nat
        BY <1>8
      <4>3. QED
        BY <1>14, <4>1, <4>2
    <3>3. QED
      BY <1>4, <1>6, <1>10, <3>1, <3>2, MulSucc
  <2>3. SubSeq(e, 1, j * Avail) \o Body(e, i) = SubSeq(e, 1, Hi(Len(e), i))
    <3>1. (i - 1) * Avail = j * Avail
      <4>1. j \in Nat
        BY <1>14
      <4>2. Avail \in Nat
        BY AvailPositive
      <4>3. QED
        BY <1>14, <4>1, <4>2
    <3>2. SubSeq(e, 1, (i - 1) * Avail) \o Body(e, i) = SubSeq(e, 1, Hi(Len(e), i))
      <4>1. e \in Seq(Tok) /\ Len(e) # 0 /\ i \in 1 .. NFrags(Len(e))
        BY <1>7, <1>14
      <4>2. QED
        BY <4>1, Reassemble
    <3>3. QED
      BY <3>1, <3>2
  <2>4. Len(e) \in Nat \ {0} /\ (1 - 1) * Avail + 1 = 1 /\ F \in Nat \ {0}
    BY <1>7, AvailPositive
  <2>5. CASE j = 0 /\ F = 1
    <3>1. ReadType(f) = "full"
      BY <2>1, <2>5
    <3>2. f.body = e
      <4>1. Body(e, 1) = SubSeq(e, 1, Len(e))
        BY <1>14, <2>4, <2>5 DEF Body, Hi
      <4>2. i = 1
        BY <1>14, <2>5
      <4>3. QED
        BY <1>7, <2>1, <4>1, <4>2, SubSeqFull
    <3>3. scratch' = e /\ rpc' = "idle" /\ out' = Append(out, e) /\ infrag' = infrag
      BY <1>10, <3>1, <3>2
    <3>4. rptr' = Unit * st[r + 1]
      BY <1>8, <2>2, <2>5
    <3>5. QED
      BY <1>1, <1>7, <1>12, <3>3, <3>4 DEF Typing
  <2>6. CASE j = 0 /\ F # 1
    <3>1. ReadType(f) = "first"
      BY <1>14, <2>1, <2>6
    <3>2. f.body = SubSeq(e, 1, 1 * Avail)
      <4>1. Hi(Len(e), 1) = 1 * Avail
        BY <1>14, <2>6 DEF Hi
      <4>2. Body(e, 1) = SubSeq(e, 1, 1 * Avail)
        BY <2>4, <4>1 DEF Body
      <4>3. QED
        BY <1>14, <2>1, <2>6, <4>2
    <3>3. scratch' = f.body /\ infrag' = TRUE /\ rpc' = "seeking" /\ out' = out
      BY <1>3, <1>10, <3>1
    <3>4. rptr' = Unit * (st[r] + 1) /\ 1 \in 1 .. F - 1
      BY <1>14, <2>2, <2>4, <2>6
    <3>5. QED
      BY <1>13, <2>1, <2>6, <3>2, <3>3, <3>4
  <2>7. CASE j # 0 /\ i # F
    <3>1. ReadType(f) = "middle" /\ infrag
      <4>1. i # 1 /\ (j > 0) = TRUE
        BY <1>14, <2>7
      <4>2. ReadType(f) = "middle"
        BY <2>1, <2>7, <4>1
      <4>3. infrag = TRUE
        BY <1>6, <4>1
      <4>4. QED
        BY <4>2, <4>3
    <3>2. scratch' = scratch \o f.body /\ rpc' = "seeking" /\ out' = out /\ infrag' = TRUE
      BY <1>3, <1>10, <3>1
    <3>3. scratch \o f.body = SubSeq(e, 1, i * Avail)
      <4>1. Hi(Len(e), i) = i * Avail
        BY <1>14, <2>7 DEF Hi
      <4>2. QED
        BY <1>6, <2>1, <2>3, <4>1
    <3>4. scratch \o f.body \in Seq(Tok)
      BY <1>1, <2>1, ConcatProperties DEF Typing
    <3>5. rptr' = Unit * (st[r] + i) /\ i \in 1 .. F - 1
      BY <1>6, <1>14, <2>2, <2>4, <2>7
    <3>6. QED
      BY <1>13, <3>2, <3>3, <3>4, <3>5
  <2>8. CASE j # 0 /\ i = F
    <3>1. ReadType(f) = "last" /\ infrag
      <4>1. i # 1 /\ (j > 0) = TRUE
        BY <1>14, <2>8
      <4>2. ReadType(f) = "last"
        BY <2>1, <2>8, <4>1
      <4>3. infrag = TRUE
        BY <1>6, <4>1
      <4>4. QED
        BY <4>2, <4>3
    <3>2. scratch' = scratch \o f.body /\ rpc' = "idle"
          /\ out' = Append(out, scratch \o f.body) /\ infrag' = infrag
      BY <1>10, <3>1
    <3>3. scratch \o f.body = e
      <4>1. Hi(Len(e), i) = Len(e)
        BY <1>14, <2>8 DEF Hi
      <4>2. SubSeq(e, 1, Len(e)) = e
        BY <1>7, SubSeqFull
      <4>3. QED
        BY <1>6, <2>1, <2>3, <4>1, <4>2
    <3>4. rptr' = Unit * st[r + 1]
      BY <1>8, <2>2, <2>8
    <3>5. QED
      BY <1>1, <1>7, <1>12, <3>2, <3>3, <3>4 DEF Typing
  <2>9. QED
    BY <2>5, <2>6, <2>7, <2>8
<1>16. CASE f # Encode(e)[i]
  <2>1. corrupted /\ f = Damage(Encode(e)[i])
    <3>1. i \in 1 .. FragsOf(committed[r])
      BY <1>7, <1>14
    <3>2. \/ log[st[r] + i] = Encode(committed[r])[i]
          \/ corrupted /\ log[st[r] + i] = Damage(Encode(committed[r])[i])
      BY <1>2, <1>7, <3>1 DEF Layout
    <3>3. QED
      BY <1>7, <1>16, <3>2
  <2>2. \A x \in 1 .. Len(e) : e[x] # Flipped
    BY <1>7 DEF Flipped
  <2>3. ReadType(f) = "invalid" /\ f.len \in Nat
    BY <1>7, <1>14, <2>1, <2>2, DamagedInvalid
  <2>4. infrag' = FALSE /\ scratch' = <<>> /\ rpc' = "closed" /\ out' = out
    BY <1>10, <2>3
  <2>5. rptr' \in Nat
    <3>1. Advance(f.len) \in Nat
      BY <2>3, AdvanceNat
    <3>2. QED
      BY <1>1, <1>10, <3>1 DEF Typing
  <2>6. Typing'
    BY <1>1, <1>3, <2>4, <2>5, EmptySeq DEF Typing
  <2>7. ReaderAt(st)' /\ ReadsCommitted' /\ AllRead'
    BY <1>1, <1>3, <2>1, <2>4 DEF ReaderAt, ReadsCommitted, AllRead
  <2>8. QED
    BY <1>11, <2>6, <2>7 DEF IInv
<1>17. QED
  BY <1>15, <1>16

\* A step that changes no variable keeps the inductive invariant.
LEMMA StutterIInv ==
    ASSUME IInv, UNCHANGED vars
    PROVE  IInv'
<1>1. PICK st \in [1 .. Len(committed) + 1 -> 0 .. Len(log)] : Layout(st) /\ ReaderAt(st)
  BY DEF IInv
<1>2. Layout(st)' /\ ReaderAt(st)' /\ st \in [1 .. Len(committed') + 1 -> 0 .. Len(log')]
  BY <1>1 DEF vars, Layout, ReaderAt, Unit
<1>3. QED
  BY <1>2 DEF IInv, vars, Typing, CommittedPayloads, ReadsCommitted, AllRead

\* Every step of the committer, the corruption and the reader keeps the inductive invariant.
LEMMA NextIInv ==
    ASSUME CommitCodecAssumption, CommitFits, IInv, [Next]_vars
    PROVE  IInv'
<1>1. CASE \E n \in Lengths : Commit(n)
  BY <1>1, CommitIInv
<1>2. CASE \E i \in 1 .. Len(log) : Corrupt(i)
  BY <1>2, CorruptIInv
<1>3. CASE \E m \in {"device", "string"} : OpenReader(m)
  BY <1>3, OpenReaderIInv
<1>4. CASE SeekBegin
  BY <1>4, SeekBeginIInv
<1>5. CASE SeekStep
  BY <1>5, SeekStepIInv
<1>6. CASE UNCHANGED vars
  BY <1>6, StutterIInv
<1>7. QED
  BY <1>1, <1>2, <1>3, <1>4, <1>5, <1>6 DEF Next

(***************************************************************************)
(* Where the reservation of Commit fits its fragments, IInv holds in every *)
(* state of every behaviour.                                               *)
(***************************************************************************)
THEOREM IInvHolds ==
    ASSUME CommitFits
    PROVE  Spec => []IInv
<1>1. Init => IInv
  BY InitIInv, CommitCodecAssumption
<1>2. IInv /\ [Next]_vars => IInv'
  BY NextIInv, CommitCodecAssumption
<1>3. QED
  BY <1>1, <1>2, PTL DEF Spec

(***************************************************************************)
(* ReadsCommitted for every LBA size, header size, payload lengths and     *)
(* number of commits where the reservation fits: SeekCommitReader and      *)
(* SeekCommitReaderString return, in order and whole, a prefix of the      *)
(* payloads committed before the reader was opened, on a damaged log too.  *)
(***************************************************************************)
THEOREM ReadsCommittedHolds ==
    ASSUME CommitFits
    PROVE  Spec => []ReadsCommitted
<1>1. IInv => ReadsCommitted
  BY DEF IInv
<1>2. QED
  BY <1>1, IInvHolds, PTL

(***************************************************************************)
(* AllRead for every such constant: on an undamaged log the reader stops   *)
(* only after it has returned every payload committed before it opened.    *)
(***************************************************************************)
THEOREM AllReadHolds ==
    ASSUME CommitFits
    PROVE  Spec => []AllRead
<1>1. IInv => AllRead
  BY DEF IInv
<1>2. QED
  BY <1>1, IInvHolds, PTL
====
