----------------------------- MODULE L0LogProofs -----------------------------
(***************************************************************************)
(* Proofs about the L0 circular log (L0Log): every table the LSM tree      *)
(* still references keeps its data (LiveTablesIntact), and no written LBA  *)
(* between the tail and the head is lost to reclamation (NoSpaceLeak).     *)
(*                                                                         *)
(* Positions are measured as offsets from the write tail, Off(b).  The     *)
(* inductive invariant says that the tables still referenced (live) or     *)
(* queued for reclamation (pending) tile the written window [0, used) of   *)
(* offsets: each sits inside it, no two overlap, together they cover it,   *)
(* and every LBA of each holds that table's number.                        *)
(***************************************************************************)
EXTENDS L0Log, FiniteSetTheorems, SequenceTheorems, WellFoundedInduction, TLAPS

\* The offset of LBA b from the write tail, along the log.
Off(b) == (b - tail) % Cap

\* The tables the version set still holds a meta for.
Tables == live \cup pending

IInv ==
    /\ TypeOK
    /\ tail % ZoneCap = 0
    /\ head = Wrapped(tail + used)
    /\ live \cap pending = {}
    /\ \A m \in Tables : m.number < nextNumber
    /\ \A m1, m2 \in Tables : m1.number = m2.number => m1 = m2
    \* every table lies inside the written window
    /\ \A m \in Tables : Off(m.lba) + m.lba_count <= used
    \* no two tables overlap
    /\ \A m1, m2 \in Tables :
          m1 # m2 => \/ Off(m1.lba) + m1.lba_count <= Off(m2.lba)
                     \/ Off(m2.lba) + m2.lba_count <= Off(m1.lba)
    \* the tables cover the window
    /\ \A k \in 0 .. used - 1 :
          \E m \in Tables : Off(m.lba) <= k /\ k < Off(m.lba) + m.lba_count
    \* the device holds data exactly in the window, a live table's its own
    \* (a remainder meta spans the ends of older tables, whose data it keeps)
    /\ \A b \in LBAs : owner[b] # Free <=> Off(b) < used
    /\ \A m \in live : \A k \in 0 .. m.lba_count - 1 :
          owner[Wrapped(m.lba + k)] = m.number

-----------------------------------------------------------------------------
(***************************************************************************)
(* Arithmetic of offsets along the log.                                    *)
(***************************************************************************)

\* The capacity of the log is a positive multiple of the zone size.
LEMMA CapFacts ==
    /\ Cap \in Nat \ {0}
    /\ ZoneCap \in Nat \ {0}
    /\ Cap % ZoneCap = 0
BY L0LogAssumption DEF Cap

\* An offset from the tail lies in 0 .. Cap - 1.
LEMMA OffRange ==
    ASSUME NEW b \in Int, tail \in Int
    PROVE  Off(b) \in 0 .. Cap - 1
BY CapFacts DEF Off

\* A wrapped address is an LBA of the log.
LEMMA WrappedRange ==
    ASSUME NEW x \in Int
    PROVE  Wrapped(x) \in LBAs
BY CapFacts DEF Wrapped, LBAs

\* A residue is determined by any decomposition a = c * k + r with r in 0 .. c - 1.
LEMMA ModUnique ==
    ASSUME NEW a \in Int, NEW c \in Nat \ {0}, NEW k \in Int, NEW r \in 0 .. c - 1,
           a = c * k + r
    PROVE  a % c = r
BY SMT

\* Division with remainder by a positive modulus.
LEMMA ModDecomp ==
    ASSUME NEW a \in Int, NEW c \in Nat \ {0}
    PROVE  /\ a % c \in 0 .. c - 1
           /\ a = c * (a \div c) + (a % c)
<1>1. a % c \in 0 .. c - 1
  BY SMT
<1>2. a = c * (a \div c) + (a % c)
  BY SMT
<1>3. QED
  BY <1>1, <1>2

\* A number below the modulus is its own residue.
LEMMA ModSmall ==
    ASSUME NEW a \in Nat, NEW c \in Nat \ {0}, a < c
    PROVE  a % c = a
<1>1. a = c * 0 + a
  OBVIOUS
<1>2. QED
  BY <1>1, ModUnique

\* Shifting by a multiple of the modulus leaves the residue unchanged.
LEMMA ModShift ==
    ASSUME NEW a \in Int, NEW q \in Int, NEW c \in Nat \ {0}
    PROVE  (a - c * q) % c = a % c
<1>1. a - c * q = c * ((a \div c) - q) + (a % c)
  BY ModDecomp
<1>2. (a \div c) - q \in Int /\ a % c \in 0 .. c - 1 /\ a - c * q \in Int
  BY ModDecomp
<1>3. QED
  BY <1>1, <1>2, ModUnique, Zenon

\* Wrapping an address does not change its offset from the tail.
LEMMA OffWrapped ==
    ASSUME NEW x \in Int, tail \in Int
    PROVE  Off(Wrapped(x)) = (x - tail) % Cap
<1>1. Wrapped(x) = x - Cap * (x \div Cap)
  BY CapFacts DEF Wrapped
<1>2. Wrapped(x) - tail = (x - tail) - Cap * (x \div Cap)
  BY <1>1, CapFacts
<1>3. x \div Cap \in Int
  BY CapFacts
<1>4. ((x - tail) - Cap * (x \div Cap)) % Cap = (x - tail) % Cap
  <2>1. x - tail \in Int /\ Cap \in Nat \ {0}
    BY CapFacts
  <2>2. QED
    BY <1>3, <2>1, ModShift, Zenon
<1>5. QED
  BY <1>2, <1>4 DEF Off

\* Walking k LBAs from the tail, within one turn of the log, lands at offset k.
LEMMA OffFromTail ==
    ASSUME NEW k \in 0 .. Cap - 1, tail \in LBAs
    PROVE  Off(Wrapped(tail + k)) = k
BY CapFacts DEF Off, Wrapped, LBAs

\* Walking k LBAs from a table start, within the window, adds k to its offset.
LEMMA OffAdd ==
    ASSUME NEW b \in LBAs, NEW k \in Nat, tail \in LBAs, Off(b) + k < Cap
    PROVE  Off(Wrapped(b + k)) = Off(b) + k
BY CapFacts DEF Off, Wrapped, LBAs

\* Walking k LBAs from b adds k to its offset, modulo the capacity.
LEMMA OffAddMod ==
    ASSUME NEW b \in LBAs, NEW k \in Nat, tail \in LBAs
    PROVE  Off(Wrapped(b + k)) = (Off(b) + k) % Cap
<1>1. Off(Wrapped(b + k)) = (b + k - tail) % Cap
  BY OffWrapped DEF LBAs
<1>2. b - tail = Cap * ((b - tail) \div Cap) + Off(b)
  BY CapFacts, ModDecomp DEF Off, LBAs
<1>3. (b + k - tail) - Cap * ((b - tail) \div Cap) = Off(b) + k
  <2>1. PICK q \in Int : q = (b - tail) \div Cap
    BY CapFacts DEF LBAs
  <2>2. PICK p \in Int : p = Cap * q
    BY <2>1, CapFacts
  <2>3. Off(b) \in Int
    BY OffRange DEF LBAs
  <2>4. b - tail = p + Off(b)
    BY <1>2, <2>1, <2>2
  <2>5. (b + k - tail) - p = Off(b) + k
    BY <2>2, <2>3, <2>4 DEF LBAs
  <2>6. QED
    BY <2>1, <2>2, <2>5
<1>4. (b - tail) \div Cap \in Int /\ b + k - tail \in Int
  BY CapFacts DEF LBAs
<1>5. ((b + k - tail) - Cap * ((b - tail) \div Cap)) % Cap = (b + k - tail) % Cap
  BY <1>4, CapFacts, ModShift, Zenon
<1>6. QED
  BY <1>1, <1>3, <1>5

\* An LBA is the one found its offset away from the tail.
LEMMA FromTailOff ==
    ASSUME NEW b \in LBAs, tail \in LBAs
    PROVE  Wrapped(tail + Off(b)) = b
BY CapFacts DEF Off, Wrapped, LBAs

\* Wrapping before an addition gives the same address as wrapping after it.
LEMMA WrapAdd ==
    ASSUME NEW x \in Int, NEW n \in Int
    PROVE  Wrapped(Wrapped(x) + n) = Wrapped(x + n)
<1>1. Wrapped(x) + n = (x + n) - Cap * (x \div Cap)
  BY CapFacts, ModDecomp DEF Wrapped
<1>2. x \div Cap \in Int /\ x + n \in Int
  BY CapFacts
<1>3. ((x + n) - Cap * (x \div Cap)) % Cap = (x + n) % Cap
  BY <1>2, CapFacts, ModShift, Zenon
<1>4. QED
  BY <1>1, <1>3 DEF Wrapped

\* Moving the tail d LBAs forward lowers every offset by d, and an LBA the
\* tail passed comes out at the far end of the log.
LEMMA OffRebase ==
    ASSUME tail \in LBAs, NEW d \in 0 .. Cap, NEW b \in LBAs
    PROVE  (b - Wrapped(tail + d)) % Cap =
               IF d <= Off(b) THEN Off(b) - d ELSE Off(b) - d + Cap
<1>1. CASE d <= Off(b)
  BY <1>1, CapFacts DEF Off, Wrapped, LBAs
<1>2. CASE ~(d <= Off(b))
  BY <1>2, CapFacts DEF Off, Wrapped, LBAs
<1>3. QED
  BY <1>1, <1>2

\* Rounding down to a multiple of the zone size.
LEMMA RoundDown ==
    ASSUME NEW a \in Nat
    PROVE  /\ (a \div ZoneCap) * ZoneCap \in 0 .. a
           /\ a - (a \div ZoneCap) * ZoneCap = a % ZoneCap
           /\ a % ZoneCap \in 0 .. ZoneCap - 1
           /\ ((a \div ZoneCap) * ZoneCap) % ZoneCap = 0
<1>1. a = ZoneCap * (a \div ZoneCap) + (a % ZoneCap) /\ a % ZoneCap \in 0 .. ZoneCap - 1
  BY CapFacts, ModDecomp
<1>2. a \div ZoneCap \in Nat
  BY CapFacts
<1>3. ((a \div ZoneCap) * ZoneCap) % ZoneCap = 0
  <2>1. PICK v \in Nat : v = a \div ZoneCap
    BY <1>2
  <2>2. v * ZoneCap = ZoneCap * v + 0 /\ v * ZoneCap \in Int /\ v \in Int /\ 0 \in 0 .. ZoneCap - 1
    BY CapFacts
  <2>3. (v * ZoneCap) % ZoneCap = 0
    BY <2>2, CapFacts, ModUnique
  <2>4. QED
    BY <2>1, <2>3
<1>4. QED
  BY <1>1, <1>2, <1>3, CapFacts

\* Zone-aligned moves along the log keep an address zone-aligned, since the
\* capacity is a whole number of zones.
LEMMA AlignedWrap ==
    ASSUME NEW x \in Int, NEW y \in Int, x % ZoneCap = 0, y % ZoneCap = 0
    PROVE  Wrapped(x + y) % ZoneCap = 0
<1>1. PICK p \in Int : p = x \div ZoneCap
  BY CapFacts
<1>2. PICK q \in Int : q = y \div ZoneCap
  BY CapFacts
<1>3. PICK c \in Int : c = (x + y) \div Cap
  BY CapFacts
<1>4. PICK w \in Int : w = Wrapped(x + y)
  BY CapFacts DEF Wrapped
<1>5. x = ZoneCap * p /\ y = ZoneCap * q
  BY <1>1, <1>2, CapFacts, ModDecomp
<1>6. x + y = Cap * c + w
  BY <1>3, <1>4, CapFacts, ModDecomp DEF Wrapped
<1>7. Cap = ZoneCap * NZones /\ NZones \in Nat
  BY L0LogAssumption DEF Cap
<1>8. w = ZoneCap * (p + q - NZones * c) + 0
  BY <1>5, <1>6, <1>7, CapFacts
<1>9. p + q - NZones * c \in Int /\ 0 \in 0 .. ZoneCap - 1
  BY <1>7, CapFacts
<1>10. QED
  BY <1>4, <1>8, <1>9, CapFacts, ModUnique, Zenon

\* Two LBAs at the same offset from the tail are the same LBA.
LEMMA OffInjective ==
    ASSUME NEW b1 \in LBAs, NEW b2 \in LBAs, tail \in LBAs, Off(b1) = Off(b2)
    PROVE  b1 = b2
BY FromTailOff

\* The LBAs of a table that fits in one turn of the log from the tail are
\* those whose offsets lie in [Off(lba), Off(lba) + lba_count).
LEMMA BlocksOff ==
    ASSUME NEW m, m.lba \in LBAs, m.lba_count \in Nat, tail \in LBAs,
           Off(m.lba) + m.lba_count <= Cap, NEW b \in LBAs
    PROVE  b \in Blocks(m) <=> Off(m.lba) <= Off(b) /\ Off(b) < Off(m.lba) + m.lba_count
<1>1. Off(m.lba) \in 0 .. Cap - 1 /\ Off(b) \in 0 .. Cap - 1
  BY OffRange DEF LBAs
<1>2. ASSUME NEW k \in 0 .. m.lba_count - 1
      PROVE  Off(Wrapped(m.lba + k)) = Off(m.lba) + k
  <2>1. k \in Nat /\ Off(m.lba) + k < Cap
    BY <1>1, CapFacts
  <2>2. QED
    BY <2>1, OffAdd, Zenon
<1>3. ASSUME b \in Blocks(m)
      PROVE  Off(m.lba) <= Off(b) /\ Off(b) < Off(m.lba) + m.lba_count
  <2>1. PICK k \in 0 .. m.lba_count - 1 : b = Wrapped(m.lba + k)
    BY <1>3 DEF Blocks
  <2>2. Off(b) = Off(m.lba) + k
    BY <2>1, <1>2
  <2>3. QED
    BY <2>1, <2>2, <1>1
<1>4. ASSUME Off(m.lba) <= Off(b), Off(b) < Off(m.lba) + m.lba_count
      PROVE  b \in Blocks(m)
  <2>. DEFINE k == Off(b) - Off(m.lba)
  <2>1. k \in 0 .. m.lba_count - 1
    BY <1>1, <1>4
  <2>2. Wrapped(m.lba + k) \in LBAs
    BY <2>1, CapFacts DEF Wrapped, LBAs
  <2>3. Off(Wrapped(m.lba + k)) = Off(b)
    BY <2>1, <1>2, <1>1
  <2>4. Wrapped(m.lba + k) = b
    BY <2>2, <2>3, OffInjective
  <2>5. QED
    BY <2>1, <2>4 DEF Blocks
<1>5. QED
  BY <1>3, <1>4

-----------------------------------------------------------------------------
(***************************************************************************)
(* The victims in on-log order: InLogOrder lists a finite set of metas     *)
(* with distinct numbers, each exactly once.  The i-th is the meta with    *)
(* i - 1 smaller numbers; these ranks are distinct and fill 0 .. n - 1.    *)
(***************************************************************************)
Smaller(S, m) == {x \in S : x.number < m.number}

Rank(S, m) == Cardinality(Smaller(S, m))

\* The rank of a meta of a finite set of n metas lies in 0 .. n - 1.
LEMMA RankRange ==
    ASSUME NEW S, IsFiniteSet(S), \A x \in S : x.number \in Nat, NEW m \in S
    PROVE  Rank(S, m) \in 0 .. Cardinality(S) - 1
<1>1. Smaller(S, m) \subseteq S \ {m}
  BY DEF Smaller
<1>2. IsFiniteSet(S \ {m}) /\ Cardinality(S \ {m}) = Cardinality(S) - 1
  BY FS_RemoveElement
<1>3. IsFiniteSet(Smaller(S, m)) /\ Cardinality(Smaller(S, m)) <= Cardinality(S) - 1
  BY <1>1, <1>2, FS_Subset
<1>4. Cardinality(Smaller(S, m)) \in Nat
  BY <1>3, FS_CardinalityType
<1>5. QED
  BY <1>3, <1>4 DEF Rank

\* A meta with a smaller number has a smaller rank.
LEMMA RankMonotone ==
    ASSUME NEW S, IsFiniteSet(S), \A x \in S : x.number \in Nat,
           NEW m1 \in S, NEW m2 \in S, m1.number < m2.number
    PROVE  Rank(S, m1) < Rank(S, m2)
<1>1. Smaller(S, m1) \subseteq Smaller(S, m2) \ {m1}
  <2>1. \A x \in Smaller(S, m1) : x.number < m2.number /\ x # m1
    BY DEF Smaller
  <2>2. QED
    BY <2>1 DEF Smaller
<1>2. m1 \in Smaller(S, m2)
  BY DEF Smaller
<1>3. IsFiniteSet(Smaller(S, m2))
  BY FS_Subset DEF Smaller
<1>4. IsFiniteSet(Smaller(S, m2) \ {m1})
      /\ Cardinality(Smaller(S, m2) \ {m1}) = Cardinality(Smaller(S, m2)) - 1
  BY <1>2, <1>3, FS_RemoveElement
<1>5. Cardinality(Smaller(S, m1)) <= Cardinality(Smaller(S, m2)) - 1
  BY <1>1, <1>4, FS_Subset
<1>6. Cardinality(Smaller(S, m2)) \in Nat /\ Cardinality(Smaller(S, m1)) \in Nat
  BY <1>3, <1>4, <1>1, FS_Subset, FS_CardinalityType
<1>7. QED
  BY <1>5, <1>6 DEF Rank

\* Distinct numbers give distinct ranks.
LEMMA RankInjective ==
    ASSUME NEW S, IsFiniteSet(S), \A m \in S : m.number \in Nat,
           \A m1, m2 \in S : m1.number = m2.number => m1 = m2,
           NEW m1 \in S, NEW m2 \in S, Rank(S, m1) = Rank(S, m2)
    PROVE  m1 = m2
<1>1. SUFFICES ASSUME m1.number # m2.number PROVE FALSE
  OBVIOUS
<1>2. Rank(S, m1) \in Nat /\ Rank(S, m2) \in Nat
  BY RankRange
<1>3. CASE m1.number < m2.number
  BY <1>2, <1>3, RankMonotone
<1>4. CASE m2.number < m1.number
  BY <1>2, <1>4, RankMonotone
<1>5. QED
  BY <1>1, <1>3, <1>4

\* Every rank in 0 .. n - 1 is taken by some meta.
LEMMA RankOnto ==
    ASSUME NEW S, IsFiniteSet(S), \A m \in S : m.number \in Nat,
           \A m1, m2 \in S : m1.number = m2.number => m1 = m2,
           NEW v \in 0 .. Cardinality(S) - 1
    PROVE  \E m \in S : Rank(S, m) = v
<1>1. SUFFICES ASSUME \A m \in S : Rank(S, m) # v PROVE FALSE
  OBVIOUS
<1>. DEFINE T == (0 .. Cardinality(S) - 1) \ {v}
            f == [m \in S |-> Rank(S, m)]
<1>2. Cardinality(S) \in Nat
  BY FS_CardinalityType
<1>3. IsFiniteSet(0 .. Cardinality(S) - 1)
      /\ Cardinality(0 .. Cardinality(S) - 1) = Cardinality(S)
  BY <1>2, FS_Interval
<1>4. IsFiniteSet(T) /\ Cardinality(T) = Cardinality(S) - 1
  BY <1>3, FS_RemoveElement
<1>5. f \in [S -> T]
  BY <1>1, RankRange
<1>6. IsFiniteSet(T) /\ Cardinality(T) < Cardinality(S)
  BY <1>2, <1>4
<1>7. \A g \in [S -> T] : \E x, y \in S : x # y /\ g[x] = g[y]
  BY <1>6, FS_PigeonHole
<1>8. PICK x, y \in S : x # y /\ f[x] = f[y]
  BY <1>5, <1>7
<1>9. QED
  BY <1>8, RankInjective

\* InLogOrder lists S: a sequence of its metas, without repeats, with all of them.
LEMMA InLogOrderFacts ==
    ASSUME NEW S, IsFiniteSet(S), \A m \in S : m.number \in Nat,
           \A m1, m2 \in S : m1.number = m2.number => m1 = m2
    PROVE  LET s == InLogOrder(S)
           IN  /\ s \in Seq(S)
               /\ Len(s) = Cardinality(S)
               /\ \A i, j \in 1 .. Len(s) : s[i] = s[j] => i = j
               /\ \A m \in S : \E i \in 1 .. Len(s) : s[i] = m
<1>. DEFINE s == InLogOrder(S)
            n == Cardinality(S)
<1>1. n \in Nat
  BY FS_CardinalityType
<1>2. \A i \in 1 .. n : s[i] \in S /\ Rank(S, s[i]) = i - 1
  <2>1. SUFFICES ASSUME NEW i \in 1 .. n PROVE s[i] \in S /\ Rank(S, s[i]) = i - 1
    OBVIOUS
  <2>2. \E m \in S : Rank(S, m) = i - 1
    BY <1>1, RankOnto
  <2>3. QED
    BY <2>2 DEF InLogOrder, Rank, Smaller
<1>3. s \in [1 .. n -> S]
  BY <1>2 DEF InLogOrder
<1>4. s \in Seq(S) /\ Len(s) = n
  BY <1>1, <1>3, SeqDef
<1>5. \A i, j \in 1 .. n : s[i] = s[j] => i = j
  BY <1>2
<1>6. \A m \in S : \E i \in 1 .. n : s[i] = m
  <2>1. SUFFICES ASSUME NEW m \in S PROVE \E i \in 1 .. n : s[i] = m
    OBVIOUS
  <2>2. PICK i \in 1 .. n : i = Rank(S, m) + 1
    BY <1>1, RankRange
  <2>3. s[i] \in S /\ Rank(S, s[i]) = Rank(S, m)
    BY <2>2, <1>2, RankRange
  <2>4. s[i] = m
    BY <2>3, RankInjective
  <2>5. QED
    BY <2>4
<1>7. QED
  BY <1>4, <1>5, <1>6

-----------------------------------------------------------------------------
(***************************************************************************)
(* The walk of TryInvalidateSSZones.  WalkFn is a recursive function; the  *)
(* equation that defines it holds once a function satisfying it exists,   *)
(* which follows by induction on its length, taken as the least length     *)
(* with no such function (WFMin on the naturals).                          *)
(***************************************************************************)
WalkEq(s, n, g) ==
    g = [i \in 1 .. n |-> IF i = 1 THEN WalkStart(s) ELSE WalkStep(g[i - 1], s[i], i)]

\* For every length n there is a walk of the first n metas.
LEMMA WalkExists ==
    ASSUME NEW s, NEW n \in Nat \ {0}
    PROVE  \E g : WalkEq(s, n, g)
<1>. DEFINE T == {k \in Nat \ {0} : ~ \E g : WalkEq(s, k, g)}
<1>1. SUFFICES ASSUME T # {} PROVE FALSE
  OBVIOUS
<1>2. PICK k \in T : \A j \in T : <<j, k>> \notin OpToRel(<, Nat)
  BY <1>1, WFMin, NatLessThanWellFounded, Zenon
<1>3. \A j \in Nat \ {0} : j < k => \E g : WalkEq(s, j, g)
  BY <1>2 DEF OpToRel
<1>4. CASE k = 1
  <2>1. WalkEq(s, 1, [i \in 1 .. 1 |-> WalkStart(s)])
    BY DEF WalkEq
  <2>2. QED
    BY <1>2, <1>4, <2>1
<1>5. CASE k # 1
  <2>1. k - 1 \in Nat \ {0} /\ k - 1 < k
    BY <1>5
  <2>2. PICK g : WalkEq(s, k - 1, g)
    BY <1>3, <2>1
  <2>. DEFINE h == [i \in 1 .. k |-> IF i < k THEN g[i] ELSE WalkStep(g[k - 1], s[k], k)]
  <2>3. \A i \in 1 .. k - 1 : h[i] = g[i]
    OBVIOUS
  <2>4. WalkEq(s, k, h)
    BY <2>2, <2>3, <1>5 DEF WalkEq
  <2>5. QED
    BY <1>2, <2>4
<1>6. QED
  BY <1>4, <1>5

\* The equation of the walk.
LEMMA WalkFnDef ==
    ASSUME NEW s, Len(s) \in Nat \ {0}
    PROVE  WalkEq(s, Len(s), WalkFn(s))
<1>1. \E g : WalkEq(s, Len(s), g)
  BY WalkExists
<1>2. QED
  BY <1>1 DEF WalkFn, WalkEq

\* The offset just past the end of table m.
End(m) == Off(m.lba) + m.lba_count

(***************************************************************************)
(* What the walk knows after s[1..i], when s lists distinct tables and     *)
(* starts at the tail: the walk stands at s[j] (at s[i] unless it has      *)
(* stopped); s[1..j] lie one after the other from offset 0 and cover       *)
(* [0, End(s[j])); blocks_to_delete + blocks is End(s[j]); and             *)
(* blocks_to_delete is the end of s[upto], whose number the mock carries.  *)
(***************************************************************************)
WalkFields == {"blocks", "btd", "upto", "prev", "mocknum", "stop", "corrupt"}

WIAt(s, i, acc, j) ==
    /\ acc.prev = s[j]
    /\ ~acc.stop => j = i
    /\ acc.blocks \in Nat /\ acc.btd \in Nat
    /\ acc.btd + acc.blocks = End(s[j])
    /\ \A x \in 0 .. End(s[j]) - 1 :
          \E k \in 1 .. j : Off(s[k].lba) <= x /\ x < End(s[k])
    /\ \A k1, k2 \in 1 .. j : k1 < k2 => End(s[k1]) <= Off(s[k2].lba)
    /\ acc.upto \in 0 .. j
    /\ acc.upto = 0 => acc.btd = 0
    /\ acc.upto # 0 => /\ acc.btd = End(s[acc.upto])
                       /\ acc.mocknum = s[acc.upto].number

WI(s, i, acc) ==
    /\ DOMAIN acc = WalkFields
    /\ acc.stop \in BOOLEAN
    /\ \E j \in 1 .. i : WIAt(s, i, acc, j)

\* The metas of the state lie inside the LBA range with counts 1 .. Cap.
LEMMA TableType ==
    ASSUME IInv, NEW m \in Tables
    PROVE  /\ m.lba \in LBAs /\ m.lba_count \in 1 .. Cap /\ m.number \in Numbers
           /\ Off(m.lba) \in 0 .. Cap - 1
           /\ End(m) \in 1 .. used
<1>1. m \in Metas
  BY DEF IInv, TypeOK, Tables
<1>2. tail \in LBAs /\ used \in 0 .. Cap
  BY DEF IInv, TypeOK
<1>3. Off(m.lba) \in 0 .. Cap - 1
  BY <1>1, <1>2, OffRange DEF Metas, LBAs
<1>4. Off(m.lba) + m.lba_count <= used
  BY DEF IInv
<1>5. QED
  BY <1>1, <1>3, <1>4 DEF Metas, End

\* Two distinct tables whose offset ranges meet are the same table.
LEMMA Overlap ==
    ASSUME IInv, NEW m1 \in Tables, NEW m2 \in Tables, NEW x \in Int,
           Off(m1.lba) <= x, x < End(m1), Off(m2.lba) <= x, x < End(m2)
    PROVE  m1 = m2
<1>1. SUFFICES ASSUME m1 # m2 PROVE FALSE
  OBVIOUS
<1>2. End(m1) <= Off(m2.lba) \/ End(m2) <= Off(m1.lba)
  BY <1>1 DEF IInv, End
<1>3. QED
  BY <1>2, TableType

\* A table that follows another one on the device starts, in offsets, at
\* its end: it cannot wrap around to offset 0, which the tail table holds.
LEMMA AdjacentOff ==
    ASSUME IInv, NEW m \in Tables, NEW n \in Tables, NEW f \in Tables,
           Off(f.lba) = 0, n # f,
           Wrapped(m.lba + m.lba_count) = n.lba
    PROVE  Off(n.lba) = End(m)
<1>1. tail \in LBAs /\ used \in 0 .. Cap
  BY DEF IInv, TypeOK
<1>2. Off(n.lba) = End(m) % Cap
  BY <1>1, TableType, OffAddMod DEF End
<1>3. End(m) \in 1 .. Cap
  BY <1>1, TableType, CapFacts
<1>4. CASE End(m) < Cap
  BY <1>2, <1>3, <1>4, CapFacts, ModSmall
<1>5. CASE End(m) = Cap
  <2>1. Off(n.lba) = 0
    BY <1>2, <1>5, CapFacts
  <2>2. 0 < End(f) /\ 0 < End(n)
    BY TableType
  <2>3. QED
    BY <2>1, <2>2, Overlap, TableType
<1>6. QED
  BY <1>3, <1>4, <1>5, CapFacts

\* The victims s of a tail walk: distinct tables, the first at the tail.
WalkCtx(s) ==
    /\ Len(s) \in Nat \ {0}
    /\ \A i \in 1 .. Len(s) : s[i] \in Tables
    /\ \A i, j \in 1 .. Len(s) : s[i] = s[j] => i = j
    /\ s[1].lba = tail

\* The tail is at offset 0.
LEMMA OffTail ==
    ASSUME tail \in LBAs
    PROVE  Off(tail) = 0
<1>1. tail - tail = 0
  BY DEF LBAs
<1>2. QED
  BY <1>1, CapFacts, ModSmall DEF Off

\* Before the loop, the walk stands at the first victim, which starts at the tail.
LEMMA WalkBase ==
    ASSUME IInv, NEW s, WalkCtx(s)
    PROVE  WI(s, 1, WalkStart(s))
<1>1. s[1] \in Tables /\ tail \in LBAs
  BY DEF WalkCtx, IInv, TypeOK
<1>2. Off(s[1].lba) = 0
  BY <1>1, OffTail DEF WalkCtx
<1>3. s[1].lba % ZoneCap = 0
  BY DEF WalkCtx, IInv
<1>4. s[1].lba_count \in 1 .. Cap
  BY <1>1, TableType
<1>5. End(s[1]) = s[1].lba_count
  BY <1>2, <1>4 DEF End
<1>6. \A x \in 0 .. End(s[1]) - 1 : Off(s[1].lba) <= x /\ x < End(s[1])
  BY <1>2, <1>4, <1>5
<1>7. QED
  BY <1>3, <1>4, <1>5, <1>6 DEF WI, WIAt, WalkStart, WalkFields

\* Once the walk has stopped, or stops at s[i], it keeps what it knew.
LEMMA WalkStepStop ==
    ASSUME NEW s, NEW i \in Nat \ {0}, NEW acc, NEW res, NEW j \in 1 .. i - 1,
           DOMAIN acc = WalkFields, WIAt(s, i - 1, acc, j),
           \/ res = acc /\ acc.stop = TRUE
           \/ res = [acc EXCEPT !.stop = TRUE, !.corrupt = TRUE]
           \/ res = [acc EXCEPT !.stop = TRUE]
    PROVE  WI(s, i, res)
<1>1. DOMAIN res = WalkFields /\ res.stop = TRUE
  BY DEF WalkFields
<1>2. /\ res.prev = acc.prev /\ res.blocks = acc.blocks /\ res.btd = acc.btd
      /\ res.upto = acc.upto /\ res.mocknum = acc.mocknum
  BY DEF WalkFields
<1>3. WIAt(s, i, res, j)
  BY <1>1, <1>2 DEF WIAt
<1>4. j \in 1 .. i
  OBVIOUS
<1>5. res.stop \in BOOLEAN
  BY <1>1, Zenon
<1>6. QED
  BY <1>1, <1>3, <1>4, <1>5 DEF WI

\* Advancing to an adjacent s[i] extends the run s[1..i-1] by s[i].
LEMMA WalkAdvanceAt ==
    ASSUME IInv, NEW s, WalkCtx(s), NEW i \in 2 .. Len(s), NEW acc,
           WIAt(s, i - 1, acc, i - 1),
           Wrapped(s[i - 1].lba + s[i - 1].lba_count) = s[i].lba
    PROVE  /\ Off(s[i].lba) = End(s[i - 1])
           /\ End(s[i]) = End(s[i - 1]) + s[i].lba_count
           /\ \A x \in 0 .. End(s[i]) - 1 :
                 \E k \in 1 .. i : Off(s[k].lba) <= x /\ x < End(s[k])
           /\ \A k1, k2 \in 1 .. i : k1 < k2 => End(s[k1]) <= Off(s[k2].lba)
<1>0. Len(s) \in Nat /\ i \in Nat /\ i >= 2
  BY DEF WalkCtx
<1>. USE <1>0
<1>1. s[i] \in Tables /\ s[i - 1] \in Tables /\ s[1] \in Tables /\ s[i] # s[1]
  BY DEF WalkCtx
<1>2. Off(s[1].lba) = 0
  BY OffTail DEF WalkCtx, IInv, TypeOK
<1>3. Off(s[i].lba) = End(s[i - 1])
  BY <1>1, <1>2, AdjacentOff
<1>4. End(s[i]) = End(s[i - 1]) + s[i].lba_count
  BY <1>3 DEF End
<1>5. \A k \in 1 .. i : s[k] \in Tables /\ End(s[k]) \in Nat /\ Off(s[k].lba) \in Nat
  BY TableType DEF WalkCtx
<1>9. End(s[i - 1]) \in Nat /\ Off(s[i - 1].lba) \in Nat /\ Off(s[i - 1].lba) <= End(s[i - 1])
  BY <1>1, TableType DEF End
<1>6. \A x \in 0 .. End(s[i]) - 1 :
         \E k \in 1 .. i : Off(s[k].lba) <= x /\ x < End(s[k])
  <2>1. SUFFICES ASSUME NEW x \in 0 .. End(s[i]) - 1
                 PROVE  \E k \in 1 .. i : Off(s[k].lba) <= x /\ x < End(s[k])
    OBVIOUS
  <2>2. CASE x < End(s[i - 1])
    <3>1. x \in 0 .. End(s[i - 1]) - 1
      BY <2>2, <1>5
    <3>2. PICK k \in 1 .. i - 1 : Off(s[k].lba) <= x /\ x < End(s[k])
      BY <3>1 DEF WIAt
    <3>3. QED
      BY <3>2
  <2>3. CASE ~(x < End(s[i - 1]))
    BY <2>3, <1>3, <1>5
  <2>4. QED
    BY <2>2, <2>3
<1>7. \A k1, k2 \in 1 .. i : k1 < k2 => End(s[k1]) <= Off(s[k2].lba)
  <2>1. SUFFICES ASSUME NEW k1 \in 1 .. i, NEW k2 \in 1 .. i, k1 < k2
                 PROVE  End(s[k1]) <= Off(s[k2].lba)
    OBVIOUS
  <2>2. CASE k2 < i
    <3>1. k1 \in 1 .. i - 1 /\ k2 \in 1 .. i - 1
      BY <2>1, <2>2
    <3>2. \A a, b \in 1 .. i - 1 : a < b => End(s[a]) <= Off(s[b].lba)
      BY DEF WIAt
    <3>3. QED
      BY <2>1, <3>1, <3>2
  <2>3. CASE k2 = i /\ k1 = i - 1
    <3>1. s[k1] = s[i - 1] /\ s[k2] = s[i]
      BY <2>3
    <3>2. QED
      BY <3>1, <1>3, <1>9
  <2>4. CASE k2 = i /\ k1 < i - 1
    <3>1. \A a, b \in 1 .. i - 1 : a < b => End(s[a]) <= Off(s[b].lba)
      BY DEF WIAt
    <3>2. k1 \in 1 .. i - 1 /\ i - 1 \in 1 .. i - 1 /\ k1 < i - 1
      BY <2>4
    <3>3. End(s[k1]) <= Off(s[i - 1].lba)
      BY <3>1, <3>2
    <3>4. s[k2] = s[i]
      BY <2>4
    <3>5. End(s[k1]) \in Nat
      BY <1>5, <2>1
    <3>6. QED
      BY <3>3, <3>4, <3>5, <1>3, <1>9
  <2>5. QED
    BY <2>1, <2>2, <2>3, <2>4
<1>8. QED
  BY <1>3, <1>4, <1>6, <1>7

\* One iteration of the loop keeps what the walk knows.
LEMMA WalkStepInv ==
    ASSUME IInv, NEW s, WalkCtx(s), NEW i \in 2 .. Len(s), NEW acc, WI(s, i - 1, acc)
    PROVE  WI(s, i, WalkStep(acc, s[i], i))
<1>0. Len(s) \in Nat /\ i \in Nat /\ i >= 2
  BY DEF WalkCtx
<1>. USE <1>0
<1>1. DOMAIN acc = WalkFields /\ acc.stop \in BOOLEAN
  BY DEF WI
<1>2. PICK j \in 1 .. i - 1 : WIAt(s, i - 1, acc, j)
  BY DEF WI
<1>8. i \in Nat \ {0} /\ j \in 1 .. i - 1
  BY <1>2
<1>. DEFINE m == s[i]
            b == acc.blocks + m.lba_count
            res == WalkStep(acc, s[i], i)
<1>3. CASE acc.stop
  <2>1. res = acc /\ acc.stop = TRUE
    BY <1>1, <1>3 DEF WalkStep
  <2>2. WI(s, i, res)
    BY <1>1, <1>2, <1>8, <2>1, WalkStepStop, Zenon
  <2>3. QED
    BY <2>2
<1>4. CASE ~acc.stop /\ acc.prev.number = m.number
  <2>1. res = [acc EXCEPT !.stop = TRUE, !.corrupt = TRUE]
    BY <1>4 DEF WalkStep
  <2>2. WI(s, i, res)
    BY <1>1, <1>2, <1>8, <2>1, WalkStepStop, Zenon
  <2>3. QED
    BY <2>2
<1>5. CASE ~acc.stop /\ acc.prev.number # m.number
           /\ Wrapped(acc.prev.lba + acc.prev.lba_count) # m.lba
  <2>1. res = [acc EXCEPT !.stop = TRUE]
    BY <1>5 DEF WalkStep
  <2>2. WI(s, i, res)
    BY <1>1, <1>2, <1>8, <2>1, WalkStepStop, Zenon
  <2>3. QED
    BY <2>2
<1>6. CASE ~acc.stop /\ acc.prev.number # m.number
           /\ Wrapped(acc.prev.lba + acc.prev.lba_count) = m.lba
  <2>1. j = i - 1 /\ acc.prev = s[i - 1]
    BY <1>2, <1>6 DEF WIAt
  <2>2. WIAt(s, i - 1, acc, i - 1)
    BY <1>2, <2>1
  <2>3. Wrapped(s[i - 1].lba + s[i - 1].lba_count) = s[i].lba
    BY <1>6, <2>1
  <2>4. /\ Off(s[i].lba) = End(s[i - 1])
        /\ End(s[i]) = End(s[i - 1]) + s[i].lba_count
        /\ \A x \in 0 .. End(s[i]) - 1 :
              \E k \in 1 .. i : Off(s[k].lba) <= x /\ x < End(s[k])
        /\ \A k1, k2 \in 1 .. i : k1 < k2 => End(s[k1]) <= Off(s[k2].lba)
    BY <2>2, <2>3, WalkAdvanceAt
  <2>5. acc.blocks \in Nat /\ acc.btd \in Nat /\ acc.btd + acc.blocks = End(s[i - 1])
        /\ acc.upto \in 0 .. i - 1
        /\ (acc.upto = 0 => acc.btd = 0)
        /\ (acc.upto # 0 => acc.btd = End(s[acc.upto]) /\ acc.mocknum = s[acc.upto].number)
    BY <2>2 DEF WIAt
  <2>6. m \in Tables /\ m.lba_count \in 1 .. Cap
    BY TableType DEF WalkCtx
  <2>7. CASE b >= ZoneCap
    <3>. DEFINE r2 == [acc EXCEPT !.blocks = 0, !.btd = @ + b, !.upto = i,
                                  !.prev = m, !.mocknum = m.number]
    <3>1. res = r2
      BY <1>6, <2>7 DEF WalkStep
    <3>2. DOMAIN r2 = WalkFields /\ r2.stop = acc.stop
          /\ r2.blocks = 0 /\ r2.btd = acc.btd + b /\ r2.upto = i
          /\ r2.prev = m /\ r2.mocknum = m.number
      BY <1>1 DEF WalkFields
    <3>3. r2.btd = End(s[i]) /\ r2.btd \in Nat
      BY <3>2, <2>4, <2>5, <2>6
    <3>4. WIAt(s, i, r2, i)
      BY <3>2, <3>3, <2>4 DEF WIAt
    <3>5. QED
      BY <1>1, <3>1, <3>2, <3>4 DEF WI
  <2>8. CASE ~(b >= ZoneCap)
    <3>. DEFINE r2 == [acc EXCEPT !.blocks = b, !.prev = m]
    <3>1. res = r2
      BY <1>6, <2>8 DEF WalkStep
    <3>2. DOMAIN r2 = WalkFields /\ r2.stop = acc.stop
          /\ r2.blocks = b /\ r2.btd = acc.btd /\ r2.upto = acc.upto
          /\ r2.prev = m /\ r2.mocknum = acc.mocknum
      BY <1>1 DEF WalkFields
    <3>3. r2.btd + r2.blocks = End(s[i]) /\ r2.blocks \in Nat
      BY <3>2, <2>4, <2>5, <2>6
    <3>4. r2.upto \in 0 .. i
      BY <3>2, <2>5
    <3>5. WIAt(s, i, r2, i)
      BY <3>2, <3>3, <3>4, <2>4, <2>5 DEF WIAt
    <3>6. QED
      BY <1>1, <3>1, <3>2, <3>5 DEF WI
  <2>9. QED
    BY <2>7, <2>8
<1>7. QED
  BY <1>1, <1>3, <1>4, <1>5, <1>6

\* What the walk knows holds after every prefix of the victims, by
\* induction on the prefix: the least prefix where it failed cannot exist.
LEMMA WalkInv ==
    ASSUME IInv, NEW s, WalkCtx(s)
    PROVE  \A i \in 1 .. Len(s) : WI(s, i, WalkFn(s)[i])
<1>0. Len(s) \in Nat \ {0}
  BY DEF WalkCtx
<1>1. WalkEq(s, Len(s), WalkFn(s))
  BY <1>0, WalkFnDef
<1>2. \A i \in 1 .. Len(s) :
         WalkFn(s)[i] = IF i = 1 THEN WalkStart(s) ELSE WalkStep(WalkFn(s)[i - 1], s[i], i)
  BY <1>1 DEF WalkEq
<1>. DEFINE T == {i \in Nat \ {0} : i <= Len(s) /\ ~WI(s, i, WalkFn(s)[i])}
<1>3. SUFFICES ASSUME T # {} PROVE FALSE
  BY <1>0
<1>4. PICK k \in T : \A j \in T : <<j, k>> \notin OpToRel(<, Nat)
  BY <1>3, WFMin, NatLessThanWellFounded, Zenon
<1>5. k \in 1 .. Len(s) /\ ~WI(s, k, WalkFn(s)[k])
  <2>1. k \in Nat \ {0} /\ k <= Len(s) /\ ~WI(s, k, WalkFn(s)[k])
    BY <1>4, Zenon
  <2>2. QED
    BY <1>0, <2>1
<1>6. CASE k = 1
  <2>1. WalkFn(s)[1] = WalkStart(s)
    BY <1>0, <1>2
  <2>2. QED
    BY <1>5, <1>6, <2>1, WalkBase
<1>7. CASE k # 1
  <2>1. k - 1 \in 1 .. Len(s) /\ k \in 2 .. Len(s)
    BY <1>5, <1>7
  <2>2. WI(s, k - 1, WalkFn(s)[k - 1])
    <3>1. k - 1 \notin T
      <4>1. <<k - 1, k>> \in OpToRel(<, Nat)
        BY <2>1, <1>0 DEF OpToRel
      <4>2. QED
        BY <4>1, <1>4, Zenon
    <3>2. QED
      BY <3>1, <2>1
  <2>3. WalkFn(s)[k] = WalkStep(WalkFn(s)[k - 1], s[k], k)
    BY <1>2, <1>7, <2>1
  <2>4. WI(s, k, WalkStep(WalkFn(s)[k - 1], s[k], k))
    BY <2>1, <2>2, WalkStepInv
  <2>5. QED
    BY <1>5, <2>3, <2>4
<1>8. QED
  BY <1>6, <1>7

-----------------------------------------------------------------------------
(***************************************************************************)
(* TryInvalidateSSZones: what the walk over the queued victims yields.     *)
(***************************************************************************)
Victims == InLogOrder(pending)

WalkRes == Walk(Victims)

\* The queue of victims is finite: their numbers are distinct table numbers.
LEMMA PendingFinite ==
    ASSUME IInv
    PROVE  IsFiniteSet(pending)
<1>. DEFINE f == [m \in pending |-> m.number]
<1>1. f \in [pending -> Numbers]
  BY TableType DEF Tables
<1>2. \A a, b \in pending : f[a] = f[b] => a = b
  BY DEF IInv, Tables
<1>3. f \in Injection(pending, Numbers)
  BY <1>1, <1>2 DEF Injection, IsInjective
<1>4. IsFiniteSet(Numbers)
  BY L0LogAssumption, FS_Interval DEF Numbers
<1>5. QED
  BY <1>3, <1>4, FS_Injection

\* The victims listed in log order, and what the walk over them returns:
\* every table that starts before blocks_to_delete is one of s[1..upto],
\* and each of those ends by blocks_to_delete.
LEMMA ReclaimFacts ==
    ASSUME IInv, pending # {}, tail = Victims[1].lba
    PROVE  LET s == Victims
               r == WalkRes
           IN  /\ s \in Seq(pending)
               /\ Len(s) \in Nat \ {0}
               /\ \A i, j \in 1 .. Len(s) : s[i] = s[j] => i = j
               /\ \A m \in pending : \E i \in 1 .. Len(s) : s[i] = m
               /\ r.upto \in 0 .. Len(s) /\ r.btd \in Nat
               /\ r.upto = 0 => r.btd = 0
               /\ r.upto # 0 => /\ r.btd = End(s[r.upto])
                                /\ r.mocknum = s[r.upto].number
               /\ \A m \in Tables : Off(m.lba) < r.btd =>
                     \E k \in 1 .. r.upto : m = s[k]
               /\ \A k \in 1 .. r.upto : End(s[k]) <= r.btd
<1>. DEFINE s == Victims
            r == WalkRes
<1>1. IsFiniteSet(pending)
  BY PendingFinite
<1>2. \A m \in pending : m.number \in Nat
  BY TableType DEF Tables, Numbers
<1>3. \A m1, m2 \in pending : m1.number = m2.number => m1 = m2
  BY DEF IInv, Tables
<1>4. /\ s \in Seq(pending)
      /\ Len(s) = Cardinality(pending)
      /\ \A i, j \in 1 .. Len(s) : s[i] = s[j] => i = j
      /\ \A m \in pending : \E i \in 1 .. Len(s) : s[i] = m
  BY <1>1, <1>2, <1>3, InLogOrderFacts DEF Victims
<1>5. Len(s) \in Nat \ {0}
  BY <1>1, <1>4, FS_EmptySet, FS_CardinalityType
<1>6. WalkCtx(s)
  <2>1. \A i \in 1 .. Len(s) : s[i] \in Tables
    BY <1>4, <1>5, ElementOfSeq DEF Tables
  <2>2. QED
    BY <1>4, <1>5, <2>1 DEF WalkCtx
<1>7. WI(s, Len(s), r)
  BY <1>5, <1>6, WalkInv DEF WalkRes, Walk
<1>8. PICK j \in 1 .. Len(s) : WIAt(s, Len(s), r, j)
  BY <1>7 DEF WI
<1>9. r.upto \in 0 .. j /\ r.btd \in Nat /\ j \in Nat
  BY <1>8, <1>5 DEF WIAt
<1>10. \A k \in 1 .. Len(s) :
          /\ s[k] \in Tables /\ End(s[k]) \in Nat /\ Off(s[k].lba) \in Nat
          /\ Off(s[k].lba) < End(s[k])
  BY <1>6, TableType DEF WalkCtx, End
<1>. DEFINE u == r.upto
<1>11. \A k1, k2 \in 1 .. j : k1 < k2 => End(s[k1]) <= Off(s[k2].lba)
  BY <1>8 DEF WIAt
<1>12. u # 0 => /\ u \in 1 .. j /\ r.btd = End(s[u])
                /\ s[u] \in Tables /\ End(s[u]) \in Nat /\ Off(s[u].lba) \in Nat
                /\ Off(s[u].lba) < End(s[u])
  <2>1. u # 0 => u \in 1 .. j /\ r.btd = End(s[u])
    BY <1>8, <1>9 DEF WIAt
  <2>2. QED
    BY <2>1, <1>10, <1>5
<1>13. \A k \in 1 .. u : End(s[k]) <= r.btd
  <2>1. SUFFICES ASSUME NEW k \in 1 .. u PROVE End(s[k]) <= r.btd
    OBVIOUS
  <2>2. u \in 1 .. j /\ r.btd = End(s[u]) /\ k \in 1 .. j
    BY <2>1, <1>12, <1>9
  <2>3. End(s[k]) \in Nat /\ Off(s[k].lba) \in Nat
    BY <2>2, <1>10, <1>5
  <2>4. CASE k = u
    BY <2>2, <2>3, <2>4
  <2>5. CASE k # u
    <3>1. k < u
      BY <2>1, <2>2, <2>5
    <3>2. End(s[k]) <= Off(s[u].lba)
      BY <3>1, <2>2, <1>11
    <3>3. QED
      BY <3>2, <2>2, <2>3, <1>12
  <2>6. QED
    BY <2>4, <2>5
<1>14. \A m \in Tables : Off(m.lba) < r.btd => \E k \in 1 .. u : m = s[k]
  <2>1. SUFFICES ASSUME NEW m \in Tables, Off(m.lba) < r.btd
                 PROVE  \E k \in 1 .. u : m = s[k]
    OBVIOUS
  <2>2. u # 0
    <3>1. Off(m.lba) \in Nat
      BY <2>1, TableType
    <3>2. QED
      BY <2>1, <3>1, <1>8 DEF WIAt
  <2>3. u \in 1 .. j /\ r.btd = End(s[u]) /\ Off(s[u].lba) < End(s[u])
    BY <2>2, <1>12
  <2>4. s[j] \in Tables /\ End(s[j]) \in Nat /\ Off(s[j].lba) \in Nat
    BY <1>10, <1>9, <1>5
  <2>5. r.btd <= End(s[j])
    <3>1. CASE u = j
      BY <3>1, <2>3, <2>4
    <3>2. CASE u # j
      <4>1. u < j
        BY <3>2, <2>3
      <4>2. End(s[u]) <= Off(s[j].lba)
        BY <4>1, <2>3, <1>11, <1>9
      <4>3. Off(s[j].lba) <= End(s[j])
        BY <2>4, TableType DEF End
      <4>4. QED
        BY <4>2, <4>3, <2>3, <2>4, <1>12, <2>2
    <3>3. QED
      BY <3>1, <3>2
  <2>6. Off(m.lba) \in 0 .. End(s[j]) - 1
    <3>1. Off(m.lba) \in 0 .. Cap - 1
      BY <2>1, TableType
    <3>2. QED
      BY <2>1, <2>5, <2>4, <3>1, <1>9, CapFacts
  <2>7. PICK k \in 1 .. j : Off(s[k].lba) <= Off(m.lba) /\ Off(m.lba) < End(s[k])
    BY <1>8, <2>6 DEF WIAt
  <2>8. s[k] \in Tables /\ Off(s[k].lba) \in Nat
    BY <2>7, <1>10, <1>9, <1>5
  <2>9. m = s[k]
    <3>1. Off(m.lba) < End(m) /\ Off(m.lba) \in Nat
      BY <2>1, TableType DEF End
    <3>2. QED
      BY <2>1, <2>7, <2>8, <3>1, Overlap
  <2>10. k <= u
    <3>1. SUFFICES ASSUME ~(k <= u) PROVE FALSE
      OBVIOUS
    <3>2. u < k /\ u \in 1 .. j /\ k \in 1 .. j
      BY <3>1, <2>3, <2>7, <1>9
    <3>3. End(s[u]) <= Off(s[k].lba)
      BY <3>2, <1>11
    <3>4. QED
      BY <3>3, <2>1, <2>3, <2>9, <2>8, <1>12, <2>2
  <2>11. QED
    BY <2>7, <2>9, <2>10, <1>9
<1>15. QED
  BY <1>4, <1>5, <1>8, <1>9, <1>13, <1>14 DEF WIAt

\* What one call of TryInvalidateSSZones frees: the whole zones below the
\* end of the last table the walk consumed, the remainder it re-queues as a
\* mock meta, and the victims the walk did not reach.
Safe == (WalkRes.btd \div ZoneCap) * ZoneCap

Mock == [number |-> WalkRes.mocknum, lba |-> Wrapped(tail + Safe),
         lba_count |-> WalkRes.btd - Safe]

Rest == {Victims[k] : k \in WalkRes.upto + 1 .. Len(Victims)}

\* The blocks the walk consumed lie in the window, and Safe rounds them down
\* to whole zones.
LEMMA ReclaimBounds ==
    ASSUME IInv, pending # {}, tail = Victims[1].lba
    PROVE  /\ WalkRes.btd \in 0 .. used
           /\ Safe \in 0 .. WalkRes.btd
           /\ Safe % ZoneCap = 0
           /\ WalkRes.btd - Safe = WalkRes.btd % ZoneCap
           /\ WalkRes.btd % ZoneCap \in 0 .. ZoneCap - 1
<1>1. WalkRes.btd \in Nat /\ WalkRes.upto \in 0 .. Len(Victims)
      /\ Victims \in Seq(pending)
      /\ (WalkRes.upto = 0 => WalkRes.btd = 0)
      /\ (WalkRes.upto # 0 => WalkRes.btd = End(Victims[WalkRes.upto]))
  BY ReclaimFacts
<1>2. WalkRes.btd <= used
  <2>1. CASE WalkRes.upto = 0
    BY <1>1, <2>1 DEF IInv, TypeOK
  <2>2. CASE WalkRes.upto # 0
    <3>1. Victims[WalkRes.upto] \in Tables
      BY <1>1, <2>2, ElementOfSeq DEF Tables
    <3>2. End(Victims[WalkRes.upto]) \in 1 .. used
      BY <3>1, TableType
    <3>3. QED
      BY <1>1, <2>2, <3>2
  <2>3. QED
    BY <2>1, <2>2
<1>3. /\ Safe \in 0 .. WalkRes.btd
      /\ Safe % ZoneCap = 0
      /\ WalkRes.btd - Safe = WalkRes.btd % ZoneCap
      /\ WalkRes.btd % ZoneCap \in 0 .. ZoneCap - 1
  BY <1>1, RoundDown DEF Safe
<1>4. QED
  BY <1>1, <1>2, <1>3

\* TryInvalidateSSZones, with both outcomes of ConsumeTail in one form: the
\* LBAs less than Safe past the tail are freed and the tail moves past them.
LEMMA ReclaimEffect ==
    ASSUME IInv, TryInvalidateSSZones
    PROVE  /\ pending # {} /\ tail = Victims[1].lba /\ ~WalkRes.corrupt
           /\ pending' = IF WalkRes.btd % ZoneCap # 0 THEN {Mock} \cup Rest ELSE Rest
           /\ tail' = Wrapped(tail + Safe)
           /\ used' = used - Safe
           /\ owner' = [b \in LBAs |-> IF Off(b) < Safe THEN Free ELSE owner[b]]
           /\ UNCHANGED <<head, live, nextNumber>>
<1>1. /\ pending # {} /\ tail = Victims[1].lba /\ ~WalkRes.corrupt
      /\ pending' = IF WalkRes.btd % ZoneCap # 0 THEN {Mock} \cup Rest ELSE Rest
      /\ IF Safe > 0 THEN ConsumeTail(Safe) ELSE UNCHANGED <<owner, tail, used>>
      /\ UNCHANGED <<head, live, nextNumber>>
  BY DEF TryInvalidateSSZones, Victims, WalkRes, Safe, Mock, Rest
<1>2. Safe \in 0 .. used /\ tail \in LBAs /\ used \in 0 .. Cap
  BY <1>1, ReclaimBounds DEF IInv, TypeOK
<1>3. \A b \in LBAs : Off(b) \in 0 .. Cap - 1
  BY <1>2, OffRange DEF LBAs
<1>4. CASE Safe > 0
  <2>. DEFINE z == [lba |-> tail, lba_count |-> Safe]
  <2>1. Off(tail) = 0
    BY <1>2, CapFacts DEF Off, LBAs
  <2>2. \A b \in LBAs : b \in Blocks(z) <=> Off(b) < Safe
    <3>1. z.lba \in LBAs /\ z.lba_count \in Nat /\ Off(z.lba) + z.lba_count <= Cap
      BY <1>2, <2>1, CapFacts
    <3>2. QED
      BY <3>1, <1>2, <1>3, <2>1, BlocksOff
  <2>3. {Wrapped(tail + j) : j \in 0 .. Safe - 1} = Blocks(z)
    BY DEF Blocks
  <2>4. QED
    BY <1>1, <1>4, <2>2, <2>3 DEF ConsumeTail
<1>5. CASE ~(Safe > 0)
  <2>1. Safe = 0
    BY <1>2, <1>5
  <2>2. Wrapped(tail + Safe) = tail
    BY <1>2, <2>1, CapFacts DEF Wrapped, LBAs
  <2>3. owner = [b \in LBAs |-> IF Off(b) < Safe THEN Free ELSE owner[b]]
    BY <1>3, <2>1 DEF IInv, TypeOK
  <2>4. UNCHANGED <<owner, tail, used>>
    BY <1>1, <1>5
  <2>5. QED
    BY <1>1, <1>2, <2>1, <2>2, <2>3, <2>4
<1>6. QED
  BY <1>4, <1>5

\* After the tail moves Safe LBAs on: the tables still live and the victims
\* the walk did not reach lie past the consumed blocks, so their offsets drop
\* by Safe; every victim the walk consumed ends within them; and a remainder
\* is re-queued under the number of the last consumed table, at the new tail.
LEMMA ReclaimShift ==
    ASSUME IInv, TryInvalidateSSZones
    PROVE  /\ \A b \in LBAs : Safe <= Off(b) => Off(b)' = Off(b) - Safe
           /\ \A b \in LBAs : Off(b) < Safe => used - Safe <= Off(b)'
           /\ \A x \in live \cup Rest : x \in Tables /\ WalkRes.btd <= Off(x.lba)
           /\ \A x \in pending \ Rest : End(x) <= WalkRes.btd
           /\ WalkRes.btd % ZoneCap # 0 =>
                 /\ WalkRes.upto \in 1 .. Len(Victims)
                 /\ Victims[WalkRes.upto] \in pending \ Rest
                 /\ Mock.number = Victims[WalkRes.upto].number
                 /\ Mock \in Metas
                 /\ Mock.lba = tail'
<1>. DEFINE s == Victims
            r == WalkRes
            u == r.upto
<1>1. /\ pending # {} /\ tail = s[1].lba
      /\ tail' = Wrapped(tail + Safe)
  BY ReclaimEffect
<1>2. /\ s \in Seq(pending)
      /\ Len(s) \in Nat \ {0}
      /\ \A i, j \in 1 .. Len(s) : s[i] = s[j] => i = j
      /\ \A m \in pending : \E i \in 1 .. Len(s) : s[i] = m
      /\ u \in 0 .. Len(s) /\ r.btd \in Nat
      /\ u = 0 => r.btd = 0
      /\ u # 0 => /\ r.btd = End(s[u])
                  /\ r.mocknum = s[u].number
      /\ \A m \in Tables : Off(m.lba) < r.btd => \E k \in 1 .. u : m = s[k]
      /\ \A k \in 1 .. u : End(s[k]) <= r.btd
  BY <1>1, ReclaimFacts
<1>3. /\ r.btd \in 0 .. used /\ Safe \in 0 .. r.btd
      /\ r.btd - Safe = r.btd % ZoneCap /\ r.btd % ZoneCap \in 0 .. ZoneCap - 1
  BY <1>1, ReclaimBounds
<1>4. tail \in LBAs /\ used \in 0 .. Cap /\ pending \subseteq Metas
  BY DEF IInv, TypeOK
<1>5. \A b \in LBAs : Off(b)' = IF Safe <= Off(b) THEN Off(b) - Safe ELSE Off(b) - Safe + Cap
  <2>1. Safe \in 0 .. Cap
    BY <1>3, <1>4, CapFacts
  <2>2. QED
    BY <1>1, <1>4, <2>1, OffRebase DEF Off
<1>6. \A b \in LBAs : Off(b) \in 0 .. Cap - 1
  BY <1>4, OffRange DEF LBAs
<1>7. \A b \in LBAs : Off(b) < Safe => used - Safe <= Off(b)'
  BY <1>3, <1>4, <1>5, <1>6, CapFacts
<1>8. \A k \in 1 .. Len(s) : s[k] \in pending
  BY <1>2, ElementOfSeq
<1>9. \A x \in live \cup Rest : x \in Tables /\ r.btd <= Off(x.lba)
  <2>1. SUFFICES ASSUME NEW x \in live \cup Rest PROVE x \in Tables /\ r.btd <= Off(x.lba)
    OBVIOUS
  <2>2. x \in Tables
    <3>1. CASE x \in Rest
      <4>1. PICK j \in u + 1 .. Len(s) : x = s[j]
        BY <3>1 DEF Rest
      <4>2. j \in 1 .. Len(s)
        BY <1>2
      <4>3. QED
        BY <4>1, <4>2, <1>8 DEF Tables
    <3>2. QED
      BY <3>1, <2>1 DEF Tables
  <2>3. Off(x.lba) \in Nat
    BY <2>2, TableType
  <2>4. SUFFICES ASSUME Off(x.lba) < r.btd PROVE FALSE
    BY <2>2, <2>3, <1>2
  <2>5. PICK k \in 1 .. u : x = s[k]
    BY <2>2, <2>4, <1>2
  <2>6. CASE x \in live
    BY <2>5, <2>6, <1>2, <1>8 DEF IInv
  <2>7. CASE x \in Rest
    <3>1. PICK j \in u + 1 .. Len(s) : x = s[j]
      BY <2>7 DEF Rest
    <3>2. k \in 1 .. Len(s) /\ j \in 1 .. Len(s) /\ k # j
      BY <1>2, <3>1
    <3>3. QED
      BY <2>5, <3>1, <3>2, <1>2
  <2>8. QED
    BY <2>1, <2>6, <2>7
<1>10. \A x \in pending \ Rest : End(x) <= r.btd
  <2>1. SUFFICES ASSUME NEW x \in pending \ Rest PROVE End(x) <= r.btd
    OBVIOUS
  <2>2. PICK k \in 1 .. Len(s) : s[k] = x
    BY <1>2
  <2>3. k \in 1 .. u
    BY <2>1, <2>2, <1>2 DEF Rest
  <2>4. QED
    BY <2>2, <2>3, <1>2
<1>11. ASSUME r.btd % ZoneCap # 0
       PROVE  /\ u \in 1 .. Len(s)
              /\ s[u] \in pending \ Rest
              /\ Mock.number = s[u].number
              /\ Mock \in Metas
              /\ Mock.lba = tail'
  <2>1. u \in 1 .. Len(s)
    BY <1>11, <1>2, CapFacts
  <2>2. s[u] \notin Rest
    BY <2>1, <1>2 DEF Rest
  <2>3. Mock.number = s[u].number /\ s[u] \in Metas
    BY <2>1, <1>2, <1>4, <1>8 DEF Mock
  <2>4. ZoneCap <= Cap
    BY L0LogAssumption DEF Cap
  <2>5. Mock.lba \in LBAs
    BY <1>3, <1>4, CapFacts DEF Mock, Wrapped, LBAs
  <2>6. Mock.lba_count \in 1 .. Cap
    <3>1. Mock.lba_count = r.btd % ZoneCap
      BY <1>3 DEF Mock
    <3>2. QED
      BY <3>1, <1>3, <1>11, <2>4, CapFacts
  <2>7. Mock \in Metas
    BY <2>3, <2>5, <2>6 DEF Mock, Metas
  <2>8. Mock.lba = tail'
    BY <1>1 DEF Mock
  <2>9. QED
    BY <2>1, <2>2, <2>3, <2>7, <2>8, <1>8
<1>12. QED
  BY <1>5, <1>7, <1>9, <1>10, <1>11

-----------------------------------------------------------------------------
(***************************************************************************)
(* The inductive invariant holds initially and is kept by every step.      *)
(***************************************************************************)

\* The empty log (head = tail = 0, no tables, every LBA free) satisfies IInv.
LEMMA InitIInv == Init => IInv
<1>. SUFFICES ASSUME Init PROVE IInv
  OBVIOUS
<1>1. TypeOK
  BY CapFacts, L0LogAssumption DEF Init, TypeOK, LBAs, Free, Numbers
<1>2. tail % ZoneCap = 0 /\ head = Wrapped(tail + used)
  BY CapFacts DEF Init, Wrapped
<1>3. \A b \in LBAs : owner[b] # Free <=> Off(b) < used
  BY CapFacts, OffRange DEF Init, LBAs
<1>4. QED
  BY <1>1, <1>2, <1>3 DEF Init, IInv, Tables

\* Obsoleting a live table moves its meta from live to pending: the set of
\* tables, the log pointers and the device are unchanged.
LEMMA ObsoleteIInv ==
    ASSUME IInv, NEW m \in live, Obsolete(m)
    PROVE  IInv'
<1>1. Tables' = Tables
  BY DEF Obsolete, Tables
<1>2. live' \subseteq live /\ live' \cap pending' = {}
  BY DEF Obsolete, IInv
<1>3. TypeOK'
  BY DEF Obsolete, IInv, TypeOK
<1>4. \A b : Off(b)' = Off(b)
  BY DEF Obsolete, Off
<1>5. QED
  BY <1>1, <1>2, <1>3, <1>4 DEF Obsolete, IInv

\* Writing a table of n LBAs at the head appends it to the window: its
\* offsets are [used, used + n), just past every table already there.
LEMMA WriteIInv ==
    ASSUME IInv, NEW n \in 1 .. MaxTableLbas, WriteSSTable(n)
    PROVE  IInv'
<1>. DEFINE m == [number |-> nextNumber, lba |-> head, lba_count |-> n]
<1>0. /\ TypeOK /\ tail \in LBAs /\ head \in LBAs /\ used \in 0 .. Cap
      /\ used + n <= Cap /\ nextNumber \in Numbers /\ n \in 1 .. Cap
      /\ head = Wrapped(tail + used)
  BY CapFacts DEF IInv, TypeOK, WriteSSTable, Numbers
<1>. USE <1>0
<1>1. Off(head) = used
  BY CapFacts, OffFromTail
<1>2. /\ live' = live \cup {m} /\ pending' = pending /\ tail' = tail
      /\ used' = used + n /\ nextNumber' = nextNumber + 1
      /\ owner' = [b \in LBAs |-> IF b \in Blocks(m) THEN m.number ELSE owner[b]]
      /\ head' = Wrapped(head + n)
  BY DEF WriteSSTable
<1>3. Tables' = Tables \cup {m}
  BY <1>2 DEF Tables
<1>4. m \in Metas /\ m \notin Tables
  <2>1. m \in Metas
    BY DEF Metas
  <2>2. \A x \in Tables : x.number < nextNumber
    BY DEF IInv
  <2>3. QED
    BY <2>1, <2>2 DEF Numbers
<1>5. \A x \in Tables : Off(x.lba) \in 0 .. Cap - 1 /\ x.lba_count \in 1 .. Cap
                         /\ Off(x.lba) + x.lba_count <= used
  BY TableType DEF End
<1>6. \A b \in LBAs : b \in Blocks(m) <=> used <= Off(b) /\ Off(b) < used + n
  BY <1>1, BlocksOff
<1>7. \A b \in LBAs : Off(b) \in 0 .. Cap - 1
  BY OffRange DEF LBAs
<1>7a. \A b : Off(b)' = Off(b)
  BY <1>2 DEF Off
<1>8. TypeOK'
  <2>1. head' \in LBAs
    BY <1>2, CapFacts DEF Wrapped, LBAs
  <2>2. owner' \in [LBAs -> Numbers \cup {Free}]
    BY <1>2 DEF TypeOK
  <2>3. QED
    BY <1>2, <1>4, <2>1, <2>2, L0LogAssumption DEF TypeOK, WriteSSTable
<1>9. head' = Wrapped(tail' + used')
  BY <1>2, WrapAdd DEF LBAs
<1>10. \A x \in live' : \A k \in 0 .. x.lba_count - 1 :
          owner'[Wrapped(x.lba + k)] = x.number
  <2>1. SUFFICES ASSUME NEW x \in live', NEW k \in 0 .. x.lba_count - 1
                 PROVE  owner'[Wrapped(x.lba + k)] = x.number
    OBVIOUS
  <2>0. x.lba \in LBAs /\ x.lba_count \in 1 .. Cap /\ k \in Nat
    BY <2>1, <1>8 DEF TypeOK, Metas
  <2>2. Wrapped(x.lba + k) \in LBAs
    BY <2>0, CapFacts DEF Wrapped, LBAs
  <2>3. CASE x = m
    BY <2>1, <2>2, <2>3, <1>2 DEF Blocks
  <2>4. CASE x # m
    <3>1. x \in live /\ x \in Tables
      BY <2>1, <2>4, <1>2 DEF Tables
    <3>2. Off(Wrapped(x.lba + k)) = Off(x.lba) + k
      <4>1. Off(x.lba) + k < Cap
        BY <3>1, <1>5, <2>0, CapFacts
      <4>2. QED
        BY <4>1, <2>0, OffAdd, Zenon
    <3>3. Wrapped(x.lba + k) \notin Blocks(m)
      BY <3>1, <3>2, <2>1, <2>2, <1>5, <1>6
    <3>4. QED
      BY <3>1, <3>3, <2>2, <1>2 DEF IInv
  <2>5. QED
    BY <2>3, <2>4
<1>11. \A b \in LBAs : owner'[b] # Free <=> Off(b)' < used'
  <2>1. SUFFICES ASSUME NEW b \in LBAs PROVE owner'[b] # Free <=> Off(b) < used + n
    BY <1>2 DEF Off
  <2>2. CASE b \in Blocks(m)
    BY <2>2, <1>2, <1>6, L0LogAssumption DEF Free, Numbers
  <2>3. CASE b \notin Blocks(m)
    BY <2>3, <1>2, <1>6, <1>7 DEF IInv
  <2>4. QED
    BY <2>2, <2>3
<1>12. \A x \in Tables' : Off(x.lba)' + x.lba_count <= used'
  BY <1>1, <1>2, <1>3, <1>5 DEF Off
<1>13. \A x1, x2 \in Tables' :
          x1 # x2 => \/ Off(x1.lba)' + x1.lba_count <= Off(x2.lba)'
                     \/ Off(x2.lba)' + x2.lba_count <= Off(x1.lba)'
  <2>1. \A x \in Tables : Off(x.lba) + x.lba_count <= Off(m.lba)
    BY <1>1, <1>5
  <2>2. QED
    BY <2>1, <1>2, <1>3 DEF IInv, Off
<1>14. \A k \in 0 .. used' - 1 :
          \E x \in Tables' : Off(x.lba)' <= k /\ k < Off(x.lba)' + x.lba_count
  <2>1. SUFFICES ASSUME NEW k \in 0 .. used + n - 1
                 PROVE  \E x \in Tables \cup {m} : Off(x.lba) <= k /\ k < Off(x.lba) + x.lba_count
    BY <1>2, <1>3, <1>7a
  <2>2. CASE k < used
    <3>1. k \in 0 .. used - 1
      BY <2>1, <2>2
    <3>2. QED
      BY <3>1 DEF IInv
  <2>3. CASE ~(k < used)
    <3>1. Off(m.lba) <= k /\ k < Off(m.lba) + m.lba_count
      BY <2>1, <2>3, <1>1
    <3>2. QED
      BY <3>1
  <2>4. QED
    BY <2>2, <2>3
<1>15. \A x \in Tables' : x.number < nextNumber'
  <2>1. \A x \in Tables : x.number \in Numbers
    BY TableType
  <2>2. QED
    BY <1>2, <1>3, <2>1 DEF IInv, Numbers
<1>16. \A x1, x2 \in Tables' : x1.number = x2.number => x1 = x2
  <2>1. \A x \in Tables : x.number # m.number
    BY <1>4 DEF IInv, Numbers
  <2>2. QED
    BY <1>3, <2>1 DEF IInv
<1>17. live' \cap pending' = {}
  BY <1>2, <1>4 DEF IInv, Tables
<1>18. QED
  BY <1>2, <1>8, <1>9, <1>10, <1>11, <1>12, <1>13, <1>14, <1>15, <1>16, <1>17 DEF IInv

\* Reclaiming the zones below the walk's stopping point moves the tail past
\* whole zones only; what stays queued or live, with the re-queued
\* remainder, still tiles the shorter window.
LEMMA TryInvalidateIInv ==
    ASSUME IInv, TryInvalidateSSZones
    PROVE  IInv'
<1>. DEFINE btd == WalkRes.btd
            u == WalkRes.upto
            Surv == live \cup Rest
<1>1. /\ pending # {} /\ tail = Victims[1].lba
      /\ pending' = IF btd % ZoneCap # 0 THEN {Mock} \cup Rest ELSE Rest
      /\ tail' = Wrapped(tail + Safe)
      /\ used' = used - Safe
      /\ owner' = [b \in LBAs |-> IF Off(b) < Safe THEN Free ELSE owner[b]]
      /\ UNCHANGED <<head, live, nextNumber>>
  BY ReclaimEffect
<1>2. /\ \A b \in LBAs : Safe <= Off(b) => Off(b)' = Off(b) - Safe
      /\ \A b \in LBAs : Off(b) < Safe => used - Safe <= Off(b)'
      /\ \A x \in Surv : x \in Tables /\ btd <= Off(x.lba)
      /\ \A x \in pending \ Rest : End(x) <= btd
      /\ btd % ZoneCap # 0 =>
            /\ u \in 1 .. Len(Victims)
            /\ Victims[u] \in pending \ Rest
            /\ Mock.number = Victims[u].number
            /\ Mock \in Metas
            /\ Mock.lba = tail'
  BY ReclaimShift
<1>3. /\ btd \in 0 .. used /\ Safe \in 0 .. btd /\ Safe % ZoneCap = 0
      /\ btd - Safe = btd % ZoneCap /\ btd % ZoneCap \in 0 .. ZoneCap - 1
  BY <1>1, ReclaimBounds
<1>4. /\ TypeOK /\ tail \in LBAs /\ used \in 0 .. Cap /\ Rest \subseteq pending
  <2>1. Victims \in Seq(pending) /\ u \in 0 .. Len(Victims)
    BY <1>1, ReclaimFacts
  <2>2. Rest \subseteq pending
    BY <2>1, ElementOfSeq DEF Rest
  <2>3. QED
    BY <2>2 DEF IInv, TypeOK
<1>5. \A x \in Tables' : \/ x \in Surv
                         \/ x = Mock /\ btd % ZoneCap # 0
  BY <1>1 DEF Tables
<1>6. \A x \in Surv : /\ x \in Tables /\ x.lba \in LBAs /\ x.lba_count \in 1 .. Cap
                      /\ Off(x.lba) \in Nat /\ btd <= Off(x.lba)
                      /\ Off(x.lba)' = Off(x.lba) - Safe
                      /\ Off(x.lba) + x.lba_count <= used
  <2>1. SUFFICES ASSUME NEW x \in Surv
                 PROVE  /\ x \in Tables /\ x.lba \in LBAs /\ x.lba_count \in 1 .. Cap
                        /\ Off(x.lba) \in Nat /\ btd <= Off(x.lba)
                        /\ Off(x.lba)' = Off(x.lba) - Safe
                        /\ Off(x.lba) + x.lba_count <= used
    OBVIOUS
  <2>2. x \in Tables /\ btd <= Off(x.lba)
    BY <1>2
  <2>3. x.lba \in LBAs /\ x.lba_count \in 1 .. Cap /\ Off(x.lba) \in 0 .. Cap - 1
        /\ End(x) \in 1 .. used
    BY <2>2, TableType
  <2>4. QED
    BY <1>2, <1>3, <2>2, <2>3 DEF End
<1>7. btd % ZoneCap # 0 =>
        /\ Mock.lba_count = btd - Safe /\ btd - Safe \in 1 .. Cap
        /\ \A x \in {Mock} : Off(x.lba)' = 0
  <2>1. ZoneCap <= Cap
    BY L0LogAssumption DEF Cap
  <2>2. btd % ZoneCap # 0 => \A x \in {Mock} : Off(x.lba)' = 0
    <3>1. tail' \in LBAs
      <4>1. tail + Safe \in Int
        BY <1>3, <1>4, CapFacts DEF LBAs
      <4>2. QED
        BY <1>1, <4>1, WrappedRange
    <3>2. QED
      BY <1>2, <3>1, CapFacts DEF Off, LBAs
  <2>3. QED
    BY <1>3, <2>1, <2>2, CapFacts DEF Mock
<1>8. TypeOK'
  <2>1. tail' \in LBAs /\ used' \in 0 .. Cap
    <3>1. tail' \in LBAs
      <4>1. tail + Safe \in Int
        BY <1>3, <1>4, CapFacts DEF LBAs
      <4>2. QED
        BY <1>1, <4>1, WrappedRange
    <3>2. used' \in 0 .. Cap
      BY <1>1, <1>3, <1>4, CapFacts
    <3>3. QED
      BY <3>1, <3>2
  <2>2. owner' \in [LBAs -> Numbers \cup {Free}]
    BY <1>1, <1>4 DEF TypeOK
  <2>3. pending' \subseteq Metas
    BY <1>1, <1>2, <1>4 DEF TypeOK
  <2>4. QED
    BY <1>1, <1>4, <2>1, <2>2, <2>3 DEF TypeOK
<1>9. tail' % ZoneCap = 0
  BY <1>1, <1>3, <1>4, AlignedWrap DEF IInv, LBAs
<1>10. head' = Wrapped(tail' + used')
  <2>1. Wrapped(Wrapped(tail + Safe) + (used - Safe)) = Wrapped(tail + Safe + (used - Safe))
    BY <1>3, <1>4, WrapAdd DEF LBAs
  <2>2. QED
    BY <1>1, <1>3, <1>4, <2>1 DEF IInv, LBAs
<1>11. btd % ZoneCap # 0 => Mock \notin Surv
  <2>1. SUFFICES ASSUME btd % ZoneCap # 0, Mock \in Surv PROVE FALSE
    OBVIOUS
  <2>2. Victims[u] \in Tables /\ Victims[u] \notin Surv
    BY <1>2, <2>1 DEF Tables, IInv
  <2>3. Mock \in Tables
    BY <2>1, <1>6
  <2>4. Mock = Victims[u]
    BY <2>1, <2>2, <2>3, <1>2 DEF IInv
  <2>5. QED
    BY <2>1, <2>2, <2>4
<1>12. live' \cap pending' = {}
  <2>1. live \cap Rest = {}
    BY <1>4 DEF IInv
  <2>2. btd % ZoneCap # 0 => Mock \notin live
    BY <1>11 DEF Surv
  <2>3. QED
    BY <1>1, <2>1, <2>2
<1>13. \A x \in Tables' : x.number < nextNumber'
  BY <1>1, <1>2, <1>5, <1>6 DEF IInv, Tables
<1>14. \A x1, x2 \in Tables' : x1.number = x2.number => x1 = x2
  BY <1>1, <1>2, <1>5, <1>6, <1>11 DEF IInv, Tables
<1>15. \A x \in Tables' : Off(x.lba)' + x.lba_count <= used'
  <2>1. SUFFICES ASSUME NEW x \in Tables' PROVE Off(x.lba)' + x.lba_count <= used - Safe
    BY <1>1
  <2>2. CASE x \in Surv
    <3>1. /\ Off(x.lba)' = Off(x.lba) - Safe /\ Off(x.lba) \in Nat
          /\ x.lba_count \in 1 .. Cap /\ Off(x.lba) + x.lba_count <= used
      BY <2>2, <1>6
    <3>2. QED
      BY <3>1, <1>3, <1>4
  <2>3. CASE x = Mock /\ btd % ZoneCap # 0
    <3>1. Off(x.lba)' = 0
      BY <2>3, <1>7
    <3>2. x.lba_count = btd - Safe
      BY <2>3, <1>7
    <3>3. btd - Safe <= used - Safe
      BY <1>3, <1>4
    <3>4. QED
      BY <3>1, <3>2, <3>3, <1>3, <1>4
  <2>4. QED
    BY <2>2, <2>3, <1>5
<1>16. \A x1, x2 \in Tables' :
          x1 # x2 => \/ Off(x1.lba)' + x1.lba_count <= Off(x2.lba)'
                     \/ Off(x2.lba)' + x2.lba_count <= Off(x1.lba)'
  <2>1. SUFFICES ASSUME NEW x1 \in Tables', NEW x2 \in Tables', x1 # x2
                 PROVE  \/ Off(x1.lba)' + x1.lba_count <= Off(x2.lba)'
                        \/ Off(x2.lba)' + x2.lba_count <= Off(x1.lba)'
    OBVIOUS
  <2>2. CASE x1 \in Surv /\ x2 \in Surv
    <3>1. \/ Off(x1.lba) + x1.lba_count <= Off(x2.lba)
          \/ Off(x2.lba) + x2.lba_count <= Off(x1.lba)
      BY <2>1, <2>2, <1>6 DEF IInv
    <3>2. /\ Off(x1.lba)' = Off(x1.lba) - Safe /\ Off(x1.lba) \in Nat
          /\ x1.lba_count \in 1 .. Cap
      BY <2>2, <1>6
    <3>3. /\ Off(x2.lba)' = Off(x2.lba) - Safe /\ Off(x2.lba) \in Nat
          /\ x2.lba_count \in 1 .. Cap
      BY <2>2, <1>6
    <3>4. QED
      BY <3>1, <3>2, <3>3, <1>3
  <2>3. CASE x1 = Mock /\ btd % ZoneCap # 0 /\ x2 \in Surv
    BY <2>3, <1>3, <1>6, <1>7
  <2>4. CASE x2 = Mock /\ btd % ZoneCap # 0 /\ x1 \in Surv
    BY <2>4, <1>3, <1>6, <1>7
  <2>5. QED
    BY <2>1, <2>2, <2>3, <2>4, <1>5
<1>17. \A k \in 0 .. used' - 1 :
          \E x \in Tables' : Off(x.lba)' <= k /\ k < Off(x.lba)' + x.lba_count
  <2>1. SUFFICES ASSUME NEW k \in 0 .. used - Safe - 1
                 PROVE  \E x \in Tables' : Off(x.lba)' <= k /\ k < Off(x.lba)' + x.lba_count
    BY <1>1
  <2>2. k + Safe \in 0 .. used - 1
    BY <1>3, <1>4
  <2>3. PICK x \in Tables : Off(x.lba) <= k + Safe /\ k + Safe < Off(x.lba) + x.lba_count
    BY <2>2 DEF IInv
  <2>4. CASE x \in Surv
    <3>1. x \in Tables'
      BY <2>4, <1>1 DEF Tables, Rest
    <3>2. QED
      BY <2>3, <2>4, <3>1, <1>3, <1>6
  <2>5. CASE x \notin Surv
    <3>1. x \in pending \ Rest
      BY <2>5 DEF Tables
    <3>2. End(x) <= btd /\ Off(x.lba) \in Nat /\ x.lba_count \in Nat
      BY <3>1, <1>2, TableType DEF Tables
    <3>3. k < btd - Safe
      BY <2>1, <2>3, <3>2, <1>3, <1>4 DEF End
    <3>4. btd % ZoneCap # 0
      BY <3>3, <1>3
    <3>5. Mock \in Tables'
      BY <3>4, <1>1 DEF Tables
    <3>6. QED
      BY <3>3, <3>4, <3>5, <1>7
  <2>6. QED
    BY <2>4, <2>5
<1>18. \A b \in LBAs : owner'[b] # Free <=> Off(b)' < used'
  <2>1. SUFFICES ASSUME NEW b \in LBAs PROVE owner'[b] # Free <=> Off(b)' < used - Safe
    BY <1>1
  <2>2. Off(b) \in 0 .. Cap - 1
    BY <1>4, OffRange DEF LBAs
  <2>3. CASE Off(b) < Safe
    <3>1. owner'[b] = Free
      BY <2>3, <1>1
    <3>2. used - Safe <= Off(b)'
      BY <2>3, <1>2
    <3>3. Off(b)' \in Int
      BY <1>8, CapFacts DEF Off, TypeOK, LBAs
    <3>4. QED
      BY <3>1, <3>2, <3>3, <1>3, <1>4
  <2>4. CASE ~(Off(b) < Safe)
    <3>1. owner'[b] = owner[b]
      BY <2>4, <1>1
    <3>2. Off(b)' = Off(b) - Safe
      BY <2>2, <2>4, <1>2, <1>3
    <3>3. owner[b] # Free <=> Off(b) < used
      BY DEF IInv
    <3>4. QED
      BY <2>2, <3>1, <3>2, <3>3, <1>3, <1>4
  <2>5. QED
    BY <2>3, <2>4
<1>19. \A x \in live' : \A k \in 0 .. x.lba_count - 1 :
          owner'[Wrapped(x.lba + k)] = x.number
  <2>1. SUFFICES ASSUME NEW x \in live, NEW k \in 0 .. x.lba_count - 1
                 PROVE  owner'[Wrapped(x.lba + k)] = x.number
    BY <1>1
  <2>2. x \in Surv
    BY DEF Surv
  <2>3. Off(Wrapped(x.lba + k)) = Off(x.lba) + k
    <3>1. k \in Nat /\ Off(x.lba) + k < Cap
      BY <2>2, <1>4, <1>6, CapFacts
    <3>2. QED
      BY <3>1, <2>2, <1>4, <1>6, OffAdd, Zenon
  <2>4. Wrapped(x.lba + k) \in LBAs
    BY <2>2, <1>6, CapFacts DEF Wrapped, LBAs
  <2>5. Safe <= Off(Wrapped(x.lba + k))
    BY <2>2, <2>3, <1>3, <1>6
  <2>6. Off(Wrapped(x.lba + k)) \in 0 .. Cap - 1
    BY <2>4, <1>4, OffRange DEF LBAs
  <2>7. owner'[Wrapped(x.lba + k)] = owner[Wrapped(x.lba + k)]
    BY <2>4, <2>5, <2>6, <1>1, <1>3
  <2>8. QED
    BY <2>1, <2>7 DEF IInv
<1>20. QED
  BY <1>1, <1>8, <1>9, <1>10, <1>12, <1>13, <1>14, <1>15, <1>16, <1>17,
     <1>18, <1>19 DEF IInv

\* A step that changes no variable keeps IInv.
LEMMA StutterIInv ==
    ASSUME IInv, UNCHANGED vars
    PROVE  IInv'
BY DEF vars, IInv, TypeOK, Tables, Off


\* Every step of the log keeps the inductive invariant.
LEMMA NextIInv ==
    ASSUME IInv, [Next]_vars
    PROVE  IInv'
<1>1. CASE \E n \in 1 .. MaxTableLbas : WriteSSTable(n)
  BY <1>1, WriteIInv
<1>2. CASE \E m \in live : Obsolete(m)
  BY <1>2, ObsoleteIInv
<1>3. CASE TryInvalidateSSZones
  BY <1>3, TryInvalidateIInv
<1>4. CASE UNCHANGED vars
  BY <1>4, StutterIInv
<1>5. QED
  BY <1>1, <1>2, <1>3, <1>4 DEF Next

-----------------------------------------------------------------------------
(***************************************************************************)
(* The invariants the runs check follow from IInv.                         *)
(***************************************************************************)

\* A live table's LBAs hold its number: its meta's LBA range is intact.
LEMMA IInvLiveTablesIntact ==
    IInv => LiveTablesIntact
<1>. SUFFICES ASSUME IInv, NEW m \in live, NEW b \in Blocks(m)
              PROVE  owner[b] = m.number
  BY DEF LiveTablesIntact
<1>1. PICK k \in 0 .. m.lba_count - 1 : b = Wrapped(m.lba + k)
  BY DEF Blocks
<1>2. QED
  BY <1>1 DEF IInv

\* The window [tail, head) holds exactly the LBAs in use, and each of them
\* belongs to a table still referenced or queued for reclamation.
LEMMA IInvNoSpaceLeak ==
    IInv => NoSpaceLeak
<1>. SUFFICES ASSUME IInv PROVE NoSpaceLeak
  OBVIOUS
<1>1. tail \in LBAs /\ used \in 0 .. Cap
  BY DEF IInv, TypeOK
<1>2. \A b \in LBAs : b \in Window <=> Off(b) < used
  <2>. DEFINE z == [lba |-> tail, lba_count |-> used]
  <2>1. Off(tail) = 0
    BY <1>1, CapFacts DEF Off, LBAs
  <2>2. \A b \in LBAs : b \in Blocks(z) <=> Off(b) < used
    <3>1. z.lba \in LBAs /\ z.lba_count \in Nat /\ Off(z.lba) + z.lba_count <= Cap
      BY <1>1, <2>1, CapFacts
    <3>2. \A b \in LBAs : Off(b) \in 0 .. Cap - 1
      BY <1>1, OffRange DEF LBAs
    <3>3. QED
      BY <3>1, <3>2, <2>1, BlocksOff
  <2>3. Window = Blocks(z)
    BY DEF Window, Blocks
  <2>4. QED
    BY <2>2, <2>3
<1>3. Window \subseteq LBAs
  BY <1>1, CapFacts DEF Window, Wrapped, LBAs
<1>4. \A b \in Window : \E m \in live \cup pending : b \in Blocks(m)
  <2>1. SUFFICES ASSUME NEW b \in Window PROVE \E m \in Tables : b \in Blocks(m)
    BY DEF Tables
  <2>2. b \in LBAs /\ Off(b) < used /\ Off(b) \in 0 .. Cap - 1
    BY <1>1, <1>2, <1>3, OffRange DEF LBAs
  <2>3. PICK m \in Tables : Off(m.lba) <= Off(b) /\ Off(b) < Off(m.lba) + m.lba_count
    <3>1. Off(b) \in 0 .. used - 1
      BY <1>1, <2>2
    <3>2. QED
      BY <3>1 DEF IInv
  <2>4. m.lba \in LBAs /\ m.lba_count \in Nat /\ Off(m.lba) + m.lba_count <= Cap
    <3>1. m.lba \in LBAs /\ m.lba_count \in 1 .. Cap /\ End(m) \in 1 .. used
      BY TableType
    <3>2. QED
      BY <3>1, <1>1, CapFacts DEF End
  <2>5. b \in Blocks(m)
    BY <1>1, <2>2, <2>3, <2>4, BlocksOff
  <2>6. QED
    BY <2>3, <2>5
<1>5. QED
  BY <1>2, <1>3, <1>4 DEF IInv, NoSpaceLeak

-----------------------------------------------------------------------------
\* The inductive invariant holds in every reachable state of the log.
THEOREM IInvHolds == Spec => []IInv
<1>1. Init => IInv
  BY InitIInv
<1>2. IInv /\ [Next]_vars => IInv'
  BY NextIInv
<1>3. QED
  BY <1>1, <1>2, PTL DEF Spec

\* The log's variables always have their types (TypeOK).
THEOREM TypeCorrect == Spec => []TypeOK
<1>1. IInv => TypeOK
  BY DEF IInv
<1>2. QED
  BY <1>1, IInvHolds, PTL

\* Reclamation never frees or reuses an LBA of a table the LSM tree still
\* references (LiveTablesIntact): TryInvalidateSSZones only consumes blocks
\* of queued victims, and WriteSSTable only writes past the head.
THEOREM LiveTablesIntactHolds == Spec => []LiveTablesIntact
BY IInvLiveTablesIntact, IInvHolds, PTL

\* No LBA is leaked or lost (NoSpaceLeak): the LBAs holding data are exactly
\* those from tail to head, and each belongs to a live or queued table, so
\* every LBA is eventually reclaimable.
THEOREM NoSpaceLeakHolds == Spec => []NoSpaceLeak
BY IInvNoSpaceLeak, IInvHolds, PTL

=============================================================================
