------------------------- MODULE SSTableManagerProofs -------------------------
(***************************************************************************)
(* Proofs about the zone division of NewZNSSTableManager: in every        *)
(* configuration whose arithmetic does not wrap (NoWrap, which the default *)
(* configuration satisfies), a manager that is created divides its zones   *)
(* without gap, overlap, empty region or short LN exactly when its region  *)
(* holds the L0 logs and min_ss_zone_count more zones (RegionFits), which  *)
(* the validation does not check.                                          *)
(***************************************************************************)
EXTENDS SSTableManager, FiniteSetTheorems, TLAPS

\* The hypotheses of every lemma below.
Hyp == SSTableManagerAssumption /\ NoWrap

(***************************************************************************)
(* The inductive invariant: the arguments stay in Zones, and a created     *)
(* manager passed the checks of NewZNSSTableManager and holds the ranges   *)
(* of its division (Created, below).                                       *)
(***************************************************************************)
IInv ==
    /\ min_zone \in Zones /\ max_zone \in Zones
    /\ mpc \in {"start", "created", "refused"}
    /\ mpc = "created" => /\ ~(min_zone > max_zone)
                          /\ Division.head = max_zone
                          /\ ranges = [i \in Regions |-> ToLbas(Division.zones[i])]

\* The tiling DivisionTiles asks of a created manager, for ranges r.
TilesOf(r) ==
    /\ r[0].first = min_zone * ZoneCap
    /\ r[Lanes].second = max_zone * ZoneCap
    /\ \A i \in 0 .. Lanes - 1 : r[i].second = r[i + 1].first
    /\ \A i \in Regions : r[i].first < r[i].second
    /\ r[Lanes].second - r[Lanes].first >= MinSSZones * ZoneCap

\* A uint64_t value below 2^64 is its own remainder.
LEMMA ModSmall ==
    ASSUME NEW a \in Nat, NEW w \in Nat \ {0}, a < w
    PROVE  a % w = a
BY SMT

\* 2^WordBits is a positive natural: it counts the subsets of 1 .. WordBits.
LEMMA WordPositive ==
    ASSUME WordBits \in Nat
    PROVE  Word \in Nat \ {0}
<1>1. IsFiniteSet(1 .. WordBits) /\ Cardinality(1 .. WordBits) = WordBits
  BY FS_Interval
<1>2. IsFiniteSet(SUBSET (1 .. WordBits)) /\ Cardinality(SUBSET (1 .. WordBits)) = Word
  BY <1>1, FS_SUBSET DEF Word
<1>3. Cardinality(SUBSET (1 .. WordBits)) \in Nat
  BY <1>2, FS_CardinalityType
<1>4. Cardinality(SUBSET (1 .. WordBits)) # 0
  <2>1. SUBSET (1 .. WordBits) # {}
    OBVIOUS
  <2>. QED BY <1>2, <2>1, FS_EmptySet
<1>. QED BY <1>2, <1>3, <1>4

\* Monotonicity of a product in its left factor, for the L0 heads and LBAs.
LEMMA MulMono ==
    ASSUME NEW a \in Nat, NEW b \in Nat, NEW c \in Nat, a <= b
    PROVE  a * c <= b * c
BY SMT

\* Strict monotonicity of a product in its left factor, by a positive factor.
LEMMA MulStrict ==
    ASSUME NEW a \in Nat, NEW b \in Nat, NEW c \in Nat \ {0}, a < b
    PROVE  a * c < b * c
BY SMT

\* Under NoWrap a zone number, and the LN head past it, stay below 2^64 in LBAs.
LEMMA MaxNoWrap ==
    ASSUME Hyp, NEW z \in Zones
    PROVE  /\ z * ZoneCap < Word
           /\ z + Lanes * L0Step < Word
           /\ (z + Lanes * L0Step) * ZoneCap < Word
<1>0. /\ L0Zones \in Nat \ {0} /\ MinSSZones \in Nat \ {0} /\ Lanes \in Nat \ {0}
      /\ ZoneCap \in Nat \ {0} /\ Zones \subseteq Nat
  BY Zenon DEF Hyp, SSTableManagerAssumption
<1>1. L0Step \in Nat /\ z \in Nat
  BY <1>0 DEF L0Step
<1>2. Lanes * L0Step \in Nat /\ z + Lanes * L0Step \in Nat
  BY <1>0, <1>1
<1>3. (z + Lanes * L0Step) * ZoneCap < Word
  BY Zenon DEF Hyp, NoWrap
<1>4. z * ZoneCap <= (z + Lanes * L0Step) * ZoneCap
  BY <1>0, <1>1, <1>2, MulMono
<1>5. z + Lanes * L0Step <= (z + Lanes * L0Step) * ZoneCap
  BY <1>0, <1>2
<1>6. Word \in Nat \ {0}
  BY Zenon, WordPositive DEF Hyp, SSTableManagerAssumption
<1>. QED BY <1>0, <1>1, <1>2, <1>3, <1>4, <1>5, <1>6

\* The ranges_ a manager created from min_zone and max_zone gets.
Created == [i \in Regions |-> ToLbas(Division.zones[i])]

(***************************************************************************)
(* The arithmetic of a division whose region fits: no sum or              *)
(* difference wraps, the L0 heads are min_zone + i * zone_step, LN starts  *)
(* at min_zone + lanes * zone_step and ends at max_zone.                    *)
(***************************************************************************)
LEMMA DivisionArith ==
    ASSUME Hyp, min_zone \in Zones, max_zone \in Zones,
           ~(min_zone > max_zone), RegionFits
    PROVE  /\ \A i \in 0 .. Lanes : /\ L0Head(i) = min_zone + i * L0Step
                                    /\ L0Head(i) + MinSSZones <= max_zone
           /\ Minus(max_zone, L0Head(Lanes)) = max_zone - L0Head(Lanes)
           /\ Plus(L0Head(Lanes), Minus(max_zone, L0Head(Lanes))) = max_zone
           /\ \A z \in 0 .. max_zone : (z * ZoneCap) % Word = z * ZoneCap
<1>0. /\ L0Zones \in Nat \ {0} /\ MinSSZones \in Nat \ {0} /\ LevelCount \in Nat \ {0}
      /\ Lanes \in Nat \ {0} /\ ZoneCap \in Nat \ {0} /\ WordBits \in Nat \ {0}
      /\ Zones \subseteq Nat
  BY Zenon DEF Hyp, SSTableManagerAssumption
<1>1. Word \in Nat \ {0}
  BY <1>0, WordPositive
<1>2. L0Step \in Nat /\ min_zone \in Nat /\ max_zone \in Nat
  BY <1>0 DEF L0Step
<1>10. \A i \in 0 .. Lanes : i * L0Step \in Nat
  BY <1>0, <1>2
<1>3. max_zone * ZoneCap < Word /\ max_zone < Word /\ min_zone < Word
  <2>1. max_zone * ZoneCap < Word /\ min_zone * ZoneCap < Word
    BY <1>0, <1>2, <1>10, MaxNoWrap
  <2>2. max_zone <= max_zone * ZoneCap /\ min_zone <= min_zone * ZoneCap
    BY <1>0, <1>2
  <2>. QED BY <1>0, <1>1, <1>2, <2>1, <2>2
<1>5. max_zone - min_zone >= L0Step * Lanes + MinSSZones
  BY <1>0, <1>2, <1>10 DEF RegionFits
<1>6. ASSUME NEW i \in 0 .. Lanes
      PROVE  /\ L0Head(i) = min_zone + i * L0Step
             /\ L0Head(i) + MinSSZones <= max_zone
  <2>0. i * L0Step \in Nat
    BY <1>10
  <2>1. i * L0Step <= Lanes * L0Step
    BY <1>0, <1>2, MulMono
  <2>2. min_zone + i * L0Step + MinSSZones <= max_zone
    BY <1>0, <1>2, <1>5, <1>10, <2>1
  <2>3. min_zone + i * L0Step \in Nat /\ min_zone + i * L0Step < Word
    BY <1>0, <1>1, <1>2, <1>3, <2>0, <2>2
  <2>. QED BY <1>0, <1>1, <2>2, <2>3, ModSmall DEF L0Head, Plus
<1>7. Minus(max_zone, L0Head(Lanes)) = max_zone - L0Head(Lanes)
  <2>1. L0Head(Lanes) = min_zone + Lanes * L0Step /\ L0Head(Lanes) + MinSSZones <= max_zone
    BY <1>0, <1>6
  <2>2. max_zone - L0Head(Lanes) \in Nat /\ max_zone - L0Head(Lanes) < Word
    <3>1. Lanes * L0Step \in Nat
      BY <1>0, <1>10
    <3>. QED BY <1>0, <1>1, <1>2, <1>3, <2>1, <3>1
  <2>. QED BY <1>0, <1>1, <2>2, ModSmall DEF Minus
<1>8. Plus(L0Head(Lanes), Minus(max_zone, L0Head(Lanes))) = max_zone
  <2>1. L0Head(Lanes) = min_zone + Lanes * L0Step
    BY <1>0, <1>6
  <2>2. L0Head(Lanes) \in Nat /\ L0Head(Lanes) + (max_zone - L0Head(Lanes)) = max_zone
    BY <1>0, <1>2, <1>10, <2>1
  <2>. QED BY <1>0, <1>1, <1>3, <1>7, <2>2, ModSmall DEF Plus
<1>9. ASSUME NEW z \in 0 .. max_zone PROVE (z * ZoneCap) % Word = z * ZoneCap
  <2>1. z * ZoneCap <= max_zone * ZoneCap /\ z * ZoneCap \in Nat
    BY <1>0, <1>2, MulMono
  <2>. QED BY <1>0, <1>1, <1>3, <2>1, ModSmall
<1>. QED BY <1>0, <1>6, <1>7, <1>8, <1>9

(***************************************************************************)
(* The ranges of a division whose region fits tile the zones.             *)
(***************************************************************************)
LEMMA CreatedTiles ==
    ASSUME Hyp, min_zone \in Zones, max_zone \in Zones,
           ~(min_zone > max_zone), RegionFits
    PROVE  TilesOf(Created)
<1>0. /\ MinSSZones \in Nat \ {0} /\ Lanes \in Nat \ {0} /\ ZoneCap \in Nat \ {0}
      /\ Zones \subseteq Nat /\ L0Step \in Nat \ {0}
  <2>1. L0Zones \in Nat \ {0} /\ MinSSZones \in Nat \ {0} /\ Lanes \in Nat \ {0}
        /\ ZoneCap \in Nat \ {0} /\ Zones \subseteq Nat
    BY Zenon DEF Hyp, SSTableManagerAssumption
  <2>2. L0Step \in Nat
    BY <2>1 DEF L0Step
  <2>3. L0Step >= 1
    BY Zenon DEF Hyp, NoWrap
  <2>. QED BY <2>1, <2>2, <2>3
<1>1. /\ \A i \in 0 .. Lanes : /\ L0Head(i) = min_zone + i * L0Step
                                /\ L0Head(i) + MinSSZones <= max_zone
      /\ Plus(L0Head(Lanes), Minus(max_zone, L0Head(Lanes))) = max_zone
      /\ \A z \in 0 .. max_zone : (z * ZoneCap) % Word = z * ZoneCap
  BY DivisionArith
<1>2. min_zone \in Nat /\ max_zone \in Nat
  BY <1>0
<1>3. \A i \in 0 .. Lanes : L0Head(i) \in 0 .. max_zone
  <2>. SUFFICES ASSUME NEW i \in 0 .. Lanes PROVE L0Head(i) \in 0 .. max_zone
    OBVIOUS
  <2>1. i * L0Step \in Nat
    BY <1>0
  <2>. QED BY <1>0, <1>1, <1>2, <2>1
<1>4. \A i \in 0 .. Lanes - 1 :
        Created[i] = [first |-> L0Head(i) * ZoneCap, second |-> L0Head(i + 1) * ZoneCap]
  <2>. SUFFICES ASSUME NEW i \in 0 .. Lanes - 1
                PROVE  Created[i] = [first |-> L0Head(i) * ZoneCap,
                                     second |-> L0Head(i + 1) * ZoneCap]
    OBVIOUS
  <2>1. i \in Regions /\ i < Lanes /\ i + 1 \in 0 .. Lanes
    BY <1>0 DEF Regions
  <2>2. Division.zones[i] = [first |-> L0Head(i), second |-> L0Head(i + 1)]
    BY <2>1 DEF Division
  <2>3. (L0Head(i) * ZoneCap) % Word = L0Head(i) * ZoneCap
        /\ (L0Head(i + 1) * ZoneCap) % Word = L0Head(i + 1) * ZoneCap
    <3>1. i \in 0 .. Lanes
      BY <1>0
    <3>2. L0Head(i) \in 0 .. max_zone /\ L0Head(i + 1) \in 0 .. max_zone
      BY <1>3, <2>1, <3>1
    <3>. QED BY <1>1, <3>2, Zenon
  <2>. QED BY <2>1, <2>2, <2>3 DEF Created, ToLbas
<1>5. Created[Lanes] = [first |-> L0Head(Lanes) * ZoneCap, second |-> max_zone * ZoneCap]
  <2>1. Lanes \in Regions /\ ~(Lanes < Lanes) /\ Lanes \in 0 .. Lanes
    BY <1>0 DEF Regions
  <2>2. Division.zones[Lanes] = [first |-> L0Head(Lanes), second |-> max_zone]
    BY <1>1, <2>1 DEF Division
  <2>3. (L0Head(Lanes) * ZoneCap) % Word = L0Head(Lanes) * ZoneCap
        /\ (max_zone * ZoneCap) % Word = max_zone * ZoneCap
    <3>1. L0Head(Lanes) \in 0 .. max_zone /\ max_zone \in 0 .. max_zone
      BY <1>2, <1>3, <2>1
    <3>. QED BY <1>1, <3>1, Zenon
  <2>. QED BY <2>1, <2>2, <2>3 DEF Created, ToLbas
<1>6. \A i \in 0 .. Lanes - 1 : L0Head(i) < L0Head(i + 1)
  <2>. SUFFICES ASSUME NEW i \in 0 .. Lanes - 1 PROVE L0Head(i) < L0Head(i + 1)
    OBVIOUS
  <2>1. i \in 0 .. Lanes /\ i + 1 \in 0 .. Lanes
    BY <1>0
  <2>2. (i + 1) * L0Step = i * L0Step + L0Step /\ i * L0Step \in Nat
    BY <1>0, <2>1
  <2>. QED BY <1>0, <1>1, <1>2, <2>1, <2>2
<1>7. Created[0].first = min_zone * ZoneCap
  <2>1. 0 \in 0 .. Lanes - 1 /\ 0 \in 0 .. Lanes
    BY <1>0
  <2>2. L0Head(0) = min_zone
    BY <1>0, <1>1, <1>2, <2>1
  <2>3. Created[0] = [first |-> L0Head(0) * ZoneCap, second |-> L0Head(0 + 1) * ZoneCap]
    BY <1>4, <2>1, Zenon
  <2>. QED BY <2>2, <2>3
<1>8. \A i \in 0 .. Lanes - 1 : Created[i].second = Created[i + 1].first
  <2>. SUFFICES ASSUME NEW i \in 0 .. Lanes - 1
                PROVE  Created[i].second = Created[i + 1].first
    OBVIOUS
  <2>0. Created[i].second = L0Head(i + 1) * ZoneCap
    <3>1. Created[i] = [first |-> L0Head(i) * ZoneCap, second |-> L0Head(i + 1) * ZoneCap]
      BY <1>4
    <3>. QED BY <3>1
  <2>1. CASE i + 1 < Lanes
    <3>1. i + 1 \in 0 .. Lanes - 1
      BY <2>1, <1>0
    <3>2. Created[i + 1] = [first |-> L0Head(i + 1) * ZoneCap,
                            second |-> L0Head(i + 1 + 1) * ZoneCap]
      BY <1>4, <3>1
    <3>. QED BY <2>0, <3>2
  <2>2. CASE i + 1 = Lanes
    BY <1>5, <2>0, <2>2
  <2>. QED BY <1>0, <2>1, <2>2
<1>9. \A i \in Regions : Created[i].first < Created[i].second
  <2>. SUFFICES ASSUME NEW i \in Regions PROVE Created[i].first < Created[i].second
    OBVIOUS
  <2>1. CASE i < Lanes
    <3>1. i \in 0 .. Lanes - 1 /\ i \in 0 .. Lanes /\ i + 1 \in 0 .. Lanes
      BY <1>0, <2>1 DEF Regions
    <3>2. L0Head(i) * ZoneCap < L0Head(i + 1) * ZoneCap
      BY <1>0, <1>3, <1>6, <3>1, MulStrict
    <3>3. Created[i] = [first |-> L0Head(i) * ZoneCap, second |-> L0Head(i + 1) * ZoneCap]
      BY <1>4, <3>1, Zenon
    <3>. QED BY <3>2, <3>3
  <2>2. CASE ~(i < Lanes)
    <3>1. i = Lanes /\ Lanes \in 0 .. Lanes
      BY <1>0, <2>2 DEF Regions
    <3>2. L0Head(Lanes) < max_zone
      BY <1>0, <1>1, <1>3, <3>1
    <3>3. L0Head(Lanes) * ZoneCap < max_zone * ZoneCap
      BY <1>0, <1>2, <1>3, <3>1, <3>2, MulStrict
    <3>. QED BY <1>5, <3>1, <3>3
  <2>. QED BY <2>1, <2>2
<1>10. Created[Lanes].second - Created[Lanes].first >= MinSSZones * ZoneCap
  <2>1. Lanes \in 0 .. Lanes
    BY <1>0
  <2>2. L0Head(Lanes) \in Nat /\ L0Head(Lanes) + MinSSZones <= max_zone
    BY <1>1, <1>3, <2>1
  <2>3. (L0Head(Lanes) + MinSSZones) * ZoneCap <= max_zone * ZoneCap
    BY <1>0, <1>2, <2>2, MulMono
  <2>4. (L0Head(Lanes) + MinSSZones) * ZoneCap = L0Head(Lanes) * ZoneCap + MinSSZones * ZoneCap
    BY <1>0, <2>2
  <2>. QED BY <1>0, <1>2, <1>5, <2>2, <2>3, <2>4
<1>. QED BY <1>7, <1>5, <1>8, <1>9, <1>10 DEF TilesOf

(***************************************************************************)
(* A division that passed the rounding check but whose region does not     *)
(* fit leaves LN short: LN runs from min_zone + lanes * zone_step to       *)
(* max_zone in LBAs, fewer than min_ss_zone_count zones, or backwards.     *)
(***************************************************************************)
LEMMA CreatedShort ==
    ASSUME Hyp, min_zone \in Zones, max_zone \in Zones,
           Division.head = max_zone, ~RegionFits
    PROVE  ~TilesOf(Created)
<1>0. /\ MinSSZones \in Nat \ {0} /\ Lanes \in Nat \ {0} /\ ZoneCap \in Nat \ {0}
      /\ WordBits \in Nat /\ Zones \subseteq Nat /\ L0Zones \in Nat
  BY Zenon DEF Hyp, SSTableManagerAssumption
<1>1. Word \in Nat \ {0} /\ L0Step \in Nat /\ min_zone \in Nat /\ max_zone \in Nat
  BY <1>0, WordPositive DEF L0Step
<1>. DEFINE h == min_zone + Lanes * L0Step
<1>2. h \in Nat /\ h < Word /\ h * ZoneCap < Word /\ max_zone * ZoneCap < Word
  <2>1. Lanes * L0Step \in Nat
    BY <1>0, <1>1
  <2>. QED BY <1>1, <2>1, MaxNoWrap
<1>3. L0Head(Lanes) = h
  BY <1>1, <1>2, ModSmall DEF L0Head, Plus
<1>4. Lanes \in Regions /\ ~(Lanes < Lanes)
  BY <1>0 DEF Regions
<1>5. Division.zones[Lanes] = [first |-> L0Head(Lanes), second |-> Division.head]
  BY <1>4 DEF Division
<1>6. Created[Lanes] = [first |-> h * ZoneCap, second |-> max_zone * ZoneCap]
  <2>1. h * ZoneCap \in Nat /\ max_zone * ZoneCap \in Nat
    BY <1>0, <1>1, <1>2
  <2>2. (h * ZoneCap) % Word = h * ZoneCap /\ (max_zone * ZoneCap) % Word = max_zone * ZoneCap
    BY <1>1, <1>2, <2>1, ModSmall
  <2>. QED BY <1>3, <1>4, <1>5, <2>2 DEF Created, ToLbas
<1>7. max_zone * ZoneCap < (h + MinSSZones) * ZoneCap
  <2>1. max_zone < h + MinSSZones
    BY <1>0, <1>1, <1>2 DEF RegionFits
  <2>. QED BY <1>0, <1>1, <1>2, <2>1, MulStrict
<1>8. max_zone * ZoneCap - h * ZoneCap < MinSSZones * ZoneCap
  BY <1>0, <1>1, <1>2, <1>7
<1>9. Created[Lanes].second - Created[Lanes].first < MinSSZones * ZoneCap
  BY <1>6, <1>8
<1>. QED BY <1>0, <1>1, <1>2, <1>6, <1>9 DEF TilesOf

(***************************************************************************)
(* Under the inductive invariant, DivisionTiles holds exactly when a       *)
(* created manager's region fits.                                          *)
(***************************************************************************)
LEMMA TilesIff ==
    ASSUME Hyp, IInv
    PROVE  DivisionTiles <=> (mpc = "created" => RegionFits)
<1>1. CASE mpc # "created"
  BY <1>1 DEF DivisionTiles
<1>2. CASE mpc = "created"
  <2>1. /\ min_zone \in Zones /\ max_zone \in Zones /\ ~(min_zone > max_zone)
        /\ Division.head = max_zone /\ ranges = Created
    BY <1>2 DEF IInv, Created
  <2>2. DivisionTiles <=> TilesOf(Created)
    BY <1>2, <2>1 DEF DivisionTiles, TilesOf
  <2>3. CASE RegionFits
    BY <2>1, <2>2, <2>3, CreatedTiles
  <2>4. CASE ~RegionFits
    BY <1>2, <2>1, <2>2, <2>4, CreatedShort
  <2>. QED BY <1>2, <2>3, <2>4
<1>. QED BY <1>1, <1>2

\* The inductive invariant holds in the initial state of the SSTable manager.
LEMMA InitIInv == Init => IInv
BY DEF Init, IInv

\* Every step of the SSTable manager, or a stutter, keeps the inductive invariant.
LEMMA IInvInductive == IInv /\ [Next]_vars => IInv'
<1>. SUFFICES ASSUME IInv, [Next]_vars PROVE IInv'
  OBVIOUS
<1>1. CASE NewZNSSTableManager
  <2>. DEFINE refused == \/ min_zone > max_zone
                         \/ TooFewZones(Minus(max_zone, min_zone))
                         \/ Division.head # max_zone
  <2>1. UNCHANGED <<min_zone, max_zone>>
    BY <1>1 DEF NewZNSSTableManager
  <2>2. CASE refused
    <3>1. mpc' = "refused"
      BY <1>1, <2>2 DEF NewZNSSTableManager
    <3>. QED BY <2>1, <3>1 DEF IInv
  <2>3. CASE ~refused
    <3>1. mpc' = "created" /\ ranges' = [i \in Regions |-> ToLbas(Division.zones[i])]
      BY <1>1, <2>3 DEF NewZNSSTableManager
    <3>2. ~(min_zone > max_zone) /\ Division.head = max_zone
      BY <2>3
    <3>. QED BY <2>1, <3>1, <3>2 DEF IInv, Division, L0Head, Plus, Minus
  <2>. QED BY <2>2, <2>3
<1>2. CASE UNCHANGED vars
  BY <1>2 DEF vars, IInv, Division, L0Head, Plus, Minus
<1>. QED BY <1>1, <1>2 DEF Next

(***************************************************************************)
(* In every configuration whose arithmetic does not wrap (NoWrap; the      *)
(* default configuration is one), a manager NewZNSSTableManager creates    *)
(* divides [min_zone, max_zone) into lower_concurrency L0 logs and LN      *)
(* without gap, overlap or empty region, LN keeping min_ss_zone_count      *)
(* zones (the property DivisionTiles), exactly when the region holds       *)
(* max(L0_zones, min_ss_zone_count) rounded to the lanes plus              *)
(* min_ss_zone_count zones (RegionFits).  The validation only asks for     *)
(* level_count * min_ss_zone_count zones, so with the shipped proportions  *)
(* a region it accepts can fail RegionFits and DivisionTiles.              *)
(***************************************************************************)
THEOREM DivisionTilesExactly ==
    ASSUME SSTableManagerAssumption, NoWrap
    PROVE  Spec => [](DivisionTiles <=> (mpc = "created" => RegionFits))
<1>1. Init => IInv
  BY InitIInv
<1>2. IInv /\ [Next]_vars => IInv'
  BY IInvInductive
<1>3. IInv => (DivisionTiles <=> (mpc = "created" => RegionFits))
  BY TilesIff DEF Hyp
<1>. QED BY <1>1, <1>2, <1>3, PTL DEF Spec
====
