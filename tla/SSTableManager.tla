---------------------------- MODULE SSTableManager ----------------------------
(***************************************************************************)
(* The zone division of ZNSSSTableManager (zns_sstable_manager.cc):        *)
(* NewZNSSTableManager splits the zone region [min_zone, max_zone) into    *)
(* lower_concurrency L0 logs of equal size and one LN region that gets     *)
(* the remainder, and the constructor turns the zone ranges into LBA       *)
(* ranges (ranges_).                                                       *)
(*                                                                         *)
(* The arithmetic is uint64_t: a subtraction wraps modulo 2^WordBits.      *)
(* WordBits is taken small, with regions far below 2^WordBits, so that     *)
(* only the wrapping the code can meet on 64 bits (a difference that goes  *)
(* below zero) happens in the model.                                       *)
(***************************************************************************)
EXTENDS Naturals

CONSTANTS
    L0Zones,       \* ZnsConfig::L0_zones
    MinSSZones,    \* ZnsConfig::min_ss_zone_count
    LevelCount,    \* ZnsConfig::level_count
    Lanes,         \* ZnsConfig::lower_concurrency
    ZoneCap,       \* info.zone_cap: LBAs per zone
    Zones,         \* the zone numbers a caller may pass as min_zone, max_zone
    WordBits       \* width of uint64_t, scaled down

\* What the constants are: positive counts and zone numbers.
SSTableManagerAssumption ==
    /\ {L0Zones, MinSSZones, LevelCount, Lanes, ZoneCap, WordBits} \subseteq Nat \ {0}
    /\ Zones \subseteq Nat

Word == 2 ^ WordBits

\* uint64_t subtraction and addition.
Minus(a, b) == (a - b) % Word
Plus(a, b) == (a + b) % Word

\* Index Lanes is the LN region; 0 .. Lanes-1 are the L0 logs.
Regions == 0 .. Lanes

VARIABLES
    min_zone, max_zone, \* the arguments of NewZNSSTableManager
    mpc,                \* "start", "created" (a manager returned) or "refused" ({})
    ranges              \* ranges_ of the constructed manager, in LBAs

vars == <<min_zone, max_zone, mpc, ranges>>

NoRange == [first |-> 0, second |-> 0]

Init ==
    /\ min_zone \in Zones
    /\ max_zone \in Zones
    /\ mpc = "start"
    /\ ranges = [i \in Regions |-> NoRange]

(***************************************************************************)
(* The division of NewZNSSTableManager, in zones: zone_step is             *)
(* max(L0_zones, min_ss_zone_count) / lower_concurrency for every L0 log;  *)
(* LN gets max_zone - zone_head.  Result: the head reached after LN (the   *)
(* "rounding" check) and the ranges.                                       *)
(***************************************************************************)
L0Step == (IF L0Zones < MinSSZones THEN MinSSZones ELSE L0Zones) \div Lanes

(***************************************************************************)
(* The configurations in which the uint64_t arithmetic of the division    *)
(* cannot wrap beyond what the code means to wrap: every L0 log gets at    *)
(* least one zone, and no zone number up to a head past L0, times zone_cap, *)
(* reaches 2^64.  The default configuration is one of them.               *)
(***************************************************************************)
NoWrap ==
    /\ L0Step >= 1
    /\ \A z \in Zones : (z + Lanes * L0Step) * ZoneCap < Word

\* The region [min_zone, max_zone) holds the L0 logs and min_ss_zone_count more zones.
RegionFits == min_zone + Lanes * L0Step + MinSSZones <= max_zone

L0Head(i) == Plus(min_zone, i * L0Step)

Division ==
    LET lnHead == L0Head(Lanes)
        lnStep == Minus(max_zone, lnHead)
    IN [head   |-> Plus(lnHead, lnStep),
        zones  |-> [i \in Regions |->
                      IF i < Lanes
                      THEN [first |-> L0Head(i), second |-> L0Head(i + 1)]
                      ELSE [first |-> lnHead, second |-> Plus(lnHead, lnStep)]]]

\* The validation before the division.
TooFewZones(num_zones) == num_zones < LevelCount * MinSSZones

\* The constructor: ranges_[i] = (first * zone_cap, second * zone_cap).
ToLbas(z) == [first |-> (z.first * ZoneCap) % Word, second |-> (z.second * ZoneCap) % Word]

(***************************************************************************)
(* NewZNSSTableManager(channel_factory, info, min_zone, max_zone), with    *)
(* the ZNSSSTableManager constructor it ends in.  channel_factory is never *)
(* null here.                                                              *)
(***************************************************************************)
NewZNSSTableManager ==
    /\ mpc = "start"
    /\ LET d == Division IN
       IF \/ min_zone > max_zone
          \/ TooFewZones(Minus(max_zone, min_zone))
          \/ d.head # max_zone
       THEN /\ mpc' = "refused"
            /\ UNCHANGED ranges
       ELSE /\ mpc' = "created"
            /\ ranges' = [i \in Regions |-> ToLbas(d.zones[i])]
    /\ UNCHANGED <<min_zone, max_zone>>

Next == NewZNSSTableManager

Spec == Init /\ [][Next]_vars

-----------------------------------------------------------------------------
TypeOK ==
    /\ min_zone \in Zones /\ max_zone \in Zones
    /\ mpc \in {"start", "created", "refused"}
    /\ ranges \in [Regions -> [first : 0 .. Word - 1, second : 0 .. Word - 1]]

(***************************************************************************)
(* A manager that NewZNSSTableManager returns divides exactly the zones it *)
(* was given: the L0 logs and LN follow each other from min_zone to        *)
(* max_zone without gap or overlap, every one is non-empty, and LN has at  *)
(* least min_ss_zone_count zones ("Minimum amount of zones for L0 and LN   *)
(* each", tropodb_config_default.h).  The validation only checks the      *)
(* region against level_count * min_ss_zone_count, while L0 takes         *)
(* max(L0_zones, min_ss_zone_count) zones.                                *)
(***************************************************************************)
DivisionTiles ==
    mpc = "created" =>
        /\ ranges[0].first = min_zone * ZoneCap
        /\ ranges[Lanes].second = max_zone * ZoneCap
        /\ \A i \in 0 .. Lanes - 1 : ranges[i].second = ranges[i + 1].first
        /\ \A i \in Regions : ranges[i].first < ranges[i].second
        /\ ranges[Lanes].second - ranges[Lanes].first >= MinSSZones * ZoneCap
=============================================================================
