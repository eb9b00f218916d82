-------------------------- MODULE ReaderPoolProofs --------------------------
(***************************************************************************)
(* Proofs about the L0 reader slot pool (ReaderPool): for every number of  *)
(* threads and of reader slots, request_read_queue and release_read_queue  *)
(* keep every slot's counter equal to its number of holders and at most    *)
(* one, and a thread never waits on cv_ with nobody left to signal it.     *)
(***************************************************************************)
EXTENDS ReaderPool, FiniteSetTheorems, WellFoundedInduction, TLAPS

(***************************************************************************)
(* The scan of request_read_queue finds the lowest free slot whenever one  *)
(* is free: FirstFree is well defined (the naturals are well-founded).     *)
(***************************************************************************)
LEMMA FirstFreeIsFree ==
    ASSUME read_queue \in [Slots -> Nat], FreeSlots # {}
    PROVE  /\ FirstFree \in FreeSlots
           /\ read_queue[FirstFree] = 0
           /\ FirstFree \in Slots
<1>1. FreeSlots \subseteq Nat
    BY DEF FreeSlots, Slots
<1>2. \E x \in FreeSlots : \A y \in FreeSlots : ~(<<y, x>> \in OpToRel(<, Nat))
    BY <1>1, NatLessThanWellFounded, WFMin
<1>3. \E x \in FreeSlots : \A y \in FreeSlots : x <= y
    <2>1. PICK x \in FreeSlots : \A y \in FreeSlots : ~(<<y, x>> \in OpToRel(<, Nat))
        BY <1>2
    <2>2. ASSUME NEW y \in FreeSlots PROVE x <= y
        <3>1. ~(<<y, x>> \in OpToRel(<, Nat))
            BY <2>1
        <3>2. x \in Nat /\ y \in Nat
            BY <1>1
        <3>3. ~(y < x)
            BY <3>1, <3>2 DEF OpToRel
        <3>. QED
            BY <3>2, <3>3
    <2>. QED
        BY <2>2
<1>4. FirstFree \in FreeSlots
    BY <1>3 DEF FirstFree
<1>. QED
    BY <1>4 DEF FreeSlots

\* Every slot's holders are a finite set of threads.
LEMMA HoldersFinite ==
    ASSUME NEW i
    PROVE  IsFiniteSet(Holders(i))
BY ReaderPoolAssumption, FS_Subset DEF Holders

-----------------------------------------------------------------------------
(***************************************************************************)
(* Type correctness of the reader pool: read_queue_ holds a counter per    *)
(* slot and every thread's picked_reader is a slot or "none".              *)
(***************************************************************************)
LEMMA TypeOKInductive == TypeOK /\ [Next]_vars => TypeOK'
<1> SUFFICES ASSUME TypeOK, [Next]_vars PROVE TypeOK'
    OBVIOUS
<1>1. ASSUME NEW t \in Threads, FreeSlots # {}, Take(t) PROVE TypeOK'
    BY <1>1, FirstFreeIsFree DEF TypeOK, Take, PC
<1>2. ASSUME NEW t \in Threads, Request(t) PROVE TypeOK'
    BY <1>1, <1>2 DEF Request, TypeOK, PC
<1>3. ASSUME NEW t \in Threads, Rescan(t) PROVE TypeOK'
    BY <1>1, <1>3 DEF Rescan, TypeOK, PC
<1>4. ASSUME NEW t \in Threads, SpuriousWake(t) PROVE TypeOK'
    BY <1>4 DEF SpuriousWake, TypeOK, PC
<1>5. ASSUME NEW t \in Threads, Release(t) PROVE TypeOK'
    BY <1>5 DEF Release, TypeOK, PC, WakeAll, NoSlot, Slots
<1>6. CASE UNCHANGED vars
    BY <1>6 DEF vars, TypeOK
<1>. QED
    BY <1>2, <1>3, <1>4, <1>5, <1>6 DEF Next

\* ReaderPool never leaves its type.
THEOREM TypeCorrect == Spec => []TypeOK
<1>1. Init => TypeOK
    BY DEF Init, TypeOK, PC, NoSlot, Slots
<1>. QED
    BY <1>1, TypeOKInductive, PTL DEF Spec
-----------------------------------------------------------------------------
(***************************************************************************)
(* The inductive invariant: the type, slot exclusivity and the absence of  *)
(* a lost wake-up together are preserved by every step.  NoLostWakeup      *)
(* needs SlotExclusive (a thread only waits when every counter is          *)
(* non-zero, and a non-zero counter means a holder exists), and            *)
(* SlotExclusive needs TypeOK (the scan finds a slot).                     *)
(***************************************************************************)
IInv == TypeOK /\ SlotExclusive /\ NoLostWakeup

\* Take(t) by a thread that holds no slot keeps the counters exact and at most one.
LEMMA TakePreserves ==
    ASSUME IInv, NEW t \in Threads, pc[t] \in {"idle", "woken"},
           FreeSlots # {}, Take(t)
    PROVE  SlotExclusive' /\ NoLostWakeup'
<1>1. PICK f \in Slots : f = FirstFree /\ read_queue[f] = 0
    BY FirstFreeIsFree DEF IInv, TypeOK
<1>2. slot[t] \notin Slots
    BY DEF IInv, SlotExclusive
<1>3. Holders(f) = {}
    BY <1>1, HoldersFinite, FS_EmptySet DEF IInv, SlotExclusive
<1>4. Holders(f)' = {t}
    <2>1. ASSUME NEW u \in Threads, u # t PROVE u \notin Holders(f)'
        <3>1. u \notin Holders(f)
            BY <1>3
        <3>. QED
            BY <2>1, <3>1 DEF Take, Holders, IInv, TypeOK
    <2>2. t \in Holders(f)'
        BY <1>1 DEF Take, Holders, IInv, TypeOK
    <2>. QED
        BY <2>1, <2>2 DEF Holders
<1>5. ASSUME NEW i \in Slots, i # f PROVE Holders(i)' = Holders(i)
    BY <1>1, <1>2, <1>5 DEF Take, Holders, IInv, TypeOK
<1>6. \A i \in Slots : read_queue'[i] = Cardinality(Holders(i)')
    <2> SUFFICES ASSUME NEW i \in Slots PROVE read_queue'[i] = Cardinality(Holders(i)')
        OBVIOUS
    <2>1. CASE i = f
        <3>1. read_queue'[i] = 1
            BY <1>1, <2>1 DEF Take, IInv, TypeOK
        <3>2. Cardinality(Holders(i)') = 1
            BY <1>4, <2>1, FS_Singleton
        <3>. QED
            BY <3>1, <3>2
    <2>2. CASE i # f
        <3>1. read_queue'[i] = read_queue[i]
            BY <1>1, <2>2 DEF Take, IInv, TypeOK
        <3>. QED
            BY <1>5, <2>2, <3>1 DEF IInv, SlotExclusive
    <2>. QED
        BY <2>1, <2>2
<1>7. \A i \in Slots : read_queue'[i] <= 1
    BY <1>1 DEF Take, IInv, SlotExclusive, TypeOK
<1>8. \A u \in Threads : pc'[u] = "reading" <=> slot'[u] \in Slots
    BY <1>1 DEF Take, IInv, SlotExclusive, TypeOK
<1>9. NoLostWakeup'
    BY DEF Take, NoLostWakeup, IInv, TypeOK
<1>. QED
    BY <1>6, <1>7, <1>8, <1>9 DEF SlotExclusive

\* A thread that finds every slot taken and waits has a reader to wake it.
LEMMA WaitPreserves ==
    ASSUME IInv, NEW t \in Threads, pc[t] \in {"idle", "woken"},
           FreeSlots = {},
           pc' = [pc EXCEPT ![t] = "waiting"], UNCHANGED <<read_queue, slot>>
    PROVE  SlotExclusive' /\ NoLostWakeup'
<1>1. ASSUME NEW i \in Slots PROVE Holders(i)' = Holders(i)
    BY DEF Holders, IInv, TypeOK
<1>2. SlotExclusive'
    BY <1>1 DEF SlotExclusive, IInv, TypeOK
<1>3. 0 \in Slots /\ read_queue[0] # 0
    BY ReaderPoolAssumption DEF FreeSlots, Slots
<1>4. Holders(0) # {}
    BY <1>3, FS_EmptySet DEF IInv, SlotExclusive
<1>5. PICK u \in Threads : pc[u] = "reading"
    BY <1>4 DEF Holders
<1>6. pc'[u] = "reading"
    BY <1>5 DEF IInv, TypeOK
<1>. QED
    BY <1>2, <1>6 DEF NoLostWakeup

\* No slot is held and no thread waits at the start.
LEMMA InitIInv == Init => IInv
<1> SUFFICES ASSUME Init PROVE IInv
    OBVIOUS
<1>1. \A i \in Slots : Holders(i) = {}
    BY DEF Init, Holders
<1>2. TypeOK
    BY ReaderPoolAssumption DEF Init, TypeOK, PC, NoSlot, Slots
<1>3. \A i \in Slots : read_queue[i] = Cardinality(Holders(i)) /\ read_queue[i] <= 1
    BY <1>1, FS_EmptySet DEF Init
<1>4. \A t \in Threads : pc[t] = "reading" <=> slot[t] \in Slots
    BY ReaderPoolAssumption DEF Init, NoSlot, Slots
<1>5. NoLostWakeup
    BY DEF Init, NoLostWakeup
<1>. QED
    BY <1>2, <1>3, <1>4, <1>5 DEF IInv, SlotExclusive

\* Every step of the reader pool, or a stutter, keeps the inductive invariant.
LEMMA IInvInductive == IInv /\ [Next]_vars => IInv'
<1> SUFFICES ASSUME IInv, [Next]_vars PROVE IInv'
    OBVIOUS
<1>0. TypeOK'
    BY TypeOKInductive DEF IInv
<1>1. ASSUME NEW t \in Threads, Request(t) PROVE IInv'
    BY <1>0, <1>1, TakePreserves, WaitPreserves DEF Request, IInv
<1>2. ASSUME NEW t \in Threads, Rescan(t) PROVE IInv'
    BY <1>0, <1>2, TakePreserves, WaitPreserves DEF Rescan, IInv
<1>3. ASSUME NEW t \in Threads, SpuriousWake(t) PROVE IInv'
    <2>1. \A i \in Slots : Holders(i)' = Holders(i)
        BY <1>3 DEF SpuriousWake, Holders, IInv, TypeOK
    <2>2. SlotExclusive'
        BY <1>3, <2>1 DEF SpuriousWake, SlotExclusive, IInv, TypeOK
    <2>3. NoLostWakeup'
        BY <1>3 DEF SpuriousWake, NoLostWakeup, IInv, TypeOK
    <2>. QED
        BY <1>0, <2>2, <2>3 DEF IInv
<1>4. ASSUME NEW t \in Threads, Release(t) PROVE IInv'
    <2>1. PICK s \in Slots : s = slot[t] /\ t \in Holders(s)
        BY <1>4 DEF Release, Holders, IInv, SlotExclusive
    <2>2. Holders(s) = {t}
        <3>1. Cardinality(Holders(s)) <= 1
            BY <2>1 DEF IInv, SlotExclusive
        <3>2. IsFiniteSet(Holders(s))
            BY HoldersFinite
        <3>3. Cardinality(Holders(s) \ {t}) = 0
            <4>1. Cardinality(Holders(s) \ {t}) = Cardinality(Holders(s)) - 1
                BY <2>1, <3>2, FS_RemoveElement
            <4>2. Cardinality(Holders(s) \ {t}) \in Nat /\ Cardinality(Holders(s)) \in Nat
                BY <3>2, FS_RemoveElement, FS_CardinalityType
            <4>. QED
                BY <3>1, <4>1, <4>2
        <3>4. Holders(s) \ {t} = {}
            BY <3>2, <3>3, FS_RemoveElement, FS_EmptySet
        <3>. QED
            BY <2>1, <3>4
    <2>3. Holders(s)' = {}
        <3>1. ASSUME NEW u \in Threads PROVE u \notin Holders(s)'
            <4>1. CASE u = t
                BY <1>4, <4>1 DEF Release, Holders, WakeAll, IInv, TypeOK
            <4>2. CASE u # t
                <5>1. u \notin Holders(s)
                    BY <2>2, <4>2
                <5>. QED
                    BY <1>4, <4>2, <5>1 DEF Release, Holders, WakeAll, IInv, TypeOK
            <4>. QED
                BY <4>1, <4>2
        <3>. QED
            BY <3>1 DEF Holders
    <2>4. ASSUME NEW i \in Slots, i # s PROVE Holders(i)' = Holders(i)
        BY <1>4, <2>1, <2>4 DEF Release, Holders, WakeAll, IInv, TypeOK
    <2>5. SlotExclusive'
        <3>1. \A i \in Slots : read_queue'[i] = Cardinality(Holders(i)')
            <4> SUFFICES ASSUME NEW i \in Slots
                         PROVE read_queue'[i] = Cardinality(Holders(i)')
                OBVIOUS
            <4>1. CASE i = s
                <5>1. read_queue'[i] = 0
                    BY <1>4, <2>1, <4>1 DEF Release, IInv, TypeOK
                <5>. QED
                    BY <2>3, <4>1, <5>1, FS_EmptySet
            <4>2. CASE i # s
                <5>1. read_queue'[i] = read_queue[i]
                    BY <1>4, <2>1, <4>2 DEF Release, IInv, TypeOK
                <5>. QED
                    BY <2>4, <4>2, <5>1 DEF IInv, SlotExclusive
            <4>. QED
                BY <4>1, <4>2
        <3>2. \A i \in Slots : read_queue'[i] <= 1
            BY <1>4, <2>1 DEF Release, IInv, SlotExclusive, TypeOK
        <3>3. \A u \in Threads : pc'[u] = "reading" <=> slot'[u] \in Slots
            BY <1>4 DEF Release, WakeAll, NoSlot, Slots, IInv, SlotExclusive, TypeOK
        <3>. QED
            BY <3>1, <3>2, <3>3 DEF SlotExclusive
    <2>6. NoLostWakeup'
        BY <1>4 DEF Release, WakeAll, NoLostWakeup, IInv, TypeOK
    <2>. QED
        BY <1>0, <2>5, <2>6 DEF IInv
<1>5. CASE UNCHANGED vars
    BY <1>5 DEF vars, IInv, TypeOK, SlotExclusive, NoLostWakeup, Holders, FreeSlots
<1>. QED
    BY <1>1, <1>2, <1>3, <1>4, <1>5 DEF Next

(***************************************************************************)
(* For every number of threads and of reader slots, request_read_queue and *)
(* release_read_queue never let two reads share a slot, and never leave a  *)
(* thread waiting on cv_ while no read holds a slot that will signal it.   *)
(***************************************************************************)
THEOREM SlotExclusiveHolds == Spec => []SlotExclusive
BY InitIInv, IInvInductive, PTL DEF Spec, IInv

\* No lost wake-up, for every number of threads and reader slots.
THEOREM NoLostWakeupHolds == Spec => []NoLostWakeup
BY InitIInv, IInvInductive, PTL DEF Spec, IInv
=============================================================================
