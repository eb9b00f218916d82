-------------------------- MODULE SSTableIndexProofs --------------------------
(***************************************************************************)
(* Proofs about the binary search of FindSSTableIndex: it returns the      *)
(* least index whose largest key is not below the key, for every sorted    *)
(* vector, every length and every key.                                     *)
(***************************************************************************)
EXTENDS SSTableIndexSearch, TLAPS

(***************************************************************************)
(* The inductive invariant: [left, right) is the part still unknown; every *)
(* table before left has a largest key below the key, every table from     *)
(* right on has one not below it; when the loop has returned the part is  *)
(* empty.  Sortedness of the vector carries the step.                      *)
(***************************************************************************)
IInv ==
    /\ TypeOK
    /\ Sorted(ss, n)
    /\ left <= right
    /\ \A i \in 0 .. left - 1 : ss[i] < key
    /\ \A i \in right .. n - 1 : key <= ss[i]
    /\ pc = "done" => right <= left

(***************************************************************************)
(* LowerBound is the unique index with the lower-bound property.           *)
(***************************************************************************)
LEMMA LowerBoundUnique ==
    ASSUME NEW v, NEW m \in Nat, NEW k \in Nat, v \in [0 .. m - 1 -> Nat],
           NEW j \in 0 .. m, IsLowerBound(v, m, k, j)
    PROVE  LowerBound(v, m, k) = j
<1>1. \A x, y \in 0 .. m : IsLowerBound(v, m, k, x) /\ IsLowerBound(v, m, k, y) => x = y
  <2>. SUFFICES ASSUME NEW x \in 0 .. m, NEW y \in 0 .. m,
                       IsLowerBound(v, m, k, x), IsLowerBound(v, m, k, y), x < y
                PROVE  FALSE
    BY DEF IsLowerBound
  <2>1. v[x] < k /\ k <= v[x]
    BY DEF IsLowerBound
  <2>. QED BY <2>1
<1>2. IsLowerBound(v, m, k, LowerBound(v, m, k))
  BY DEF LowerBound
<1>. QED BY <1>1, <1>2 DEF LowerBound

\* The binary search's inductive invariant holds on entry to the search.
LEMMA InitIInv == SSTableIndexSearchAssumption /\ Init => IInv
BY DEF Init, IInv, TypeOK

\* One halving step of the binary search keeps its inductive invariant.
LEMMA StepIInv == SSTableIndexSearchAssumption /\ IInv /\ Step => IInv'
<1>. SUFFICES ASSUME SSTableIndexSearchAssumption, IInv, Step PROVE IInv'
  OBVIOUS
<1>. USE DEF SSTableIndexSearchAssumption
<1>. DEFINE mid == (left + right) \div 2
<1>1. mid \in left .. right - 1 /\ mid \in 0 .. n - 1
  BY DEF IInv, TypeOK, Step
<1>2. ss[mid] \in Nat /\ key \in Nat
  BY <1>1 DEF IInv, TypeOK
<1>3. CASE ss[mid] < key
  <2>1. left' = mid + 1 /\ right' = right /\ UNCHANGED <<n, ss, key, pc>>
    BY <1>3 DEF Step, Halve
  <2>2. \A i \in 0 .. mid : ss[i] < key
    <3>. SUFFICES ASSUME NEW i \in 0 .. mid PROVE ss[i] < key
      OBVIOUS
    <3>1. i \in 0 .. n - 1 /\ i <= mid
      BY <1>1 DEF IInv, TypeOK
    <3>2. ss[i] <= ss[mid]
      BY <1>1, <3>1 DEF IInv, Sorted
    <3>3. ss[i] \in Nat
      BY <3>1 DEF IInv, TypeOK
    <3>. QED BY <1>2, <1>3, <3>2, <3>3
  <2>. QED BY <1>1, <2>1, <2>2 DEF IInv, TypeOK, Sorted
<1>4. CASE ~(ss[mid] < key)
  <2>1. right' = mid /\ left' = left /\ UNCHANGED <<n, ss, key, pc>>
    BY <1>4 DEF Step, Halve
  <2>2. \A i \in mid .. n - 1 : key <= ss[i]
    <3>. SUFFICES ASSUME NEW i \in mid .. n - 1 PROVE key <= ss[i]
      OBVIOUS
    <3>1. i \in 0 .. n - 1 /\ mid <= i
      BY <1>1 DEF IInv, TypeOK
    <3>2. ss[mid] <= ss[i]
      BY <1>1, <3>1 DEF IInv, Sorted
    <3>3. ss[i] \in Nat
      BY <3>1 DEF IInv, TypeOK
    <3>. QED BY <1>2, <1>4, <3>2, <3>3
  <2>. QED BY <1>1, <2>1, <2>2 DEF IInv, TypeOK, Sorted
<1>. QED BY <1>3, <1>4

\* Every step of the search, or a stutter, keeps its inductive invariant.
LEMMA IInvInductive == SSTableIndexSearchAssumption /\ IInv /\ [Next]_vars => IInv'
<1>. SUFFICES ASSUME SSTableIndexSearchAssumption, IInv, [Next]_vars PROVE IInv'
  OBVIOUS
<1>1. CASE Step
  BY <1>1, StepIInv
<1>2. CASE Return
  BY <1>2 DEF Return, IInv, TypeOK, Sorted
<1>3. CASE UNCHANGED vars
  BY <1>3 DEF vars, IInv, TypeOK, Sorted
<1>. QED BY <1>1, <1>2, <1>3 DEF Next

\* The inductive invariant implies that a finished search returns the lower bound of the key.
LEMMA IInvCorrect == SSTableIndexSearchAssumption /\ IInv => SearchCorrect
<1>. SUFFICES ASSUME SSTableIndexSearchAssumption, IInv, pc = "done"
             PROVE  right = LowerBound(ss, n, key)
  BY DEF SearchCorrect
<1>. USE DEF SSTableIndexSearchAssumption
<1>1. right = left
  BY DEF IInv, TypeOK
<1>2. ss \in [0 .. n - 1 -> Nat] /\ key \in Nat /\ n \in Nat /\ right \in 0 .. n
  <2>1. ss \in [0 .. n - 1 -> Keys] /\ Keys \subseteq Nat
    BY DEF IInv, TypeOK
  <2>2. ss \in [0 .. n - 1 -> Nat]
    BY <2>1, Zenon
  <2>. QED BY <2>2 DEF IInv, TypeOK
<1>3. \A i \in 0 .. right - 1 : ss[i] < key
  BY <1>1 DEF IInv
<1>4. right < n => key <= ss[right]
  BY <1>2 DEF IInv
<1>5. IsLowerBound(ss, n, key, right)
  BY <1>2, <1>3, <1>4 DEF IsLowerBound
<1>. QED BY <1>2, <1>5, LowerBoundUnique, Zenon

(***************************************************************************)
(* FindSSTableIndex, when its loop returns, returns the first table whose  *)
(* largest key is not below the searched key, for every sorted vector of   *)
(* every length and every key (TLC checks the same of the fold Seek uses,  *)
(* SeekFindsTable, on the levels of the LNIterator run).                   *)
(***************************************************************************)
THEOREM SearchCorrectHolds ==
    ASSUME SSTableIndexSearchAssumption
    PROVE  Spec => []SearchCorrect
<1>1. Init => IInv
  BY InitIInv
<1>2. IInv /\ [Next]_vars => IInv'
  BY IInvInductive
<1>3. IInv => SearchCorrect
  BY IInvCorrect
<1>. QED BY <1>1, <1>2, <1>3, PTL DEF Spec
=============================================================================
