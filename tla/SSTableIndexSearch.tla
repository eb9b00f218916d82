-------------------------- MODULE SSTableIndexSearch --------------------------
(***************************************************************************)
(* The loop of FindSSTableIndex (zns_sstable_manager.cc, lines 354-365) as *)
(* a state machine, one pass per step, over every sorted vector of at most *)
(* MaxLen tables with largest keys in Keys and every searched key.          *)
(***************************************************************************)
EXTENDS SSTableIndex

CONSTANTS
    Keys,    \* the user keys
    MaxLen   \* the most tables in the vector

\* What the constants are: keys are naturals, the length a natural.
SSTableIndexSearchAssumption ==
    /\ Keys \subseteq Nat
    /\ MaxLen \in Nat

VARIABLES
    n,       \* ss.size()
    ss,      \* ss[i]: largest user key of table i
    key,     \* ExtractUserKey(key)
    left,
    right,
    pc       \* "loop" while in the while loop, "done" once it returned

vars == <<n, ss, key, left, right, pc>>

Init ==
    /\ n \in 0 .. MaxLen
    /\ ss \in {f \in [0 .. n - 1 -> Keys] : Sorted(f, n)}
    /\ key \in Keys
    /\ left = 0
    /\ right = n
    /\ pc = "loop"

\* One pass of the while loop.
Step ==
    /\ pc = "loop"
    /\ left < right
    /\ LET lr == Halve(ss, key, [left |-> left, right |-> right])
       IN /\ left' = lr.left
          /\ right' = lr.right
    /\ UNCHANGED <<n, ss, key, pc>>

\* The loop test fails: return right.
Return ==
    /\ pc = "loop"
    /\ ~(left < right)
    /\ pc' = "done"
    /\ UNCHANGED <<n, ss, key, left, right>>

Next == Step \/ Return

Spec == Init /\ [][Next]_vars

-----------------------------------------------------------------------------
TypeOK ==
    /\ n \in 0 .. MaxLen
    /\ ss \in [0 .. n - 1 -> Keys]
    /\ key \in Keys
    /\ left \in 0 .. n
    /\ right \in 0 .. n
    /\ pc \in {"loop", "done"}

(***************************************************************************)
(* When FindSSTableIndex returns, it returns the first table whose largest *)
(* key is not below the key, or ss.size() when every table's is below: the *)
(* table LNZoneIterator::Seek must position on, as no earlier table can     *)
(* hold the key.                                                           *)
(***************************************************************************)
SearchCorrect == pc = "done" => right = LowerBound(ss, n, key)
=============================================================================
