----------------------------- MODULE SSTableIndex -----------------------------
(***************************************************************************)
(* ZNSSSTableManager::FindSSTableIndex (zns_sstable_manager.cc): the       *)
(* binary search for the first table of a level whose largest key is not   *)
(* below a key.  ss is the vector of the tables' largest user keys, as a   *)
(* function over 0 .. n-1 (the C++ indices); keys are naturals ordered by  *)
(* <, standing for cmp->Compare on user keys.                              *)
(***************************************************************************)
EXTENDS Naturals

\* The vector of the n tables' largest keys is sorted.
Sorted(ss, n) == \A i, j \in 0 .. n - 1 : i <= j => ss[i] <= ss[j]

\* One pass of the while loop: mid = (left + right) / 2, then either
\* left = mid + 1 (largest of ss[mid] below the key) or right = mid.
\* Mutant: left = mid instead of mid + 1.
HalveNoIncrement(ss, key, lr) ==
    LET mid == (lr.left + lr.right) \div 2
    IN IF ss[mid] < key THEN [lr EXCEPT !.left = mid]
                        ELSE [lr EXCEPT !.right = mid]

Halve(ss, key, lr) ==
    LET mid == (lr.left + lr.right) \div 2
    IN IF ss[mid] < key THEN [lr EXCEPT !.left = mid + 1]
                        ELSE [lr EXCEPT !.right = mid]

(***************************************************************************)
(* The whole search: left = 0, right = n, loop while left < right, return  *)
(* right.  Every pass of the loop shrinks [left, right), so n passes reach *)
(* the end; a loop still running after n passes is one that never returns, *)
(* and the result is then n + 1, an index no search returns.              *)
(***************************************************************************)
FindSSTableIndex(ss, n, key) ==
    LET loop[k \in 0 .. n] ==
          IF k = 0 THEN [left |-> 0, right |-> n]
          ELSE IF loop[k - 1].left < loop[k - 1].right
               THEN Halve(ss, key, loop[k - 1])
               ELSE loop[k - 1]
    IN IF loop[n].left < loop[n].right THEN n + 1 ELSE loop[n].right

(***************************************************************************)
(* The reference: the least index whose largest key is not below the key, *)
(* or n when there is none.                                                *)
(***************************************************************************)
IsLowerBound(ss, n, key, j) ==
    /\ j \in 0 .. n
    /\ \A i \in 0 .. j - 1 : ss[i] < key
    /\ j < n => key <= ss[j]

LowerBound(ss, n, key) == CHOOSE j \in 0 .. n : IsLowerBound(ss, n, key, j)
=============================================================================
