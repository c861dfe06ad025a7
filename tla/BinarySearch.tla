---------------------------- MODULE BinarySearch ----------------------------
(***************************************************************************)
(* binarysearch of test/quicksort/binarysearch.c, one step per turn of its *)
(* loop, on ascending numbers.                                             *)
(***************************************************************************)
EXTENDS Integers

CONSTANTS
  N,          \* numbers in the array (5 in the code)
  Numbers     \* the values they can have

VARIABLES
  num,        \* the array
  val,        \* the number looked for
  low, high,  \* what is left of the array
  b           \* the result; -2 until the function returns

vars == <<num, val, low, high, b>>

Positions == 0..(N - 1)

TypeOK ==
  /\ num \in [Positions -> Numbers] /\ val \in Numbers
  /\ low \in 0..N /\ high \in -1..(N - 1)
  /\ b \in -2..(N - 1)

Ascending == \A k, m \in Positions : k <= m => num[k] <= num[m]

Init ==
  /\ num \in [Positions -> Numbers] /\ Ascending
  /\ val \in Numbers
  /\ low = 0 /\ high = N - 1
  /\ b = -2
-----------------------------------------------------------------------------
mid == (low + high) \div 2

Right ==
  /\ b = -2 /\ low <= high /\ val > num[mid]
  /\ low' = mid + 1
  /\ UNCHANGED <<num, val, high, b>>

Left ==
  /\ b = -2 /\ low <= high /\ val < num[mid]
  /\ high' = mid - 1
  /\ UNCHANGED <<num, val, low, b>>

Found ==
  /\ b = -2 /\ low <= high /\ val = num[mid]
  /\ b' = mid
  /\ UNCHANGED <<num, val, low, high>>

NotFound ==
  /\ b = -2 /\ low > high
  /\ b' = -1
  /\ UNCHANGED <<num, val, low, high>>

Next == Right \/ Left \/ Found \/ NotFound

Spec == Init /\ [][Next]_vars
FairSpec == Spec /\ WF_vars(Next)
-----------------------------------------------------------------------------
(* The result is a position of the number, or -1 only if it is nowhere: no *)
(* turn has dropped the part of the array that holds it.                   *)
FindsIt ==
  /\ b \in Positions => num[b] = val
  /\ b = -1 => \A k \in Positions : num[k] # val

(* The function returns, for arrays of any length, none included. *)
Returns == <>(b # -2)
=============================================================================
