------------------------------ MODULE Sorting ------------------------------
(***************************************************************************)
(* The sorting programs of test/quicksort: quicksort and quicksort2 of     *)
(* quicksort.c (main calls the second), bubblesort.c and bubblesort2.c,    *)
(* one step per turn of a loop.  Random numbers are any numbers.           *)
(***************************************************************************)
EXTENDS Integers, Sequences, FiniteSets

CONSTANTS
  N,          \* numbers to sort (50 and 100 in the code)
  Numbers     \* the values they can have

VARIABLES
  sort,       \* the program that runs
  input,      \* history: the numbers before sorting
  num,        \* the array
  todo,       \* ranges of the calls still to be made, the next one first
  at,         \* the loop that is running
  low, high, i, j, temp,   \* locals
  beyond      \* history: positions read that are not in the array

ranges == <<low, high, temp>>
vars == <<sort, input, num, todo, at, ranges, i, j, beyond>>

Positions == 0..(N - 1)

TypeOK ==
  /\ sort \in {"quicksort", "quicksort2", "bubblesort", "bubblesort2"}
  /\ input \in [Positions -> Numbers] /\ num \in [Positions -> Numbers]
  /\ todo \in Seq((0..N) \X (-1..(N - 1))) /\ Len(todo) <= N + 1
  /\ at \in {"call", "right", "left", "bubble", "end"}
  /\ low \in 0..N /\ high \in -1..(N - 1) /\ temp \in Numbers
  /\ i \in 0..N /\ j \in 0..N /\ beyond \subseteq Nat
  /\ at \in {"right", "left"} => {i, j} \subseteq Positions

(* main of each program; a range of one element is the whole of a global   *)
(* array here.                                                             *)
Init ==
  /\ sort \in {"quicksort", "quicksort2", "bubblesort", "bubblesort2"}
  /\ input \in [Positions -> Numbers] /\ num = input
  /\ todo = <<<<0, N - 1>>>>
  /\ at = IF sort \in {"quicksort", "quicksort2"} THEN "call" ELSE "bubble"
  /\ low = 0 /\ high = N - 1 /\ temp = num[0]
  /\ i = 0 /\ j = 0 /\ beyond = {}
-----------------------------------------------------------------------------
(* The beginning of a call: its locals.  quicksort reads num[low] before   *)
(* it looks whether there is anything to sort, quicksort2 after.           *)
FirstRead(part) ==
  IF sort = "quicksort" \/ part[1] <= part[2] THEN {part[1]} ELSE {}

Reads(part) == beyond' = beyond \union (FirstRead(part) \ Positions)

Call ==
  /\ at = "call" /\ todo # <<>>
  /\ Head(todo)[1] < Head(todo)[2] /\ Reads(Head(todo))
  /\ low' = Head(todo)[1] /\ high' = Head(todo)[2]
  /\ i' = low' /\ j' = high' /\ temp' = num[low']
  /\ todo' = Tail(todo) /\ at' = "right"
  /\ UNCHANGED <<sort, input, num>>

(* Nothing to do for less than two elements; for one, quicksort2 calls     *)
(* itself twice with none.  What quicksort has read it drops.              *)
Return ==
  /\ at = "call" /\ todo # <<>>
  /\ Head(todo)[1] >= Head(todo)[2] /\ Reads(Head(todo))
  /\ todo' = Tail(todo)
  /\ UNCHANGED <<sort, input, num, at, ranges, i, j>>

(* The conditions of the two inner loops. *)
PassesRight ==
  i < j /\ IF sort = "quicksort" THEN num[j] >= temp ELSE num[j] > temp

PassesLeft ==
  i < j /\ IF sort = "quicksort" THEN num[i] <= temp ELSE num[i] < temp

MoveRight ==
  /\ at = "right" /\ PassesRight
  /\ j' = j - 1
  /\ UNCHANGED <<sort, input, num, todo, at, ranges, i, beyond>>

(* num[i]=num[j]; num[j]=temp; *)
StopRight ==
  /\ at = "right" /\ ~PassesRight /\ at' = "left"
  /\ num' = [[num EXCEPT ![i] = num[j]] EXCEPT ![j] = temp]
  /\ UNCHANGED <<sort, input, todo, ranges, i, j, beyond>>

MoveLeft ==
  /\ at = "left" /\ PassesLeft
  /\ i' = i + 1
  /\ UNCHANGED <<sort, input, num, todo, at, ranges, j, beyond>>

(* num[j]=num[i]; num[i]=temp; in quicksort, the other way round in        *)
(* quicksort2.                                                             *)
Stopped == IF sort = "quicksort"
           THEN [[num EXCEPT ![j] = num[i]] EXCEPT ![i] = temp]
           ELSE [num EXCEPT ![i] = temp, ![j] = temp]

(* The outer loop goes on, or the two recursive calls follow. *)
StopLeft ==
  /\ at = "left" /\ ~PassesLeft
  /\ num' = Stopped
  /\ \/ i < j /\ at' = "right" /\ UNCHANGED todo
     \/ i >= j /\ at' = "call" /\ todo' = <<<<low, i - 1>>, <<j + 1, high>>>> \o todo
  /\ UNCHANGED <<sort, input, ranges, i, j, beyond>>
-----------------------------------------------------------------------------
(* The outer loops end at N-1 and at N. *)
Rows == IF sort = "bubblesort" THEN N - 1 ELSE N

Out == IF sort = "bubblesort" THEN num[j] > num[j + 1] ELSE num[j] < num[j + 1]

MutInRow == j < N - 2 - i

InRow == j < N - 1 - i

Compare ==
  /\ at = "bubble" /\ i < Rows /\ InRow
  /\ num' = IF Out THEN [num EXCEPT ![j] = num[j + 1], ![j + 1] = num[j]] ELSE num
  /\ j' = j + 1
  /\ UNCHANGED <<sort, input, todo, at, ranges, i, beyond>>

NextRow ==
  /\ at = "bubble" /\ i < Rows /\ ~InRow
  /\ i' = i + 1 /\ j' = 0
  /\ UNCHANGED <<sort, input, num, todo, at, ranges, beyond>>

End ==
  /\ at' = "end"
  /\ (at = "call" /\ todo = <<>>) \/ (at = "bubble" /\ i = Rows)
  /\ UNCHANGED <<sort, input, num, todo, ranges, i, j, beyond>>

Next ==
  \/ Call \/ Return \/ MoveRight \/ StopRight \/ MoveLeft \/ StopLeft
  \/ Compare \/ NextRow \/ End

Spec == Init /\ [][Next]_vars
FairSpec == Spec /\ WF_vars(Next)
-----------------------------------------------------------------------------
(* The programs read and write their array only, but for quicksort: its    *)
(* call for an empty part at the end reads the one element after the array.*)
ReadsInside == beyond \subseteq (IF sort = "quicksort" THEN {N} ELSE {})

Ordered(a, b) == IF sort = "bubblesort2" THEN a >= b ELSE a <= b

SortedAndKept ==
  /\ \A k \in 1..(N - 1) : Ordered(num[k - 1], num[k])
  /\ \A v \in Numbers :
       Cardinality({k \in Positions : num[k] = v})
         = Cardinality({k \in Positions : input[k] = v})

(* A program that ends has sorted its numbers, ascending or, bubblesort2,  *)
(* descending, and lost none.  quicksort2, which overwrites an element it  *)
(* has not put anywhere else, is no exception: it then does not end.       *)
EndsSorted == at = "end" => SortedAndKept

(* quicksort2 between two elements equal to the pivot: no loop moves. *)
Stuck ==
  /\ sort = "quicksort2" /\ at \in {"left", "right"}
  /\ i < j /\ num[i] = temp /\ num[j] = temp

(* Every program ends, but for quicksort2, which can only come to where    *)
(* its outer loop runs on for ever without moving i or j.                  *)
EndsOrStuck == <>(at = "end") \/ <>[]Stuck
=============================================================================
