----------------------------- MODULE DataList ------------------------------
(***************************************************************************)
(* What the list of test/quicksort/node.c promises to the person at the    *)
(* keyboard: a sequence of values, made once, into which values go behind  *)
(* a position and out of which they are taken by position.  Other indexes  *)
(* do nothing, except two inputs after which nothing is promised.          *)
(***************************************************************************)
EXTENDS Integers, SequencesExt

CONSTANTS
  Values,
  Indexes,      \* the positions typed in
  MaxLength     \* bound: the longest list

VARIABLES list, index, begun, broken

vars == <<list, index, begun, broken>>

Init == list = <<>> /\ index \in Indexes /\ begun = FALSE /\ broken = FALSE

(* The person types the position of the next deletion or insertion. *)
Type == index' \in Indexes /\ UNCHANGED <<list, begun, broken>>

(* The program has written through a pointer that points nowhere. *)
Break == list' = <<>> /\ broken' = TRUE

(* A list is made of at least one value. *)
Create ==
  /\ ~begun /\ begun' = TRUE
  /\ \/ Break
     \/ \E values \in SeqOf(Values, MaxLength) \ {<<>>} :
          list' = values /\ UNCHANGED broken
  /\ UNCHANGED index

Input ==
  /\ begun /\ ~broken /\ Len(list) < MaxLength
  /\ index \in 0..Len(list)
  /\ \E value \in Values : list' = InsertAt(list, index + 1, value)
  /\ UNCHANGED <<index, begun, broken>>

Delete ==
  /\ begun /\ ~broken
  /\ index \in DOMAIN list /\ list' = RemoveAt(list, index)
  /\ UNCHANGED <<index, begun, broken>>

(* The position one past the last. *)
DeleteEnd ==
  /\ begun /\ ~broken
  /\ index = Len(list) + 1 /\ Break
  /\ UNCHANGED <<index, begun>>

Next == Type \/ Create \/ Input \/ Delete \/ DeleteEnd

Spec == Init /\ [][Next]_vars
=============================================================================
