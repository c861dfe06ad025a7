----------------------------- MODULE NodeList ------------------------------
(***************************************************************************)
(* test/quicksort/node.c: a ring of nodes through a head, walked by index  *)
(* from the keyboard.  A node is named by a number, the head by 0; with    *)
(* pointers of four bytes contain_of finds the value that belongs to a     *)
(* node.  What a free cell holds is not kept apart (it is not read).       *)
(***************************************************************************)
EXTENDS Integers, Sequences, FiniteSetsExt

CONSTANTS
  Values,
  MaxLength,    \* bound: cells that malloc has
  Indexes       \* the positions typed in

VARIABLES
  next, pre,    \* the pointers of each node and of the head
  val,          \* the value next to each node
  used,         \* the cells malloc has given and free has not taken back
  doing,        \* what the program is doing
  pos, i, index,    \* locals of the walk
  broken        \* something was written through a wrong pointer

ring == <<next, pre, val, used>>
walk == <<pos, i, index>>
vars == <<ring, doing, walk, broken>>

head == 0
Cells == 1..MaxLength
Nodes == Cells \union {head}
Blank == CHOOSE v \in Values : TRUE

TypeOK ==
  /\ next \in [Nodes -> Nodes] /\ pre \in [Nodes -> Nodes]
  /\ val \in [Cells -> Values] /\ used \subseteq Cells
  /\ doing \in {"create", "wait", "input", "del", "show"}
  /\ pos \in Nodes /\ i \in 0..(MaxLength + 1) /\ index \in Indexes
  /\ broken \in BOOLEAN

Init ==
  /\ next = [n \in Nodes |-> head] /\ pre = [n \in Nodes |-> head]
  /\ val = [n \in Cells |-> Blank] /\ used = {}
  /\ doing = "create"
  /\ pos = head /\ i = 0 /\ index = Min(Indexes)
  /\ broken = FALSE
-----------------------------------------------------------------------------
(* create_data_list: the nodes in the order of the values; without a value *)
(* the uninitialised newdata is written through.                           *)
create_data_list ==
  /\ doing = "create" /\ doing' = "wait"
  /\ \E num \in 0..MaxLength, values \in [Cells -> Values] :
       /\ \A n \in Cells : n > num => values[n] = Blank
       /\ used' = 1..num
       /\ val' = values
       /\ next' = [n \in Nodes |-> IF n < num THEN n + 1 ELSE head]
       /\ pre' = [n \in Nodes |-> IF n = head THEN num
                                  ELSE IF n <= num THEN n - 1 ELSE head]
       /\ broken' = (num = 0)
  /\ UNCHANGED walk

(* The options of main: each starts its walk. *)
Start(what, from, k) ==
  /\ doing = "wait" /\ ~broken /\ doing' = what
  /\ pos' = from /\ i' = k
  /\ UNCHANGED <<ring, broken>>

StartInput ==
  /\ Start("input", head, 0)
  /\ used # Cells
  /\ index' \in Indexes

StartDel ==
  /\ Start("del", next[head], 1)
  /\ index' \in Indexes

StartShow ==
  /\ Start("show", next[head], 0)
  /\ UNCHANGED index

MutWalks == \/ doing = "input" /\ next[pos] # head /\ i # index
            \/ doing = "del" /\ pos # head /\ i # index
            \/ doing = "show"   \* as if the list ended in a null pointer

(* The loop conditions of the three walks. *)
Walks == \/ doing = "input" /\ next[pos] # head /\ i # index
         \/ doing = "del" /\ pos # head /\ i # index
         \/ doing = "show" /\ pos # head

Hop ==
  /\ Walks
  /\ pos' = next[pos]
  /\ i' = IF doing = "show" THEN i ELSE i + 1
  /\ UNCHANGED <<ring, doing, index, broken>>

(* The walk is over: the locals are given up. *)
End(what) ==
  /\ doing = what /\ ~Walks /\ doing' = "wait"
  /\ pos' = head /\ i' = 0
  /\ UNCHANGED index

Refused ==
  /\ i # index /\ (End("input") \/ End("del"))
  /\ UNCHANGED <<ring, broken>>

EndShow ==
  /\ End("show")
  /\ UNCHANGED <<ring, broken>>

MutLinkBehind(newdata) ==   \* as in intput_data_node
  /\ next' = [next EXCEPT ![pos] = newdata, ![newdata] = next[pos]]
  /\ pre' = [pre EXCEPT ![newdata] = pos]

(* The assignments of input_data_node2. *)
LinkBehind(newdata) ==
  /\ next' = [next EXCEPT ![pos] = newdata, ![newdata] = next[pos]]
  /\ pre' = [pre EXCEPT ![next[pos]] = newdata, ![newdata] = pos]

input_data_node2 ==
  /\ End("input") /\ i = index
  /\ \E value \in Values :
       LET newdata == Min(Cells \ used) IN
       /\ LinkBehind(newdata)
       /\ used' = used \union {newdata}
       /\ val' = [val EXCEPT ![newdata] = value]
  /\ UNCHANGED broken

(* pre->next=next; next->pre=pre; *)
Unlink ==
  /\ next' = [[next EXCEPT ![pre[pos]] = next[pos]] EXCEPT ![pos] = head]
  /\ pre' = [[pre EXCEPT ![next[pos]] = pre[pos]] EXCEPT ![pos] = head]

MutDeletes == End("del")   \* refuses nothing

Deletes == End("del") /\ i = index

del_data_node ==
  /\ Deletes /\ pos # head
  /\ Unlink
  /\ used' = used \ {pos}
  /\ val' = [val EXCEPT ![pos] = Blank]
  /\ UNCHANGED broken

(* The walk has come back to the head when its count reaches the index:    *)
(* the head, which malloc never gave, is unlinked and freed.               *)
DelHead ==
  /\ Deletes /\ pos = head
  /\ broken' = TRUE
  /\ UNCHANGED ring

Walk == Hop \/ Refused \/ EndShow \/ input_data_node2 \/ del_data_node \/ DelHead

Next == create_data_list \/ StartInput \/ StartDel \/ StartShow \/ Walk

Spec == Init /\ [][Next]_vars

(* The program runs on; nobody has to type. *)
FairSpec == Spec /\ WF_vars(Walk)
-----------------------------------------------------------------------------
(* The nodes from the head along next, and along pre. *)
Along(pointer) ==
  LET at[k \in 0..MaxLength] == IF k = 0 THEN pointer[head] ELSE pointer[at[k - 1]]
  IN [k \in 1..Cardinality(used) |-> at[k - 1]]

(* Next and pre go through the same nodes in opposite orders, and these    *)
(* are all the cells malloc has given: none is leaked, none is reachable   *)
(* after it was freed.                                                     *)
RingWhole == ~broken =>
  /\ \A n \in used \union {head} :
       next[n] \in used \union {head} /\ pre[next[n]] = n
  /\ {Along(next)[k] : k \in DOMAIN Along(next)} = used

(* What goes on in the ring is what happens to a sequence: values go in    *)
(* and come out at the position that was typed, any other position does    *)
(* nothing, and only a list of no values and the deletion of the position  *)
(* one past the last break the program.                                    *)
Contents == [k \in DOMAIN Along(next) |-> val[Along(next)[k]]]

List == INSTANCE DataList WITH
  list <- IF broken THEN <<>> ELSE Contents,
  begun <- (doing # "create")

KeepsList == List!Spec

(* Every walk comes to an end. *)
OptionEnds == (doing \in {"input", "del", "show"}) ~> (doing = "wait")
=============================================================================
