----------------------------- MODULE MCExamples -----------------------------
(***************************************************************************)
(* The small programs for TLC: which of them runs is chosen at the start,  *)
(* and the others stay as they are.                                        *)
(***************************************************************************)
EXTENDS Complete, FiniteSets

CONSTANTS Values, MaxLength, Indexes, Length, Numbers, Callers, Tickets

(* Lists, arrays and locks of any size; some position is the lowest that   *)
(* can be typed; fewer callers than tickets, as processors are fewer than  *)
(* 2^16.                                                                   *)
ASSUME ExamplesAssumption ==
  /\ Values # {} /\ MaxLength \in Nat
  /\ Indexes \subseteq Int /\ \E k \in Indexes : \A m \in Indexes : k <= m
  /\ Length \in Nat \ {0} /\ Numbers \subseteq Int
  /\ IsFiniteSet(Callers) /\ Tickets \in Nat \ {0} /\ Cardinality(Callers) <= Tickets

VARIABLES
  program,
  source, step, armed, handler, queue, ready, pending, running, due, rushed, crashed,
  next, pre, val, used, doing, pos, hops, index, broken,
  sort, input, num, todo, at, low, high, i, j, temp, beyond,
  table, wanted, first, last, b,
  module, loading, opened, inside, spins, head, tail, overrun, oops

Timer == INSTANCE TimerWork
Node == INSTANCE NodeList WITH i <- hops
Sort == INSTANCE Sorting WITH N <- Length
Search == INSTANCE BinarySearch WITH
  N <- Length + 1, num <- table, val <- wanted, low <- first, high <- last
Misc == INSTANCE MiscLoad

timerVars == <<source, step, armed, handler, queue, ready, pending, running, due,
               rushed, crashed>>
nodeVars == <<next, pre, val, used, doing, pos, hops, index, broken>>
sortVars == <<sort, input, num, todo, at, low, high, i, j, temp, beyond>>
searchVars == <<table, wanted, first, last, b>>
miscVars == <<module, loading, opened, inside, spins, head, tail, overrun, oops>>
mcVars == <<vars, program, timerVars, nodeVars, sortVars, searchVars, miscVars>>

MCOffsets == {-1, 0, 1}
MCIndexes == -1..5

Smallest == CHOOSE n \in Numbers : \A m \in Numbers : n <= m

(* A program that does not run has one initial state only. *)
MCInit ==
  /\ program \in {"complete", "timer", "node", "sort", "search", "misc"}
  /\ program = "complete" \/ option = 0
  /\ program = "timer" \/ source = "time"
  /\ program = "sort" \/ (sort = "quicksort" /\ input = [k \in 0..(Length - 1) |-> Smallest])
  /\ program = "search" \/ (wanted = Smallest /\ table = [k \in 0..Length |-> Smallest])
  /\ program = "misc" \/ module = "poll"
  /\ Init /\ Misc!Init /\ Timer!Init /\ Node!Init /\ Sort!Init /\ Search!Init

MCNext ==
  /\ UNCHANGED program
  /\ \/ /\ program = "complete" /\ Next
        /\ UNCHANGED <<timerVars, nodeVars, sortVars, searchVars, miscVars>>
     \/ /\ program = "timer" /\ Timer!Next
        /\ UNCHANGED <<vars, nodeVars, sortVars, searchVars, miscVars>>
     \/ /\ program = "node" /\ Node!Next
        /\ UNCHANGED <<vars, timerVars, sortVars, searchVars, miscVars>>
     \/ /\ program = "sort" /\ Sort!Next
        /\ UNCHANGED <<vars, timerVars, nodeVars, searchVars, miscVars>>
     \/ /\ program = "search" /\ Search!Next
        /\ UNCHANGED <<vars, timerVars, nodeVars, sortVars, miscVars>>
     \/ /\ program = "misc" /\ Misc!Next
        /\ UNCHANGED <<vars, timerVars, nodeVars, sortVars, searchVars>>

MCSpec == MCInit /\ [][MCNext]_mcVars

(* The fairness of each module, for the program that runs. *)
MCFairSpec ==
  /\ MCSpec
  /\ \A t \in Threads :
       /\ WF_vars(program = "complete" /\ Woken(t))
       /\ WF_vars(program = "complete" /\ Inside(t))
  /\ SF_timerVars(program = "timer" /\ Timer!Loader)
  /\ SF_timerVars(program = "timer" /\ Timer!DelTimerSync)
  /\ WF_timerVars(program = "timer" /\ Timer!TimeFucStep)
  /\ WF_timerVars(program = "timer" /\ Timer!Worker)
  /\ WF_nodeVars(program = "node" /\ Node!Walk)
  /\ WF_sortVars(program = "sort" /\ Sort!Next)
  /\ WF_searchVars(program = "search" /\ Search!Next)
-----------------------------------------------------------------------------
(* The types of all these modules: no walk and no count runs past what it  *)
(* is for, no write leaves its array or buffer, and reads leave them only  *)
(* where the code goes too far: a read of complete.c past the end of the   *)
(* buffer after llseek, quicksort by the one element after its array.      *)
TypesOK ==
  /\ TypeOK /\ Misc!TypeOK /\ Timer!TypeOK /\ Node!TypeOK /\ Sort!TypeOK /\ Search!TypeOK
  /\ OutsideOnlyPastEnd /\ Sort!ReadsInside

(* Modules that register their device, or add their timer, before they are *)
(* ready: whatever goes wrong, goes wrong because a call or an expiry came *)
(* in while the init code was running.  A module that was not hurried in   *)
(* this way never crashes, and its lock keeps calls apart, for as long as  *)
(* it is loaded.                                                           *)
OnlyHasteHarms ==
  Timer!CrashOnlyRushed /\ Misc!OopsWhileLoading /\ Misc!OneHolder

(* A module that has gone has left nothing behind that runs in it or would *)
(* come back to it: timer, handler, work or call.                          *)
GoneForGood == Timer!NothingLeft /\ Misc!NoneInsideGone

(* The list of node.c is a ring in both directions of all cells malloc has *)
(* given.                                                                  *)
RingWhole == Node!RingWhole

(* The list of node.c implements a sequence indexed as DataList says.      *)
KeepsList == Node!KeepsList

(* A program that ends has sorted and lost nothing, or found what is there *)
(* and nothing else.                                                       *)
RightResult == Sort!EndsSorted /\ Search!FindsIt

(* All of them come to an end: every walk along the list, every sort but   *)
(* that of quicksort2 between equal elements, every search, and rmmod      *)
(* while the timer arms itself again.                                      *)
ProgramsEnd ==
  /\ Node!OptionEnds
  /\ program = "sort" => Sort!EndsOrStuck
  /\ program = "search" => Search!Returns
  /\ Timer!UnloadEnds
=============================================================================
