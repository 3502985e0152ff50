-------------------------- MODULE OrderedArrayLoops --------------------------
(***************************************************************************)
(* kernel/mm/ordered_array.c cell by cell: a step is an iteration of one   *)
(* of its loops, or the code that follows a loop.                          *)
(***************************************************************************)
EXTENDS Integers, Sequences

CONSTANTS Items,    \* what the array may hold (type_t)
          KeyOf,    \* what less_than compares, for each item
          MaxSize,  \* max_size
          Foreign   \* content of the word that follows the array

ASSUME ItemsAssumption == KeyOf \in [Items -> Nat]
ASSUME MaxSizeAssumption == MaxSize \in Nat \ {0}
ASSUME ForeignAssumption == Foreign \notin Items

VARIABLES
  array,      \* array->array, and the word behind its last cell
  size,       \* array->size
  pc,         \* "idle", or the loop being executed
  iterator,   \* the loop counter of insert and of remove (there named i)
  tmp,        \* the item in hand
  before,     \* the items when the call began, for the refinement
  request     \* and what the caller asked for, <<>> between calls

history == <<before, request>>
vars == <<array, size, pc, iterator, tmp, history>>

Cells == 0 .. MaxSize
Contents == [k \in 1 .. size |-> array[k - 1]]
less_than(a, b) == KeyOf[a] < KeyOf[b]

(* Slips of the code that the properties must notice: no other definition  *)
(* uses these.                                                             *)
MutantRemove(i) ==      \* an empty array may be asked to remove
  /\ pc = "idle" /\ i <= size
  /\ pc' = "close" /\ iterator' = i
  /\ before' = Contents /\ request' = <<"remove", i + 1>>
  /\ UNCHANGED <<array, size, tmp>>
MutantShiftUp ==        \* one iteration too many
  /\ pc = "shift" /\ iterator <= size
  /\ array' = [array EXCEPT ![iterator + 1] = tmp]
  /\ tmp' = array[iterator + 1] /\ iterator' = iterator + 1
  /\ UNCHANGED <<size, pc, history>>
MutantPutInPlace ==     \* the item stops behind a larger one
  /\ pc = "scan"
  /\ iterator < size /\ less_than(array[iterator], tmp)
  /\ array' = [array EXCEPT ![iterator] = tmp]
  /\ tmp' = array[iterator] /\ pc' = "shift"
  /\ UNCHANGED <<size, iterator, history>>
MutantCloseGap ==       \* the counter stands still
  /\ pc = "close" /\ iterator < size
  /\ array' = [array EXCEPT ![iterator] = array[iterator + 1]]
  /\ UNCHANGED <<size, pc, tmp, history, iterator>>
MutantAddAtEnd ==       \* size++ forgotten
  /\ pc = "scan" /\ iterator = size
  /\ array' = [array EXCEPT ![size] = tmp]
  /\ pc' = "idle" /\ request' = <<>>
  /\ UNCHANGED <<size, iterator, tmp, before>>

(* place_ordered_array: memset leaves 0, which is no item of the array.    *)
Init ==
  /\ array = [i \in Cells |-> IF i = MaxSize THEN Foreign ELSE 0]
  /\ size = 0 /\ pc = "idle" /\ iterator = 0 /\ tmp = 0
  /\ before = <<>> /\ request = <<>>

(* No caller inserts into a full array: the index has room for every hole. *)
insert_ordered_array(item) ==
  /\ pc = "idle" /\ size < MaxSize
  /\ pc' = "scan" /\ iterator' = 0 /\ tmp' = item
  /\ before' = Contents /\ request' = <<"insert", item>>
  /\ UNCHANGED <<array, size>>

Scan ==
  /\ pc = "scan"
  /\ iterator < size /\ less_than(array[iterator], tmp)
  /\ iterator' = iterator + 1
  /\ UNCHANGED <<array, size, pc, tmp, history>>

AddAtEnd ==
  /\ pc = "scan" /\ iterator = size
  /\ array' = [array EXCEPT ![size] = tmp]
  /\ size' = size + 1 /\ pc' = "idle" /\ request' = <<>>
  /\ UNCHANGED <<iterator, tmp, before>>

PutInPlace ==
  /\ pc = "scan"
  /\ iterator < size /\ ~ less_than(array[iterator], tmp)
  /\ array' = [array EXCEPT ![iterator] = tmp]
  /\ tmp' = array[iterator] /\ pc' = "shift"
  /\ UNCHANGED <<size, iterator, history>>

ShiftUp ==
  /\ pc = "shift" /\ iterator < size
  /\ array' = [array EXCEPT ![iterator + 1] = tmp]
  /\ tmp' = array[iterator + 1] /\ iterator' = iterator + 1
  /\ UNCHANGED <<size, pc, history>>

ShiftedUp ==
  /\ pc = "shift" /\ iterator = size
  /\ size' = size + 1 /\ pc' = "idle" /\ request' = <<>>
  /\ UNCHANGED <<array, iterator, tmp, before>>

remove_ordered_array(i) ==
  /\ pc = "idle" /\ size > 0 /\ i <= size
  /\ pc' = "close" /\ iterator' = i
  /\ before' = Contents /\ request' = <<"remove", i + 1>>
  /\ UNCHANGED <<array, size, tmp>>

CloseGap ==
  /\ pc = "close" /\ iterator < size
  /\ array' = [array EXCEPT ![iterator] = array[iterator + 1]]
  /\ iterator' = iterator + 1
  /\ UNCHANGED <<size, pc, tmp, history>>

Closed ==
  /\ pc = "close" /\ iterator = size
  /\ size' = size - 1 /\ pc' = "idle" /\ request' = <<>>
  /\ UNCHANGED <<array, iterator, tmp, before>>

Loop == Scan \/ AddAtEnd \/ PutInPlace \/ ShiftUp \/ ShiftedUp \/ CloseGap \/ Closed

Next ==
  \/ \E item \in Items : insert_ordered_array(item)
  \/ \E i \in Cells : remove_ordered_array(i)
  \/ Loop

(* The processor goes on with a call that has begun.                       *)
Spec == Init /\ [][Next]_vars /\ WF_vars(Loop)

-----------------------------------------------------------------------------
(* Every variable keeps its type.                                          *)
Values == Items \cup {0, Foreign}
TypeOK ==
  /\ array \in [Cells -> Values]
  /\ size \in 0 .. MaxSize /\ iterator \in 0 .. MaxSize
  /\ pc \in {"idle", "scan", "shift", "close"}
  /\ tmp \in Values

(* Neither loop writes past the last cell, where the heap's first header   *)
(* lies, although both run up to and including cell size.                  *)
StaysInside == array[MaxSize] = Foreign

(* "This array is insertion sorted - it always remains in a sorted state   *)
(* (between calls)" (ordered_array.h:7-8), for keys that stay as they are. *)
Ascending(n) ==
  \A j, k \in 0 .. n - 1 : j < k => KeyOf[array[j]] <= KeyOf[array[k]]
SortedBetweenCalls == pc = "idle" => Ascending(size)

Abstract == INSTANCE OrderedArraySpec
  WITH array <- IF pc = "idle" THEN Contents ELSE before

(* Every call returns, and the loops have then computed the operators of   *)
(* module OrderedArray, with which the heap is modelled: no item is lost,  *)
(* duplicated or put out of its place.                                     *)
ImplementsArray == Abstract!Spec
=============================================================================
