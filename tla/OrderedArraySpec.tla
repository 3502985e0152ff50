--------------------------- MODULE OrderedArraySpec ---------------------------
(***************************************************************************)
(* What ordered_array.h promises: an array that a caller inserts items     *)
(* into and removes positions from.  A call, once begun, returns, and in   *)
(* the same moment the array has become what the call asked for.           *)
(***************************************************************************)
EXTENDS OrderedArray

CONSTANTS Items,    \* what the array may hold (type_t)
          KeyOf,    \* what less_than compares, for each item
          MaxSize   \* max_size, which the caller never exceeds

VARIABLES array,    \* array[0 .. size-1]
          request   \* <<operation, argument>> of the call in progress, or <<>>

less_than(a, b) == KeyOf[a] < KeyOf[b]

Init == array = <<>> /\ request = <<>>

AskInsert(item) ==
  /\ request = <<>> /\ Len(array) < MaxSize
  /\ request' = <<"insert", item>>
  /\ UNCHANGED array

(* i is one past the end when the caller has searched in vain (kheap.c).   *)
AskRemove(i) ==
  /\ request = <<>> /\ array # <<>> /\ i \in 1 .. Len(array) + 1
  /\ request' = <<"remove", i>>
  /\ UNCHANGED array

Return ==
  /\ request # <<>>
  /\ array' = IF request[1] = "insert"
              THEN insert_ordered_array(request[2], array, less_than)
              ELSE remove_ordered_array(request[2], array)
  /\ request' = <<>>

Next ==
  \/ \E item \in Items : AskInsert(item)
  \/ \E i \in 1 .. MaxSize + 1 : AskRemove(i)
  \/ Return

Spec == Init /\ [][Next]_<<array, request>> /\ WF_<<array, request>>(Return)
=============================================================================
