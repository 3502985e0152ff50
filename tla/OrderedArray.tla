---------------------------- MODULE OrderedArray ----------------------------
(***************************************************************************)
(* The insertion-sorted array of kernel/mm/ordered_array.c, as operators   *)
(* on the sequence array[0 .. size-1].  Position k of the sequence is the  *)
(* cell array[k-1] of the code.  OrderedArrayLoops shows that the cell     *)
(* loops of the code compute these operators.                              *)
(***************************************************************************)
EXTENDS Naturals, Sequences, SequencesExt

(* Where the scan of insert_ordered_array stops: the first position whose  *)
(* item is not less than the new one, or one past the end.                 *)
InsertionPoint(array, item, LessThan(_, _)) ==
  CHOOSE k \in 1 .. Len(array) + 1 :
    /\ \A j \in 1 .. k - 1 : LessThan(array[j], item)
    /\ k <= Len(array) => ~ LessThan(array[k], item)

insert_ordered_array(item, array, LessThan(_, _)) ==
  InsertAt(array, InsertionPoint(array, item, LessThan), item)

(* size-- happens whether or not position i holds an item: a caller that   *)
(* passes a position past the end drops the last item.                     *)
remove_ordered_array(i, array) ==
  IF i <= Len(array) THEN RemoveAt(array, i) ELSE Front(array)

(* Sorted with respect to a key: no item stands before a smaller one.      *)
SortedBy(array, Key(_)) ==
  \A j, k \in 1 .. Len(array) : j < k => Key(array[j]) <= Key(array[k])
=============================================================================
