------------------------------ MODULE MCKHeap ------------------------------
(***************************************************************************)
(* Small heaps for TLC: pages of eight words, of which the tags of a block *)
(* take five.                                                              *)
(***************************************************************************)
EXTENDS KHeap

KmallocOnly == {0}
SmallSizes == {1, 3}
CloseSizes == {1, 2}
NoWords == {}
Zero == {0}
=============================================================================
