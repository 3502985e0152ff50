------------------------ MODULE MCOrderedArrayLoops ------------------------
(***************************************************************************)
(* Four items, two of which share a key, and an array of four cells.      *)
(***************************************************************************)
EXTENDS OrderedArrayLoops

FourItems == 1 .. 4
SharedKey == <<1, 2, 2, 3>>
=============================================================================
