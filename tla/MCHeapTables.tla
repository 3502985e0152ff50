---------------------------- MODULE MCHeapTables ----------------------------
(***************************************************************************)
(* A heap of three pages of sixteen words.  It grows by two within the     *)
(* table the boot made, needs a first table of its own behind them and a   *)
(* second six pages on.  Blocks of 24 and 48 words leave holes that begin  *)
(* where an aligned table fits, and 48 is the whole first heap: the index  *)
(* can be empty when the heap grows.  64 never fit what is left behind a   *)
(* table.                                                                  *)
(***************************************************************************)
EXTENDS HeapTables

MCSizes == {19, 43, 59}
MCAligns == {0}
MCWords == {}
=============================================================================
