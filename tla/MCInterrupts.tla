---------------------------- MODULE MCInterrupts ----------------------------
(***************************************************************************)
(* Timer, keyboard and a line of the slave, at its first input; firmware   *)
(* that masks nothing, or some of each controller; a trap, faults with and *)
(* without an error code, and an abort.                                    *)
(***************************************************************************)
EXTENDS Interrupts

ThreeLines == {0, 1, 8}
Pairs == {<<0, 0>>, <<184, 142>>}
MainFaults == {3, 6, 8, 14, 17}
=============================================================================
