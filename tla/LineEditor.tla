----------------------------- MODULE LineEditor -----------------------------
(***************************************************************************)
(* What the keyboard promises to whoever types: a line that grows by the   *)
(* keys with a character, shrinks by backspace, and on enter is run and    *)
(* becomes empty.  A key without a character (shift, an arrow) goes into   *)
(* the line as the character 0, and what is run is the line before it.     *)
(***************************************************************************)
EXTENDS Sequences, SequencesExt, Integers

CONSTANTS Chars, NUL,
          Commands        \* from the names of the commands to their lines

VARIABLES line, ran       \* the line, and the command last run, if any

vars == <<line, ran>>

(* The line before its first character 0.                                  *)
Meant == SubSeq(line, 1, Cardinality({n \in 1 .. Len(line) :
                                        \A k \in 1 .. n : line[k] # NUL}))

Init == line = <<>> /\ ran = "nothing"

Type(c) == line' = Append(line, c) /\ ran' = ran
Erase == line # <<>> /\ line' = Front(line) /\ ran' = ran

Enter ==
  /\ line' = <<>>
  /\ \/ \E name \in DOMAIN Commands : Commands[name] = Meant /\ ran' = name
     \/ (\A name \in DOMAIN Commands : Commands[name] # Meant) /\ ran' = "nothing"

Next == Erase \/ Enter \/ \E c \in Chars : Type(c)

Spec == Init /\ [][Next]_vars
=============================================================================
