------------------------------- MODULE Strings -------------------------------
(***************************************************************************)
(* kernel/lib/string.c: printf with the conversions it is built on (itoa   *)
(* and uitoa), strcmp, memmove and memset, one iteration of a loop a step. *)
(* A character is its code and a string a sequence without its closing 0;  *)
(* what the code indexes from 0 is indexed from 0 here.                    *)
(***************************************************************************)
EXTENDS Integers, Sequences

CONSTANTS
  WORD,        \* a word holds 0 .. WORD - 1: 2^32
  BUF,         \* cells of printf's buf: 20
  Messages,    \* what printf is asked to print, as sequences of pieces
  Strings,     \* strings that strcmp compares
  Memory,      \* contents of the memory that memmove and memset work on
  Copies       \* arguments of memmove and memset: records dst, src, len

NUL == 0
PERCENT == 37
SPACE == 32
MINUS == 45
Zero == 48                      \* '0'
Lower == 97                     \* 'a'
C == 99
D == 100
I == 105
S == 115
X == 120

Word == 0 .. WORD - 1
Char == 1 .. 255
Signed(w) == IF w >= WORD \div 2 THEN w - WORD ELSE w

(* A piece of a message is a plain character, or a conversion: spaces,     *)
(* a letter and the argument that va_arg takes for it (none for a letter   *)
(* without a meaning, which stands for itself).                            *)
WellFormed(piece) ==
  /\ piece.spaces \in Nat
  /\ \/ piece.letter = NUL /\ piece.value \in Char \ {PERCENT}
     \/ piece.letter \in {C, D, X} /\ piece.value \in Word
     \/ piece.letter = I /\ piece.value \in Word /\ Signed(piece.value) >= 0
     \/ piece.letter = S /\ piece.value \in Seq(Char)
     \/ piece.letter \in Char \ {SPACE, C, D, I, S, X}

Power(radix, n) ==
  LET power[k \in Nat] == IF k = 0 THEN 1 ELSE radix * power[k - 1] IN power[n]

(* buf takes a word in decimal, and in hexadecimal behind its prefix, with *)
(* the 0 that closes it.  memmove copies forwards, so it is called to move *)
(* down or to a place apart: its only caller scrolls the screen.           *)
ASSUME WidthAssumption ==
  /\ WORD \in Nat /\ WORD > 16 /\ WORD % 2 = 0 /\ BUF \in Nat /\ BUF > 3
  /\ WORD <= Power(10, BUF - 1) /\ WORD <= Power(16, BUF - 3)
ASSUME StringsAssumption ==
  /\ \A message \in Messages : /\ message \in Seq({message[k] : k \in DOMAIN message})
                               /\ \A k \in DOMAIN message : WellFormed(message[k])
  /\ Strings \subseteq Seq(Char) /\ Memory \in Seq(Nat)
  /\ \A c \in Copies : /\ c.dst \in Nat /\ c.src \in Nat /\ c.len \in Nat
                       /\ c.dst <= c.src \/ c.dst >= c.src + c.len
                       /\ c.dst + c.len <= Len(Memory) /\ c.src + c.len <= Len(Memory)

VARIABLES
  call,        \* the function that is called and its arguments
  pc,          \* the loop it is in
  i,           \* its index
  taken,       \* arguments that va_arg has taken
  number,      \* the locals of itoa or uitoa
  buf,         \* the cells of buf
  mem,         \* the memory that memmove and memset work on
  out,         \* the characters written to the screen
  ret          \* what strcmp returns

vars == <<call, pc, i, taken, number, buf, mem, out, ret>>

At(string, k) == IF k >= Len(string) THEN NUL ELSE string[k + 1]

(* Slips of the code that the properties must notice: no other definition  *)
(* uses these.                                                             *)
MutantMore(x, radix) == x # 0                  \* tested before x is divided
MutantSwaps(s, e) == s < e - 1                 \* the middle pair stays

-----------------------------------------------------------------------------
(* itoa (of a signed value) and uitoa: the prefix, the digits from the     *)
(* last to the first, and their reversal.  C truncates a quotient to 0.    *)
Quotient(x, radix) == IF x >= 0 THEN x \div radix ELSE - ((- x) \div radix)
Remainder(x, radix) == x - (radix * Quotient(x, radix))
Digit(a) == IF a < 10 THEN a + Zero ELSE a + Lower - 10
More(x, radix) == Quotient(x, radix) # 0
Swaps(s, e) == s < e

Prefix(x, radix) ==
  IF radix = 16 THEN <<Zero, X>> ELSE IF x < 0 THEN <<MINUS>> ELSE <<>>

StartNumber(x, radix) ==
  LET start == Len(Prefix(x, radix))
  IN /\ buf' = [k \in DOMAIN buf |-> IF k < start THEN Prefix(x, radix)[k + 1] ELSE buf[k]]
     /\ number' = [x |-> x, radix |-> radix, i |-> start, s |-> start, e |-> start]
     /\ pc' = "digits"

PutDigit ==
  /\ pc = "digits"
  /\ buf' = [buf EXCEPT ![number.i] = Digit(Remainder(number.x, number.radix))]
  /\ number' = [number EXCEPT !.x = Quotient(@, number.radix), !.i = @ + 1, !.e = number.i]
  /\ pc' = IF More(number.x, number.radix) THEN "digits" ELSE "reverse"
  /\ UNCHANGED <<call, i, taken, mem, out, ret>>

SwapDigits ==
  /\ pc = "reverse" /\ Swaps(number.s, number.e)
  /\ buf' = [buf EXCEPT ![number.s] = buf[number.e], ![number.e] = buf[number.s]]
  /\ number' = [number EXCEPT !.s = @ + 1, !.e = @ - 1]
  /\ UNCHANGED <<call, pc, i, taken, mem, out, ret>>

(* The closing 0, and printf writes what stands before it.                 *)
EndNumber ==
  /\ pc = "reverse" /\ ~ Swaps(number.s, number.e)
  /\ buf' = [buf EXCEPT ![number.i] = NUL]
  /\ out' = out \o [k \in 1 .. number.i |-> buf[k - 1]]
  /\ i' = i + 1 /\ pc' = "printf"
  /\ UNCHANGED <<call, taken, number, mem, ret>>

-----------------------------------------------------------------------------
(* printf: a character of the format a step; spaces behind a percent sign  *)
(* are skipped.                                                            *)
Literal ==
  /\ pc = "printf" /\ i < Len(call.format) /\ At(call.format, i) # PERCENT
  /\ out' = Append(out, At(call.format, i)) /\ i' = i + 1
  /\ UNCHANGED <<call, pc, taken, number, buf, mem, ret>>

LetterAt ==
  CHOOSE k \in i + 1 .. Len(call.format) :
    At(call.format, k) # SPACE /\ \A j \in i + 1 .. k - 1 : At(call.format, j) = SPACE

Convert(letter, value) ==
  \/ /\ letter = I /\ StartNumber(Signed(value), 10)
     /\ i' = LetterAt /\ taken' = taken + 1 /\ out' = out
  \/ /\ letter \in {D, X} /\ StartNumber(value, IF letter = X THEN 16 ELSE 10)
     /\ i' = LetterAt /\ taken' = taken + 1 /\ out' = out
  \/ /\ letter \in {C, S} /\ out' = out \o (IF letter = C THEN <<value % 256>> ELSE value)
     /\ i' = LetterAt + 1 /\ taken' = taken + 1 /\ UNCHANGED <<pc, buf, number>>
  \/ /\ letter \notin {I, D, X, C, S} /\ out' = Append(out, letter)
     /\ i' = LetterAt + 1 /\ UNCHANGED <<pc, taken, buf, number>>

Conversion ==
  /\ pc = "printf" /\ i < Len(call.format) /\ At(call.format, i) = PERCENT
  /\ Convert(At(call.format, LetterAt), At(call.args, taken))
  /\ UNCHANGED <<call, mem, ret>>

EndPrintf ==
  /\ pc = "printf" /\ i >= Len(call.format) /\ pc' = "done"
  /\ UNCHANGED <<call, i, taken, number, buf, mem, out, ret>>

-----------------------------------------------------------------------------
(* strcmp, memmove and memset.                                             *)
Alike(s1, s2) == At(s1, i) # NUL /\ At(s1, i) = At(s2, i)
strcmp ==
  /\ pc = "strcmp"
  /\ \/ Alike(call.s1, call.s2) /\ i' = i + 1 /\ UNCHANGED <<pc, ret>>
     \/ /\ ~ Alike(call.s1, call.s2)
        /\ ret' = At(call.s1, i) - At(call.s2, i) /\ pc' = "done" /\ i' = i
  /\ UNCHANGED <<call, taken, number, buf, mem, out>>

Stored(c) == IF c.fn = "memmove" THEN mem[c.src + i + 1] ELSE c.byte
memstep ==
  /\ pc \in {"memmove", "memset"}
  /\ \/ /\ i < call.len /\ i' = i + 1 /\ pc' = pc
        /\ mem' = [mem EXCEPT ![call.dst + i + 1] = Stored(call)]
     \/ i >= call.len /\ pc' = "done" /\ UNCHANGED <<i, mem>>
  /\ UNCHANGED <<call, taken, number, buf, out, ret>>

-----------------------------------------------------------------------------
(* What the pieces of a message stand for, in the format and on the screen.*)
Joined(parts) ==
  LET upto[n \in 0 .. Len(parts)] == IF n = 0 THEN <<>> ELSE upto[n - 1] \o parts[n]
  IN upto[Len(parts)]

Takes(piece) == piece.letter \in {C, D, I, S, X}
Spelled(piece) ==
  IF piece.letter = NUL THEN <<piece.value>>
  ELSE <<PERCENT>> \o [k \in 1 .. piece.spaces |-> SPACE] \o <<piece.letter>>

printf(message) ==
  [fn |-> "printf", message |-> message,
   format |-> Joined([k \in DOMAIN message |-> Spelled(message[k])]),
   args |-> LET Arg(piece) == IF Takes(piece) THEN <<piece.value>> ELSE <<>>
            IN Joined([k \in DOMAIN message |-> Arg(message[k])])]

Calls ==
  {printf(message) : message \in Messages}
    \cup {[fn |-> "strcmp", s1 |-> s1, s2 |-> s2] : s1, s2 \in Strings}
    \cup {[fn |-> "memmove", dst |-> c.dst, src |-> c.src, len |-> c.len] : c \in Copies}
    \cup {[fn |-> "memset", dst |-> c.dst, byte |-> NUL, len |-> c.len] : c \in Copies}

Init ==
  /\ call \in Calls /\ pc = call.fn /\ i = 0 /\ taken = 0
  /\ number = [x |-> 0, radix |-> 10, i |-> 0, s |-> 0, e |-> 0]
  /\ buf \in {[k \in 0 .. BUF - 1 |-> garbage] : garbage \in {NUL, Zero}}
  /\ mem = Memory /\ out = <<>> /\ ret = 0

Next == PutDigit \/ SwapDigits \/ EndNumber \/ Literal \/ Conversion \/ EndPrintf
          \/ strcmp \/ memstep

Spec == Init /\ [][Next]_vars

-----------------------------------------------------------------------------
(* The types, of which two matter: a number is built inside buf, with room *)
(* for the 0 behind it, whatever the number.                               *)
TypeOK ==
  /\ call \in Calls
  /\ pc \in {"printf", "digits", "reverse", "strcmp", "memmove", "memset", "done"}
  /\ i \in Nat /\ taken \in Nat /\ ret \in -255 .. 255
  /\ number.i \in 0 .. BUF - 1 /\ number.s \in 0 .. BUF - 1 /\ number.e \in 0 .. BUF - 1
  /\ DOMAIN buf = 0 .. BUF - 1 /\ DOMAIN mem = DOMAIN Memory

(* The numeral of n: no leading 0, and each digit stands for its power.    *)
Numeral(n, radix) ==
  LET digits[k \in Nat] ==
        IF k < radix THEN <<Digit(k)>> ELSE Append(digits[k \div radix], Digit(k % radix))
  IN digits[n]

Shown(piece) ==
  CASE piece.letter = X -> <<Zero, X>> \o Numeral(piece.value, 16)
    [] piece.letter \in {D, I} -> Numeral(piece.value, 10)
    [] piece.letter = S -> piece.value
    [] piece.letter = C -> <<piece.value % 256>>
    [] piece.letter = NUL -> <<piece.value>>
    [] OTHER -> <<piece.letter>>

Precedes(s1, s2) ==
  \E k \in 0 .. Len(s1) : /\ At(s1, k) < At(s2, k)
                          /\ \A j \in 0 .. k - 1 : At(s1, j) = At(s2, j)

(* What a call returns is what its caller asked for: printf has written    *)
(* the message the pieces stand for, strcmp has told the order of the two  *)
(* strings (the shell runs a command when it is 0), memmove and memset     *)
(* have written their destination and nothing else.                        *)
Computes ==
  pc = "done" =>
    CASE call.fn = "printf" ->
           /\ out = Joined([k \in DOMAIN call.message |-> Shown(call.message[k])])
           /\ taken = Len(call.args)
      [] call.fn = "strcmp" ->
           /\ ret = 0 <=> call.s1 = call.s2
           /\ ret < 0 <=> Precedes(call.s1, call.s2)
      [] call.fn \in {"memmove", "memset"} ->
           \A a \in DOMAIN mem :
             mem[a] = IF a - 1 \notin call.dst .. call.dst + call.len - 1 THEN Memory[a]
                      ELSE IF call.fn = "memset" THEN NUL
                      ELSE Memory[a - call.dst + call.src]
=============================================================================
