------------------------------ MODULE Console -------------------------------
(***************************************************************************)
(* The text console of lib/shell.c, as operators on a screen: its cells,   *)
(* the position the code writes at (fb_col, fb_row), the two bytes and the *)
(* index of the hardware cursor, and whether a cell that is not on the     *)
(* screen has ever been written.  A cell holds a character; colours are    *)
(* left out.  Calls made by an interrupt handler are these operators, from *)
(* beginning to end; Keyboard takes those of main apart.                   *)
(***************************************************************************)
EXTENDS Integers, Sequences, SequencesExt

CONSTANTS
  FB_WIDTH, FB_HEIGHT,
  BYTE,           \* values of a byte: 256 in the machine
  PROMPT          \* what init_prompt writes, from its newline on

WORD == BYTE * BYTE      \* values of unsigned short; of unsigned int as well
Blank == " "
NL == "\n"
NUL == "nul"             \* the character 0
Cell == 0 .. FB_WIDTH * FB_HEIGHT - 1

(* A prompt is one line: a newline, and no other newline behind it.        *)
ASSUME ConsoleAssumption ==
  /\ FB_WIDTH \in Nat \ {0} /\ FB_HEIGHT \in Nat \ {0, 1} /\ BYTE \in Nat
  /\ 4 * FB_WIDTH * FB_HEIGHT < BYTE * BYTE
  /\ PROMPT \in Seq(STRING) \ {<<>>}
  /\ \A k \in 1 .. Len(PROMPT) : PROMPT[k] = NL <=> k = 1

(* Cell i is fb[i + 1].  The memory modelled is what scroll_down moves: the *)
(* screen and as many cells behind it.                                     *)
Blanks(n) == [k \in 1 .. n |-> Blank]
Memory == 2 * FB_WIDTH * FB_HEIGHT

(* fb_col + fb_row * FB_WIDTH, as the unsigned short it is assigned to: of *)
(* the screen, or of the two values main has loaded.                       *)
position(at) == (at.fb_col + at.fb_row * FB_WIDTH) % WORD

(* Slips of the code that the properties must notice: no other definition  *)
(* uses these.                                                             *)
MutantRoomBelow(row) == row < FB_HEIGHT                     \* not HEIGHT - 1
MutantStepBack(s) == s                                      \* fb_col-- left out
MutantOutb(s, out) ==                                       \* one register
  IF out[1] = "index" THEN s ELSE [s EXCEPT !.cursor.low = out[2]]

-----------------------------------------------------------------------------
(* write_cell takes a signed short and compares it with nothing.           *)
write_cell(s, pos, c) ==
  LET cell == IF pos < WORD \div 2 THEN pos ELSE pos - WORD IN
  [s EXCEPT !.fb = IF cell + 1 \in DOMAIN @ THEN [@ EXCEPT ![cell + 1] = c] ELSE @,
            !.stray = @ \/ cell \notin Cell]

(* The port writes of move_cursor, in order, and what one does: the index  *)
(* port chooses the byte that the data port sets.                          *)
PortWrites(pos) == << <<"index", "high">>, <<"data", pos \div BYTE>>,
                      <<"index", "low">>, <<"data", pos % BYTE>> >>

outb(s, out) ==
  IF out[1] = "index" THEN [s EXCEPT !.cursor.index = out[2]]
                      ELSE [s EXCEPT !.cursor[s.cursor.index] = out[2]]

move_cursor(s) == FoldLeft(outb, s, PortWrites(position(s)))

clear_row(s, row) ==
  [s EXCEPT !.fb = SubSeq(@, 1, row * FB_WIDTH) \o Blanks(FB_WIDTH)
                     \o SubSeq(@, (row + 1) * FB_WIDTH + 1, Len(@))]

(* memmove leaves the last row it reads where it is; the row that comes up *)
(* from behind the screen is cleared.                                      *)
scroll_down(s) ==
  clear_row([s EXCEPT !.fb = SubSeq(@, FB_WIDTH + 1, Len(@))
                               \o SubSeq(@, Len(@) - FB_WIDTH + 1, Len(@))],
            FB_HEIGHT - 1)

RoomBelow(row) == row < FB_HEIGHT - 1
RoomBehind(col) == col < FB_WIDTH - 1
FirstColumn(s) == [s EXCEPT !.fb_col = 0]

newline(s) ==
  move_cursor(FirstColumn(IF RoomBelow(s.fb_row)
                            THEN [s EXCEPT !.fb_row = (@ + 1) % WORD]
                            ELSE scroll_down(s)))

advance_pos(s) ==
  move_cursor(IF RoomBehind(s.fb_col) THEN [s EXCEPT !.fb_col = (@ + 1) % WORD]
                                      ELSE newline(s))

(* The body of the loops of write and init_prompt.                         *)
Put(s, c) == IF c = NL THEN newline(s) ELSE advance_pos(write_cell(s, position(s), c))

write(s, text) == FoldLeft(Put, s, text)
init_prompt(s) == write(s, PROMPT)

(* Unlike back_pos, which nothing calls, back_space does not look for the  *)
(* first column: fb_col is unsigned, and wraps.                            *)
StepBack(s) == [s EXCEPT !.fb_col = (@ - 1) % WORD]
back_space(s) ==
  LET back == StepBack(s) IN move_cursor(write_cell(back, position(back), Blank))

(* clear_screen, then welcome_text on the rows above: what main does       *)
(* before interrupts are enabled.                                          *)
Cleared(row) ==
  [fb |-> Blanks(Memory), fb_col |-> 0, fb_row |-> row, stray |-> FALSE,
   cursor |-> [index |-> "low", high |-> (row * FB_WIDTH) \div BYTE,
                                low |-> (row * FB_WIDTH) % BYTE]]
=============================================================================
