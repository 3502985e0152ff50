------------------------------ MODULE Keyboard ------------------------------
(***************************************************************************)
(* From the enabling of interrupts on, two threads of control write to the *)
(* console: main (kernel_main.c), one access to shared state at a time,    *)
(* and keyboard_cb (drivers/keyboard.c), called through irq_handler        *)
(* (drivers/isr.c).  The IDT has interrupt gates and the stubs run with    *)
(* interrupts off, so the handler is one step.  The keyboard controller    *)
(* and the PIC are external: the controller holds one scan code until its  *)
(* port is read, and asks for an interrupt when it gets one.               *)
(***************************************************************************)
EXTENDS Console

CONSTANTS
  Chars,          \* characters of keyboard_map that keys give; some may give NUL
  CMDSIZE,        \* cells of command: 512
  MaxLine,        \* keys with a character in one line, at most
  MaxKeys,        \* keys pressed in a behaviour, at most (releases not counted)
  BootKeys,       \* of those, keys handled before main has returned
  FirstRow,       \* the row below the welcome text
  BootText,       \* what main prints between init_keyboard and init_prompt
  Commands,       \* "help", "uname" and "reboot", with the lines that run them
  Output,         \* what each command prints
  KeysFrom        \* "registered": no key before init_keyboard; "sti": any time

BACK == "backspace"
ENTER == "enter"
RELEASE == "release"     \* a scan code of 0x80 and above
Keys == Chars \cup {BACK, ENTER, RELEASE}

(* A line fits into the buffer, with the character 0 that strcmp looks for *)
(* behind it, and with its prompt into the rows above the last one.        *)
ASSUME KeyboardAssumption ==
  /\ CMDSIZE \in Nat /\ MaxLine \in 0 .. CMDSIZE - 1
  /\ MaxLine + Len(PROMPT) <= FB_WIDTH * (FB_HEIGHT - 1)
  /\ MaxKeys \in Nat /\ BootKeys \in 0 .. MaxKeys /\ FirstRow \in 1 .. FB_HEIGHT - 1
  /\ KeysFrom \in {"registered", "sti"}
  /\ Chars \subseteq STRING /\ {BACK, ENTER, RELEASE, "none", NL} \cap Chars = {}
  /\ BootText \in Seq(STRING) /\ Output \in [DOMAIN Commands -> Seq(STRING)]

VARIABLES
  screen,         \* see Console
  pc, todo, reg, outs,    \* main: where it is, characters left to print, the
                          \* coordinates loaded, the port writes left
  enabled,        \* the interrupt flag while main runs
  registered,     \* interrupt_handlers[IRQ1] is keyboard_cb
  obf, irq,       \* the scan code in the controller, or "none"; its interrupt
  command, cmd_index,
  ran,            \* the command last run
  keys,           \* keys handled so far
  halted,         \* reboot has been run
  plain,          \* every key of this line came after the prompt was complete,
                  \* and none with a character while fb_col was off the screen
  alone           \* no key has changed the screen while main printed

mainVars == <<pc, todo, reg, outs, enabled, registered>>
lineVars == <<command, cmd_index, ran, keys, halted, plain, alone>>
vars == <<screen, mainVars, obf, irq, lineVars>>

Empty == [n \in 0 .. CMDSIZE - 1 |-> NUL]
Unloaded == [x \in {} |-> 0]

(* Slips of the code that the properties must notice: no other definition  *)
(* uses these.                                                             *)
MutantInb(k) == IF k = RELEASE THEN k ELSE "none"     \* returns before reading
MutantRestart == cmd_index                     \* not set to 0
MutantKept == command                          \* no clear_command on enter
MutantErasable == cmd_index >= 0               \* test off by one
MutantPrinting(rest) ==                        \* newline not told apart
  IF rest = <<>> THEN "loop" ELSE "put"

-----------------------------------------------------------------------------
(* keyboard_cb.                                                            *)

(* What strcmp sees of command: the characters before the first 0.         *)
Text == LET n == CHOOSE n \in 0 .. CMDSIZE - 1 :
                   command[n] = NUL /\ \A k \in 0 .. n - 1 : command[k] # NUL
        IN [k \in 1 .. n |-> command[k - 1]]

Erasable == cmd_index > 0
Copied == 0 .. cmd_index - 2
Restart == 0
clear_command == Empty

(* What is left in the controller once the port has been read.             *)
Inb(k) == "none"

Backspace ==
  /\ IF Erasable
       THEN /\ cmd_index' = cmd_index - 1
            /\ command' = [n \in DOMAIN command |->
                             IF n \in Copied THEN command[n] ELSE NUL]
            /\ screen' = back_space(screen)
       ELSE UNCHANGED <<cmd_index, command, screen>>
  /\ UNCHANGED <<ran, halted, plain>>

Dispatched == {name \in DOMAIN Commands : Commands[name] = Text}

(* reboot does not return, so what follows the commands is not reached.    *)
Enter ==
  IF "reboot" \in Dispatched
    THEN /\ ran' = "reboot" /\ halted' = TRUE
         /\ UNCHANGED <<screen, command, cmd_index, plain>>
    ELSE LET name == CHOOSE x \in Dispatched : TRUE
             printed == IF Dispatched = {} THEN <<>> ELSE Output[name]
         IN /\ ran' = IF Dispatched = {} THEN "nothing" ELSE name
            /\ cmd_index' = Restart
            /\ command' = clear_command
            /\ screen' = init_prompt(write(screen, printed))
            /\ plain' = (pc = "loop")
            /\ halted' = halted

Character(c) ==
  /\ screen' = write(screen, <<c>>)
  /\ command' = [command EXCEPT ![cmd_index] = c]
  /\ cmd_index' = cmd_index + 1
  /\ plain' = (plain /\ pc = "loop" /\ screen.fb_col < FB_WIDTH)
  /\ UNCHANGED <<ran, halted>>

keyboard_cb(k) ==
  /\ obf' = Inb(k)
  /\ keys' = IF k = RELEASE THEN keys ELSE keys + 1
  /\ \/ k = RELEASE /\ UNCHANGED <<screen, command, cmd_index, ran, halted, plain>>
     \/ k = BACK /\ Backspace
     \/ k = ENTER /\ Enter
     \/ k \in Chars /\ Character(k)
  /\ alone' = (alone /\ (pc = "loop" \/ plain'))

(* isr.c: the interrupt is acknowledged, whether or not there is a handler *)
(* for it. Without one the scan code stays in the controller.              *)
Interrupted == enabled /\ irq /\ ~ halted /\ irq' = FALSE

irq_handler ==
  /\ Interrupted
  /\ IF registered THEN keyboard_cb(obf) ELSE UNCHANGED <<screen, obf, lineVars>>
  /\ UNCHANGED mainVars

(* A scan code reaches the controller when its buffer is empty; those the  *)
(* user is ahead by wait in the keyboard.                                  *)
Press(k) ==
  /\ obf = "none" /\ ~ halted
  /\ KeysFrom = "registered" => registered
  /\ k # RELEASE => keys < (IF pc = "loop" THEN MaxKeys ELSE BootKeys)
  /\ k \in Chars => cmd_index < MaxLine
  /\ obf' = k /\ irq' = TRUE
  /\ UNCHANGED <<screen, mainVars, lineVars>>

-----------------------------------------------------------------------------
(* main.                                                                   *)

(* Where printing goes on once the characters before `rest` are out.       *)
Printing(rest) ==
  IF rest = <<>> THEN "loop" ELSE IF Head(rest) = NL THEN "newline" ELSE "put"

(* The last statement of init_idt.                                         *)
sti ==
  /\ pc = "sti" /\ pc' = "init_keyboard" /\ enabled' = TRUE
  /\ UNCHANGED <<screen, todo, reg, outs, registered>>

init_keyboard ==
  /\ pc = "init_keyboard" /\ registered' = TRUE
  /\ todo' = BootText \o PROMPT /\ pc' = Printing(todo')
  /\ UNCHANGED <<screen, reg, outs, enabled>>

(* The coordinates that the expression or assignment at pc reads, in any   *)
(* order.                                                                  *)
Reads == CASE pc \in {"put", "cursor", "cursor_of_line"} -> {"fb_col", "fb_row"}
           [] pc = "next_col" -> {"fb_col"}
           [] pc = "next_row" -> {"fb_row"}
           [] OTHER -> {}

Load ==
  /\ \E x \in Reads \ DOMAIN reg :
       reg' = [y \in DOMAIN reg \cup {x} |-> IF y = x THEN screen[x] ELSE reg[y]]
  /\ UNCHANGED <<screen, pc, todo, outs, enabled, registered>>

Loaded == Reads # {} /\ DOMAIN reg = Reads

PutCell ==
  /\ pc = "put" /\ Loaded
  /\ screen' = write_cell(screen, position(reg), Head(todo))
  /\ reg' = Unloaded /\ pc' = "advance"
  /\ UNCHANGED <<todo, outs, enabled, registered>>

Advance ==
  /\ pc = "advance"
  /\ pc' = IF RoomBehind(screen.fb_col) THEN "next_col" ELSE "newline"
  /\ UNCHANGED <<screen, todo, reg, outs, enabled, registered>>

Newline ==
  /\ pc = "newline"
  /\ IF RoomBelow(screen.fb_row)
       THEN pc' = "next_row" /\ screen' = screen
       ELSE pc' = "first_col" /\ screen' = scroll_down(screen)
  /\ UNCHANGED <<todo, reg, outs, enabled, registered>>

Store ==
  /\ Loaded
  /\ \/ /\ pc = "next_col" /\ pc' = "cursor"
        /\ screen' = [screen EXCEPT !.fb_col = (reg.fb_col + 1) % WORD]
     \/ /\ pc = "next_row" /\ pc' = "first_col"
        /\ screen' = [screen EXCEPT !.fb_row = (reg.fb_row + 1) % WORD]
  /\ reg' = Unloaded
  /\ UNCHANGED <<todo, outs, enabled, registered>>

FirstCol ==
  /\ pc = "first_col" /\ pc' = "cursor_of_line"
  /\ screen' = FirstColumn(screen)
  /\ UNCHANGED <<todo, reg, outs, enabled, registered>>

CallMoveCursor ==
  /\ pc \in {"cursor", "cursor_of_line"} /\ Loaded /\ outs = <<>>
  /\ outs' = PortWrites(position(reg)) /\ reg' = Unloaded
  /\ pc' = IF pc = "cursor" THEN "outb" ELSE "outb_of_line"
  /\ UNCHANGED <<screen, todo, enabled, registered>>

(* The move_cursor of newline is followed by that of advance_pos, when it  *)
(* was advance_pos that called newline.                                    *)
Outb ==
  /\ pc \in {"outb", "outb_of_line"}
  /\ screen' = outb(screen, Head(outs)) /\ outs' = Tail(outs)
  /\ IF Tail(outs) # <<>> THEN UNCHANGED <<pc, todo>>
     ELSE IF pc = "outb_of_line" /\ Head(todo) # NL THEN pc' = "cursor" /\ todo' = todo
     ELSE todo' = Tail(todo) /\ pc' = Printing(todo')
  /\ UNCHANGED <<reg, enabled, registered>>

main ==
  /\ \/ sti \/ init_keyboard \/ Load \/ PutCell \/ Advance \/ Newline \/ Store
     \/ FirstCol \/ CallMoveCursor \/ Outb
  /\ ~ halted
  /\ UNCHANGED <<obf, irq, lineVars>>

-----------------------------------------------------------------------------
Init ==
  /\ screen = Cleared(FirstRow)
  /\ pc = "sti" /\ todo = <<>> /\ reg = Unloaded /\ outs = <<>>
  /\ enabled = FALSE /\ registered = FALSE
  /\ obf = "none" /\ irq = FALSE
  /\ command = Empty /\ cmd_index = 0 /\ ran = "nothing" /\ keys = 0
  /\ halted = FALSE /\ plain = TRUE /\ alone = TRUE

Next == main \/ irq_handler \/ \E k \in Keys : Press(k)

(* The processor goes on running main, and takes interrupts while they are *)
(* enabled: only irq_handler makes irq false.                              *)
Spec == Init /\ [][Next]_vars /\ WF_vars(main) /\ WF_irq(Interrupted)

-----------------------------------------------------------------------------
(* Every variable keeps its type; cmd_index stays within command.          *)
TypeOK ==
  /\ Len(screen.fb) = Memory /\ screen.stray \in BOOLEAN
  /\ {screen.fb_col, screen.fb_row} \subseteq 0 .. WORD - 1
  /\ screen.cursor \in [index : {"high", "low"}, high : 0 .. BYTE - 1, low : 0 .. BYTE - 1]
  /\ DOMAIN reg \subseteq Reads /\ Len(outs) <= 4
  /\ obf \in Keys \cup {"none"} /\ irq \in BOOLEAN
  /\ command \in [0 .. CMDSIZE - 1 -> Chars \cup {NUL}]
  /\ cmd_index \in 0 .. MaxLine
  /\ ran \in DOMAIN Commands \cup {"nothing"} /\ keys \in 0 .. MaxKeys

(* "i must be between 0 and fb_width*fb_height" (shell.h:42): no call of   *)
(* write_cell, of main or of the handler, at any interleaving of the two,  *)
(* leaves the screen; backspacing may pass the first column of a row.      *)
WritesOnScreen == ~ screen.stray

(* Behind the line, command holds zeros: strcmp finds the end of the line, *)
(* and a shorter line is not run as what is left of a longer one.          *)
CommandTerminated == \A n \in cmd_index .. CMDSIZE - 1 : command[n] = NUL

(* What the user sees is what will be run: before the cursor stand the     *)
(* prompt and the characters of command.  It holds for plain lines, and    *)
(* enter makes every line plain again.  Behind the cursor there is nothing *)
(* if no key came between main's own accesses: such a key can make main    *)
(* lose rows, and what was written on them stays below.                    *)
Shown == Tail(PROMPT) \o [k \in 1 .. cmd_index |-> command[k - 1]]
Echo ==
  plain /\ pc = "loop" =>
    LET home == position(screen) - Len(Shown) IN
    /\ \A k \in 1 .. Len(Shown) : home + k > 0 => screen.fb[home + k] = Shown[k]
    /\ alone => \A i \in Cell : i >= position(screen) => screen.fb[i + 1] = Blank

(* The hardware cursor stands where the next character will go.            *)
CursorFollows ==
  plain /\ pc = "loop" =>
    screen.cursor.high * BYTE + screen.cursor.low = position(screen)

(* main alone prints what it is given: taken apart, its calls of write and *)
(* init_prompt do what they do undivided.                                  *)
BootScreen ==
  pc = "loop" /\ keys = 0 => screen = write(Cleared(FirstRow), BootText \o PROMPT)

(* Once the handler is registered no key is lost: each scan code is read.  *)
KeysTaken == obf # "none" ~> obf = "none"

(* "avoid backspace to not to delete prompt" (keyboard.c:44-45): handling  *)
(* a backspace leaves every cell of a prompt alone.                        *)
PromptStands ==
  [][obf = BACK /\ irq /\ ~ irq' =>
       \A i \in Cell : screen.fb[i + 1] = Last(PROMPT) => screen'.fb[i + 1] = Last(PROMPT)]_vars

(* The keyboard is a line editor.  A reboot leaves no line to edit.        *)
Editor == INSTANCE LineEditor WITH
  line <- IF halted THEN <<>> ELSE [k \in 1 .. cmd_index |-> command[k - 1]]
ImplementsEditor == Editor!Spec
=============================================================================
