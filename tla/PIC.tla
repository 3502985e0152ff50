--------------------------------- MODULE PIC ---------------------------------
(***************************************************************************)
(* The pair of 8259 interrupt controllers, as far as                       *)
(* drivers/descriptor_tables.c programs it and drivers/isr.c acknowledges  *)
(* it.  The code in src/ holds no model of the device: these operators say *)
(* what the bytes the kernel writes make it do.                            *)
(***************************************************************************)
EXTENDS Integers, FiniteSetsExt

PIC1_COMMAND == 32              \* 0x20
PIC1_DATA == PIC1_COMMAND + 1
PIC2_COMMAND == 160             \* 0xA0
PIC2_DATA == PIC2_COMMAND + 1
PIC1_START_INTERRUPT == 32      \* 0x20
PIC2_START_INTERRUPT == 40      \* 0x28
PIC_EOI == 32                   \* 0x20
ICW1_INIT == 16
ICW1_ICW4 == 1
ICW4_8086 == 1

CASCADE == 2                    \* the input of the master the slave is wired to
Input == 0 .. 7
Byte == 0 .. 255
Bit(byte, n) == (byte \div 2^n) % 2

(* One controller: the initialisation word it waits for (0: none), the     *)
(* vector of its input 0, its cascade word, its mode word, its mask, and   *)
(* the inputs that are requested and in service.                           *)
Controller ==
  [icw : 0 .. 4, offset : Byte, cascade : Byte, mode : Byte, imr : Byte,
   irr : SUBSET Input, isr : SUBSET Input]

(* As the firmware leaves it: working, on vectors of its own.              *)
Firmware(offset, wiring, mask) ==
  [icw |-> 0, offset |-> offset, cascade |-> wiring, mode |-> ICW4_8086,
   imr |-> mask, irr |-> {}, isr |-> {}]

-----------------------------------------------------------------------------
(* A byte written to the command port: ICW1 or an end of interrupt, which  *)
(* ends the input in service that has the highest priority.                *)
Command(c, byte) ==
  IF Bit(byte, 4) = 1
  THEN [c EXCEPT !.icw = 2, !.imr = 0, !.irr = {}, !.isr = {}]
  ELSE IF byte = PIC_EOI /\ c.isr # {} THEN [c EXCEPT !.isr = @ \ {Min(@)}] ELSE c

(* A byte written to the data port: the word the controller waits for, or  *)
(* its mask.                                                               *)
Data(c, byte) ==
  IF c.icw = 2 THEN [c EXCEPT !.offset = byte - (byte % 8), !.icw = 3]
  ELSE IF c.icw = 3 THEN [c EXCEPT !.cascade = byte, !.icw = 4]
  ELSE IF c.icw = 4 THEN [c EXCEPT !.mode = byte, !.icw = 0]
  ELSE [c EXCEPT !.imr = byte]

(* out port, byte, on the pair p.                                          *)
PortWritten(p, port, byte) ==
  IF port = PIC1_COMMAND THEN [p EXCEPT !.master = Command(@, byte)]
  ELSE IF port = PIC1_DATA THEN [p EXCEPT !.master = Data(@, byte)]
  ELSE IF port = PIC2_COMMAND THEN [p EXCEPT !.slave = Command(@, byte)]
  ELSE IF port = PIC2_DATA THEN [p EXCEPT !.slave = Data(@, byte)]
  ELSE p

-----------------------------------------------------------------------------
(* The inputs a controller would pass on: requested, not masked, and ahead *)
(* of all that is in service.                                              *)
Ready(c) == {n \in c.irr : Bit(c.imr, n) = 0 /\ \A m \in c.isr : n < m}

Working(c) == c.icw = 0 /\ Bit(c.mode, 0) = 1

(* The slave asks through the master, if both know of the cascade.         *)
SlaveAsks(p) ==
  /\ Working(p.slave) /\ Ready(p.slave) # {}
  /\ Bit(p.master.cascade, CASCADE) = 1 /\ p.slave.cascade = CASCADE
MasterSees(p) ==
  IF SlaveAsks(p) THEN [p.master EXCEPT !.irr = @ \cup {CASCADE}] ELSE p.master

(* The line to the processor.                                              *)
INTR(p) == Working(p.master) /\ Ready(MasterSees(p)) # {}

Taken(c, n) == [c EXCEPT !.irr = @ \ {n}, !.isr = @ \cup {n}]

(* The processor acknowledges: the lines served, the vector it is given,   *)
(* and the pair afterwards.  Lines of the slave count from 8.              *)
Acknowledged(p) ==
  LET n == Min(Ready(MasterSees(p)))
      k == Min(Ready(p.slave))
  IN IF n # CASCADE
     THEN [line |-> n, vector |-> p.master.offset + n,
           pic |-> [p EXCEPT !.master = Taken(@, n)]]
     ELSE [line |-> 8 + k, vector |-> p.slave.offset + k,
           pic |-> [p EXCEPT !.master = Taken(@, CASCADE), !.slave = Taken(@, k)]]

(* An edge on a line.                                                      *)
Raised(p, line) ==
  IF line < 8 THEN [p EXCEPT !.master.irr = @ \cup {line}]
              ELSE [p EXCEPT !.slave.irr = @ \cup {line - 8}]
Requested(p, line) ==
  IF line < 8 THEN line \in p.master.irr ELSE line - 8 \in p.slave.irr
Unmasked(p, line) ==
  IF line < 8 THEN Bit(p.master.imr, line) = 0
              ELSE Bit(p.master.imr, CASCADE) = 0 /\ Bit(p.slave.imr, line - 8) = 0
=============================================================================
