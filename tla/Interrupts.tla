------------------------------ MODULE Interrupts ------------------------------
(***************************************************************************)
(* How the kernel sets up and takes interrupts: the descriptor tables and  *)
(* the remapping of the PICs (drivers/descriptor_tables.c), the stubs      *)
(* (asm/interrupt.s), the dispatch to handlers (drivers/isr.c), and the    *)
(* one handler that does not return, reboot (drivers/shellcmds.c).         *)
(*                                                                         *)
(* The processor, the PICs (module PIC) and the keyboard controller are    *)
(* external.  The stack holds what the processor and the stubs push, a     *)
(* word for a word (pusha counts as one), so that a stub that pops what    *)
(* was not pushed is seen.  The instructions of a stub between two calls   *)
(* touch only the stack and are one step; each out is a step.              *)
(***************************************************************************)
EXTENDS PIC, Sequences, FiniteSets

CONSTANTS
  Lines,        \* interrupt lines with a device; line 1 is the keyboard
  MaskPairs,    \* masks <<master, slave>> that the firmware may leave
  Faults,       \* exceptions that main may meet
  Text,         \* address of the first stub (the .text section of link.ld)
  MaxEvents     \* bound: edges, NMIs, spurious interrupts and faults

ASSUME InterruptsAssumption ==
  /\ Lines \subseteq (0 .. 15) \ {CASCADE} /\ 1 \in Lines
  /\ MaskPairs \subseteq Byte \X Byte
  /\ Faults \subseteq (0 .. 19) \ {2, 15}    \* 2 is the NMI, 15 reserved
  /\ Text \in Nat /\ (Text + 16 * 47) \div 2^16 < 2^16  \* 32 bits
  /\ MaxEvents \in Nat

VARIABLES
  pc, outs,     \* main: where it is, and the port writes left of PIC_remap
  gdt, idt,     \* gdt_entries, and the gates of idt_entries that are not zero
  handlers,     \* vectors with an entry in interrupt_handlers
  at,           \* the code the processor runs: main, or where in a handler
  enabled,      \* the interrupt flag
  stack,        \* what interrupts have pushed, the top first
  stuck,        \* the exception main meets where it is, or None
  nmi,          \* the non-maskable interrupt: "none", "pending", "serving"
  pic,          \* the PICs
  kbc,          \* the keyboard controller: output and input buffer full
  causes,       \* what raised each interrupt being served, newest first
  firmware,     \* the masks the firmware left
  left          \* events still to come

mainVars == <<pc, outs, gdt, idt, handlers>>
cpuVars == <<at, enabled, stuck, stack, nmi, causes>>
deviceVars == <<pic, kbc, left>>
vars == <<mainVars, cpuVars, deviceVars, firmware>>

None == -1
NMI == 2
PAGE_FAULT == 14
IRQ0 == 32
IRQ1 == 33

(* Slips of the code that the properties must notice: no other definition  *)
(* uses these.                                                             *)
MutantNoErrCode(v) == v \notin {8, 10, 11, 12, 13}          \* 14 forgotten
MutantInvolvesSlave(v) == v > 40                           \* off by one
MutantReloaded(flag) == TRUE                              \* sti instead of iret's flag
MutantPIC_remap(a1, a2) ==                                 \* masks swapped
  << <<PIC1_COMMAND, 17>>, <<PIC2_COMMAND, 17>>, <<PIC1_DATA, 32>>, <<PIC2_DATA, 40>>,
     <<PIC1_DATA, 4>>, <<PIC2_DATA, 2>>, <<PIC1_DATA, 1>>, <<PIC2_DATA, 1>>,
     <<PIC1_DATA, a2>>, <<PIC2_DATA, a1>> >>
MutantCascade == CASCADE                                   \* number for bit
MutantSetGate(base, selector) ==                      \* high half not shifted
  [base_low |-> base % 2^16, base_high |-> base % 2^16, segment_selector |-> selector,
   flags |-> [reserved |-> 14, dpl |-> 0, p |-> 1]]

-----------------------------------------------------------------------------
(* init_gdt: four segments over all of memory.                             *)
GDT_CODE_TYPE_EXEC_READ == 10
GDT_DATA_TYPE_READ_WRITE == 2
GDT_RING0 == 0
GDT_RING3 == 3

construct_entry(type, dpl) ==
  [base_low |-> 0, base_middle |-> 0, base_high |-> 0, limit_low |-> 65535,
   access |-> [type |-> type, dt |-> 1, dpl |-> dpl, p |-> 1],
   granularity |-> [g |-> 1, d |-> 1, seglen |-> 15]]

construct_null_entry ==
  [base_low |-> 0, base_middle |-> 0, base_high |-> 0, limit_low |-> 0,
   access |-> [type |-> 0, dt |-> 0, dpl |-> 0, p |-> 0],
   granularity |-> [g |-> 0, d |-> 0, seglen |-> 0]]

gdt_entries ==
  << construct_null_entry,
     construct_entry(GDT_CODE_TYPE_EXEC_READ, GDT_RING0),
     construct_entry(GDT_DATA_TYPE_READ_WRITE, GDT_RING0),
     construct_entry(GDT_CODE_TYPE_EXEC_READ, GDT_RING3),
     construct_entry(GDT_DATA_TYPE_READ_WRITE, GDT_RING3) >>

(* The processor's reading of a descriptor.                                *)
Selected(selector) == gdt[(selector \div 8) + 1]
Flat(d) ==
  /\ d.base_low = 0 /\ d.base_middle = 0 /\ d.base_high = 0
  /\ d.granularity.g = 1 /\ d.granularity.d = 1
  /\ d.limit_low + d.granularity.seglen * 2^16 = 2^20 - 1
Kernel(d, code) ==
  /\ d.access.p = 1 /\ d.access.dt = 1 /\ d.access.dpl = GDT_RING0
  /\ Bit(d.access.type, 3) = code /\ Bit(d.access.type, 1) = 1
  /\ Flat(d)
CODE == 8
DATA == 16

-----------------------------------------------------------------------------
(* init_idt: the stubs, one behind another, and the gates to them.         *)
Stubs == [v \in 0 .. 47 |-> Text + 16 * v]

idt_set_gate(base, selector) ==
  [base_low |-> base % 2^16, base_high |-> (base \div 2^16) % 2^16,
   segment_selector |-> selector,
   flags |-> [reserved |-> 14, dpl |-> 0, p |-> 1]]
Gates(vectors) == [v \in vectors |-> idt_set_gate(Stubs[v], CODE)]

(* The stub a vector leads to, if its gate is whole and its segment is the *)
(* kernel's: an interrupt gate has the type 14.                            *)
Target(v) == idt[v].base_low + idt[v].base_high * 2^16
Reached(v) ==
  IF /\ v \in DOMAIN idt /\ idt[v].flags = [reserved |-> 14, dpl |-> 0, p |-> 1]
     /\ Kernel(Selected(idt[v].segment_selector), 1) /\ Kernel(Selected(DATA), 0)
  THEN {s \in DOMAIN Stubs : Stubs[s] = Target(v)} ELSE {}

(* PIC_remap: the port writes, with the masks it saved first.              *)
ICW3_MASTER == 4                \* the slave is at line 2, as a bit
PIC_remap(a1, a2) ==
  << <<PIC1_COMMAND, ICW1_INIT + ICW1_ICW4>>, <<PIC2_COMMAND, ICW1_INIT + ICW1_ICW4>>,
     <<PIC1_DATA, PIC1_START_INTERRUPT>>,     <<PIC2_DATA, PIC2_START_INTERRUPT>>,
     <<PIC1_DATA, ICW3_MASTER>>,              <<PIC2_DATA, CASCADE>>,
     <<PIC1_DATA, ICW4_8086>>,                <<PIC2_DATA, ICW4_8086>>,
     <<PIC1_DATA, a1>>,                       <<PIC2_DATA, a2>> >>

-----------------------------------------------------------------------------
(* The stack.  A stub pushes a dummy error code for the exceptions of      *)
(* which the processor does not push one, the number, the registers and ds.*)
Word(kind, value) == [word |-> kind, value |-> value]
NoErrCode(v) == v \notin {8, 10, 11, 12, 13, 14, 17}
PushesErrorCode(v) == v \in {8, 10, 11, 12, 13, 14, 17}

PushedByProcessor(cause) ==
  (IF cause.kind = "exception" /\ PushesErrorCode(cause.number)
   THEN <<Word("err_code", 0)>> ELSE <<>>)
  \o <<Word("eip", at), Word("cs", CODE), Word("eflags", enabled)>>
PushedByStub(s) ==
  <<Word("ds", DATA), Word("regs", 0), Word("int_no", s)>>
  \o (IF s >= IRQ0 \/ NoErrCode(s) THEN <<Word("err_code", 0)>> ELSE <<>>)

(* An interrupt on vector v, up to the call of its handler in C.  Gate and *)
(* stub turn interrupts off.  A gate that does not work ends in a reset.   *)
Enter(v, cause) ==
  /\ \/ \E s \in Reached(v) :
          /\ stack' = PushedByStub(s) \o PushedByProcessor(cause) \o stack
          /\ at' = IF s < IRQ0 THEN "isr_handler" ELSE "irq_handler"
          /\ enabled' = FALSE
          /\ causes' = <<cause>> \o causes
     \/ /\ Reached(v) = {}
        /\ at' = "triple fault" /\ UNCHANGED <<stack, enabled, causes>>
  /\ UNCHANGED mainVars

regs_int_no == stack[3].value

(* pop, popa, add esp 8, sti, iret.  sti takes effect behind the next      *)
(* instruction, and that is iret, which reloads the flag.                  *)
Reloaded(flag) == flag
Return ==
  /\ at = "return"
  /\ LET iret == SubSeq(stack, 5, Len(stack))
     IN IF Len(iret) >= 3 /\ iret[1].word = "eip" /\ iret[3].word = "eflags"
        THEN /\ at' = iret[1].value
             /\ enabled' = Reloaded(iret[3].value)
             /\ stack' = SubSeq(iret, 4, Len(iret))
             /\ causes' = Tail(causes)
        ELSE at' = "wild" /\ UNCHANGED <<enabled, stack, causes>>
  /\ nmi' = IF nmi = "serving" THEN "none" ELSE nmi
  /\ UNCHANGED <<mainVars, stuck, deviceVars>>

-----------------------------------------------------------------------------
(* drivers/isr.c.                                                          *)

(* A handler that is not there, or that returns.                           *)
Goes(place) == at' = place /\ UNCHANGED <<enabled, kbc>>

page_fault == at' = "panic" /\ enabled' = FALSE /\ kbc' = kbc

(* keyboard_cb reads the scan code; the key may be the enter of "reboot".  *)
keyboard_cb ==
  /\ kbc' = [kbc EXCEPT !.obf = FALSE]
  /\ \/ at' = "return" /\ enabled' = enabled
     \/ at' = "reboot" /\ enabled' = FALSE

CallHandler ==
  /\ IF regs_int_no \notin handlers THEN Goes("return")
     ELSE \/ regs_int_no = PAGE_FAULT /\ page_fault
          \/ regs_int_no = IRQ1 /\ keyboard_cb
  /\ UNCHANGED <<mainVars, stuck, stack, nmi, causes, left>>

isr_handler == at = "isr_handler" /\ CallHandler /\ pic' = pic

InvolvesSlave(int_no) == int_no >= 40
ack_slave ==
  /\ at = "irq_handler" /\ Goes("ack_master")
  /\ pic' = IF InvolvesSlave(regs_int_no) THEN PortWritten(pic, PIC2_COMMAND, PIC_EOI) ELSE pic
  /\ UNCHANGED <<mainVars, stuck, stack, nmi, causes, left>>
ack_master ==
  /\ at = "ack_master" /\ Goes("acknowledged")
  /\ pic' = PortWritten(pic, PIC1_COMMAND, PIC_EOI)
  /\ UNCHANGED <<mainVars, stuck, stack, nmi, causes, left>>
irq_handler == at = "acknowledged" /\ CallHandler /\ pic' = pic

-----------------------------------------------------------------------------
(* reboot, behind its cli: an iteration of the loop that empties the       *)
(* controller, the reset command, and the halt that an NMI interrupts.     *)
UserDataInBuffer(status) == status.ibf
reboot ==
  /\ \/ /\ at = "reboot"
        /\ kbc' = [kbc EXCEPT !.obf = FALSE]
        /\ at' = IF UserDataInBuffer(kbc) THEN "reboot" ELSE "outb reset"
     \/ /\ at = "outb reset" /\ at' = "hlt"
        /\ kbc' = [kbc EXCEPT !.ibf = TRUE]
  /\ UNCHANGED <<mainVars, enabled, stuck, stack, nmi, causes, pic, left>>

-----------------------------------------------------------------------------
(* main, up to its prints.                                                 *)
At(here, next) == pc = here /\ pc' = next

init_gdt ==
  /\ At("init_gdt", "memset") /\ gdt' = gdt_entries
  /\ UNCHANGED <<outs, idt, handlers, enabled, pic>>
set_isr_gates ==
  /\ At("memset", "PIC_remap") /\ idt' = Gates(0 .. 31)
  /\ UNCHANGED <<outs, gdt, handlers, enabled, pic>>
save_masks ==
  /\ At("PIC_remap", "outb")
  /\ outs' = PIC_remap(pic.master.imr, pic.slave.imr)
  /\ UNCHANGED <<gdt, idt, handlers, enabled, pic>>
outb ==
  /\ At("outb", IF Len(outs) = 1 THEN "set_irq_gates" ELSE "outb")
  /\ pic' = PortWritten(pic, Head(outs)[1], Head(outs)[2])
  /\ outs' = Tail(outs)
  /\ UNCHANGED <<gdt, idt, handlers, enabled>>
set_irq_gates ==
  /\ At("set_irq_gates", "sti") /\ idt' = Gates(DOMAIN idt \cup 32 .. 47)
  /\ UNCHANGED <<outs, gdt, handlers, enabled, pic>>
sti ==
  /\ At("sti", "init_paging") /\ enabled' = TRUE
  /\ UNCHANGED <<outs, gdt, idt, handlers, pic>>
register_interrupt_handler(n) ==
  /\ handlers' = handlers \cup {n}
  /\ UNCHANGED <<outs, gdt, idt, enabled, pic>>
init_paging == At("init_paging", "enable_paging") /\ register_interrupt_handler(PAGE_FAULT)
enable_paging ==
  /\ At("enable_paging", "init_keyboard")
  /\ UNCHANGED <<outs, gdt, idt, handlers, enabled, pic>>
init_keyboard == At("init_keyboard", "loop") /\ register_interrupt_handler(IRQ1)

(* Behind the handler of a fault, main is at the instruction that raised   *)
(* it, and raises it again; behind that of a trap, at the next.  What an   *)
(* abort leaves of main is not defined.                                    *)
Traps == {1, 3, 4}
Aborts == {8, 18}
Resumed(v) ==
  CASE v \in Traps -> {None}
    [] v \in Aborts -> {v, None}
    [] OTHER -> {v}

main ==
  /\ at = "main"
  /\ \/ /\ stuck = None
        /\ \/ init_gdt \/ set_isr_gates \/ save_masks \/ outb \/ set_irq_gates
           \/ sti \/ init_paging \/ enable_paging \/ init_keyboard
        /\ UNCHANGED <<at, stack, causes, stuck, kbc>>
     \/ /\ stuck # None /\ Enter(stuck, [kind |-> "exception", number |-> stuck])
        /\ stuck' \in Resumed(stuck)
        /\ UNCHANGED <<pic, kbc>>
  /\ UNCHANGED <<nmi, left>>

-----------------------------------------------------------------------------
(* The processor: between two instructions it takes an NMI first, then an  *)
(* interrupt of the PIC, then goes on with the code it is in.              *)
TakesNMI == nmi = "pending"
TakesIRQ == enabled /\ INTR(pic) /\ ~ TakesNMI

NonMaskable ==
  /\ TakesNMI /\ nmi' = "serving"
  /\ Enter(NMI, [kind |-> "nmi", number |-> NMI])
  /\ UNCHANGED <<stuck, deviceVars>>

Maskable ==
  /\ TakesIRQ
  /\ \E taken \in {Acknowledged(pic)} :
       /\ pic' = taken.pic
       /\ Enter(taken.vector, [kind |-> "irq", number |-> taken.line])
  /\ UNCHANGED <<stuck, nmi, kbc, left>>

Code ==
  main \/ isr_handler \/ ack_slave \/ ack_master \/ irq_handler \/ reboot \/ Return

Processor ==
  \/ NonMaskable \/ Maskable
  \/ ~ TakesNMI /\ ~ TakesIRQ /\ Code
Running == at \notin {"triple fault", "wild"} /\ Processor /\ UNCHANGED firmware

(* The devices.  The platform keeps NMIs off until there is an IDT.        *)
Loaded == pc \in {"sti", "init_paging", "enable_paging", "init_keyboard", "loop"}
Event == left > 0 /\ left' = left - 1 /\ UNCHANGED <<mainVars, firmware>>

(* An edge on a line; the keyboard makes one when its buffer fills.        *)
Edge(line) ==
  /\ Event /\ ~ Requested(pic, line)
  /\ line = 1 => ~ kbc.obf
  /\ pic' = Raised(pic, line)
  /\ kbc' = IF line = 1 THEN [kbc EXCEPT !.obf = TRUE] ELSE kbc
  /\ UNCHANGED cpuVars

RaiseNMI ==
  /\ Event /\ Loaded /\ nmi = "none" /\ nmi' = "pending"
  /\ UNCHANGED <<at, enabled, stuck, stack, causes, pic, kbc>>

(* A request that is gone when the processor acknowledges it: the master   *)
(* answers with its input 7, without having it in service.                 *)
Spurious ==
  /\ Event /\ enabled /\ ~ TakesNMI /\ ~ INTR(pic) /\ Working(pic.master)
  /\ Enter(pic.master.offset + 7, [kind |-> "irq", number |-> 7])
  /\ UNCHANGED <<stuck, nmi, pic, kbc>>

(* main meets an exception, any of those that the processor defines up to  *)
(* number 19 (the later ones belong to features the kernel does not turn   *)
(* on); a page fault needs paging.                                         *)
Break(v) ==
  /\ Event /\ at = "main" /\ enabled /\ stuck = None
  /\ v = PAGE_FAULT => pc \in {"init_keyboard", "loop"}
  /\ stuck' = v
  /\ UNCHANGED <<at, enabled, stack, nmi, causes, pic, kbc>>

(* The keyboard controller takes what was written to it.                   *)
KbcTakes ==
  /\ kbc.ibf /\ at # "hlt" /\ kbc' = [kbc EXCEPT !.ibf = FALSE]
  /\ UNCHANGED <<mainVars, cpuVars, pic, left, firmware>>

-----------------------------------------------------------------------------
Init ==
  /\ pc = "init_gdt" /\ outs = <<>> /\ gdt = <<>> /\ idt = [v \in {} |-> 0]
  /\ handlers = {}
  /\ at = "main" /\ enabled = FALSE /\ stack = <<>> /\ stuck = None /\ nmi = "none"
  /\ firmware \in MaskPairs
  /\ pic = [master |-> Firmware(8, 2^CASCADE, firmware[1]),
            slave |-> Firmware(112, CASCADE, firmware[2])]
  /\ kbc \in [obf : {FALSE}, ibf : BOOLEAN]
  /\ causes = <<>> /\ left = MaxEvents

Next ==
  \/ Running
  \/ \E line \in Lines : Edge(line)
  \/ RaiseNMI \/ Spurious \/ KbcTakes
  \/ \E v \in Faults : Break(v)

(* The processor never pauses, and the controller takes what it is sent.   *)
Spec == Init /\ [][Next]_vars /\ WF_vars(Running) /\ WF_vars(KbcTakes)

-----------------------------------------------------------------------------
Places == {"main", "isr_handler", "irq_handler", "ack_master", "acknowledged",
           "return", "panic", "reboot", "outb reset", "hlt"}
Halted == {"panic", "reboot", "outb reset", "hlt"}

(* Every variable keeps its type; the processor is always in some code.    *)
TypeOK ==
  /\ pc \in {"init_gdt", "memset", "PIC_remap", "outb", "set_irq_gates", "sti",
             "init_paging", "enable_paging", "init_keyboard", "loop"}
  /\ outs \in Seq(Nat \X Byte)
  /\ handlers \subseteq {PAGE_FAULT, IRQ1}
  /\ at \in Places /\ enabled \in BOOLEAN
  /\ \A k \in 1 .. Len(stack) :
       stack[k].word \in {"ds", "regs", "int_no", "err_code", "eip", "cs", "eflags"}
  /\ stuck \in Faults \cup {None} /\ nmi \in {"none", "pending", "serving"}
  /\ pic \in [master : Controller, slave : Controller]
  /\ kbc \in [obf : BOOLEAN, ibf : BOOLEAN]
  /\ causes \in Seq([kind : {"irq", "exception", "nmi"}, number : 0 .. 31])
  /\ firmware \in MaskPairs /\ left \in 0 .. MaxEvents

(* registers_t describes the stack each handler is given (isr.h:24-29),    *)
(* whatever was interrupted, by the NMI, an exception or an IRQ: every     *)
(* interrupt being served has pushed one whole frame, with the number that *)
(* belongs to its cause.                                                   *)
Layout == <<"ds", "regs", "int_no", "err_code", "eip", "cs", "eflags">>
Vector(cause) == IF cause.kind = "irq" THEN IRQ0 + cause.number ELSE cause.number
FramesWhole ==
  /\ Len(stack) = Len(Layout) * Len(causes)
  /\ \A k \in 1 .. Len(stack) : stack[k].word = Layout[((k - 1) % Len(Layout)) + 1]
  /\ \A n \in 1 .. Len(causes) :
       stack[Len(Layout) * (n - 1) + 3].value = Vector(causes[n])

(* No IRQ is taken while the handler of another has not returned, not even *)
(* behind an NMI that comes in between, nor after the cli of reboot and    *)
(* panic: keyboard_cb and reboot have the keyboard to themselves.          *)
Irqs == {n \in 1 .. Len(causes) : causes[n].kind = "irq"}
IrqsDoNotNest ==
  /\ Cardinality(Irqs) <= 1
  /\ Irqs # {} => ~ enabled
  /\ at \in Halted => ~ enabled

(* When a handler in C is entered, its interrupt has been ended at every   *)
(* controller it came through, and no other has been: nothing waits behind *)
(* a handler that does not return (ack_irq).                               *)
Contexts ==
  {at} \cup {stack[k].value : k \in {n \in 1 .. Len(stack) : stack[n].word = "eip"}}
EndedBeforeHandler ==
  Contexts \cap {"irq_handler", "ack_master"} = {} =>
    pic.master.isr = {} /\ pic.slave.isr = {}

(* "restore saved masks." (descriptor_tables.c:238): remapping leaves each *)
(* line masked as it was.                                                  *)
MasksRestored ==
  Loaded => /\ Working(pic.master) /\ pic.master.imr = firmware[1]
            /\ Working(pic.slave) /\ pic.slave.imr = firmware[2]

(* Every request of a line that stays unmasked is served, unless the       *)
(* kernel has stopped, and that while main is stuck in an exception for    *)
(* which there is no handler; a page fault always ends in page_fault; a    *)
(* reboot reaches its reset.                                               *)
Stopped == Contexts \cap Halted # {}
Served ==
  /\ \A line \in Lines :
       Requested(pic, line) ~>
         ~ Requested(pic, line) \/ ~ Unmasked(pic, line) \/ Stopped
  /\ stuck = PAGE_FAULT ~> Stopped
  /\ at = "reboot" ~> at = "hlt"
=============================================================================
