--------------------------- MODULE InterruptsProofs ---------------------------
(***************************************************************************)
(* For every set of lines, firmware mask, fault, and place of the stubs in *)
(* memory, and however many events come: what the stubs push is what they  *)
(* pop, IRQs do not nest, each is ended at the controllers it came through *)
(* before its handler runs, and the PICs keep the masks of the firmware.   *)
(***************************************************************************)
EXTENDS Interrupts, SequenceTheorems, FiniteSetTheorems, TLAPS

(* main is behind its sti.                                                 *)
On == pc \in {"init_paging", "enable_paging", "init_keyboard", "loop"}

Tables ==
  /\ pc # "init_gdt" => gdt = gdt_entries
  /\ pc \in {"PIC_remap", "outb", "set_irq_gates"} => idt = Gates(0 .. 31)
  /\ Loaded => idt = Gates(0 .. 47)

-----------------------------------------------------------------------------
(* The remapping, write by write: each controller gets five of the ten.    *)
Programmed(c, step, offset, wiring, mask) ==
  /\ c.icw = CASE step = 1 -> 2 [] step = 2 -> 3 [] step = 3 -> 4 [] OTHER -> 0
  /\ step >= 2 => c.offset = offset
  /\ step >= 3 => c.cascade = wiring
  /\ step >= 4 => c.mode = ICW4_8086
  /\ step \in {0, 5} => c.imr = mask

Before == {"init_gdt", "memset", "PIC_remap"}
Remapped(k) ==
  /\ Programmed(pic.master, k \div 2, PIC1_START_INTERRUPT, ICW3_MASTER, firmware[1])
  /\ Programmed(pic.slave, (k - 1) \div 2, PIC2_START_INTERRUPT, CASCADE, firmware[2])
Remapping ==
  /\ pc \in Before => Remapped(1) /\ outs = <<>>
  /\ pc = "outb" => \E k \in 1 .. 10 :
       Remapped(k) /\ outs = SubSeq(PIC_remap(firmware[1], firmware[2]), k, 10)
  /\ pc \notin Before \cup {"outb"} => Remapped(11) /\ outs = <<>>

-----------------------------------------------------------------------------
(* What an interrupt leaves on the stack, and the contexts there may be:   *)
(* main, a handler over it, and an NMI over either.                        *)
Frame(cause, place, flag) ==
  << Word("ds", DATA), Word("regs", 0), Word("int_no", Vector(cause)), Word("err_code", 0),
     Word("eip", place), Word("cs", CODE), Word("eflags", flag) >>

Nmi == [kind |-> "nmi", number |-> NMI]
Idle == pic.master.isr = {} /\ pic.slave.isr = {}

InService(line) ==
  IF line < 8 THEN pic.master.isr \subseteq {line} /\ pic.slave.isr = {}
              ELSE pic.master.isr = {CASCADE} /\ pic.slave.isr = {line - 8}
ServingIrq(c, place) ==
  /\ c \in [kind : {"irq"}, number : 0 .. 15]
  /\ \/ place = "irq_handler" /\ InService(c.number)
     \/ /\ place = "ack_master" /\ pic.slave.isr = {}
        /\ \E line \in Input : pic.master.isr \subseteq {line}
     \/ place \in {"acknowledged", "return", "reboot", "outb reset", "hlt"} /\ Idle
ServingException(c, place) ==
  /\ c \in [kind : {"exception"}, number : Faults]
  /\ place \in {"isr_handler", "return", "panic"} /\ Idle
Serving(c, place) == ServingIrq(c, place) \/ ServingException(c, place)

InMain ==
  /\ causes = <<>> /\ stack = <<>> /\ at = "main" /\ enabled = On
  /\ nmi # "serving" /\ Idle
InHandler(c) ==
  /\ On /\ causes = <<c>> /\ stack = Frame(c, "main", TRUE)
  /\ ~ enabled /\ nmi # "serving" /\ Serving(c, at)
InNMI ==
  /\ causes = <<Nmi>> /\ stack = Frame(Nmi, "main", On)
  /\ ~ enabled /\ nmi = "serving" /\ at \in {"isr_handler", "return"} /\ Idle
InBoth(c, place) ==
  /\ On /\ causes = <<Nmi, c>> /\ stack = Frame(Nmi, place, FALSE) \o Frame(c, "main", TRUE)
  /\ ~ enabled /\ nmi = "serving" /\ at \in {"isr_handler", "return"} /\ Serving(c, place)
Cause == [kind : {"irq", "exception"}, number : 0 .. 31]
Context ==
  \/ InMain
  \/ \E c \in Cause : InHandler(c)
  \/ InNMI
  \/ \E c \in Cause, place \in Places : InBoth(c, place)

Types ==
  /\ pc \in Before \cup {"outb", "set_irq_gates", "sti"} \/ On
  /\ handlers \subseteq {PAGE_FAULT, IRQ1}
  /\ enabled \in BOOLEAN
  /\ stuck \in Faults \cup {None} /\ (stuck # None => On)
  /\ nmi \in {"none", "pending", "serving"} /\ (nmi # "none" => Loaded)
  /\ pic \in [master : Controller, slave : Controller]
  /\ CASCADE \notin pic.master.irr
  /\ kbc \in [obf : BOOLEAN, ibf : BOOLEAN]
  /\ firmware \in MaskPairs /\ left \in 0 .. MaxEvents

IntInv == Types /\ Tables /\ Remapping /\ Context

-----------------------------------------------------------------------------
(* The stack.                                                              *)

Words(c, place, flag) ==
  { Word("ds", DATA), Word("regs", 0), Word("int_no", Vector(c)), Word("err_code", 0),
    Word("eip", place), Word("cs", CODE), Word("eflags", flag) }

(* What a frame holds, word by word.                                       *)
LEMMA FrameWords ==
  ASSUME NEW c, NEW place, NEW flag
  PROVE  /\ Frame(c, place, flag) \in Seq(Words(c, place, flag))
         /\ Len(Frame(c, place, flag)) = 7
         /\ \A k \in 1 .. 7 :
              /\ Frame(c, place, flag)[k].word = Layout[k]
              /\ Frame(c, place, flag)[k].word = "eip" <=> k = 5
         /\ Frame(c, place, flag)[3].value = Vector(c)
         /\ Frame(c, place, flag)[5] = Word("eip", place)
         /\ Frame(c, place, flag)[7] = Word("eflags", flag)
<1>1. Frame(c, place, flag) \in Seq(Words(c, place, flag)) /\ Len(Frame(c, place, flag)) = 7
  BY DEF Frame, Words
<1>2. /\ Frame(c, place, flag)[1] = Word("ds", DATA)
      /\ Frame(c, place, flag)[2] = Word("regs", 0)
      /\ Frame(c, place, flag)[3] = Word("int_no", Vector(c))
      /\ Frame(c, place, flag)[4] = Word("err_code", 0)
      /\ Frame(c, place, flag)[5] = Word("eip", place)
      /\ Frame(c, place, flag)[6] = Word("cs", CODE)
      /\ Frame(c, place, flag)[7] = Word("eflags", flag)
  BY DEF Frame
<1>3. ASSUME NEW k \in 1 .. 7
      PROVE  /\ Frame(c, place, flag)[k].word = Layout[k]
             /\ Frame(c, place, flag)[k].word = "eip" <=> k = 5
  <2>1. k \in {1, 2, 3, 4, 5, 6, 7}
    OBVIOUS
  <2> HIDE <1>1
  <2> QED BY <1>2, <2>1 DEF Word, Layout
<1> QED BY <1>1, <1>2, <1>3 DEF Word

(* Words put on one another.                                               *)
LEMMA Joined ==
  ASSUME NEW S, NEW s \in Seq(S), NEW t \in Seq(S), NEW u \in Seq(S),
         Len(u) = Len(s) + Len(t),
         \A k \in 1 .. Len(s) : u[k] = s[k],
         \A k \in Len(s) + 1 .. Len(u) : u[k] = t[k - Len(s)]
  PROVE  s \o t = u
<1>1. /\ s \o t \in Seq(S) /\ Len(s \o t) = Len(u)
      /\ Len(s) \in Nat /\ Len(t) \in Nat
      /\ \A k \in 1 .. Len(s) + Len(t) : (s \o t)[k] = IF k <= Len(s) THEN s[k] ELSE t[k - Len(s)]
  BY ConcatProperties, LenProperties
<1>2. \A k \in 1 .. Len(s \o t) : (s \o t)[k] = u[k]
  BY <1>1
<1> QED BY <1>1, <1>2, SeqEqual

LEMMA ThreeAndFour ==
  ASSUME NEW a, NEW b, NEW c, NEW d, NEW e, NEW f, NEW g
  PROVE  <<a, b, c>> \o <<d, e, f, g>> = <<a, b, c, d, e, f, g>>
<1> DEFINE S == {a, b, c, d, e, f, g}
           s == <<a, b, c>>
           t == <<d, e, f, g>>
           u == <<a, b, c, d, e, f, g>>
<1>1. s \in Seq(S) /\ t \in Seq(S) /\ u \in Seq(S)
  OBVIOUS
<1>2. Len(s) = 3 /\ Len(t) = 4 /\ Len(u) = 7
  OBVIOUS
<1>3. \A k \in 1 .. 3 : u[k] = s[k]
  OBVIOUS
<1>4. \A k \in 4 .. 7 : u[k] = t[k - 3]
  OBVIOUS
<1> HIDE DEF s, t, u, S
<1>5. /\ Len(u) = Len(s) + Len(t)
      /\ \A k \in 1 .. Len(s) : u[k] = s[k]
      /\ \A k \in Len(s) + 1 .. Len(u) : u[k] = t[k - Len(s)]
  BY <1>2, <1>3, <1>4
<1>6. s \o t = u
  BY <1>1, <1>5, Joined, Zenon
<1> QED BY <1>6 DEF s, t, u

LEMMA FourAndThree ==
  ASSUME NEW a, NEW b, NEW c, NEW d, NEW e, NEW f, NEW g
  PROVE  <<a, b, c, d>> \o <<e, f, g>> = <<a, b, c, d, e, f, g>>
<1> DEFINE S == {a, b, c, d, e, f, g}
           s == <<a, b, c, d>>
           t == <<e, f, g>>
           u == <<a, b, c, d, e, f, g>>
<1>1. s \in Seq(S) /\ t \in Seq(S) /\ u \in Seq(S)
  OBVIOUS
<1>2. Len(s) = 4 /\ Len(t) = 3 /\ Len(u) = 7
  OBVIOUS
<1>3. \A k \in 1 .. 4 : u[k] = s[k]
  OBVIOUS
<1>4. \A k \in 5 .. 7 : u[k] = t[k - 4]
  OBVIOUS
<1> HIDE DEF s, t, u, S
<1>5. /\ Len(u) = Len(s) + Len(t)
      /\ \A k \in 1 .. Len(s) : u[k] = s[k]
      /\ \A k \in Len(s) + 1 .. Len(u) : u[k] = t[k - Len(s)]
  BY <1>2, <1>3, <1>4
<1>6. s \o t = u
  BY <1>1, <1>5, Joined, Zenon
<1> QED BY <1>6 DEF s, t, u

LEMMA OneAndThree ==
  ASSUME NEW a, NEW b, NEW c, NEW d
  PROVE  <<a>> \o <<b, c, d>> = <<a, b, c, d>>
<1> DEFINE S == {a, b, c, d}
           s == <<a>>
           t == <<b, c, d>>
           u == <<a, b, c, d>>
<1>1. s \in Seq(S) /\ t \in Seq(S) /\ u \in Seq(S)
  OBVIOUS
<1>2. Len(s) = 1 /\ Len(t) = 3 /\ Len(u) = 4
  OBVIOUS
<1>3. \A k \in 1 .. 1 : u[k] = s[k]
  OBVIOUS
<1>4. \A k \in 2 .. 4 : u[k] = t[k - 1]
  OBVIOUS
<1> HIDE DEF s, t, u, S
<1>5. /\ Len(u) = Len(s) + Len(t)
      /\ \A k \in 1 .. Len(s) : u[k] = s[k]
      /\ \A k \in Len(s) + 1 .. Len(u) : u[k] = t[k - Len(s)]
  BY <1>2, <1>3, <1>4
<1>6. s \o t = u
  BY <1>1, <1>5, Joined, Zenon
<1> QED BY <1>6 DEF s, t, u

LEMMA ThreeAndOne ==
  ASSUME NEW a, NEW b, NEW c, NEW d
  PROVE  <<a, b, c>> \o <<d>> = <<a, b, c, d>>
<1> DEFINE S == {a, b, c, d}
           s == <<a, b, c>>
           t == <<d>>
           u == <<a, b, c, d>>
<1>1. s \in Seq(S) /\ t \in Seq(S) /\ u \in Seq(S)
  OBVIOUS
<1>2. Len(s) = 3 /\ Len(t) = 1 /\ Len(u) = 4
  OBVIOUS
<1>3. \A k \in 1 .. 3 : u[k] = s[k]
  OBVIOUS
<1>4. \A k \in 4 .. 4 : u[k] = t[k - 3]
  OBVIOUS
<1> HIDE DEF s, t, u, S
<1>5. /\ Len(u) = Len(s) + Len(t)
      /\ \A k \in 1 .. Len(s) : u[k] = s[k]
      /\ \A k \in Len(s) + 1 .. Len(u) : u[k] = t[k - Len(s)]
  BY <1>2, <1>3, <1>4
<1>6. s \o t = u
  BY <1>1, <1>5, Joined, Zenon
<1> QED BY <1>6 DEF s, t, u

LEMMA OneAndOne ==
  ASSUME NEW a, NEW b
  PROVE  <<a>> \o <<b>> = <<a, b>>
<1> DEFINE S == {a, b}
           s == <<a>>
           t == <<b>>
           u == <<a, b>>
<1>1. s \in Seq(S) /\ t \in Seq(S) /\ u \in Seq(S)
  OBVIOUS
<1>2. Len(s) = 1 /\ Len(t) = 1 /\ Len(u) = 2
  OBVIOUS
<1>3. \A k \in 1 .. 1 : u[k] = s[k]
  OBVIOUS
<1>4. \A k \in 2 .. 2 : u[k] = t[k - 1]
  OBVIOUS
<1> HIDE DEF s, t, u, S
<1>5. /\ Len(u) = Len(s) + Len(t)
      /\ \A k \in 1 .. Len(s) : u[k] = s[k]
      /\ \A k \in Len(s) + 1 .. Len(u) : u[k] = t[k - Len(s)]
  BY <1>2, <1>3, <1>4
<1>6. s \o t = u
  BY <1>1, <1>5, Joined, Zenon
<1> QED BY <1>6 DEF s, t, u

LEMMA NoneAndThree ==
  ASSUME NEW b, NEW c, NEW d
  PROVE  <<>> \o <<b, c, d>> = <<b, c, d>>
<1>1. <<b, c, d>> \in Seq({b, c, d})
  OBVIOUS
<1> QED BY <1>1, ConcatEmptySeq

(* Processor and stub together push a whole frame: where the processor     *)
(* pushes an error code the stub does not.                                 *)
LEMMA Pushed ==
  ASSUME NEW c, c.kind \in {"irq", "exception", "nmi"},
         c.kind = "irq" => c.number \in 0 .. 15,
         c.kind = "exception" => c.number \in 0 .. 31,
         c.kind = "nmi" => c.number = NMI
  PROVE  PushedByStub(Vector(c)) \o PushedByProcessor(c) = Frame(c, at, enabled)
<1> DEFINE ds == Word("ds", DATA)
           regs == Word("regs", 0)
           no == Word("int_no", Vector(c))
           err == Word("err_code", 0)
           eip == Word("eip", at)
           cs == Word("cs", CODE)
           fl == Word("eflags", enabled)
<1>0. Frame(c, at, enabled) = <<ds, regs, no, err, eip, cs, fl>>
  BY DEF Frame
<1>1. CASE c.kind = "exception" /\ PushesErrorCode(c.number)
  <2>1. PushedByProcessor(c) = <<err>> \o <<eip, cs, fl>>
    BY <1>1 DEF PushedByProcessor
  <2>2. ~(Vector(c) >= IRQ0 \/ NoErrCode(Vector(c)))
    BY <1>1 DEF PushesErrorCode, NoErrCode, Vector, IRQ0
  <2>3. PushedByStub(Vector(c)) = <<ds, regs, no>> \o <<>>
    BY <2>2 DEF PushedByStub
  <2> HIDE DEF ds, regs, no, err, eip, cs, fl
  <2>4. <<ds, regs, no>> \o <<>> = <<ds, regs, no>>
    OBVIOUS
  <2>5. <<err>> \o <<eip, cs, fl>> = <<err, eip, cs, fl>>
    BY OneAndThree
  <2>6. <<ds, regs, no>> \o <<err, eip, cs, fl>> = <<ds, regs, no, err, eip, cs, fl>>
    BY ThreeAndFour
  <2> QED BY <1>0, <2>1, <2>3, <2>4, <2>5, <2>6, Zenon
<1>2. CASE ~(c.kind = "exception" /\ PushesErrorCode(c.number))
  <2>1. PushedByProcessor(c) = <<>> \o <<eip, cs, fl>>
    BY <1>2 DEF PushedByProcessor
  <2>2. Vector(c) >= IRQ0 \/ NoErrCode(Vector(c))
    BY <1>2 DEF Vector, IRQ0, NoErrCode, PushesErrorCode, NMI
  <2>3. PushedByStub(Vector(c)) = <<ds, regs, no>> \o <<err>>
    BY <2>2 DEF PushedByStub
  <2> HIDE DEF ds, regs, no, err, eip, cs, fl
  <2>4. /\ <<ds, regs, no>> \o <<err>> = <<ds, regs, no, err>>
        /\ <<>> \o <<eip, cs, fl>> = <<eip, cs, fl>>
    BY ThreeAndOne, NoneAndThree
  <2>5. <<ds, regs, no, err>> \o <<eip, cs, fl>> = <<ds, regs, no, err, eip, cs, fl>>
    BY FourAndThree
  <2> QED BY <1>0, <2>1, <2>3, <2>4, <2>5, Zenon
<1> QED BY <1>1, <1>2

(* What a stub pops before iret, and what iret pops, uncovers what was     *)
(* there when the frame was pushed.                                        *)
LEMMA Popped ==
  ASSUME NEW S, NEW s \in Seq(S), NEW t \in Seq(S), Len(s) = 7, NEW u, u = s \o t
  PROVE  LET iret == SubSeq(u, 5, Len(u))
         IN /\ Len(iret) >= 3 /\ iret[1] = s[5] /\ iret[3] = s[7]
            /\ SubSeq(iret, 4, Len(iret)) = t
<1> DEFINE n == Len(t)
           r == SubSeq(u, 5, Len(u))
           q == SubSeq(r, 4, Len(r))
<1>1. u \in Seq(S) /\ Len(u) = 7 + n /\ n \in Nat
      /\ \A k \in 1 .. 7 + n : u[k] = IF k <= 7 THEN s[k] ELSE t[k - 7]
  <2>1. /\ s \o t \in Seq(S) /\ Len(s \o t) = Len(s) + Len(t) /\ Len(t) \in Nat
        /\ \A k \in 1 .. Len(s) + Len(t) :
             (s \o t)[k] = IF k <= Len(s) THEN s[k] ELSE t[k - Len(s)]
    BY ConcatProperties, LenProperties
  <2> QED BY <2>1
<1>2. \A k \in 1 .. 7 : u[k] = s[k]
  BY <1>1
<1>3. \A k \in 1 .. n : u[k + 7] = t[k]
  BY <1>1
<1>0. Len(t) = n
  OBVIOUS
<1> HIDE DEF n
<1>4. r \in Seq(S) /\ Len(r) = 3 + n /\ \A k \in 1 .. 3 + n : r[k] = u[k + 4]
  <2>1. Len(u) \in Int /\ 5 \in Int /\ 5 <= Len(u) /\ Len(u) - 5 + 1 = 3 + n
    BY <1>1
  <2>3. \A k \in 5 .. Len(u) : u[k] \in S
    <3> SUFFICES ASSUME NEW k \in 5 .. Len(u) PROVE u[k] \in S
      OBVIOUS
    <3>1. k \in 1 .. Len(u)
      BY <1>1
    <3> QED BY <1>1, <3>1, ElementOfSeq
  <2>2. /\ r \in Seq(S) /\ Len(r) = Len(u) - 5 + 1
        /\ \A k \in 1 .. Len(u) - 5 + 1 : r[k] = u[5 + k - 1]
    BY <1>1, <2>1, <2>3, SubSeqProperties
  <2> HIDE DEF r
  <2>4. \A k \in 1 .. 3 + n : 5 + k - 1 = k + 4
    BY <1>1
  <2> QED BY <2>1, <2>2, <2>4
<1> HIDE DEF r
<1>5. q \in Seq(S) /\ Len(q) = n /\ \A k \in 1 .. n : q[k] = r[k + 3]
  BY <1>1, <1>4
<1>6. \A k \in 1 .. n : r[k + 3] = u[k + 7]
  BY <1>1, <1>4
<1> HIDE DEF q
<1>7. q = t
  <2>1. \A k \in 1 .. n : q[k] = t[k]
    BY <1>3, <1>5, <1>6
  <2> QED BY <1>0, <1>5, <2>1, SeqEqual
<1>8. Len(r) >= 3 /\ r[1] = s[5] /\ r[3] = s[7]
  <2>1. 1 \in 1 .. 3 + n /\ 3 \in 1 .. 3 + n /\ 3 + n >= 3
    BY <1>1
  <2>2. r[1] = u[1 + 4] /\ r[3] = u[3 + 4]
    BY <1>4, <2>1, Zenon
  <2>3. 1 + 4 = 5 /\ 3 + 4 = 7 /\ 5 \in 1 .. 7 /\ 7 \in 1 .. 7
    OBVIOUS
  <2>4. u[5] = s[5] /\ u[7] = s[7]
    BY <1>2, <2>3, Zenon
  <2>5. Len(r) >= 3
    BY <1>4, <2>1
  <2>6. r[1] = s[5] /\ r[3] = s[7]
    BY <2>2, <2>3, <2>4, Zenon
  <2> QED BY <2>5, <2>6, Zenon
<1> QED BY <1>7, <1>8 DEF r, q

-----------------------------------------------------------------------------
(* The gates.                                                              *)

(* The two halves of a base are put together again: the stubs lie within   *)
(* 32 bits.                                                                *)
LEMMA Halves ==
  ASSUME NEW v \in 0 .. 47
  PROVE  (Stubs[v] % 2^16) + ((Stubs[v] \div 2^16) % 2^16) * 2^16 = Text + 16 * v
<1>1. 2^16 = 65536
  BY SMT
<1>2. Text \in Nat /\ (Text + 16 * 47) \div 65536 < 65536
  BY <1>1, InterruptsAssumption
<1> DEFINE a == Text + 16 * v
           h == a \div 65536
<1>3. Stubs[v] = a /\ a \in Nat
  BY <1>2 DEF Stubs
<1>4. h \in Nat /\ h < 65536
  BY <1>2
<1>5. a = h * 65536 + (a % 65536) /\ a % 65536 \in Nat
  BY <1>3
<1>6. h % 65536 = h
  BY <1>4
<1> HIDE DEF a, h
<1>7. (a % 65536) + (h % 65536) * 65536 = a
  BY <1>3, <1>4, <1>5, <1>6
<1> QED BY <1>1, <1>3, <1>7 DEF a, h

(* Once the tables are loaded every vector leads to its own stub.          *)
LEMMA OwnStub ==
  ASSUME Tables, Loaded, NEW v \in 0 .. 47
  PROVE  Reached(v) = {v}
<1>1. gdt = gdt_entries /\ idt = Gates(0 .. 47)
  BY DEF Tables, Loaded
<1>2. v \in DOMAIN idt /\ idt[v] = idt_set_gate(Stubs[v], CODE)
  BY <1>1 DEF Gates
<1>3. /\ idt[v].flags = [reserved |-> 14, dpl |-> 0, p |-> 1]
      /\ idt[v].segment_selector = CODE
      /\ Target(v) = Text + 16 * v
  BY <1>2, Halves DEF idt_set_gate, Target
<1>4. /\ Selected(CODE) = construct_entry(GDT_CODE_TYPE_EXEC_READ, GDT_RING0)
      /\ Selected(DATA) = construct_entry(GDT_DATA_TYPE_READ_WRITE, GDT_RING0)
  <2>1. (CODE \div 8) + 1 = 2 /\ (DATA \div 8) + 1 = 3
    BY DEF CODE, DATA
  <2>2. /\ gdt_entries[2] = construct_entry(GDT_CODE_TYPE_EXEC_READ, GDT_RING0)
        /\ gdt_entries[3] = construct_entry(GDT_DATA_TYPE_READ_WRITE, GDT_RING0)
    BY DEF gdt_entries
  <2> QED BY <1>1, <2>1, <2>2 DEF Selected
<1>5. ASSUME NEW type, NEW dpl PROVE Flat(construct_entry(type, dpl))
  BY DEF Flat, construct_entry
<1>6. Kernel(Selected(CODE), 1) /\ Kernel(Selected(DATA), 0)
  <2>1. /\ Bit(10, 3) = 1 /\ Bit(10, 1) = 1 /\ Bit(2, 3) = 0 /\ Bit(2, 1) = 1
    BY DEF Bit
  <2> QED BY <1>4, <1>5, <2>1 DEF Kernel, construct_entry, GDT_CODE_TYPE_EXEC_READ,
                                  GDT_DATA_TYPE_READ_WRITE, GDT_RING0
<1>7. Reached(v) = {s \in DOMAIN Stubs : Stubs[s] = Text + 16 * v}
  BY <1>2, <1>3, <1>6 DEF Reached
<1>8. ASSUME NEW s \in 0 .. 47, Text + 16 * s = Text + 16 * v PROVE s = v
  BY <1>8, InterruptsAssumption
<1> QED BY <1>7, <1>8 DEF Stubs

(* An interrupt pushes its frame and is in its handler, interrupts off.    *)
LEMMA Entered ==
  ASSUME Tables, Loaded, NEW c, Enter(Vector(c), c),
         c.kind \in {"irq", "exception", "nmi"},
         c.kind = "irq" => c.number \in 0 .. 15,
         c.kind = "exception" => c.number \in 0 .. 31,
         c.kind = "nmi" => c.number = NMI
  PROVE  /\ stack' = Frame(c, at, enabled) \o stack
         /\ at' = IF c.kind = "irq" THEN "irq_handler" ELSE "isr_handler"
         /\ enabled' = FALSE
         /\ causes' = <<c>> \o causes
         /\ UNCHANGED mainVars
<1> DEFINE v == Vector(c)
<1>1. v \in 0 .. 47 /\ (v < IRQ0 <=> c.kind # "irq")
  BY DEF Vector, IRQ0, NMI
<1>2. Reached(v) = {v}
  BY <1>1, OwnStub
<1> HIDE DEF v
<1>3. Enter(v, c)
  BY DEF v
<1>4. /\ stack' = PushedByStub(v) \o PushedByProcessor(c) \o stack
      /\ at' = IF v < IRQ0 THEN "isr_handler" ELSE "irq_handler"
      /\ enabled' = FALSE /\ causes' = <<c>> \o causes /\ UNCHANGED mainVars
  BY <1>2, <1>3 DEF Enter
<1>5. PushedByStub(v) \o PushedByProcessor(c) = Frame(c, at, enabled)
  BY Pushed DEF v
<1> QED BY <1>1, <1>4, <1>5

-----------------------------------------------------------------------------
(* The PICs.                                                               *)

LEMMA MinInput ==
  ASSUME NEW S \in SUBSET Input, S # {}
  PROVE  Min(S) \in S
<1>1. S \subseteq 0 .. 7
  BY DEF Input
<1>2. \E x \in S : \A y \in S : x <= y
  <2>1. CASE 0 \in S
    BY <1>1, <2>1
  <2>2. CASE 0 \notin S /\ 1 \in S
    BY <1>1, <2>2
  <2>3. CASE 0 \notin S /\ 1 \notin S /\ 2 \in S
    BY <1>1, <2>3
  <2>4. CASE 0 \notin S /\ 1 \notin S /\ 2 \notin S /\ 3 \in S
    BY <1>1, <2>4
  <2>5. CASE 0 \notin S /\ 1 \notin S /\ 2 \notin S /\ 3 \notin S /\ 4 \in S
    BY <1>1, <2>5
  <2>6. CASE 0 \notin S /\ 1 \notin S /\ 2 \notin S /\ 3 \notin S /\ 4 \notin S /\ 5 \in S
    BY <1>1, <2>6
  <2>7. CASE S \subseteq {6, 7}
    <3>1. CASE 6 \in S
      BY <2>7, <3>1
    <3>2. CASE 6 \notin S
      <4>1. S = {7}
        BY <2>7, <3>2
      <4> QED BY <4>1
    <3> QED BY <3>1, <3>2
  <2> QED BY <1>1, <2>1, <2>2, <2>3, <2>4, <2>5, <2>6, <2>7
<1> QED BY <1>2 DEF Min

(* What a controller was programmed with.                                  *)
Settings(c) == <<c.icw, c.offset, c.cascade, c.mode, c.imr>>

LEMMA KeptRemapping ==
  ASSUME Remapping, UNCHANGED <<pc, outs, firmware>>,
         Settings(pic.master)' = Settings(pic.master),
         Settings(pic.slave)' = Settings(pic.slave)
  PROVE  Remapping'
<1>1. ASSUME NEW k PROVE Remapped(k)' <=> Remapped(k)
  BY DEF Remapped, Programmed, Settings
<1> QED BY <1>1 DEF Remapping

(* With no input in service, what the processor is given on an acknowledge *)
(* is a line, its vector, and the line in service where it came through.   *)
LEMMA Acknowledge ==
  ASSUME pic \in [master : Controller, slave : Controller], CASCADE \notin pic.master.irr,
         Remapped(11), Idle, INTR(pic)
  PROVE  LET taken == Acknowledged(pic)
             held == taken.pic
         IN /\ taken.line \in 0 .. 15 /\ taken.vector = IRQ0 + taken.line
            /\ held \in [master : Controller, slave : Controller]
            /\ CASCADE \notin held.master.irr
            /\ Settings(held.master) = Settings(pic.master)
            /\ Settings(held.slave) = Settings(pic.slave)
            /\ IF taken.line < 8
               THEN held.master.isr \subseteq {taken.line} /\ held.slave.isr = {}
               ELSE held.master.isr = {CASCADE} /\ held.slave.isr = {taken.line - 8}
<1> DEFINE m == pic.master
           s == pic.slave
           seen == MasterSees(pic)
           n == Min(Ready(seen))
           k == Min(Ready(s))
<1>1. m \in Controller /\ s \in Controller /\ pic = [master |-> m, slave |-> s]
  OBVIOUS
<1>2. seen \in Controller
  BY <1>1 DEF MasterSees, Controller, Input, CASCADE
<1>3. n \in Input /\ n \in Ready(seen)
  <2>1. Ready(seen) \in SUBSET Input /\ Ready(seen) # {}
    BY <1>2 DEF Ready, Controller, INTR
  <2> QED BY <2>1, MinInput
<1>4. n = CASCADE => SlaveAsks(pic)
  BY <1>3 DEF MasterSees, Ready
<1>5. SlaveAsks(pic) => k \in Input
  <2>1. SlaveAsks(pic) => Ready(s) \in SUBSET Input /\ Ready(s) # {}
    BY <1>1 DEF SlaveAsks, Ready, Controller
  <2> QED BY <2>1, MinInput
<1>6. m.offset = 32 /\ s.offset = 40 /\ m.isr = {} /\ s.isr = {}
  <2>1. 11 \div 2 = 5 /\ (11 - 1) \div 2 = 5
    OBVIOUS
  <2> QED BY <2>1 DEF Remapped, Programmed, PIC1_START_INTERRUPT, PIC2_START_INTERRUPT, Idle
<1> HIDE DEF n, k, m, s, seen
<1>7. CASE n # CASCADE
  <2>1. Acknowledged(pic) = [line |-> n, vector |-> m.offset + n,
                             pic |-> [pic EXCEPT !.master = Taken(@, n)]]
    BY <1>7 DEF Acknowledged, n, m, seen
  <2>2. [pic EXCEPT !.master = Taken(@, n)] = [master |-> Taken(m, n), slave |-> s]
    BY <1>1
  <2>3. Taken(m, n) \in Controller
    BY <1>1, <1>3 DEF Taken, Controller
  <2>4. CASCADE \notin Taken(m, n).irr /\ Settings(Taken(m, n)) = Settings(m)
        /\ Taken(m, n).isr = {n}
    BY <1>1, <1>6 DEF Taken, Controller, Settings, m
  <2> QED BY <1>1, <1>3, <1>6, <1>7, <2>1, <2>2, <2>3, <2>4 DEF IRQ0, Input, m, s
<1>8. CASE n = CASCADE
  <2>1. Acknowledged(pic) =
          [line |-> 8 + k, vector |-> s.offset + k,
           pic |-> [pic EXCEPT !.master = Taken(@, CASCADE), !.slave = Taken(@, k)]]
    BY <1>8 DEF Acknowledged, n, k, s, seen
  <2>2. [pic EXCEPT !.master = Taken(@, CASCADE), !.slave = Taken(@, k)]
          = [master |-> Taken(m, CASCADE), slave |-> Taken(s, k)]
    <3> DEFINE p == [master |-> m, slave |-> s]
               a == Taken(m, CASCADE)
               b == Taken(s, k)
    <3>1. [p EXCEPT !.master = Taken(@, CASCADE), !.slave = Taken(@, k)]
            = [p EXCEPT !.master = a, !.slave = b]
      OBVIOUS
    <3> HIDE DEF a, b
    <3>2. [p EXCEPT !.master = a, !.slave = b] = [master |-> a, slave |-> b]
      <4>1. [p EXCEPT !.master = a, !.slave = b] = [[p EXCEPT !.master = a] EXCEPT !.slave = b]
        BY Zenon
      <4>2. [p EXCEPT !.master = a] = [master |-> a, slave |-> s]
        OBVIOUS
      <4>3. [[master |-> a, slave |-> s] EXCEPT !.slave = b] = [master |-> a, slave |-> b]
        OBVIOUS
      <4> QED BY <4>1, <4>2, <4>3
    <3> HIDE DEF p
    <3>3. pic = p
      BY <1>1 DEF p
    <3> QED BY <3>1, <3>2, <3>3 DEF a, b
  <2>3. k \in Input
    BY <1>4, <1>5, <1>8
  <2>4. Taken(m, CASCADE) \in Controller /\ Taken(s, k) \in Controller
    <3>1. CASCADE \in Input
      BY DEF CASCADE, Input
    <3>2. ASSUME NEW c \in Controller, NEW j \in Input PROVE Taken(c, j) \in Controller
      BY DEF Taken, Controller
    <3> QED BY <1>1, <2>3, <3>1, <3>2
  <2>5. CASCADE \notin Taken(m, CASCADE).irr /\ Settings(Taken(m, CASCADE)) = Settings(m)
        /\ Taken(m, CASCADE).isr = {CASCADE}
    BY <1>1, <1>6 DEF Taken, Controller, Settings
  <2>6. Settings(Taken(s, k)) = Settings(s) /\ Taken(s, k).isr = {k}
    BY <1>1, <1>6 DEF Taken, Controller, Settings
  <2> QED BY <1>1, <1>6, <2>1, <2>2, <2>3, <2>4, <2>5, <2>6 DEF IRQ0, Input, m, s
<1> QED BY <1>7, <1>8

(* The next word a controller is waiting for, or the command to begin.     *)
ProgramByte(step, offset, wiring, mask) ==
  CASE step = 0 -> ICW1_INIT + ICW1_ICW4 [] step = 1 -> offset [] step = 2 -> wiring
    [] step = 3 -> ICW4_8086 [] OTHER -> mask
Written(c, step, byte) == IF step = 0 THEN Command(c, byte) ELSE Data(c, byte)

LEMMA ProgramStep ==
  ASSUME NEW c \in Controller, NEW step \in 0 .. 4, NEW offset \in Byte, NEW wiring \in Byte,
         NEW mask \in Byte, offset % 8 = 0, Programmed(c, step, offset, wiring, mask)
  PROVE  LET d == Written(c, step, ProgramByte(step, offset, wiring, mask))
         IN /\ d \in Controller
            /\ Programmed(d, step + 1, offset, wiring, mask)
            /\ d.isr \subseteq c.isr /\ d.irr \subseteq c.irr
<1> DEFINE byte == ProgramByte(step, offset, wiring, mask)
           d == Written(c, step, byte)
<1>0. Bit(17, 4) = 1
  BY DEF Bit
<1>1. CASE step = 0
  <2>1. d = [c EXCEPT !.icw = 2, !.imr = 0, !.irr = {}, !.isr = {}]
    BY <1>0, <1>1 DEF Written, ProgramByte, Command, ICW1_INIT, ICW1_ICW4
  <2>2. d \in Controller /\ d.icw = 2 /\ d.isr = {} /\ d.irr = {}
    <3> DEFINE e == [c EXCEPT !.icw = 2]
               f == [e EXCEPT !.imr = 0]
               g == [f EXCEPT !.irr = {}]
               x == [g EXCEPT !.isr = {}]
    <3>1. d = x
      BY <2>1, Zenon
    <3>2. e \in Controller /\ e.icw = 2
      BY DEF Controller
    <3> HIDE DEF e
    <3>3. f \in Controller /\ f.icw = 2
      BY <3>2 DEF Controller, Byte
    <3> HIDE DEF f
    <3>4. g \in Controller /\ g.icw = 2 /\ g.irr = {}
      BY <3>3 DEF Controller
    <3> HIDE DEF g
    <3>5. x \in Controller /\ x.icw = 2 /\ x.irr = {} /\ x.isr = {}
      BY <3>4 DEF Controller
    <3> HIDE DEF x, d
    <3> QED BY <3>1, <3>5
  <2> QED BY <1>1, <2>2 DEF Programmed
<1>2. CASE step = 1
  <2>1. c.icw = 2
    BY <1>2 DEF Programmed
  <2>2. d = [c EXCEPT !.offset = offset - (offset % 8), !.icw = 3]
    BY <1>2, <2>1 DEF Written, ProgramByte, Data
  <2>3. offset - (offset % 8) = offset
    BY DEF Byte
  <2>4. /\ d \in Controller /\ d.icw = 3 /\ d.offset = offset
        /\ d.isr = c.isr /\ d.irr = c.irr
    <3> DEFINE e == [c EXCEPT !.offset = offset]
    <3>1. d = [e EXCEPT !.icw = 3]
      BY <2>2, <2>3, Zenon
    <3>2. e \in Controller /\ e.offset = offset /\ e.isr = c.isr /\ e.irr = c.irr
      BY DEF Controller
    <3> HIDE DEF e, d
    <3> QED BY <3>1, <3>2 DEF Controller
  <2> QED BY <1>2, <2>4 DEF Programmed
<1>3. CASE step = 2
  <2>1. c.icw = 3 /\ c.offset = offset
    BY <1>3 DEF Programmed
  <2>2. d = [c EXCEPT !.cascade = wiring, !.icw = 4]
    BY <1>3, <2>1 DEF Written, ProgramByte, Data
  <2>3. /\ d \in Controller /\ d.icw = 4 /\ d.offset = offset /\ d.cascade = wiring
        /\ d.isr = c.isr /\ d.irr = c.irr
    <3> DEFINE e == [c EXCEPT !.cascade = wiring]
    <3>1. d = [e EXCEPT !.icw = 4]
      BY <2>2, Zenon
    <3>2. /\ e \in Controller /\ e.offset = offset /\ e.cascade = wiring
          /\ e.isr = c.isr /\ e.irr = c.irr
      BY <2>1 DEF Controller
    <3> HIDE DEF e, d
    <3> QED BY <3>1, <3>2 DEF Controller
  <2> QED BY <1>3, <2>3 DEF Programmed
<1>4. CASE step = 3
  <2>1. c.icw = 4 /\ c.offset = offset /\ c.cascade = wiring
    BY <1>4 DEF Programmed
  <2>2. d = [c EXCEPT !.mode = ICW4_8086, !.icw = 0]
    BY <1>4, <2>1 DEF Written, ProgramByte, Data
  <2>3. /\ d \in Controller /\ d.icw = 0 /\ d.offset = offset /\ d.cascade = wiring
        /\ d.mode = ICW4_8086 /\ d.isr = c.isr /\ d.irr = c.irr
    <3> DEFINE e == [c EXCEPT !.mode = ICW4_8086]
    <3>1. d = [e EXCEPT !.icw = 0]
      BY <2>2, Zenon
    <3>2. ICW4_8086 \in Byte
      BY DEF ICW4_8086, Byte
    <3>3. /\ e \in Controller /\ e.offset = offset /\ e.cascade = wiring
          /\ e.mode = ICW4_8086 /\ e.isr = c.isr /\ e.irr = c.irr
      BY <2>1, <3>2 DEF Controller
    <3> HIDE DEF e, d
    <3> QED BY <3>1, <3>3 DEF Controller
  <2> QED BY <1>4, <2>3 DEF Programmed
<1>5. CASE step = 4
  <2>1. c.icw = 0 /\ c.offset = offset /\ c.cascade = wiring /\ c.mode = ICW4_8086
    BY <1>5 DEF Programmed
  <2>2. d = [c EXCEPT !.imr = mask]
    BY <1>5, <2>1 DEF Written, ProgramByte, Data
  <2>3. /\ d \in Controller /\ d.icw = 0 /\ d.offset = offset /\ d.cascade = wiring
        /\ d.mode = ICW4_8086 /\ d.imr = mask /\ d.isr = c.isr /\ d.irr = c.irr
    BY <2>1, <2>2 DEF Controller
  <2> QED BY <1>5, <2>3 DEF Programmed
<1> QED BY <1>1, <1>2, <1>3, <1>4, <1>5

(* The write k of PIC_remap.                                               *)
LEMMA RemapWrites ==
  ASSUME NEW a1 \in Byte, NEW a2 \in Byte
  PROVE  /\ PIC_remap(a1, a2) \in Seq(Nat \X Byte) /\ Len(PIC_remap(a1, a2)) = 10
         /\ \A k \in 1 .. 10 :
              PIC_remap(a1, a2)[k] =
                IF k % 2 = 1
                THEN << IF k = 1 THEN PIC1_COMMAND ELSE PIC1_DATA,
                        ProgramByte(k \div 2, PIC1_START_INTERRUPT, ICW3_MASTER, a1) >>
                ELSE << IF k = 2 THEN PIC2_COMMAND ELSE PIC2_DATA,
                        ProgramByte((k - 1) \div 2, PIC2_START_INTERRUPT, CASCADE, a2) >>
<1> USE DEF PIC1_COMMAND, PIC1_DATA, PIC2_COMMAND, PIC2_DATA, ICW1_INIT, ICW1_ICW4,
            ICW4_8086, PIC1_START_INTERRUPT, PIC2_START_INTERRUPT, ICW3_MASTER, CASCADE
<1>1. PIC_remap(a1, a2) \in Seq(Nat \X Byte) /\ Len(PIC_remap(a1, a2)) = 10
  BY DEF PIC_remap, Byte
<1>2. ASSUME NEW k \in 1 .. 10
      PROVE  PIC_remap(a1, a2)[k] =
                IF k % 2 = 1
                THEN << IF k = 1 THEN PIC1_COMMAND ELSE PIC1_DATA,
                        ProgramByte(k \div 2, PIC1_START_INTERRUPT, ICW3_MASTER, a1) >>
                ELSE << IF k = 2 THEN PIC2_COMMAND ELSE PIC2_DATA,
                        ProgramByte((k - 1) \div 2, PIC2_START_INTERRUPT, CASCADE, a2) >>
  <2>1. k \in {1, 2, 3, 4, 5, 6, 7, 8, 9, 10}
    OBVIOUS
  <2> QED BY <2>1 DEF PIC_remap, ProgramByte
<1> QED BY <1>1, <1>2

LEMMA WriteStep ==
  ASSUME NEW k \in 1 .. 10, Remapped(k), Idle, CASCADE \notin pic.master.irr,
         pic \in [master : Controller, slave : Controller], firmware \in MaskPairs,
         LET w == PIC_remap(firmware[1], firmware[2])[k]
         IN pic' = PortWritten(pic, w[1], w[2]),
         firmware' = firmware
  PROVE  /\ Remapped(k + 1)' /\ Idle' /\ CASCADE \notin pic.master.irr'
         /\ pic' \in [master : Controller, slave : Controller]
<1> DEFINE a1 == firmware[1]
           a2 == firmware[2]
           m == pic.master
           s == pic.slave
           i == k \div 2
           j == (k - 1) \div 2
<1>1. a1 \in Byte /\ a2 \in Byte
  BY InterruptsAssumption
<1>2. m \in Controller /\ s \in Controller /\ pic = [master |-> m, slave |-> s]
  OBVIOUS
<1>3. /\ Programmed(m, i, PIC1_START_INTERRUPT, ICW3_MASTER, a1)
      /\ Programmed(s, j, PIC2_START_INTERRUPT, CASCADE, a2)
  BY DEF Remapped
<1>4. /\ PIC1_START_INTERRUPT \in Byte /\ ICW3_MASTER \in Byte /\ PIC2_START_INTERRUPT \in Byte
      /\ CASCADE \in Byte /\ PIC1_START_INTERRUPT % 8 = 0 /\ PIC2_START_INTERRUPT % 8 = 0
  BY DEF PIC1_START_INTERRUPT, ICW3_MASTER, PIC2_START_INTERRUPT, CASCADE, Byte
<1>5. CASE k % 2 = 1
  <2> DEFINE d == Written(m, i, ProgramByte(i, PIC1_START_INTERRUPT, ICW3_MASTER, a1))
  <2>1. i \in 0 .. 4 /\ (k + 1) \div 2 = i + 1 /\ (k + 1 - 1) \div 2 = j /\ (i = 0 <=> k = 1)
    BY <1>5
  <2>2. /\ d \in Controller
        /\ Programmed(d, i + 1, PIC1_START_INTERRUPT, ICW3_MASTER, a1)
        /\ d.isr \subseteq m.isr /\ d.irr \subseteq m.irr
    BY <1>1, <1>2, <1>3, <1>4, <2>1, ProgramStep
  <2>3. pic' = [pic EXCEPT !.master = d]
    <3>1. PIC_remap(a1, a2)[k] =
            << IF k = 1 THEN PIC1_COMMAND ELSE PIC1_DATA,
               ProgramByte(i, PIC1_START_INTERRUPT, ICW3_MASTER, a1) >>
      BY <1>1, <1>5, RemapWrites
    <3> QED BY <2>1, <3>1 DEF PortWritten, Written, PIC1_COMMAND, PIC1_DATA
  <2> HIDE DEF d, i, j, m, s
  <2>4. pic' = [master |-> d, slave |-> s]
    BY <1>2, <2>3
  <2> QED BY <1>2, <1>3, <2>1, <2>2, <2>4 DEF Remapped, Idle, m, s
<1>6. CASE k % 2 = 0
  <2> DEFINE d == Written(s, j, ProgramByte(j, PIC2_START_INTERRUPT, CASCADE, a2))
  <2>1. j \in 0 .. 4 /\ (k + 1) \div 2 = i /\ (k + 1 - 1) \div 2 = j + 1 /\ (j = 0 <=> k = 2)
    BY <1>6
  <2>2. /\ d \in Controller
        /\ Programmed(d, j + 1, PIC2_START_INTERRUPT, CASCADE, a2)
        /\ d.isr \subseteq s.isr /\ d.irr \subseteq s.irr
    BY <1>1, <1>2, <1>3, <1>4, <2>1, ProgramStep
  <2>3. pic' = [pic EXCEPT !.slave = d]
    <3>1. PIC_remap(a1, a2)[k] =
            << IF k = 2 THEN PIC2_COMMAND ELSE PIC2_DATA,
               ProgramByte(j, PIC2_START_INTERRUPT, CASCADE, a2) >>
      <4>1. k % 2 # 1
        BY <1>6
      <4> QED BY <1>1, <4>1, RemapWrites
    <3> QED BY <2>1, <3>1 DEF PortWritten, Written, PIC1_COMMAND, PIC1_DATA, PIC2_COMMAND,
                              PIC2_DATA
  <2> HIDE DEF d, i, j, m, s
  <2>4. pic' = [master |-> m, slave |-> d]
    BY <1>2, <2>3
  <2> QED BY <1>2, <1>3, <2>1, <2>2, <2>4 DEF Remapped, Idle, m, s
<1> QED BY <1>5, <1>6

-----------------------------------------------------------------------------
(* The contexts.                                                           *)

(* Where main is interrupted, there is nothing else on the stack.          *)
LEMMA MainAlone == Context /\ at = "main" => InMain
BY DEF Context, InHandler, InNMI, InBoth, Serving, ServingIrq, ServingException

(* Only main runs with interrupts on, and only behind its sti.             *)
LEMMA EnabledInMain == Context /\ enabled => InMain /\ On
BY DEF Context, InMain, InHandler, InNMI, InBoth

(* The remapping is complete before the IDT is.                            *)
LEMMA LoadedTables ==
  ASSUME Types, Tables, Remapping, Loaded
  PROVE  Remapped(11) /\ (On => pc # "sti")
BY DEF Types, Remapping, Loaded, Before, On

(* A step of the devices: neither code nor stack nor what is in service.   *)
LEMMA DeviceStep ==
  ASSUME IntInv, UNCHANGED <<mainVars, at, enabled, stack, causes, firmware>>,
         nmi' = "serving" <=> nmi = "serving", kbc'.ibf => kbc.ibf,
         Settings(pic.master)' = Settings(pic.master),
         Settings(pic.slave)' = Settings(pic.slave),
         pic'.master.isr = pic.master.isr, pic'.slave.isr = pic.slave.isr
  PROVE  Tables' /\ Remapping' /\ Context'
<1>1. Tables'
  BY DEF IntInv, Tables, mainVars, Loaded
<1>2. Remapping'
  BY KeptRemapping DEF IntInv, mainVars
<1>3. Idle' = Idle /\ (InMain => InMain') /\ (InNMI => InNMI')
  BY DEF Idle, InMain, InNMI, On, mainVars
<1>4. ASSUME NEW c, NEW place PROVE Serving(c, place) => Serving(c, place)'
  BY <1>3 DEF Serving, ServingIrq, ServingException, InService
<1>5. ASSUME NEW c PROVE InHandler(c) => InHandler(c)'
  <2>1. Serving(c, at) => Serving(c, at)'
    BY <1>3 DEF Serving, ServingIrq, ServingException, InService
  <2> QED BY <2>1 DEF InHandler, On, mainVars
<1>6. ASSUME NEW c, NEW place PROVE InBoth(c, place) => InBoth(c, place)'
  BY <1>4 DEF InBoth, On, mainVars
<1> QED BY <1>1, <1>2, <1>3, <1>5, <1>6 DEF IntInv, Context

LEMMA EdgeStep ==
  ASSUME IntInv, NEW line \in Lines, Edge(line)
  PROVE  IntInv'
<1>1. /\ UNCHANGED <<mainVars, firmware, at, enabled, stack, stuck, nmi, causes>>
      /\ left > 0 /\ left' \in 0 .. MaxEvents
      /\ pic' = Raised(pic, line)
      /\ kbc' = IF line = 1 THEN [kbc EXCEPT !.obf = TRUE] ELSE kbc
  BY InterruptsAssumption DEF Edge, Event, cpuVars, IntInv, Types
<1>2. /\ pic \in [master : Controller, slave : Controller] /\ CASCADE \notin pic.master.irr
      /\ kbc \in [obf : BOOLEAN, ibf : BOOLEAN] /\ left \in 0 .. MaxEvents
  BY DEF IntInv, Types
<1>3. line \in 0 .. 15 /\ line # CASCADE
  BY InterruptsAssumption
<1>4. kbc' \in [obf : BOOLEAN, ibf : BOOLEAN] /\ kbc'.ibf = kbc.ibf
  BY <1>1, <1>2
<1>5. /\ pic' \in [master : Controller, slave : Controller] /\ CASCADE \notin pic'.master.irr
      /\ Settings(pic.master)' = Settings(pic.master)
      /\ Settings(pic.slave)' = Settings(pic.slave)
      /\ pic'.master.isr = pic.master.isr /\ pic'.slave.isr = pic.slave.isr
  <2>1. ASSUME NEW c \in Controller, NEW n \in Input
        PROVE  /\ [c EXCEPT !.irr = @ \cup {n}] \in Controller
               /\ Settings([c EXCEPT !.irr = @ \cup {n}]) = Settings(c)
               /\ [c EXCEPT !.irr = @ \cup {n}].isr = c.isr
               /\ [c EXCEPT !.irr = @ \cup {n}].irr = c.irr \cup {n}
    BY DEF Controller, Settings
  <2>2. CASE line < 8
    <3> DEFINE d == [pic.master EXCEPT !.irr = @ \cup {line}]
    <3>1. pic' = [pic EXCEPT !.master = d]
      BY <1>1, <1>2, <2>2 DEF Raised
    <3>2. d \in Controller /\ Settings(d) = Settings(pic.master) /\ d.isr = pic.master.isr
          /\ CASCADE \notin d.irr
      <4>1. line \in Input /\ pic.master \in Controller
        BY <1>2, <1>3, <2>2 DEF Input
      <4> QED BY <1>2, <1>3, <2>1, <4>1
    <3> HIDE DEF d
    <3> QED BY <1>2, <3>1, <3>2 DEF Settings
  <2>3. CASE line >= 8
    <3> DEFINE d == [pic.slave EXCEPT !.irr = @ \cup {line - 8}]
    <3>1. pic' = [pic EXCEPT !.slave = d]
      BY <1>1, <1>2, <1>3, <2>3 DEF Raised
    <3>2. d \in Controller /\ Settings(d) = Settings(pic.slave) /\ d.isr = pic.slave.isr
      <4>1. line - 8 \in Input /\ pic.slave \in Controller
        BY <1>2, <1>3, <2>3 DEF Input
      <4> QED BY <2>1, <4>1
    <3> HIDE DEF d
    <3> QED BY <1>2, <3>1, <3>2 DEF Settings
  <2> QED BY <1>3, <2>2, <2>3
<1>6. Tables' /\ Remapping' /\ Context'
  BY <1>1, <1>4, <1>5, DeviceStep
<1>7. Types'
  BY <1>1, <1>2, <1>4, <1>5 DEF IntInv, Types, mainVars, On, Loaded
<1> QED BY <1>6, <1>7 DEF IntInv

LEMMA NmiRaised == IntInv /\ RaiseNMI => IntInv'
<1> SUFFICES ASSUME IntInv, RaiseNMI PROVE IntInv'
  OBVIOUS
<1>1. /\ UNCHANGED <<mainVars, firmware, at, enabled, stack, stuck, causes, pic, kbc>>
      /\ left > 0 /\ left' \in 0 .. MaxEvents /\ nmi = "none" /\ nmi' = "pending" /\ Loaded
  BY InterruptsAssumption DEF RaiseNMI, Event, IntInv, Types
<1>2. Tables' /\ Remapping' /\ Context'
  BY <1>1, DeviceStep DEF Settings
<1>3. Types'
  BY <1>1 DEF IntInv, Types, mainVars, On, Loaded
<1> QED BY <1>2, <1>3 DEF IntInv

LEMMA KbcStep == IntInv /\ KbcTakes => IntInv'
<1> SUFFICES ASSUME IntInv, KbcTakes PROVE IntInv'
  OBVIOUS
<1>1. /\ UNCHANGED <<mainVars, firmware, at, enabled, stack, stuck, nmi, causes, pic, left>>
      /\ kbc.ibf /\ kbc' = [kbc EXCEPT !.ibf = FALSE]
  BY DEF KbcTakes, cpuVars
<1>2. Tables' /\ Remapping' /\ Context'
  BY <1>1, DeviceStep DEF Settings
<1>3. Types'
  BY <1>1 DEF IntInv, Types, mainVars, On, Loaded
<1> QED BY <1>2, <1>3 DEF IntInv

LEMMA BreakStep ==
  ASSUME IntInv, NEW v \in Faults, Break(v)
  PROVE  IntInv'
<1>1. /\ UNCHANGED <<mainVars, firmware, at, enabled, stack, nmi, causes, pic, kbc>>
      /\ left > 0 /\ left' \in 0 .. MaxEvents /\ stuck' = v /\ enabled
  BY InterruptsAssumption DEF Break, Event, IntInv, Types
<1>2. Tables' /\ Remapping' /\ Context'
  BY <1>1, DeviceStep DEF Settings
<1>3. On
  BY <1>1, EnabledInMain DEF IntInv
<1>4. Types'
  BY <1>1, <1>3 DEF IntInv, Types, mainVars, On, Loaded
<1> QED BY <1>2, <1>4 DEF IntInv

-----------------------------------------------------------------------------
(* Interrupts taken.                                                       *)

(* What Enter leaves alone, and what it makes of the contexts.             *)
LEMMA TablesKept ==
  ASSUME Tables, Remapping, UNCHANGED mainVars, firmware' = firmware,
         Settings(pic.master)' = Settings(pic.master),
         Settings(pic.slave)' = Settings(pic.slave)
  PROVE  Tables' /\ Remapping' /\ On' = On /\ Loaded' = Loaded
BY KeptRemapping DEF Tables, mainVars, Loaded, On

LEMMA FrameAlone ==
  ASSUME NEW c, NEW place, NEW flag
  PROVE  Frame(c, place, flag) \o <<>> = Frame(c, place, flag)
BY FrameWords, ConcatEmptySeq

(* A frame pushed on main's.                                               *)
LEMMA InterruptsMain ==
  ASSUME IntInv, InMain, On, NEW c \in Cause, Enter(Vector(c), c),
         c.kind = "irq" => c.number \in 0 .. 15,
         nmi' = nmi, firmware' = firmware,
         Settings(pic.master)' = Settings(pic.master),
         Settings(pic.slave)' = Settings(pic.slave),
         ServingIrq(c, "irq_handler")' \/ ServingException(c, "isr_handler")'
  PROVE  /\ Tables' /\ Remapping' /\ Context' /\ UNCHANGED mainVars /\ On' /\ Loaded'
         /\ enabled' = FALSE
<1>1. Tables /\ Loaded
  BY DEF IntInv, On, Loaded
<1>2. /\ stack' = Frame(c, at, enabled) \o stack
      /\ at' = IF c.kind = "irq" THEN "irq_handler" ELSE "isr_handler"
      /\ enabled' = FALSE /\ causes' = <<c>> \o causes /\ UNCHANGED mainVars
  <2>1. c.kind \in {"irq", "exception"} /\ c.number \in 0 .. 31
    BY DEF Cause
  <2> QED BY <1>1, <2>1, Entered
<1>3. stack' = Frame(c, "main", TRUE) /\ causes' = <<c>>
  BY <1>2, FrameAlone DEF InMain
<1>4. Tables' /\ Remapping' /\ On' /\ Loaded'
  BY <1>1, <1>2, TablesKept DEF IntInv
<1>5. Serving(c, at)'
  BY <1>2 DEF Serving, ServingIrq, ServingException
<1>6. InHandler(c)'
  BY <1>2, <1>3, <1>4, <1>5 DEF InHandler, InMain
<1> QED BY <1>2, <1>4, <1>6 DEF Context

LEMMA MaskableStep == IntInv /\ Maskable /\ UNCHANGED firmware => IntInv'
<1> SUFFICES ASSUME IntInv, Maskable, UNCHANGED firmware PROVE IntInv'
  OBVIOUS
<1> DEFINE taken == Acknowledged(pic)
           c == [kind |-> "irq", number |-> taken.line]
<1>1. /\ enabled /\ INTR(pic) /\ pic' = taken.pic /\ Enter(taken.vector, c)
      /\ UNCHANGED <<stuck, nmi, kbc, left>>
  BY DEF Maskable, TakesIRQ
<1>2. InMain /\ On
  BY <1>1, EnabledInMain DEF IntInv
<1>3. Remapped(11)
  BY <1>2, LoadedTables DEF IntInv, On, Loaded
<1>4. /\ taken.line \in 0 .. 15 /\ taken.vector = IRQ0 + taken.line
      /\ pic' \in [master : Controller, slave : Controller]
      /\ CASCADE \notin pic'.master.irr
      /\ Settings(pic'.master) = Settings(pic.master)
      /\ Settings(pic'.slave) = Settings(pic.slave)
      /\ IF taken.line < 8
         THEN pic'.master.isr \subseteq {taken.line} /\ pic'.slave.isr = {}
         ELSE pic'.master.isr = {CASCADE} /\ pic'.slave.isr = {taken.line - 8}
  BY <1>1, <1>2, <1>3, Acknowledge DEF IntInv, Types, InMain
<1> HIDE DEF taken
<1>5. c \in Cause /\ c.number \in 0 .. 15 /\ Vector(c) = taken.vector /\ c.number = taken.line
  BY <1>4 DEF Cause, Vector
<1>6. PICK d \in Cause : d = c
  BY <1>5
<1> HIDE DEF c
<1>7. ServingIrq(d, "irq_handler")'
  <2>1. d \in [kind : {"irq"}, number : 0 .. 15]
    BY <1>5, <1>6 DEF c
  <2> QED BY <1>4, <1>5, <1>6, <2>1 DEF ServingIrq, InService
<1>8. Settings(pic.master)' = Settings(pic.master) /\ Settings(pic.slave)' = Settings(pic.slave)
  BY <1>4 DEF Settings
<1>9. Tables' /\ Remapping' /\ Context' /\ UNCHANGED mainVars /\ On' /\ Loaded'
      /\ enabled' = FALSE
  <2>1. Enter(Vector(d), d) /\ d.number \in 0 .. 15
    BY <1>1, <1>5, <1>6
  <2> QED BY <1>1, <1>2, <1>7, <1>8, <2>1, InterruptsMain
<1>10. Types'
  BY <1>1, <1>4, <1>9 DEF IntInv, Types, mainVars
<1> QED BY <1>9, <1>10 DEF IntInv

LEMMA SpuriousStep == IntInv /\ Spurious => IntInv'
<1> SUFFICES ASSUME IntInv, Spurious PROVE IntInv'
  OBVIOUS
<1> DEFINE c == [kind |-> "irq", number |-> 7]
<1>1. /\ enabled /\ Enter(pic.master.offset + 7, c)
      /\ left' \in 0 .. MaxEvents
      /\ UNCHANGED <<mainVars, firmware, stuck, nmi, pic, kbc>>
  BY InterruptsAssumption DEF Spurious, Event, IntInv, Types
<1>2. InMain /\ On
  BY <1>1, EnabledInMain DEF IntInv
<1>3. Remapped(11)
  BY <1>2, LoadedTables DEF IntInv, On, Loaded
<1>4. pic.master.offset = 32
  <2>1. 11 \div 2 = 5
    OBVIOUS
  <2> QED BY <1>3, <2>1 DEF Remapped, Programmed, PIC1_START_INTERRUPT
<1>5. c \in Cause /\ c.number \in 0 .. 15 /\ Vector(c) = pic.master.offset + 7
  BY <1>4 DEF Cause, Vector, IRQ0
<1>6. ServingIrq(c, "irq_handler")'
  BY <1>1, <1>2 DEF ServingIrq, InService, InMain, Idle
<1>7. Settings(pic.master)' = Settings(pic.master) /\ Settings(pic.slave)' = Settings(pic.slave)
  BY <1>1 DEF Settings
<1> HIDE DEF c
<1>8. Tables' /\ Remapping' /\ Context' /\ UNCHANGED mainVars /\ On' /\ Loaded'
      /\ enabled' = FALSE
  BY <1>1, <1>2, <1>5, <1>6, <1>7, InterruptsMain
<1>9. Types'
  BY <1>1, <1>8 DEF IntInv, Types, mainVars
<1> QED BY <1>8, <1>9 DEF IntInv

(* An instruction of main that raises an exception.                        *)
LEMMA ExceptionStep ==
  ASSUME IntInv, at = "main", stuck # None,
         Enter(stuck, [kind |-> "exception", number |-> stuck]),
         stuck' \in Resumed(stuck), UNCHANGED <<nmi, left, pic, kbc, firmware>>
  PROVE  IntInv'
<1>1. InMain /\ On /\ stuck \in Faults
  BY MainAlone DEF IntInv, Types
<1>2. stuck \in 0 .. 31
  BY <1>1, InterruptsAssumption
<1>3. PICK v \in Faults : v = stuck /\ v \in 0 .. 31
  BY <1>1, <1>2
<1> DEFINE c == [kind |-> "exception", number |-> v]
<1>4. c \in Cause /\ c.kind # "irq" /\ Vector(c) = v
  BY <1>3 DEF Cause, Vector
<1>5. ServingException(c, "isr_handler")'
  BY <1>1 DEF ServingException, InMain, Idle
<1>6. Settings(pic.master)' = Settings(pic.master) /\ Settings(pic.slave)' = Settings(pic.slave)
  BY DEF Settings
<1>7. Enter(Vector(c), c)
  BY <1>3, <1>4
<1> HIDE DEF c
<1>8. Tables' /\ Remapping' /\ Context' /\ UNCHANGED mainVars /\ On' /\ Loaded'
      /\ enabled' = FALSE
  BY <1>1, <1>4, <1>5, <1>6, <1>7, InterruptsMain
<1>9. stuck' \in Faults \cup {None}
  BY <1>1 DEF Resumed
<1>10. Types'
  BY <1>8, <1>9 DEF IntInv, Types, mainVars
<1> QED BY <1>8, <1>10 DEF IntInv

(* An NMI over main, or over the handler of another interrupt.             *)
LEMMA NmiStep == IntInv /\ NonMaskable /\ UNCHANGED firmware => IntInv'
<1> SUFFICES ASSUME IntInv, NonMaskable, UNCHANGED firmware PROVE IntInv'
  OBVIOUS
<1>1. /\ nmi = "pending" /\ nmi' = "serving" /\ Enter(NMI, Nmi)
      /\ UNCHANGED <<stuck, pic, kbc, left, firmware>>
  BY DEF NonMaskable, TakesNMI, Nmi, deviceVars
<1>2. Loaded /\ Vector(Nmi) = NMI /\ Nmi.kind = "nmi" /\ Nmi.number = NMI
  BY <1>1 DEF IntInv, Types, Vector, Nmi
<1>3. /\ stack' = Frame(Nmi, at, enabled) \o stack /\ at' = "isr_handler"
      /\ enabled' = FALSE /\ causes' = <<Nmi>> \o causes /\ UNCHANGED mainVars
  BY <1>1, <1>2, Entered DEF IntInv
<1>4. Settings(pic.master)' = Settings(pic.master) /\ Settings(pic.slave)' = Settings(pic.slave)
  BY <1>1 DEF Settings
<1>5. Tables' /\ Remapping' /\ On' = On /\ Loaded'
  BY <1>2, <1>3, <1>4, TablesKept DEF IntInv
<1>6. Types'
  BY <1>1, <1>3, <1>5 DEF IntInv, Types, mainVars
<1>7. CASE InMain
  <2>1. stack' = Frame(Nmi, "main", On) /\ causes' = <<Nmi>>
    BY <1>3, <1>7, FrameAlone DEF InMain
  <2>2. InNMI'
    BY <1>1, <1>3, <1>5, <1>7, <2>1 DEF InNMI, InMain, Idle, Frame
  <2> QED BY <1>5, <1>6, <2>2 DEF IntInv, Context
<1>8. ASSUME NEW c \in Cause, InHandler(c) PROVE IntInv'
  <2> DEFINE place == at
  <2>1. place \in Places
    BY <1>8 DEF InHandler, Serving, ServingIrq, ServingException, Places
  <2>2. PICK p \in Places : p = at
    BY <2>1
  <2>3. stack' = Frame(Nmi, p, FALSE) \o Frame(c, "main", TRUE) /\ causes' = <<Nmi, c>>
    <3>1. causes' = <<Nmi>> \o <<c>> /\ enabled = FALSE /\ stack = Frame(c, "main", TRUE)
      BY <1>3, <1>8 DEF InHandler, IntInv, Types
    <3>2. <<Nmi>> \o <<c>> = <<Nmi, c>>
      BY OneAndOne
    <3> QED BY <1>3, <2>2, <3>1, <3>2
  <2>4. Serving(c, p)'
    <3>1. Serving(c, p)
      BY <1>8, <2>2 DEF InHandler
    <3> QED BY <1>1, <3>1 DEF Serving, ServingIrq, ServingException, InService, Idle
  <2>5. InBoth(c, p)'
    BY <1>1, <1>3, <1>5, <1>8, <2>3, <2>4 DEF InBoth, InHandler
  <2> QED BY <1>5, <1>6, <2>5 DEF IntInv, Context
<1> QED BY <1>1, <1>7, <1>8 DEF IntInv, Context, InNMI, InBoth

-----------------------------------------------------------------------------
(* iret goes back to what was interrupted.                                 *)
LEMMA ReturnStep == IntInv /\ Return /\ UNCHANGED firmware => IntInv'
<1> SUFFICES ASSUME IntInv, Return, UNCHANGED firmware PROVE IntInv'
  OBVIOUS
<1> DEFINE iret == SubSeq(stack, 5, Len(stack))
<1>1. /\ at = "return" /\ UNCHANGED <<mainVars, stuck, pic, kbc, left, firmware>>
      /\ nmi' = IF nmi = "serving" THEN "none" ELSE nmi
      /\ IF Len(iret) >= 3 /\ iret[1].word = "eip" /\ iret[3].word = "eflags"
         THEN /\ at' = iret[1].value /\ enabled' = iret[3].value
              /\ stack' = SubSeq(iret, 4, Len(iret)) /\ causes' = Tail(causes)
         ELSE at' = "wild" /\ UNCHANGED <<enabled, stack, causes>>
  BY DEF Return, Reloaded, deviceVars
<1> HIDE DEF iret
<1>2. ASSUME NEW c, NEW place, NEW flag, NEW S, NEW rest \in Seq(S),
             stack = Frame(c, place, flag) \o rest
      PROVE  /\ at' = place /\ enabled' = flag /\ stack' = rest /\ causes' = Tail(causes)
  <2> DEFINE W == Words(c, place, flag) \cup S
             f == Frame(c, place, flag)
  <2>1. f \in Seq(W) /\ rest \in Seq(W) /\ Len(f) = 7
    BY FrameWords, SeqMonotonic
  <2>2. f[5] = Word("eip", place) /\ f[7] = Word("eflags", flag)
    BY FrameWords
  <2> HIDE DEF f, W
  <2>3. stack = f \o rest
    BY <1>2 DEF f
  <2>4. /\ Len(iret) >= 3 /\ iret[1] = f[5] /\ iret[3] = f[7]
        /\ SubSeq(iret, 4, Len(iret)) = rest
    BY <2>1, <2>3, Popped DEF iret
  <2>5. /\ iret[1].word = "eip" /\ iret[1].value = place
        /\ iret[3].word = "eflags" /\ iret[3].value = flag
    BY <2>2, <2>4 DEF Word
  <2> QED BY <1>1, <2>4, <2>5
<1>3. Settings(pic.master)' = Settings(pic.master) /\ Settings(pic.slave)' = Settings(pic.slave)
  BY <1>1 DEF Settings
<1>4. Tables' /\ Remapping' /\ On' = On /\ Loaded' = Loaded
  BY <1>1, <1>3, TablesKept DEF IntInv
<1>5. enabled' \in BOOLEAN => Types'
  BY <1>1, <1>4 DEF IntInv, Types, mainVars
<1>6. <<>> \in Seq({}) /\ On \in BOOLEAN
  BY DEF On
<1>7. ASSUME NEW c \in Cause, InHandler(c) PROVE IntInv'
  <2>1. stack = Frame(c, "main", TRUE) \o <<>> /\ causes = <<c>> /\ On /\ Serving(c, at)
        /\ nmi # "serving"
    BY <1>7, FrameAlone DEF InHandler
  <2>2. at' = "main" /\ enabled' = TRUE /\ stack' = <<>> /\ causes' = Tail(<<c>>)
    BY <1>2, <1>6, <2>1
  <2>3. Idle
    BY <1>1, <2>1 DEF Serving, ServingIrq, ServingException
  <2>4. Tail(<<c>>) = <<>>
    OBVIOUS
  <2>5. InMain'
    BY <1>1, <1>4, <2>1, <2>2, <2>3, <2>4 DEF InMain, Idle
  <2> QED BY <1>4, <1>5, <2>2, <2>5 DEF IntInv, Context
<1>8. CASE InNMI
  <2>1. stack = Frame(Nmi, "main", On) \o <<>> /\ causes = <<Nmi>> /\ Idle /\ nmi = "serving"
    BY <1>8, FrameAlone DEF InNMI
  <2>2. at' = "main" /\ enabled' = On /\ stack' = <<>> /\ causes' = Tail(<<Nmi>>)
    BY <1>2, <1>6, <2>1
  <2>3. Tail(<<Nmi>>) = <<>>
    OBVIOUS
  <2>4. InMain'
    BY <1>1, <1>4, <2>1, <2>2, <2>3 DEF InMain, Idle
  <2> QED BY <1>4, <1>5, <1>6, <2>2, <2>4 DEF IntInv, Context
<1>9. ASSUME NEW c \in Cause, NEW place \in Places, InBoth(c, place) PROVE IntInv'
  <2> DEFINE rest == Frame(c, "main", TRUE)
  <2>1. /\ stack = Frame(Nmi, place, FALSE) \o rest /\ causes = <<Nmi, c>> /\ On
        /\ nmi = "serving" /\ Serving(c, place)
    BY <1>9 DEF InBoth
  <2>2. rest \in Seq(Words(c, "main", TRUE))
    BY FrameWords
  <2> HIDE DEF rest
  <2>3. at' = place /\ enabled' = FALSE /\ stack' = rest /\ causes' = Tail(<<Nmi, c>>)
    BY <1>2, <2>1, <2>2
  <2>4. Tail(<<Nmi, c>>) = <<c>>
    OBVIOUS
  <2>5. Serving(c, at)'
    BY <1>1, <2>1, <2>3 DEF Serving, ServingIrq, ServingException, InService, Idle
  <2>6. InHandler(c)'
    BY <1>1, <1>4, <2>1, <2>3, <2>4, <2>5 DEF InHandler, rest
  <2> QED BY <1>4, <1>5, <2>3, <2>6 DEF IntInv, Context
<1> QED BY <1>1, <1>7, <1>8, <1>9 DEF IntInv, Context, InMain

-----------------------------------------------------------------------------
(* The handlers.  registers_t holds the number of the newest interrupt.    *)
LEMMA NumberPushed ==
  ASSUME NEW c, NEW place, NEW flag, NEW S, NEW rest \in Seq(S),
         stack = Frame(c, place, flag) \o rest
  PROVE  regs_int_no = Vector(c)
<1> DEFINE W == Words(c, place, flag) \cup S
           f == Frame(c, place, flag)
<1>1. f \in Seq(W) /\ rest \in Seq(W) /\ Len(f) = 7 /\ f[3].value = Vector(c)
  BY FrameWords, SeqMonotonic
<1> HIDE DEF f, W
<1>2. stack = f \o rest
  BY DEF f
<1>3. (f \o rest)[3] = f[3]
  <2>1. \A k \in 1 .. Len(f) + Len(rest) :
          (f \o rest)[k] = IF k <= Len(f) THEN f[k] ELSE rest[k - Len(f)]
    BY <1>1, ConcatProperties
  <2>2. 3 \in 1 .. Len(f) + Len(rest) /\ 3 <= Len(f)
    BY <1>1, LenProperties
  <2> QED BY <2>1, <2>2, Zenon
<1> QED BY <1>1, <1>2, <1>3 DEF regs_int_no

LEMMA NumberOfHandler ==
  ASSUME NEW c, InHandler(c)
  PROVE  regs_int_no = Vector(c)
<1>1. stack = Frame(c, "main", TRUE) \o <<>> /\ <<>> \in Seq({})
  BY FrameAlone DEF InHandler
<1> QED BY <1>1, NumberPushed

(* A step in the handler of an interrupt over main.                        *)
LEMMA HandlerStep ==
  ASSUME IntInv, NEW c \in Cause, InHandler(c),
         UNCHANGED <<mainVars, stuck, stack, nmi, causes, left, firmware>>,
         enabled' = FALSE, kbc' \in [obf : BOOLEAN, ibf : BOOLEAN],
         pic' \in [master : Controller, slave : Controller], CASCADE \notin pic'.master.irr,
         Settings(pic.master)' = Settings(pic.master),
         Settings(pic.slave)' = Settings(pic.slave),
         Serving(c, at)'
  PROVE  IntInv'
<1>1. Tables' /\ Remapping' /\ On' = On /\ Loaded' = Loaded
  BY TablesKept DEF IntInv
<1>2. Types'
  BY <1>1 DEF IntInv, Types, mainVars
<1>3. InHandler(c)'
  BY <1>1 DEF InHandler
<1> QED BY <1>1, <1>2, <1>3 DEF IntInv, Context

(* The handler of an NMI: there is none, and it goes back.                 *)
LEMMA NmiHandled ==
  ASSUME IntInv, InNMI \/ \E c \in Cause, place \in Places : InBoth(c, place),
         isr_handler, firmware' = firmware
  PROVE  IntInv'
<1>1. regs_int_no = NMI
  <2>1. Vector(Nmi) = NMI
    BY DEF Vector, Nmi
  <2>2. CASE InNMI
    <3>1. stack = Frame(Nmi, "main", On) \o <<>> /\ <<>> \in Seq({})
      BY <2>2, FrameAlone DEF InNMI
    <3> QED BY <2>1, <3>1, NumberPushed
  <2>3. ASSUME NEW c \in Cause, NEW place \in Places, InBoth(c, place)
        PROVE  regs_int_no = NMI
    <3>1. stack = Frame(Nmi, place, FALSE) \o Frame(c, "main", TRUE)
      BY <2>3 DEF InBoth
    <3>2. Frame(c, "main", TRUE) \in Seq(Words(c, "main", TRUE))
      BY FrameWords
    <3> QED BY <2>1, <3>1, <3>2, NumberPushed
  <2> QED BY <2>2, <2>3
<1>2. regs_int_no \notin handlers
  BY <1>1 DEF IntInv, Types, NMI, PAGE_FAULT, IRQ1
<1>3. /\ at' = "return" /\ UNCHANGED <<enabled, kbc, pic, mainVars, stuck, stack, nmi, causes, left>>
  BY <1>2 DEF isr_handler, CallHandler, Goes
<1>4. Settings(pic.master)' = Settings(pic.master) /\ Settings(pic.slave)' = Settings(pic.slave)
  BY <1>3 DEF Settings
<1>5. Tables' /\ Remapping' /\ On' = On /\ Loaded' = Loaded
  BY <1>3, <1>4, TablesKept DEF IntInv
<1>6. Types'
  BY <1>3, <1>5 DEF IntInv, Types, mainVars
<1>7. InNMI => InNMI'
  BY <1>3, <1>5 DEF InNMI, Idle, Frame, Word, Vector
<1>8. ASSUME NEW c, NEW place, InBoth(c, place) PROVE InBoth(c, place)'
  <2>1. Serving(c, place)'
    BY <1>3, <1>8 DEF InBoth, Serving, ServingIrq, ServingException, InService, Idle
  <2> QED BY <1>3, <1>5, <1>8, <2>1 DEF InBoth
<1> QED BY <1>5, <1>6, <1>7, <1>8 DEF IntInv, Context

(* An exception over main: only a page fault has a handler, and it stops.  *)
LEMMA IsrStep == IntInv /\ isr_handler /\ firmware' = firmware => IntInv'
<1> SUFFICES ASSUME IntInv, isr_handler, firmware' = firmware PROVE IntInv'
  OBVIOUS
<1>1. at = "isr_handler" /\ CallHandler /\ pic' = pic
  BY DEF isr_handler
<1>2. ASSUME NEW c \in Cause, InHandler(c) PROVE IntInv'
  <2>1. ServingException(c, "isr_handler")
    BY <1>1, <1>2 DEF InHandler, Serving, ServingIrq
  <2>2. Vector(c) # IRQ1 /\ regs_int_no = Vector(c)
    BY <1>2, <2>1, NumberOfHandler, InterruptsAssumption DEF ServingException, Vector, IRQ1
  <2>3. /\ UNCHANGED <<mainVars, stuck, stack, nmi, causes, left, kbc>>
        /\ \/ at' = "return" /\ enabled' = enabled
           \/ at' = "panic" /\ enabled' = FALSE
    <3>1. CASE regs_int_no \notin handlers
      BY <1>1, <3>1 DEF CallHandler, Goes
    <3>2. CASE regs_int_no \in handlers
      <4>1. page_fault
        BY <1>1, <2>2, <3>2 DEF CallHandler
      <4> QED BY <1>1, <4>1 DEF CallHandler, page_fault
    <3> QED BY <3>1, <3>2
  <2>4. enabled' = FALSE /\ at' \in {"return", "panic"}
    BY <1>2, <2>3 DEF InHandler, IntInv, Types
  <2>5. Serving(c, at)'
    BY <1>1, <2>1, <2>4 DEF Serving, ServingException, Idle
  <2>6. Settings(pic.master)' = Settings(pic.master) /\ Settings(pic.slave)' = Settings(pic.slave)
    BY <1>1 DEF Settings
  <2>7. /\ kbc' \in [obf : BOOLEAN, ibf : BOOLEAN]
        /\ pic' \in [master : Controller, slave : Controller] /\ CASCADE \notin pic'.master.irr
    BY <1>1, <2>3 DEF IntInv, Types
  <2> QED BY <1>2, <2>3, <2>4, <2>5, <2>6, <2>7, HandlerStep
<1> QED BY <1>1, <1>2, NmiHandled DEF IntInv, Context, InMain

(* An IRQ that has been acknowledged: only the keyboard has a handler, and *)
(* it may go on to reboot.                                                 *)
LEMMA IrqStep == IntInv /\ irq_handler /\ firmware' = firmware => IntInv'
<1> SUFFICES ASSUME IntInv, irq_handler, firmware' = firmware PROVE IntInv'
  OBVIOUS
<1>1. at = "acknowledged" /\ CallHandler /\ pic' = pic
  BY DEF irq_handler
<1>2. PICK c \in Cause : InHandler(c)
  BY <1>1 DEF IntInv, Context, InMain, InNMI, InBoth
<1>3. ServingIrq(c, "acknowledged") /\ Idle
  BY <1>1, <1>2 DEF InHandler, Serving, ServingIrq, ServingException
<1>4. Vector(c) # PAGE_FAULT /\ regs_int_no = Vector(c)
  BY <1>2, <1>3, NumberOfHandler DEF ServingIrq, Vector, PAGE_FAULT, IRQ0
<1>5. /\ UNCHANGED <<mainVars, stuck, stack, nmi, causes, left>>
      /\ kbc' = kbc \/ kbc' = [kbc EXCEPT !.obf = FALSE]
      /\ \/ at' = "return" /\ enabled' = enabled
         \/ at' = "reboot" /\ enabled' = FALSE
  <2>1. CASE regs_int_no \notin handlers
    BY <1>1, <2>1 DEF CallHandler, Goes
  <2>2. CASE regs_int_no \in handlers
    <3>1. keyboard_cb
      BY <1>1, <1>4, <2>2 DEF CallHandler
    <3> QED BY <1>1, <3>1 DEF CallHandler, keyboard_cb
  <2> QED BY <2>1, <2>2
<1>6. enabled' = FALSE /\ at' \in {"return", "reboot"}
  BY <1>2, <1>5 DEF InHandler, IntInv, Types
<1>7. Serving(c, at)'
  BY <1>1, <1>3, <1>6 DEF Serving, ServingIrq, Idle
<1>8. Settings(pic.master)' = Settings(pic.master) /\ Settings(pic.slave)' = Settings(pic.slave)
  BY <1>1 DEF Settings
<1>9. /\ kbc' \in [obf : BOOLEAN, ibf : BOOLEAN]
      /\ pic' \in [master : Controller, slave : Controller] /\ CASCADE \notin pic'.master.irr
  BY <1>1, <1>5 DEF IntInv, Types
<1> QED BY <1>2, <1>5, <1>6, <1>7, <1>8, <1>9, HandlerStep

-----------------------------------------------------------------------------
(* The ends of interrupt.                                                  *)

LEMMA Ended ==
  ASSUME NEW c \in Controller, NEW n \in Input, c.isr \subseteq {n}
  PROVE  LET d == Command(c, PIC_EOI)
         IN d \in Controller /\ d.isr = {} /\ d.irr = c.irr /\ Settings(d) = Settings(c)
<1>0. Bit(PIC_EOI, 4) # 1
  BY DEF Bit, PIC_EOI
<1>1. CASE c.isr = {}
  BY <1>0, <1>1 DEF Command
<1>2. CASE c.isr # {}
  <2>1. c.isr = {n}
    BY <1>2
  <2>2. Min(c.isr) = n
    <3>1. Min(c.isr) \in c.isr
      BY <1>2, MinInput DEF Controller
    <3> QED BY <2>1, <3>1
  <2>3. Command(c, PIC_EOI) = [c EXCEPT !.isr = {}]
    BY <1>0, <1>2, <2>1, <2>2 DEF Command
  <2> QED BY <2>3 DEF Controller, Settings
<1> QED BY <1>1, <1>2

LEMMA SlaveEnded == IntInv /\ ack_slave /\ firmware' = firmware => IntInv'
<1> SUFFICES ASSUME IntInv, ack_slave, firmware' = firmware PROVE IntInv'
  OBVIOUS
<1>1. /\ at = "irq_handler" /\ at' = "ack_master"
      /\ UNCHANGED <<mainVars, stuck, stack, nmi, causes, left, enabled, kbc>>
      /\ pic' = IF InvolvesSlave(regs_int_no)
                THEN PortWritten(pic, PIC2_COMMAND, PIC_EOI) ELSE pic
  BY DEF ack_slave, Goes
<1>2. PICK c \in Cause : InHandler(c)
  BY <1>1 DEF IntInv, Context, InMain, InNMI, InBoth
<1>3. c \in [kind : {"irq"}, number : 0 .. 15] /\ InService(c.number)
  BY <1>1, <1>2 DEF InHandler, Serving, ServingIrq, ServingException
<1>4. /\ regs_int_no = IRQ0 + c.number /\ (InvolvesSlave(regs_int_no) <=> c.number >= 8)
  BY <1>2, <1>3, NumberOfHandler DEF Vector, InvolvesSlave, IRQ0
<1>5. /\ pic \in [master : Controller, slave : Controller] /\ CASCADE \notin pic.master.irr
      /\ kbc \in [obf : BOOLEAN, ibf : BOOLEAN] /\ enabled = FALSE
  BY <1>2 DEF IntInv, Types, InHandler
<1>6. /\ pic' \in [master : Controller, slave : Controller] /\ CASCADE \notin pic'.master.irr
      /\ Settings(pic'.master) = Settings(pic.master)
      /\ Settings(pic'.slave) = Settings(pic.slave)
      /\ pic'.slave.isr = {}
      /\ \E line \in Input : pic'.master.isr \subseteq {line}
  <2>1. CASE c.number < 8
    <3>1. pic' = pic /\ c.number \in Input
      BY <1>1, <1>3, <1>4, <2>1 DEF Input
    <3> QED BY <1>3, <1>5, <2>1, <3>1 DEF InService
  <2>2. CASE c.number >= 8
    <3> DEFINE d == Command(pic.slave, PIC_EOI)
    <3>1. pic' = [pic EXCEPT !.slave = d]
      BY <1>1, <1>4, <2>2 DEF PortWritten, PIC1_COMMAND, PIC1_DATA, PIC2_COMMAND
    <3>2. pic.slave.isr = {c.number - 8} /\ pic.master.isr = {CASCADE} /\ c.number - 8 \in Input
          /\ CASCADE \in Input
      BY <1>3, <2>2 DEF InService, Input, CASCADE
    <3>3. d \in Controller /\ d.isr = {} /\ Settings(d) = Settings(pic.slave)
      BY <1>5, <3>2, Ended
    <3> HIDE DEF d
    <3>4. pic'.master = pic.master /\ pic'.slave = d
          /\ pic' \in [master : Controller, slave : Controller]
      BY <1>5, <3>1, <3>3
    <3> QED BY <1>5, <3>2, <3>3, <3>4
  <2> QED BY <1>3, <2>1, <2>2
<1>7. Settings(pic.master)' = Settings(pic.master) /\ Settings(pic.slave)' = Settings(pic.slave)
  BY <1>6 DEF Settings
<1>8. Serving(c, at)'
  BY <1>1, <1>3, <1>6 DEF Serving, ServingIrq
<1> QED BY <1>1, <1>2, <1>5, <1>6, <1>7, <1>8, HandlerStep

LEMMA MasterEnded == IntInv /\ ack_master /\ firmware' = firmware => IntInv'
<1> SUFFICES ASSUME IntInv, ack_master, firmware' = firmware PROVE IntInv'
  OBVIOUS
<1>1. /\ at = "ack_master" /\ at' = "acknowledged"
      /\ UNCHANGED <<mainVars, stuck, stack, nmi, causes, left, enabled, kbc>>
      /\ pic' = PortWritten(pic, PIC1_COMMAND, PIC_EOI)
  BY DEF ack_master, Goes
<1>2. PICK c \in Cause : InHandler(c)
  BY <1>1 DEF IntInv, Context, InMain, InNMI, InBoth
<1>3. /\ c \in [kind : {"irq"}, number : 0 .. 15] /\ pic.slave.isr = {}
      /\ \E line \in Input : pic.master.isr \subseteq {line}
  BY <1>1, <1>2 DEF InHandler, Serving, ServingIrq, ServingException
<1>4. /\ pic \in [master : Controller, slave : Controller] /\ CASCADE \notin pic.master.irr
      /\ kbc \in [obf : BOOLEAN, ibf : BOOLEAN] /\ enabled = FALSE
  BY <1>2 DEF IntInv, Types, InHandler
<1> DEFINE d == Command(pic.master, PIC_EOI)
<1>5. pic' = [pic EXCEPT !.master = d]
  BY <1>1 DEF PortWritten
<1>6. d \in Controller /\ d.isr = {} /\ d.irr = pic.master.irr
      /\ Settings(d) = Settings(pic.master)
  BY <1>3, <1>4, Ended
<1> HIDE DEF d
<1>7. /\ pic'.slave = pic.slave /\ pic'.master = d
      /\ pic' \in [master : Controller, slave : Controller] /\ CASCADE \notin pic'.master.irr
  BY <1>4, <1>5, <1>6
<1>8. Settings(pic.master)' = Settings(pic.master) /\ Settings(pic.slave)' = Settings(pic.slave)
  BY <1>6, <1>7 DEF Settings
<1>9. Serving(c, at)'
  BY <1>1, <1>3, <1>6, <1>7 DEF Serving, ServingIrq, Idle
<1> QED BY <1>1, <1>2, <1>4, <1>7, <1>8, <1>9, HandlerStep

(* reboot stays in the handler that runs it.                               *)
LEMMA RebootStep == IntInv /\ reboot /\ firmware' = firmware => IntInv'
<1> SUFFICES ASSUME IntInv, reboot, firmware' = firmware PROVE IntInv'
  OBVIOUS
<1>1. /\ UNCHANGED <<mainVars, enabled, stuck, stack, nmi, causes, pic, left>>
      /\ \/ /\ at = "reboot" /\ kbc' = [kbc EXCEPT !.obf = FALSE]
            /\ at' = IF kbc.ibf THEN "reboot" ELSE "outb reset"
         \/ /\ at = "outb reset" /\ at' = "hlt" /\ kbc' = [kbc EXCEPT !.ibf = TRUE]
  BY DEF reboot, UserDataInBuffer
<1>2. PICK c \in Cause : InHandler(c)
  BY <1>1 DEF IntInv, Context, InMain, InNMI, InBoth
<1>3. c \in [kind : {"irq"}, number : 0 .. 15] /\ Idle
  BY <1>1, <1>2 DEF InHandler, Serving, ServingIrq, ServingException
<1>4. /\ pic \in [master : Controller, slave : Controller] /\ CASCADE \notin pic.master.irr
      /\ kbc \in [obf : BOOLEAN, ibf : BOOLEAN] /\ enabled = FALSE
  BY <1>2 DEF IntInv, Types, InHandler
<1>5. /\ kbc' \in [obf : BOOLEAN, ibf : BOOLEAN]
      /\ at' \in {"reboot", "outb reset", "hlt"}
  BY <1>1, <1>4
<1>6. Settings(pic.master)' = Settings(pic.master) /\ Settings(pic.slave)' = Settings(pic.slave)
  BY <1>1 DEF Settings
<1>7. Serving(c, at)'
  BY <1>1, <1>3, <1>5 DEF Serving, ServingIrq, Idle
<1> QED BY <1>1, <1>2, <1>4, <1>5, <1>6, <1>7, HandlerStep

-----------------------------------------------------------------------------
(* main.  Up to sti nothing interrupts it but an NMI.                      *)
MainStep ==
  /\ at = "main" /\ stuck = None
  /\ \/ init_gdt \/ set_isr_gates \/ save_masks \/ outb \/ set_irq_gates
     \/ sti \/ init_paging \/ enable_paging \/ init_keyboard
  /\ UNCHANGED <<at, stack, causes, kbc, stuck, nmi, left, firmware>>

(* A step that sets up a table, or registers a handler.                    *)
LEMMA SetUp ==
  ASSUME IntInv, MainStep, pic' = pic, Tables', Remapping', enabled' = On',
         Types => pc' \in Before \cup {"outb", "set_irq_gates", "sti"} \/ On',
         handlers' \subseteq {PAGE_FAULT, IRQ1}, Loaded => Loaded'
  PROVE  IntInv'
<1>1. InMain
  BY MainAlone DEF IntInv, MainStep
<1>2. InMain'
  BY <1>1 DEF InMain, MainStep, Idle
<1>3. Types'
  BY DEF IntInv, Types, MainStep, On
<1> QED BY <1>2, <1>3 DEF IntInv, Context

LEMMA OutbStep == IntInv /\ MainStep /\ outb => IntInv'
<1> SUFFICES ASSUME IntInv, MainStep, outb PROVE IntInv'
  OBVIOUS
<1> DEFINE w == PIC_remap(firmware[1], firmware[2])
<1>1. /\ pc = "outb" /\ pc' = IF Len(outs) = 1 THEN "set_irq_gates" ELSE "outb"
      /\ pic' = PortWritten(pic, Head(outs)[1], Head(outs)[2]) /\ outs' = Tail(outs)
      /\ UNCHANGED <<gdt, idt, handlers, enabled, firmware>>
  BY DEF outb, At, MainStep
<1>2. InMain
  BY MainAlone DEF IntInv, MainStep
<1>3. PICK k \in 1 .. 10 : Remapped(k) /\ outs = SubSeq(w, k, 10)
  BY <1>1 DEF IntInv, Remapping, Before
<1>4. w \in Seq(Nat \X Byte) /\ Len(w) = 10
  <2>1. firmware[1] \in Byte /\ firmware[2] \in Byte
    BY InterruptsAssumption DEF IntInv, Types
  <2> QED BY <2>1, RemapWrites
<1> HIDE DEF w
<1>5. Head(outs) = w[k] /\ Tail(outs) = SubSeq(w, k + 1, 10)
  BY <1>3, <1>4, HeadTailOfSubSeq
<1>6. Len(outs) = 11 - k
  <2>1. ASSUME NEW j \in k .. 10 PROVE w[j] \in Nat \X Byte
    <3>1. j \in 1 .. Len(w)
      BY <1>4
    <3> QED BY <1>4, <3>1, ElementOfSeq
  <2> QED BY <1>3, <2>1, SubSeqProperties
<1>7. /\ Remapped(k + 1)' /\ Idle' /\ CASCADE \notin pic.master.irr'
      /\ pic' \in [master : Controller, slave : Controller]
  <2>1. pic' = PortWritten(pic, w[k][1], w[k][2])
    BY <1>1, <1>5
  <2> QED BY <1>1, <1>2, <1>3, <2>1, WriteStep DEF IntInv, Types, InMain, w
<1>8. Remapping'
  <2>1. CASE k = 10
    <3>1. pc' = "set_irq_gates" /\ outs' = SubSeq(w, 11, 10)
      BY <1>1, <1>5, <1>6, <2>1
    <3>2. outs' = <<>>
      BY <3>1, SubSeqEmpty
    <3>3. Remapped(11)'
      BY <1>7, <2>1
    <3> QED BY <3>1, <3>2, <3>3 DEF Remapping, Before
  <2>2. CASE k # 10
    <3>1. pc' = "outb" /\ k + 1 \in 1 .. 10 /\ outs' = SubSeq(w, k + 1, 10) /\ w' = w
      BY <1>1, <1>5, <1>6, <2>2 DEF w
    <3>2. \E j \in 1 .. 10 : Remapped(j)' /\ outs' = SubSeq(w, j, 10)'
      BY <1>7, <3>1
    <3> QED BY <1>1, <3>1, <3>2 DEF Remapping, Before, w
  <2> QED BY <2>1, <2>2
<1>9. Tables'
  BY <1>1 DEF IntInv, Tables, Loaded
<1>10. InMain'
  BY <1>1, <1>2, <1>7 DEF InMain, MainStep, On
<1>11. Types'
  BY <1>1, <1>7 DEF IntInv, Types, MainStep, On, Before, Loaded
<1> QED BY <1>8, <1>9, <1>10, <1>11 DEF IntInv, Context

LEMMA SetUpStep == IntInv /\ MainStep => IntInv'
<1> SUFFICES ASSUME IntInv, MainStep PROVE IntInv'
  OBVIOUS
<1>0. /\ UNCHANGED firmware /\ Tables /\ Remapping /\ Types /\ enabled = On
  BY MainAlone DEF IntInv, MainStep, InMain
<1>1. ASSUME NEW k, pic' = pic PROVE Remapped(k)' <=> Remapped(k)
  BY <1>0, <1>1 DEF Remapped, Programmed
<1>2. CASE init_gdt
  <2>1. pc = "init_gdt" /\ pc' = "memset" /\ gdt' = gdt_entries
        /\ UNCHANGED <<outs, idt, handlers, enabled, pic>>
    BY <1>2 DEF init_gdt, At
  <2>2. Tables' /\ Remapping'
    BY <1>0, <1>1, <2>1 DEF Tables, Remapping, Before, Loaded
  <2> QED BY <1>0, <2>1, <2>2, SetUp DEF Types, On, Before, Loaded
<1>3. CASE set_isr_gates
  <2>1. pc = "memset" /\ pc' = "PIC_remap" /\ idt' = Gates(0 .. 31)
        /\ UNCHANGED <<outs, gdt, handlers, enabled, pic>>
    BY <1>3 DEF set_isr_gates, At
  <2>2. Tables' /\ Remapping'
    BY <1>0, <1>1, <2>1 DEF Tables, Remapping, Before, Loaded
  <2> QED BY <1>0, <2>1, <2>2, SetUp DEF Types, On, Before, Loaded
<1>4. CASE save_masks
  <2>1. pc = "PIC_remap" /\ pc' = "outb"
        /\ outs' = PIC_remap(pic.master.imr, pic.slave.imr)
        /\ UNCHANGED <<gdt, idt, handlers, enabled, pic>>
    BY <1>4 DEF save_masks, At
  <2>2. Remapped(1)
    BY <1>0, <2>1 DEF Remapping, Before
  <2>3. pic.master.imr = firmware[1] /\ pic.slave.imr = firmware[2]
    <3>1. 1 \div 2 = 0 /\ (1 - 1) \div 2 = 0
      OBVIOUS
    <3> QED BY <2>2, <3>1 DEF Remapped, Programmed
  <2> DEFINE w == PIC_remap(firmware[1], firmware[2])
  <2>4. SubSeq(w, 1, 10) = w
    <3>1. firmware[1] \in Byte /\ firmware[2] \in Byte
      BY <1>0, InterruptsAssumption DEF Types
    <3>2. w \in Seq(Nat \X Byte) /\ Len(w) = 10
      BY <3>1, RemapWrites
    <3> HIDE DEF w
    <3> QED BY <3>2, SubSeqFull
  <2>5. outs' = SubSeq(PIC_remap(firmware[1], firmware[2]), 1, 10)'
    BY <1>0, <2>1, <2>3, <2>4
  <2>6. Tables' /\ Remapping'
    BY <1>0, <1>1, <2>1, <2>2, <2>5 DEF Tables, Remapping, Before, Loaded
  <2> QED BY <1>0, <2>1, <2>6, SetUp DEF Types, On, Before, Loaded
<1>5. CASE set_irq_gates
  <2>1. pc = "set_irq_gates" /\ pc' = "sti" /\ idt' = Gates(DOMAIN idt \cup 32 .. 47)
        /\ UNCHANGED <<outs, gdt, handlers, enabled, pic>>
    BY <1>5 DEF set_irq_gates, At
  <2>2. idt' = Gates(0 .. 47)
    <3>1. DOMAIN idt = 0 .. 31
      BY <1>0, <2>1 DEF Tables, Gates
    <3>2. 0 .. 31 \cup 32 .. 47 = 0 .. 47
      OBVIOUS
    <3> QED BY <2>1, <3>1, <3>2
  <2>3. Tables' /\ Remapping'
    BY <1>0, <1>1, <2>1, <2>2 DEF Tables, Remapping, Before, Loaded
  <2> QED BY <1>0, <2>1, <2>3, SetUp DEF Types, On, Before, Loaded
<1>6. CASE sti
  <2>1. pc = "sti" /\ pc' = "init_paging" /\ enabled' = TRUE
        /\ UNCHANGED <<outs, gdt, idt, handlers, pic>>
    BY <1>6 DEF sti, At
  <2>2. Tables' /\ Remapping'
    BY <1>0, <1>1, <2>1 DEF Tables, Remapping, Before, Loaded
  <2> QED BY <1>0, <2>1, <2>2, SetUp DEF Types, On, Before, Loaded
<1>7. CASE init_paging
  <2>1. pc = "init_paging" /\ pc' = "enable_paging" /\ handlers' = handlers \cup {PAGE_FAULT}
        /\ UNCHANGED <<outs, gdt, idt, enabled, pic>>
    BY <1>7 DEF init_paging, At, register_interrupt_handler
  <2>2. Tables' /\ Remapping'
    BY <1>0, <1>1, <2>1 DEF Tables, Remapping, Before, Loaded
  <2> QED BY <1>0, <2>1, <2>2, SetUp DEF Types, On, Before, Loaded
<1>8. CASE enable_paging
  <2>1. pc = "enable_paging" /\ pc' = "init_keyboard"
        /\ UNCHANGED <<outs, gdt, idt, handlers, enabled, pic>>
    BY <1>8 DEF enable_paging, At
  <2>2. Tables' /\ Remapping'
    BY <1>0, <1>1, <2>1 DEF Tables, Remapping, Before, Loaded
  <2> QED BY <1>0, <2>1, <2>2, SetUp DEF Types, On, Before, Loaded
<1>9. CASE init_keyboard
  <2>1. pc = "init_keyboard" /\ pc' = "loop" /\ handlers' = handlers \cup {IRQ1}
        /\ UNCHANGED <<outs, gdt, idt, enabled, pic>>
    BY <1>9 DEF init_keyboard, At, register_interrupt_handler
  <2>2. Tables' /\ Remapping'
    BY <1>0, <1>1, <2>1 DEF Tables, Remapping, Before, Loaded
  <2> QED BY <1>0, <2>1, <2>2, SetUp DEF Types, On, Before, Loaded
<1>10. CASE outb
  BY <1>10, OutbStep
<1> QED BY <1>2, <1>3, <1>4, <1>5, <1>6, <1>7, <1>8, <1>9, <1>10 DEF MainStep

LEMMA IntInvInit == Init => IntInv
<1> SUFFICES ASSUME Init PROVE IntInv
  OBVIOUS
<1>1. firmware \in MaskPairs /\ firmware[1] \in Byte /\ firmware[2] \in Byte
  BY InterruptsAssumption DEF Init
<1>2. 2^CASCADE = 4 /\ 1 \div 2 = 0 /\ (1 - 1) \div 2 = 0
  BY DEF CASCADE
<1>3. ASSUME NEW offset \in Byte, NEW wiring \in Byte, NEW mask \in Byte
      PROVE  Firmware(offset, wiring, mask) \in Controller
  BY DEF Firmware, Controller, Byte, ICW4_8086
<1>4. pic \in [master : Controller, slave : Controller]
  <2>1. 8 \in Byte /\ 4 \in Byte /\ 112 \in Byte /\ CASCADE \in Byte
    BY DEF Byte, CASCADE
  <2> QED BY <1>1, <1>2, <1>3, <2>1 DEF Init
<1>5. Remapped(1)
  BY <1>2 DEF Init, Remapped, Programmed, Firmware
<1>6. Tables /\ Remapping
  BY <1>5 DEF Init, Tables, Remapping, Before, Loaded
<1>7. pic.master.isr = {} /\ pic.slave.isr = {} /\ pic.master.irr = {}
  BY DEF Init, Firmware
<1>8. On = FALSE /\ nmi = "none"
  BY DEF Init, On
<1>9. InMain
  BY <1>7, <1>8 DEF Init, InMain, Idle
<1>10. Types
  <2>1. left \in 0 .. MaxEvents /\ CASCADE \notin pic.master.irr
    BY <1>7, InterruptsAssumption DEF Init
  <2>2. kbc \in [obf : BOOLEAN, ibf : BOOLEAN]
    BY DEF Init
  <2>3. pc \in Before /\ handlers = {} /\ stuck = None /\ enabled = FALSE
    BY DEF Init, Before
  <2> QED BY <1>1, <1>4, <1>8, <2>1, <2>2, <2>3 DEF Types
<1> QED BY <1>6, <1>9, <1>10 DEF IntInv, Context

LEMMA IntInvStep == IntInv /\ [Next]_vars => IntInv'
<1> SUFFICES ASSUME IntInv, [Next]_vars PROVE IntInv'
  OBVIOUS
<1>1. CASE Running
  <2>1. UNCHANGED firmware /\ (NonMaskable \/ Maskable \/ Code)
    BY <1>1 DEF Running, Processor
  <2>2. CASE main
    <3>1. CASE stuck = None
      <4>1. MainStep
        BY <2>1, <2>2, <3>1 DEF main, MainStep
      <4> QED BY <4>1, SetUpStep
    <3>2. CASE stuck # None
      <4>1. /\ at = "main" /\ Enter(stuck, [kind |-> "exception", number |-> stuck])
            /\ stuck' \in Resumed(stuck) /\ UNCHANGED <<nmi, left, pic, kbc, firmware>>
        BY <2>1, <2>2, <3>2 DEF main
      <4> QED BY <3>2, <4>1, ExceptionStep
    <3> QED BY <3>1, <3>2
  <2>3. CASE isr_handler \/ irq_handler
    BY <2>1, <2>3, IsrStep, IrqStep
  <2>4. CASE ack_slave \/ ack_master
    BY <2>1, <2>4, SlaveEnded, MasterEnded
  <2>5. CASE reboot \/ Return
    BY <2>1, <2>5, RebootStep, ReturnStep
  <2>6. CASE NonMaskable \/ Maskable
    BY <2>1, <2>6, NmiStep, MaskableStep
  <2> QED BY <2>1, <2>2, <2>3, <2>4, <2>5, <2>6 DEF Code
<1>2. CASE \E line \in Lines : Edge(line)
  BY <1>2, EdgeStep
<1>3. CASE RaiseNMI \/ Spurious \/ KbcTakes
  BY <1>3, NmiRaised, SpuriousStep, KbcStep
<1>4. CASE \E v \in Faults : Break(v)
  BY <1>4, BreakStep
<1>5. CASE UNCHANGED vars
  <2>1. UNCHANGED <<mainVars, firmware, at, enabled, stack, stuck, nmi, causes, pic, kbc, left>>
    BY <1>5 DEF vars, cpuVars, deviceVars
  <2>2. Tables' /\ Remapping' /\ Context'
    BY <2>1, DeviceStep DEF Settings
  <2>3. Types'
    BY <2>1 DEF IntInv, Types, mainVars, On, Loaded
  <2> QED BY <2>2, <2>3 DEF IntInv
<1> QED BY <1>1, <1>2, <1>3, <1>4, <1>5 DEF Next

-----------------------------------------------------------------------------
(* What the invariant says of the properties.                              *)

(* The stack is a whole number of frames.                                  *)
LEMMA ContextStack ==
  ASSUME Context
  PROVE  \/ InMain
         \/ \E c, flag :
              /\ causes = <<c>> /\ stack = Frame(c, "main", flag) /\ ~ enabled
              /\ \/ c = Nmi /\ at \in {"isr_handler", "return"} /\ Idle
                 \/ c \in Cause /\ Serving(c, at)
         \/ \E c \in Cause, place \in Places :
              /\ causes = <<Nmi, c>> /\ ~ enabled /\ Serving(c, place)
              /\ stack = Frame(Nmi, place, FALSE) \o Frame(c, "main", TRUE)
              /\ at \in {"isr_handler", "return"}
<1>1. ASSUME NEW c \in Cause, InHandler(c)
      PROVE  /\ causes = <<c>> /\ stack = Frame(c, "main", TRUE) /\ ~ enabled
             /\ c \in Cause /\ Serving(c, at)
  BY <1>1 DEF InHandler
<1>2. ASSUME InNMI
      PROVE  /\ causes = <<Nmi>> /\ stack = Frame(Nmi, "main", On) /\ ~ enabled
             /\ at \in {"isr_handler", "return"} /\ Idle
  BY <1>2 DEF InNMI
<1>3. ASSUME NEW c \in Cause, NEW place \in Places, InBoth(c, place)
      PROVE  /\ causes = <<Nmi, c>> /\ ~ enabled /\ Serving(c, place)
             /\ stack = Frame(Nmi, place, FALSE) \o Frame(c, "main", TRUE)
             /\ at \in {"isr_handler", "return"}
  BY <1>3 DEF InBoth
<1> QED BY <1>1, <1>2, <1>3, Zenon DEF Context

(* An interrupt over another: its frame, then the frame below it.          *)
LEMMA Over ==
  ASSUME NEW c, NEW place, NEW flag, NEW d, NEW place2, NEW flag2,
         stack = Frame(d, place, flag) \o Frame(c, place2, flag2)
  PROVE  /\ Len(stack) = 14 /\ stack[5] = Word("eip", place)
         /\ causes = <<d, c>> => FramesWhole
<1> DEFINE W == Words(d, place, flag) \cup Words(c, place2, flag2)
           s == Frame(d, place, flag)
           t == Frame(c, place2, flag2)
<1>1. s \in Seq(W) /\ t \in Seq(W) /\ Len(s) = 7 /\ Len(t) = 7
  BY FrameWords, SeqMonotonic
<1>2. /\ \A k \in 1 .. 7 : s[k].word = Layout[k]
      /\ s[3].value = Vector(d) /\ s[5] = Word("eip", place)
  BY FrameWords
<1>3. (\A k \in 1 .. 7 : t[k].word = Layout[k]) /\ t[3].value = Vector(c)
  BY FrameWords
<1>4. stack = s \o t
  OBVIOUS
<1> HIDE DEF s, t, W
<1>5. /\ Len(s \o t) = Len(s) + Len(t)
      /\ \A k \in 1 .. Len(s) + Len(t) : (s \o t)[k] = IF k <= Len(s) THEN s[k] ELSE t[k - Len(s)]
  BY <1>1, ConcatProperties
<1>6. Len(stack) = 14 /\ \A k \in 1 .. 14 : stack[k] = IF k <= 7 THEN s[k] ELSE t[k - 7]
  BY <1>1, <1>4, <1>5
<1>7. ASSUME NEW k \in 1 .. 7 PROVE stack[k] = s[k] /\ stack[k + 7] = t[k]
  <2>1. /\ k \in 1 .. 14 /\ k <= 7
        /\ k + 7 \in 1 .. 14 /\ ~(k + 7 <= 7) /\ (k + 7) - 7 = k
    OBVIOUS
  <2> QED BY <1>6, <2>1
<1>8. \A k \in 1 .. 7 : stack[k].word = Layout[k] /\ stack[k + 7].word = Layout[k]
  BY <1>2, <1>3, <1>7
<1>9. 3 \in 1 .. 7 /\ 5 \in 1 .. 7 /\ 3 + 7 = 10
  OBVIOUS
<1>10. stack[3] = s[3] /\ stack[5] = s[5] /\ stack[10] = t[3]
  BY <1>7, <1>9
<1>11. ASSUME causes = <<d, c>> PROVE FramesWhole
  <2>1. Len(causes) = 2 /\ causes[1] = d /\ causes[2] = c
    BY <1>11
  <2>2. ASSUME NEW k \in 1 .. 14
        PROVE  stack[k].word = Layout[((k - 1) % 7) + 1]
    <3>1. CASE k \in 1 .. 7
      <4>1. ((k - 1) % 7) + 1 = k
        BY <3>1
      <4> QED BY <1>8, <3>1, <4>1
    <3>2. CASE k \notin 1 .. 7
      <4>1. k - 7 \in 1 .. 7 /\ (k - 7) + 7 = k /\ ((k - 1) % 7) + 1 = k - 7
        BY <3>2
      <4> QED BY <1>8, <4>1
    <3> QED BY <3>1, <3>2
  <2>3. stack[3].value = Vector(d) /\ stack[10].value = Vector(c)
    BY <1>2, <1>3, <1>10
  <2>4. 7 * (1 - 1) + 3 = 3 /\ 7 * (2 - 1) + 3 = 10
    OBVIOUS
  <2>5. ASSUME NEW n \in 1 .. 2
        PROVE  stack[7 * (n - 1) + 3].value = Vector(causes[n])
    <3>1. n = 1 \/ n = 2
      OBVIOUS
    <3> QED BY <2>1, <2>3, <2>4, <3>1
  <2>6. Len(Layout) = 7
    BY DEF Layout
  <2>7. Len(stack) = Len(Layout) * Len(causes)
    BY <1>6, <2>1, <2>6
  <2>8. \A k \in 1 .. Len(stack) : stack[k].word = Layout[((k - 1) % Len(Layout)) + 1]
    BY <1>6, <2>2, <2>6, Zenon
  <2>9. \A n \in 1 .. Len(causes) : stack[Len(Layout) * (n - 1) + 3].value = Vector(causes[n])
    BY <2>1, <2>5, <2>6, Zenon
  <2> QED BY <2>7, <2>8, <2>9, Zenon DEF FramesWhole
<1> QED BY <1>2, <1>6, <1>10, <1>11

LEMMA ContextFrames == Context => FramesWhole
<1> SUFFICES ASSUME Context PROVE FramesWhole
  OBVIOUS
<1>0. Len(Layout) = 7
  BY DEF Layout
<1>1. CASE InMain
  BY <1>0, <1>1 DEF InMain, FramesWhole
<1>2. ASSUME NEW c, NEW flag, causes = <<c>>, stack = Frame(c, "main", flag)
      PROVE  FramesWhole
  <2>1. /\ Len(stack) = 7 /\ Len(causes) = 1 /\ causes[1] = c
        /\ \A k \in 1 .. 7 : stack[k].word = Layout[k]
        /\ stack[3].value = Vector(c)
    BY <1>2, FrameWords
  <2>2. ASSUME NEW k \in 1 .. 7 PROVE ((k - 1) % 7) + 1 = k
    OBVIOUS
  <2> QED BY <1>0, <2>1, <2>2 DEF FramesWhole
<1>3. ASSUME NEW c \in Cause, NEW place \in Places, causes = <<Nmi, c>>,
             stack = Frame(Nmi, place, FALSE) \o Frame(c, "main", TRUE)
      PROVE  FramesWhole
  BY <1>3, Over
<1>4. CASE \E c, flag : /\ causes = <<c>> /\ stack = Frame(c, "main", flag)
  BY <1>2, <1>4, Zenon
<1> QED BY <1>1, <1>3, <1>4, ContextStack, Zenon

LEMMA ContextIrqs == Context => IrqsDoNotNest
<1> SUFFICES ASSUME Context PROVE IrqsDoNotNest
  OBVIOUS
<1>1. ASSUME NEW n, Irqs \subseteq {n} PROVE Cardinality(Irqs) <= 1
  <2>1. Irqs = {} \/ Irqs = {n}
    BY <1>1
  <2>2. Cardinality({}) = 0 /\ Cardinality({n}) = 1
    BY FS_EmptySet, FS_Singleton, Zenon
  <2>3. CASE Irqs = {}
    BY <2>2, <2>3
  <2>4. CASE Irqs = {n}
    BY <2>2, <2>4
  <2> QED BY <2>1, <2>3, <2>4
<1>2. CASE InMain
  <2>1. Irqs = {}
    BY <1>2 DEF InMain, Irqs
  <2>2. at \notin Halted
    BY <1>2 DEF InMain, Halted
  <2>3. Cardinality(Irqs) <= 1
    BY <1>1, <2>1
  <2> QED BY <2>1, <2>2, <2>3 DEF IrqsDoNotNest
<1>3. ASSUME NEW c, causes = <<c>>, ~ enabled PROVE IrqsDoNotNest
  <2>1. Irqs \subseteq {1}
    BY <1>3 DEF Irqs
  <2>2. Cardinality(Irqs) <= 1
    BY <1>1, <2>1
  <2> QED BY <1>3, <2>2 DEF IrqsDoNotNest
<1>4. ASSUME NEW c \in Cause, causes = <<Nmi, c>>, ~ enabled PROVE IrqsDoNotNest
  <2>1. Len(causes) = 2 /\ causes[1].kind = "nmi"
    BY <1>4 DEF Nmi
  <2>2. Irqs \subseteq {2}
    BY <2>1 DEF Irqs
  <2>3. Cardinality(Irqs) <= 1
    BY <1>1, <2>2
  <2> QED BY <1>4, <2>3 DEF IrqsDoNotNest
<1> QED BY <1>2, <1>3, <1>4, ContextStack, Zenon

LEMMA ContextEnded == Context => EndedBeforeHandler
<1> SUFFICES ASSUME Context, Contexts \cap {"irq_handler", "ack_master"} = {} PROVE Idle
  BY DEF EndedBeforeHandler, Idle
<1>1. ASSUME NEW c, NEW place, Serving(c, place), place \in Contexts PROVE Idle
  BY <1>1 DEF Serving, ServingIrq, ServingException
<1>2. at \in Contexts
  BY DEF Contexts
<1>3. ASSUME NEW c \in Cause, NEW place \in Places, Serving(c, place),
             stack = Frame(Nmi, place, FALSE) \o Frame(c, "main", TRUE)
      PROVE  Idle
  <2>1. Len(stack) = 14 /\ stack[5] = Word("eip", place)
    <3>1. stack = Frame(Nmi, place, FALSE) \o Frame(c, "main", TRUE)
      BY <1>3
    <3> QED BY <3>1, Over
  <2>2. 5 \in 1 .. Len(stack) /\ stack[5].word = "eip" /\ stack[5].value = place
    BY <2>1 DEF Word
  <2>3. place \in Contexts
    BY <2>2, Zenon DEF Contexts
  <2> QED BY <1>1, <1>3, <2>3
<1>4. CASE \E c : \/ c = Nmi /\ at \in {"isr_handler", "return"} /\ Idle
                  \/ c \in Cause /\ Serving(c, at)
  BY <1>1, <1>2, <1>4, Zenon
<1>5. InMain => Idle
  BY DEF InMain
<1> QED BY <1>3, <1>4, <1>5, ContextStack, Zenon

LEMMA InvMasks == IntInv => MasksRestored
<1> SUFFICES ASSUME IntInv, Loaded
             PROVE  /\ Working(pic.master) /\ pic.master.imr = firmware[1]
                    /\ Working(pic.slave) /\ pic.slave.imr = firmware[2]
  BY DEF MasksRestored
<1>1. Remapped(11)
  BY LoadedTables DEF IntInv
<1>2. 11 \div 2 = 5 /\ (11 - 1) \div 2 = 5 /\ Bit(ICW4_8086, 0) = 1
  BY DEF Bit, ICW4_8086
<1> QED BY <1>1, <1>2 DEF Remapped, Programmed, Working

(* The kinds of what an interrupt pushes, and of what raises one.          *)
Kinds == {"ds", "regs", "int_no", "err_code", "eip", "cs", "eflags"}
Raiser == [kind : {"irq", "exception", "nmi"}, number : 0 .. 31]

LEMMA InvTypeOK == IntInv => TypeOK
<1> SUFFICES ASSUME IntInv PROVE TypeOK
  OBVIOUS
<1>1. pc \in {"init_gdt", "memset", "PIC_remap", "outb", "set_irq_gates", "sti",
             "init_paging", "enable_paging", "init_keyboard", "loop"}
  BY DEF IntInv, Types, Before, On
<1>2. outs \in Seq(Nat \X Byte)
  <2>1. firmware[1] \in Byte /\ firmware[2] \in Byte
    BY InterruptsAssumption DEF IntInv, Types
  <2>2. PICK writes : writes = PIC_remap(firmware[1], firmware[2])
    OBVIOUS
  <2> DEFINE Write == Nat \X Byte
  <2>3. writes \in Seq(Write) /\ Len(writes) = 10
    BY <2>1, <2>2 DEF PIC_remap, Byte, PIC1_COMMAND, PIC2_COMMAND, PIC1_DATA, PIC2_DATA,
                ICW1_INIT, ICW1_ICW4, PIC1_START_INTERRUPT, PIC2_START_INTERRUPT,
                ICW3_MASTER, CASCADE, ICW4_8086
  <2>4. outs = <<>> \/ \E k \in 1 .. 10 : outs = SubSeq(writes, k, 10)
    BY <2>2 DEF IntInv, Remapping
  <2> HIDE DEF Write
  <2>5. ASSUME NEW k \in 1 .. 10 PROVE SubSeq(writes, k, 10) \in Seq(Write)
    <3>1. ASSUME NEW i \in k .. 10 PROVE writes[i] \in Write
      <4>1. i \in 1 .. Len(writes)
        BY <2>3
      <4> QED BY <2>3, <4>1, ElementOfSeq
    <3> QED BY <3>1, SubSeqProperties
  <2>6. <<>> \in Seq(Write)
    OBVIOUS
  <2> QED BY <2>4, <2>5, <2>6, Zenon DEF Write
<1>3. at \in Places
  BY DEF IntInv, Context, InMain, InHandler, InNMI, InBoth, Serving, ServingIrq,
         ServingException, Places
<1>4. \A k \in 1 .. Len(stack) : stack[k].word \in Kinds
  <2>1. FramesWhole
    BY ContextFrames DEF IntInv
  <2>2. \A k \in 1 .. 7 : Layout[k] \in Kinds
    BY DEF Layout, Kinds
  <2>3. Len(Layout) = 7
    BY DEF Layout
  <2>4. Len(stack) \in Nat
    BY <2>1 DEF FramesWhole
  <2> QED BY <2>1, <2>2, <2>3, <2>4 DEF FramesWhole
<1>5. causes \in Seq(Raiser)
  <2>1. Cause \subseteq Raiser /\ Nmi \in Raiser
    BY DEF Cause, Raiser, Nmi, NMI
  <2>2. \/ causes = <<>> \/ \E c : c \in Raiser /\ causes = <<c>>
        \/ \E c : c \in Raiser /\ causes = <<Nmi, c>>
    BY <2>1, ContextStack DEF IntInv, InMain
  <2>3. <<>> \in Seq(Raiser)
    OBVIOUS
  <2>4. ASSUME NEW c, c \in Raiser
        PROVE  <<c>> \in Seq(Raiser) /\ <<Nmi, c>> \in Seq(Raiser)
    BY <2>1, <2>4
  <2> QED BY <2>2, <2>3, <2>4, Zenon
<1> QED BY <1>1, <1>2, <1>3, <1>4, <1>5 DEF IntInv, Types, TypeOK, Kinds, Raiser

-----------------------------------------------------------------------------
(* The theorems.                                                           *)

(* The tables are as the code fills them, the PICs as far as the writes    *)
(* have come, and the stack holds main, or one handler over it, or an NMI  *)
(* over either.                                                            *)
THEOREM InterruptsInvariant == Spec => []IntInv
BY IntInvInit, IntInvStep, PTL DEF Spec

(* Every variable keeps its type: no interrupt resets the machine, and no  *)
(* stub returns to what is no code.                                        *)
THEOREM InterruptsTypeCorrect == Spec => []TypeOK
BY InterruptsInvariant, InvTypeOK, PTL

(* Every handler is given a whole registers_t with its own number.         *)
THEOREM InterruptsFramesWhole == Spec => []FramesWhole
<1>1. IntInv => FramesWhole
  BY ContextFrames DEF IntInv
<1> QED BY <1>1, InterruptsInvariant, PTL

(* No IRQ is taken over the handler of another.                            *)
THEOREM InterruptsDoNotNest == Spec => []IrqsDoNotNest
<1>1. IntInv => IrqsDoNotNest
  BY ContextIrqs DEF IntInv
<1> QED BY <1>1, InterruptsInvariant, PTL

(* An IRQ is ended at each controller it came through before its handler.  *)
THEOREM InterruptsEndedBeforeHandler == Spec => []EndedBeforeHandler
<1>1. IntInv => EndedBeforeHandler
  BY ContextEnded DEF IntInv
<1> QED BY <1>1, InterruptsInvariant, PTL

(* Behind the remapping both controllers work, with the firmware's masks.  *)
THEOREM InterruptsMasksRestored == Spec => []MasksRestored
BY InterruptsInvariant, InvMasks, PTL
=============================================================================
