-------------------------------- MODULE KHeap --------------------------------
(***************************************************************************)
(* The kernel heap of kernel/mm/kheap.c, over a memory of 32-bit words.    *)
(*                                                                         *)
(* A header_t is three words (magic, is_hole, size), a footer_t two        *)
(* (magic, header), as in the build; sizes and addresses are counted in    *)
(* words and arithmetic wraps at WORD, as uint32_t does.  The heap is      *)
(* entered from one thread only (no interrupt handler allocates), so a     *)
(* call of free is one step; a call of alloc is one step per level of its  *)
(* recursion, because each level sees the heap the one before has grown.   *)
(***************************************************************************)
EXTENDS Integers, Sequences, FiniteSets, OrderedArray

CONSTANTS
  PAGE,           \* words of a page (0x1000 bytes in the code)
  START,          \* heap->start_address
  INITIAL_SIZE,   \* length of the heap create_heap is given
  HEAP_MIN_SIZE,  \* contract never goes below this length
  LIMIT,          \* bound: end of the address range that is modelled
  WORD,           \* unsigned arithmetic is modulo WORD
  HEAP_MAGIC,
  Unwritten,      \* what a word holds that the kernel has not written
  Sizes,          \* bound: sizes that callers request
  Aligns,         \* values of page_align: {0} is kmalloc, {0, 1} adds kmalloc_a
  FreeOrder,      \* which live block a caller may free: see MayFree
  Growth,         \* whether callers may make the heap grow: see MayRequest
  UserWords,      \* words that callers store in their blocks
  Idle            \* no call of alloc is in progress

ASSUME GeometryAssumption ==
  /\ PAGE \in Nat /\ PAGE > 5
  /\ START \in Nat /\ START >= PAGE /\ START % PAGE = 0
  /\ INITIAL_SIZE \in Nat /\ INITIAL_SIZE % PAGE = 0
  /\ HEAP_MIN_SIZE \in Nat /\ HEAP_MIN_SIZE % PAGE = 0 /\ HEAP_MIN_SIZE > 0
  /\ HEAP_MIN_SIZE <= INITIAL_SIZE
  /\ LIMIT \in Nat /\ START + INITIAL_SIZE <= LIMIT
  /\ WORD \in Nat /\ LIMIT < WORD
ASSUME MagicAssumption ==
  /\ HEAP_MAGIC \in LIMIT .. WORD - 1
  /\ Unwritten \in (0 .. WORD - 1) \ {HEAP_MAGIC}
ASSUME CallerAssumption ==
  /\ Sizes \subseteq Nat \ {0} /\ Aligns \subseteq {0, 1}
  /\ FreeOrder \in {"never", "inner", "forward", "any"}
  /\ Growth \in {"none", "tail", "any"}
  /\ UserWords \subseteq (0 .. WORD - 1) \ {HEAP_MAGIC}
ASSUME IdleAssumption == Idle \notin [size : Nat, align : Nat]

VARIABLES
  mem,          \* the words of the heap, and the two below it
  index,        \* heap->index: addresses of headers, as an ordered array
  end_address,  \* heap->end_address
  present,      \* page numbers whose page table entry has the present bit
  call,         \* arguments of the call of alloc in progress, or Idle
  live,         \* blocks the callers hold: pointer returned, size requested
  status        \* "running", or how the kernel stopped

vars == <<mem, index, end_address, present, call, live, status>>

HEADER == 3
FOOTER == 2
OVERHEAD == HEADER + FOOTER

(* Slips of the code that the properties must notice: no other definition  *)
(* uses these.                                                             *)
MutantPutFooter(m, f, h) == [m EXCEPT ![f] = HEAP_MAGIC]  \* header field forgotten
MutantInsertHole(m, idx, h) == idx                      \* remainder not indexed
MutantIndexHole(m, idx, h) == Append(idx, h + m[h + 2])  \* its end indexed
MutantFits(h, size, align) == mem[h + 2] + OVERHEAD >= size  \* tags not counted
MutantScan(size, align) ==                              \* scan begins at entry 1
  IF Len(index) < 2 THEN 0
  ELSE SelectInSeq(Tail(index), LAMBDA h : mem[h + 2] >= size)
MutantUnifyLeft(s) == s                                 \* no unification
MutantUnifyRight(s) == s
MutantMakeHole(b) ==                                    \* is_hole stays 0
  [mem |-> mem, index |-> index, end |-> end_address, header |-> b.ptr - HEADER,
   footer |-> b.ptr - HEADER + mem[b.ptr - 1] - FOOTER, do_add |-> TRUE,
   status |-> "running"]

Word == 0 .. WORD - 1
(* Below START lies the page that create_heap skips, which nobody writes.  *)
Addr == START - FOOTER .. LIMIT - 1
PageOf(a) == a \div PAGE
Sub(a, b) == (a - b) % WORD
RoundUp(n) == IF n >= PAGE THEN (n \div PAGE) * PAGE + PAGE ELSE n

-----------------------------------------------------------------------------
(* Headers and footers.                                                    *)

SizeOf(m, h) == m[h + 2]
PutHeader(m, h, is_hole, size) ==
  [m EXCEPT ![h] = HEAP_MAGIC, ![h + 1] = is_hole, ![h + 2] = size]
PutFooter(m, f, h) == [m EXCEPT ![f] = HEAP_MAGIC, ![f + 1] = h]

(* An access to a word whose page is not present raises page_fault, which  *)
(* panics.                                                                 *)
Backed(a) == a \in Addr /\ (a < START \/ PageOf(a) \in present)
BackedHeader(h) == \A w \in h .. h + 2 : Backed(w)
BackedFooter(f) == \A w \in f .. f + 1 : Backed(w)

(* header_t_less_than, and insertion into the index with it.               *)
InsertHole(m, idx, h) ==
  LET header_t_less_than(a, b) == SizeOf(m, a) < SizeOf(m, b)
  IN insert_ordered_array(h, idx, header_t_less_than)

-----------------------------------------------------------------------------
(* Callers.  A live block b is held through b.ptr; its header is below it. *)

Header(b) == b.ptr - HEADER
Payload(b) == b.ptr .. b.ptr + b.size - 1
BlockSize(b) == SizeOf(mem, Header(b))
BlockWords(b) == Header(b) .. Header(b) + BlockSize(b) - 1
EndOf(p) == p + SizeOf(mem, p)
Holes == ToSet(index)

(* The highest word of the heap that a caller's block occupies, plus one.  *)
Top == Max({START} \cup {EndOf(Header(b)) : b \in live})

(* Disciplines of the callers.  The code asks for none, and the runs show  *)
(* which of its promises need one.                                         *)
(*                                                                         *)
(* Growth = "none": callers keep within the HEAP_MIN_SIZE words contract   *)
(* always leaves, with a hole to spare.  "tail": a request the holes       *)
(* cannot serve comes only when the endmost hole reaches the end of the    *)
(* heap, or when there is no hole.  "any": it may always come.             *)
MayRequest(size, align) ==
  IF Growth = "none"
  THEN Top + size + 2 * OVERHEAD <= START + HEAP_MIN_SIZE
  ELSE /\ START + RoundUp(end_address - START + size + OVERHEAD)
            + align * (PAGE + size + OVERHEAD) <= LIMIT
       /\ \/ Growth = "any" \/ index = <<>>
          \/ \E h \in Holes : EndOf(h) = end_address
          \/ \E h \in Holes : SizeOf(mem, h) >= size + OVERHEAD

(* "inner": only blocks that another live block follows are freed.         *)
(* "forward": a block is not freed while a hole follows it, the hole that  *)
(* reaches the end of the heap excepted.  Callers that free in the reverse *)
(* order of their allocations keep to this.                                *)
MayFree(b) ==
  LET next == EndOf(Header(b))
  IN \/ FreeOrder = "any"
     \/ /\ FreeOrder = "inner"
        /\ \E c \in live : Header(c) = next
     \/ /\ FreeOrder = "forward"
        /\ next \in Holes => EndOf(next) = end_address

-----------------------------------------------------------------------------
(* create_heap: one hole, whose footer is not written.                     *)
Init ==
  /\ mem = PutHeader([a \in Addr |-> Unwritten], START, 1, INITIAL_SIZE)
  /\ index = <<START>>
  /\ end_address = START + INITIAL_SIZE
  /\ present = PageOf(START) .. PageOf(START + INITIAL_SIZE - 1)
  /\ call = Idle
  /\ live = {}
  /\ status = "running"

Panic ==
  /\ status' = "panic"
  /\ UNCHANGED <<mem, index, end_address, present, call, live>>

-----------------------------------------------------------------------------
(* alloc.                                                                  *)

Call(size, align) ==
  /\ status = "running" /\ call = Idle
  /\ MayRequest(size, align)
  /\ call' = [size |-> size, align |-> align]
  /\ UNCHANGED <<mem, index, end_address, present, live, status>>

(* The slack that page alignment costs in the hole at h.                   *)
AlignOffset(h) == IF h + HEADER >= PAGE THEN PAGE - ((h + HEADER) % PAGE) ELSE 0

Fits(h, size, align) ==
  IF align > 0 THEN Sub(SizeOf(mem, h), AlignOffset(h)) >= size
               ELSE SizeOf(mem, h) >= size

(* find_smallest_hole: 0 stands for -1.                                    *)
find_smallest_hole(size, align) ==
  SelectInSeq(index, LAMBDA h : Fits(h, size, align))

(* The hole a request is carved from, split in up to three: a hole in      *)
(* front of an aligned block, the block, and a hole behind it.             *)
Carved(i, request) ==
  LET hole     == index[i]
      tight    == Sub(SizeOf(mem, hole), request.size + OVERHEAD) < OVERHEAD
      size     == IF tight THEN SizeOf(mem, hole) - OVERHEAD ELSE request.size
      new_size == size + OVERHEAD
      front    == request.align > 0 /\ hole >= PAGE
      gap      == PAGE - (hole % PAGE) - HEADER
      at       == IF front THEN hole + gap ELSE hole
      m1       == IF front
                  THEN PutFooter(PutHeader(mem, hole, 1, gap % WORD), at - FOOTER, hole)
                  ELSE mem
      \* read back after the footer is written: it may overlap the header
      rest     == IF front THEN Sub(SizeOf(mem, hole), SizeOf(m1, hole))
                           ELSE SizeOf(mem, hole)
      m2       == PutFooter(PutHeader(m1, at, 0, new_size), at + HEADER + size, at)
      behind   == at + new_size
      left     == Sub(rest, new_size)
      foot     == (behind + left - FOOTER) % WORD
      m3       == IF left > 0 THEN PutHeader(m2, behind, 1, left) ELSE m2
      m4       == IF left > 0 /\ foot < end_address THEN PutFooter(m3, foot, behind)
                                                    ELSE m3
      kept     == IF front THEN index ELSE remove_ordered_array(i, index)
  IN [mem    |-> m4,
      index  |-> IF left > 0 THEN InsertHole(m4, kept, behind) ELSE kept,
      ptr    |-> at + HEADER,
      faults |-> \/ ~ BackedHeader(at)
                 \/ front /\ ~ BackedFooter(at - FOOTER)
                 \/ ~ BackedFooter(at + HEADER + size)
                 \/ left > 0 /\ ~ BackedHeader(behind)
                 \/ left > 0 /\ foot < end_address /\ ~ BackedFooter(foot)]

(* The last level of the recursion: some hole fits.                        *)
AllocFromHole ==
  /\ status = "running" /\ call # Idle
  /\ LET i == find_smallest_hole(call.size + OVERHEAD, call.align)
     IN /\ i > 0
        /\ LET c == Carved(i, call)
           IN IF c.faults
              THEN Panic
              ELSE /\ mem' = c.mem
                   /\ index' = c.index
                   /\ live' = live \cup {[ptr |-> c.ptr, size |-> call.size]}
                   /\ call' = Idle
                   /\ UNCHANGED <<end_address, present, status>>

(* expand(old_length + new_size), whose alloc_frame makes each added page  *)
(* present.                                                                *)
Expanded == START + RoundUp(end_address - START + call.size + OVERHEAD)
expand ==
  /\ end_address' = Expanded
  /\ present' = present \cup {PageOf(a) : a \in end_address .. Expanded - 1}

(* The hole that takes the new words: the endmost header of the index, or  *)
(* one made at the old end when the index is empty.                        *)
AllocGrows ==
  /\ status = "running" /\ call # Idle
  /\ find_smallest_hole(call.size + OVERHEAD, call.align) = 0
  /\ Expanded <= LIMIT
  /\ expand
  /\ LET added  == Expanded - end_address
         hole   == IF index = <<>> THEN end_address ELSE Max(Holes)
         length == IF index = <<>> THEN added ELSE (SizeOf(mem, hole) + added) % WORD
         foot   == (hole + length - FOOTER) % WORD
         header == IF index = <<>> THEN PutHeader(mem, hole, 1, length)
                                   ELSE [mem EXCEPT ![hole + 2] = length]
     IN /\ mem' = PutFooter(header, foot, hole)
        /\ index' = IF index = <<>> THEN InsertHole(mem', index, hole) ELSE index
  /\ UNCHANGED <<call, live, status>>

(* A caller writes all of its block.                                       *)
UserStores(b, w) ==
  /\ status = "running" /\ call = Idle
  /\ mem' = [a \in Addr |-> IF a \in Payload(b) THEN w ELSE mem[a]]
  /\ UNCHANGED <<index, end_address, present, call, live, status>>

-----------------------------------------------------------------------------
(* free, as the phases of its body.  s holds what the body has changed so  *)
(* far, its locals header and footer, and do_add.                          *)

(* Removal of header h after a search of the index for it.  When the       *)
(* search fails the last entry goes, and an empty index wraps its size.    *)
RemoveHole(s, h) ==
  IF s.index = <<>> THEN [s EXCEPT !.status = "wild"]
  ELSE LET found == SelectInSeq(s.index, LAMBDA x : x = h)
           i == IF found = 0 THEN Len(s.index) + 1 ELSE found
       IN [s EXCEPT !.index = remove_ordered_array(i, @)]

MakeHole(b) ==
  LET h == Header(b)
  IN [mem    |-> [mem EXCEPT ![h + 1] = 1],
      index  |-> index,
      end    |-> end_address,
      header |-> h,
      footer |-> h + SizeOf(mem, h) - FOOTER,
      do_add |-> TRUE,
      status |-> "running"]

UnifyLeft(s) ==
  LET test_footer == s.header - FOOTER
      left == s.mem[test_footer + 1]
      grown == (SizeOf(s.mem, left) + SizeOf(s.mem, s.header)) % WORD
  IN IF s.mem[test_footer] # HEAP_MAGIC THEN s
     ELSE IF ~ BackedHeader(left) THEN [s EXCEPT !.status = "panic"]
     ELSE IF s.mem[left + 1] # 1 THEN s
     ELSE [s EXCEPT !.mem = [@ EXCEPT ![s.footer + 1] = left, ![left + 2] = grown],
                    !.header = left,
                    !.do_add = FALSE]

(* The footer of the right neighbour is found, but keeps its header field. *)
UnifyRight(s) ==
  LET test_header == s.footer + FOOTER
      length == SizeOf(s.mem, test_header)
      grown == (SizeOf(s.mem, s.header) + length) % WORD
      merged == [s EXCEPT !.mem = [@ EXCEPT ![s.header + 2] = grown],
                          !.footer = test_header + length - FOOTER]
  IN IF s.status # "running" THEN s
     ELSE IF ~ BackedHeader(test_header) THEN [s EXCEPT !.status = "panic"]
     ELSE IF s.mem[test_header] = HEAP_MAGIC /\ s.mem[test_header + 1] # 0
          THEN RemoveHole(merged, test_header)
          ELSE s

(* contract(new_size): "the nearest following page boundary" is two pages  *)
(* when bit 12 of new_size is set, and new_size itself when it is not.     *)
ContractedSize(new_size) ==
  Max({HEAP_MIN_SIZE,
       IF (new_size \div PAGE) % 2 = 1 THEN 2 * PAGE ELSE new_size})

(* The pages whose frame contract gives back.  They stay present, mapped   *)
(* to frame 0 once the TLB forgets them, and then read as what that holds.  *)
FreedPages(old_size, new_size) ==
  {PageOf(START + old_size - k * PAGE) :
     k \in {k \in 1 .. old_size \div PAGE : new_size < old_size - k * PAGE}}

(* lost: the TLB has forgotten the freed pages.                            *)
ContractTail(s, lost) ==
  LET old_length == s.end - START
      new_length == ContractedSize(s.header - START)
      freed == IF lost THEN FreedPages(old_length, new_length) ELSE {}
      m == [a \in Addr |-> IF PageOf(a) \in freed THEN Unwritten ELSE s.mem[a]]
      length == Sub(SizeOf(m, s.header), old_length - new_length)
      shrunk == [s EXCEPT !.mem = m, !.end = START + new_length]
      foot == (s.header + length - FOOTER) % WORD
  IN IF s.status # "running" \/ s.footer + FOOTER # s.end THEN s
     ELSE IF length = 0 THEN shrunk  \* test_header has left the index already
     ELSE IF ~ BackedFooter(foot) THEN [s EXCEPT !.status = "panic"]
     ELSE [shrunk EXCEPT !.mem = PutFooter([@ EXCEPT ![s.header + 2] = length],
                                           foot, s.header)]

free(b) ==
  /\ status = "running" /\ call = Idle
  /\ MayFree(b)
  /\ \E lost \in BOOLEAN :
       LET s == ContractTail(UnifyRight(UnifyLeft(MakeHole(b))), lost)
       IN IF s.status # "running"
          THEN /\ status' = s.status
               /\ UNCHANGED <<mem, index, end_address, present, call, live>>
          ELSE /\ mem' = s.mem
               /\ index' = IF s.do_add THEN InsertHole(s.mem, s.index, s.header)
                                       ELSE s.index
               /\ end_address' = s.end
               /\ live' = live \ {b}
               /\ UNCHANGED <<present, call, status>>

-----------------------------------------------------------------------------
Alloc == AllocFromHole \/ AllocGrows

Next ==
  \/ \E size \in Sizes, align \in Aligns : Call(size, align)
  \/ AllocFromHole
  \/ AllocGrows
  \/ \E b \in live, w \in UserWords : UserStores(b, w)
  \/ \E b \in live : free(b)

(* The processor keeps executing a call of alloc until it returns.         *)
Spec == Init /\ [][Next]_vars /\ WF_vars(Alloc)

-----------------------------------------------------------------------------
(* Properties.                                                             *)

(* Every variable keeps its type.                                          *)
HeaderAddr == START .. LIMIT - OVERHEAD
TypeOK ==
  /\ mem \in [Addr -> Word]
  /\ index \in Seq(HeaderAddr)
  /\ end_address \in START .. LIMIT
  /\ present \subseteq Nat
  /\ call \in [size : Sizes, align : Aligns] \cup {Idle}
  /\ live \subseteq [ptr : START + HEADER .. LIMIT - FOOTER, size : Sizes]
  /\ status \in {"running", "panic", "wild"}

(* alloc never hands out words that a live block or the world outside the  *)
(* heap owns, headers and footers included (alloc, expand and contract).   *)
LiveBlocksDisjoint ==
  \A b \in live :
    /\ BlockWords(b) \subseteq START .. end_address - 1
    /\ \A c \in live \ {b} : BlockWords(b) \cap BlockWords(c) = {}

(* The tags free relies on to walk to the neighbours of a block stand      *)
(* around every live block, whatever was freed and merged beside it.       *)
BlockTagged(m, b) ==
  LET h == Header(b)
      foot == h + SizeOf(m, h) - FOOTER
  IN /\ m[h] = HEAP_MAGIC /\ m[h + 1] = 0
     /\ SizeOf(m, h) >= b.size + OVERHEAD
     /\ m[foot] = HEAP_MAGIC /\ m[foot + 1] = h
BoundaryTags == \A b \in live : BlockTagged(mem, b)

(* The header of every hole of the index is whole, and the footer below a  *)
(* block leads unify-left to the header of the hole it closes              *)
(* (kheap.c:304-308).  The hole at the end of the heap has nothing above   *)
(* it, and create_heap gives it no footer.                                 *)
HoleTagged(m, h, end) ==
  LET foot == h + SizeOf(m, h) - FOOTER
  IN /\ m[h] = HEAP_MAGIC /\ m[h + 1] = 1
     /\ SizeOf(m, h) >= OVERHEAD
     /\ foot + FOOTER # end => m[foot] = HEAP_MAGIC /\ m[foot + 1] = h
HoleTags == \A h \in Holes : HoleTagged(mem, h, end_address)

(* No word of the heap leaks and none is owned twice: live blocks and      *)
(* holes of the index tile it, and the index lists each hole once.         *)
Pieces == Holes \cup {Header(b) : b \in live}
Tiles(P, m, end) ==
  /\ \A p \in P : START <= p /\ p + SizeOf(m, p) <= end
  /\ \A p, q \in P : p < q => p + SizeOf(m, p) <= q
  /\ \A w \in START .. end - 1 : \E p \in P : p <= w /\ w < p + SizeOf(m, p)
FreeSpaceIndexed ==
  /\ Tiles(Pieces, mem, end_address)
  /\ \A i, j \in 1 .. Len(index) : index[i] = index[j] => i = j
  /\ \A b, c \in live : b.ptr = c.ptr => b = c
  /\ \A b \in live : Header(b) \notin Holes

(* free leaves no two holes side by side (unify left and unify right).     *)
Coalesced ==
  \A g, h \in Holes : EndOf(g) # h

(* No sequence of calls makes the heap touch a page that is not present,   *)
(* or remove an item from an empty index.                                  *)
KeepsRunning == status = "running"

(* "This should always be on a page boundary" (kheap.c:64).                *)
EndOnPageBoundary == end_address % PAGE = 0

(* The words of a block change only when its owner stores to them: no call *)
(* of alloc or free writes a tag into a block that is live before and      *)
(* after it.                                                               *)
PayloadIntact ==
  [][\A b \in live \cap live' :
       \/ \A a \in Payload(b) : mem'[a] = mem[a]
       \/ \E w \in UserWords : UserStores(b, w)]_vars

Promise == INSTANCE Allocator WITH Words <- START .. LIMIT - 1

(* alloc and free keep what kheap.h promises: the heap implements the      *)
(* abstract allocator, which also grants every request in the end.         *)
KeepsPromise == Promise!Spec
=============================================================================
