-------------------------------- MODULE Paging --------------------------------
(***************************************************************************)
(* kernel/mm/paging.c: the bitmap of physical frames, the kernel's page    *)
(* directory, the boot sequence of init_paging, and what the heap asks of  *)
(* the pages afterwards (expand and contract of kernel/mm/kheap.c).        *)
(*                                                                         *)
(* Until kheap is set, kmalloc moves placement_address, and so the page    *)
(* tables get_page makes extend the very region that identity_map is       *)
(* mapping.  A step is one iteration of a loop, so that this is visible.   *)
(***************************************************************************)
EXTENDS Integers, FiniteSetsExt

CONSTANTS
  FRAME_SIZE,     \* bytes of a frame, and of a page table
  TABLE,          \* entries of a page table (1024)
  SECTION,        \* frames per entry of frame_allocations (32)
  num_of_frames,
  HEAP_T,         \* sizeof(heap_t)
  KernelEnds,     \* bound: values of the linker's symbol end
  KHEAP_PAGE,     \* page of KHEAP_START
  HeapPages,      \* pages of KHEAP_INITIAL_SIZE
  MinPages,       \* pages contract never gives back
  MaxPages,       \* bound: pages the heap may have
  ContractBy      \* bound: pages one call of contract gives back

ASSUME PagingAssumption ==
  /\ FRAME_SIZE \in Nat \ {0} /\ TABLE \in Nat /\ TABLE > 1
  /\ SECTION \in Nat \ {0}
  /\ num_of_frames \in Nat \ {0} /\ num_of_frames % SECTION = 0
  /\ HEAP_T \in 1 .. FRAME_SIZE
  /\ KernelEnds \subseteq Nat \ {0}
  /\ KHEAP_PAGE \in Nat /\ KHEAP_PAGE % TABLE = 0
  /\ HeapPages \in Nat \ {0} /\ HeapPages <= MaxPages /\ MaxPages \in 1 .. TABLE - 1
  /\ MinPages \in 1 .. HeapPages
  /\ ContractBy \in Nat

(* There are frames for the largest heap behind all that identity_map may  *)
(* map: page i is mapped when the image, the bitmap, the directory and two *)
(* frames for each page table so far reach it.  The machine the kernel     *)
(* assumes has 65536 frames and needs a few hundred for itself.            *)
ASSUME FramesAssumption ==
  \A end \in KernelEnds, page \in 0 .. KHEAP_PAGE - 1 :
    page * FRAME_SIZE < end + (num_of_frames \div SECTION) + 6 * FRAME_SIZE
                          + 2 * FRAME_SIZE * (page \div TABLE + 1)
      => page + 1 + MaxPages <= num_of_frames

VARIABLES
  pc,                  \* the function init_paging is in, or "running"
  i,                   \* its loop counter, as a page number
  placement_address,
  frame_allocations,   \* the frames whose bit is set
  tables,              \* page_tables_virtual: address of each table, or 0
  pages,               \* the entries of the tables: present bit and frame
  heap_end             \* page of heap->end_address, once the heap exists

vars == <<pc, i, placement_address, frame_allocations, tables, pages, heap_end>>

Heap == KHEAP_PAGE .. KHEAP_PAGE + MaxPages - 1
Page == 0 .. KHEAP_PAGE + TABLE - 1
TableOf(page) == page \div TABLE

(* Slips of the code that the properties must notice: no other definition  *)
(* uses these.                                                             *)
MutantMapped(page) == page * FRAME_SIZE < placement_address  \* no extra frame
MutantInHeap(page) == page < KHEAP_PAGE + HeapPages - 1      \* a page short
MutantReserve == FRAME_SIZE * TABLE                          \* sizeof misread
MutantRecorded(frame) == frame \div FRAME_SIZE               \* number as address
MutantAddress(frame) == frame * FRAME_SIZE                   \* address as number

-----------------------------------------------------------------------------
(* kmalloc_int before there is a heap: align moves on even an address that *)
(* is aligned already.                                                     *)
Aligned(a) ==
  IF a >= FRAME_SIZE THEN (a \div FRAME_SIZE) * FRAME_SIZE + FRAME_SIZE ELSE a

(* get_page(page, 1): the table that holds the entry of page is made on    *)
(* demand, and memset leaves its entries zero.                             *)
page_table_t == FRAME_SIZE
get_page(page) ==
  IF tables[TableOf(page)] # 0
  THEN UNCHANGED <<tables, placement_address>>
  ELSE /\ tables' = [tables EXCEPT ![TableOf(page)] = Aligned(placement_address)]
       /\ placement_address' = Aligned(placement_address) + page_table_t

(* first_free_frame: the number of frames when every bit is set.           *)
first_free_frame ==
  LET free == (0 .. num_of_frames - 1) \ frame_allocations
  IN IF free = {} THEN num_of_frames ELSE Min(free)

(* set_frame, called with the physical address of a frame.                 *)
set_frame(frame) == frame

(* alloc_frame: an entry whose frame is not 0 is left alone.               *)
alloc_frame(page) ==
  IF pages[page].frame # 0
  THEN UNCHANGED <<pages, frame_allocations>>
  ELSE /\ pages' = [pages EXCEPT ![page] = [present |-> TRUE, frame |-> first_free_frame]]
       /\ frame_allocations' = frame_allocations \cup {set_frame(first_free_frame)}

(* free_frame of a set of pages.  clear_frame wants a physical address and *)
(* is given a frame number, so the bit it clears is that of another frame. *)
free_frame(freed) ==
  LET held == {page \in freed : pages[page].frame # 0}
  IN /\ frame_allocations' =
          frame_allocations \ {pages[page].frame \div FRAME_SIZE : page \in held}
     /\ pages' = [page \in Page |-> IF page \in held THEN [pages[page] EXCEPT !.frame = 0]
                                                    ELSE pages[page]]

-----------------------------------------------------------------------------
Init ==
  /\ pc = "set_up_frame_allocations" /\ i = 0
  /\ placement_address \in KernelEnds
  /\ frame_allocations = {}
  /\ tables = [t \in 0 .. TableOf(KHEAP_PAGE) |-> 0]
  /\ pages = [page \in Page |-> [present |-> FALSE, frame |-> 0]]
  /\ heap_end = KHEAP_PAGE

(* The bitmap gets one byte, not one word, for each of its entries.        *)
set_up_frame_allocations ==
  /\ pc = "set_up_frame_allocations"
  /\ placement_address' = placement_address + num_of_frames \div SECTION
  /\ pc' = "set_up_page_directory"
  /\ UNCHANGED <<i, frame_allocations, tables, pages, heap_end>>

(* Two arrays of one page each.                                            *)
set_up_page_directory ==
  /\ pc = "set_up_page_directory"
  /\ placement_address' = Aligned(placement_address) + 2 * FRAME_SIZE
  /\ pc' = "map_heap_pages" /\ i' = KHEAP_PAGE
  /\ UNCHANGED <<frame_allocations, tables, pages, heap_end>>

InHeap(page) == page < KHEAP_PAGE + HeapPages
map_heap_pages ==
  /\ pc = "map_heap_pages"
  /\ IF InHeap(i)
     THEN get_page(i) /\ i' = i + 1 /\ UNCHANGED pc
     ELSE pc' = "identity_map" /\ i' = 0 /\ UNCHANGED <<tables, placement_address>>
  /\ UNCHANGED <<frame_allocations, pages, heap_end>>

(* The condition of the loop reads placement_address, which its body moves.*)
(* Bound: the image and its tables end below the heap.                     *)
Mapped(page) == page * FRAME_SIZE < placement_address + FRAME_SIZE
identity_map ==
  /\ pc = "identity_map"
  /\ IF Mapped(i)
     THEN i < KHEAP_PAGE /\ get_page(i) /\ alloc_frame(i) /\ i' = i + 1 /\ UNCHANGED pc
     ELSE /\ pc' = "allocate_heap_pages" /\ i' = KHEAP_PAGE
          /\ UNCHANGED <<tables, placement_address, pages, frame_allocations>>
  /\ UNCHANGED heap_end

allocate_heap_pages ==
  /\ pc = "allocate_heap_pages"
  /\ IF InHeap(i)
     THEN get_page(i) /\ alloc_frame(i) /\ i' = i + 1 /\ UNCHANGED pc
     ELSE /\ pc' = "create_heap" /\ UNCHANGED i
          /\ UNCHANGED <<tables, placement_address, pages, frame_allocations>>
  /\ UNCHANGED heap_end

(* Paging is on.  create_heap takes its heap_t from placement_address and  *)
(* writes the index and the first hole into the heap's pages.              *)
create_heap ==
  /\ pc = "create_heap"
  /\ placement_address' = placement_address + HEAP_T
  /\ heap_end' = KHEAP_PAGE + HeapPages
  /\ pc' = "running"
  /\ UNCHANGED <<i, frame_allocations, tables, pages>>

(* An iteration of the loop of expand.                                     *)
expand ==
  /\ pc = "running" /\ heap_end < KHEAP_PAGE + MaxPages
  /\ get_page(heap_end) /\ alloc_frame(heap_end)
  /\ heap_end' = heap_end + 1
  /\ UNCHANGED <<pc, i>>

(* contract to the page new_end, whose own frame the loop does not free.   *)
contract(new_end) ==
  /\ pc = "running"
  /\ new_end \in KHEAP_PAGE + MinPages .. heap_end - 1
  /\ heap_end - new_end <= ContractBy
  /\ free_frame(new_end + 1 .. heap_end - 1)
  /\ heap_end' = new_end
  /\ UNCHANGED <<pc, i, placement_address, tables>>

init_paging ==
  \/ set_up_frame_allocations \/ set_up_page_directory \/ map_heap_pages
  \/ identity_map \/ allocate_heap_pages \/ create_heap

Next ==
  \/ init_paging
  \/ expand
  \/ \E new_end \in Heap : contract(new_end)

(* kernel_main runs init_paging to its end.                                *)
Spec == Init /\ [][Next]_vars /\ WF_vars(init_paging)

-----------------------------------------------------------------------------
(* Every variable keeps its type: every bit set in the bitmap and every    *)
(* entry of a page names a frame of the memory there is.                   *)
TypeOK ==
  /\ pc \in {"set_up_frame_allocations", "set_up_page_directory", "map_heap_pages",
             "identity_map", "allocate_heap_pages", "create_heap", "running"}
  /\ i \in Page /\ placement_address \in Nat
  /\ frame_allocations \subseteq 0 .. num_of_frames - 1
  /\ tables \in [0 .. TableOf(KHEAP_PAGE) -> Nat]
  /\ pages \in [Page -> [present : BOOLEAN, frame : 0 .. num_of_frames - 1]]
  /\ heap_end \in Page

(* The pages that are backed, and of them those the kernel uses: what      *)
(* identity_map made, and the heap up to its end.                          *)
Backed == {page \in Page : pages[page].present}
InUse == {page \in Backed : page < KHEAP_PAGE \/ page < heap_end \/ pc # "running"}

(* No frame backs two pages: what is written through one page never shows  *)
(* in another, so the heap cannot overwrite the kernel's image.            *)
FramesExclusive ==
  \A p, q \in InUse : pages[p].frame = pages[q].frame => p = q

(* "Identity map from 0x0 to the end of used memory [...] we allocate and  *)
(* extra frame so the heap can be properly initialized" (paging.h:96-101): *)
(* once paging is on, everything kmalloc has placed or will place, the     *)
(* page tables themselves included, is found at its physical address.      *)
IdentityMapped ==
  pc \in {"allocate_heap_pages", "create_heap", "running"} =>
    \A page \in Page :
      page * FRAME_SIZE < placement_address =>
        pages[page].present /\ pages[page].frame = page

(* A frame's bit is set exactly when a page is backed by it ("0=free,      *)
(* 1=used", paging.c:18-24): no frame is lost, none handed out twice.      *)
BitmapExact == frame_allocations = {pages[page].frame : page \in Backed}

(* The words of the heap are there when create_heap and alloc write them.  *)
HeapBacked ==
  /\ pc = "create_heap" => KHEAP_PAGE .. KHEAP_PAGE + HeapPages - 1 \subseteq Backed
  /\ pc = "running" => KHEAP_PAGE .. heap_end - 1 \subseteq Backed

(* identity_map catches up with the placement address it moves itself.     *)
Boots == <>(pc = "running")
=============================================================================
