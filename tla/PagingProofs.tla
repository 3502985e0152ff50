----------------------------- MODULE PagingProofs -----------------------------
(***************************************************************************)
(* For every size of a frame, of the tables and of the memory, and every   *)
(* kernel image the memory has room for: the boot gives each page a frame  *)
(* of its own, the bitmap says so, and the identity map covers all that    *)
(* is placed while it is being made.                                       *)
(***************************************************************************)
EXTENDS Paging, TLAPS

(* Nothing is freed too early: frames are handed out in ascending order,   *)
(* first to the n pages identity_map makes, then to h pages of the heap.   *)
Entry(n, h, page) ==
  IF page < n THEN [present |-> TRUE, frame |-> page]
  ELSE IF page \in KHEAP_PAGE .. KHEAP_PAGE + h - 1
  THEN [present |-> TRUE, frame |-> n + (page - KHEAP_PAGE)]
  ELSE [present |-> FALSE, frame |-> 0]

Ascending(n, h) ==
  /\ pages = [page \in Page |-> Entry(n, h, page)]
  /\ frame_allocations = 0 .. n + h - 1

(* How far each function of init_paging has come.                          *)
Early == {"set_up_frame_allocations", "set_up_page_directory", "map_heap_pages"}
Later == {"allocate_heap_pages", "create_heap", "running"}
Progress(n, h) ==
  /\ pc \in Early => n = 0 /\ h = 0
  /\ pc = "identity_map" => n = i /\ h = 0
  /\ pc \in Later => n > 0
  /\ pc \in {"allocate_heap_pages", "create_heap"} =>
       n * FRAME_SIZE >= placement_address + FRAME_SIZE
  /\ pc = "allocate_heap_pages" => h = i - KHEAP_PAGE /\ h <= HeapPages
  /\ pc = "create_heap" => h = HeapPages
  /\ pc = "running" => /\ n * FRAME_SIZE >= placement_address
                       /\ KHEAP_PAGE + h >= heap_end
  /\ n > 0 => n + MaxPages <= num_of_frames

(* The pages of the heap share one table, made before identity_map begins, *)
(* and behind it no table is made without a page of its own.               *)
Tabled ==
  /\ pc = "map_heap_pages" /\ i > KHEAP_PAGE => tables[TableOf(KHEAP_PAGE)] # 0
  /\ pc \in Later \cup {"identity_map"} => tables[TableOf(KHEAP_PAGE)] # 0
  /\ pc = "identity_map" => \A page \in 0 .. i - 1 : tables[TableOf(page)] # 0

(* What is placed grows by at most two frames for each table.              *)
TablesBelow(page) == IF page = 0 THEN 0 ELSE TableOf(page - 1) + 1
Image(end) == end + (num_of_frames \div SECTION)
Reach(end) ==
  CASE pc = "set_up_frame_allocations" -> end
    [] pc = "set_up_page_directory" -> Image(end)
    [] pc = "map_heap_pages" ->
         Image(end) + 3 * FRAME_SIZE
           + (IF tables[TableOf(KHEAP_PAGE)] # 0 THEN 2 * FRAME_SIZE ELSE 0)
    [] OTHER -> Image(end) + 5 * FRAME_SIZE + 2 * FRAME_SIZE * TablesBelow(i)
Placed ==
  pc \notin Later => \E end \in KernelEnds : placement_address <= Reach(end)

Counters ==
  /\ pc \in Early \cup {"identity_map"} \cup Later
  /\ placement_address \in Nat \ {0}
  /\ tables \in [0 .. TableOf(KHEAP_PAGE) -> Nat]
  /\ pc \in {"set_up_frame_allocations", "set_up_page_directory"} => i = 0
  /\ pc = "map_heap_pages" => i \in KHEAP_PAGE .. KHEAP_PAGE + HeapPages
  /\ pc = "identity_map" => i \in 0 .. KHEAP_PAGE
  /\ pc \in Later => i \in KHEAP_PAGE .. KHEAP_PAGE + HeapPages
  /\ heap_end \in KHEAP_PAGE .. KHEAP_PAGE + MaxPages

PInv ==
  /\ Counters /\ Tabled /\ Placed
  /\ \E n \in 0 .. KHEAP_PAGE, h \in 0 .. MaxPages : Ascending(n, h) /\ Progress(n, h)

(* The caller gives back one page at a time, and so no frame: the loop of  *)
(* contract leaves the frame of its last page.                             *)
OnePage == ContractBy <= 1

-----------------------------------------------------------------------------
(* Arithmetic.                                                             *)

LEMMA Sizes ==
  /\ FRAME_SIZE \in Nat /\ FRAME_SIZE > 0 /\ HEAP_T \in Nat /\ HEAP_T > 0
  /\ HEAP_T <= FRAME_SIZE
  /\ TABLE \in Nat /\ TABLE > 1 /\ SECTION \in Nat /\ SECTION > 0
  /\ num_of_frames \in Nat /\ num_of_frames > 0
  /\ KernelEnds \subseteq Nat \ {0}
  /\ KHEAP_PAGE \in Nat /\ KHEAP_PAGE % TABLE = 0
  /\ HeapPages \in Nat /\ HeapPages > 0 /\ MaxPages \in Nat
  /\ HeapPages <= MaxPages /\ MaxPages < TABLE
  /\ MinPages \in Nat /\ MinPages > 0 /\ MinPages <= HeapPages
  /\ ContractBy \in Nat
BY PagingAssumption

LEMMA TableOfPage ==
  /\ \A page \in Page : TableOf(page) \in 0 .. TableOf(KHEAP_PAGE)
  /\ \A page \in KHEAP_PAGE .. KHEAP_PAGE + TABLE - 1 :
       TableOf(page) = TableOf(KHEAP_PAGE)
  /\ \A p, q \in Page : p <= q => TableOf(p) <= TableOf(q)
<1> DEFINE k == KHEAP_PAGE \div TABLE
<1>1. k \in Nat /\ KHEAP_PAGE = TABLE * k
  BY Sizes
<1>2. ASSUME NEW p \in Nat PROVE p \div TABLE \in Nat
  BY Sizes
<1>3. ASSUME NEW p \in Nat, NEW q \in Nat, p <= q
      PROVE  p \div TABLE <= q \div TABLE
  BY Sizes, <1>3
<1>4. ASSUME NEW p \in KHEAP_PAGE .. KHEAP_PAGE + TABLE - 1 PROVE p \div TABLE = k
  <2> DEFINE r == p - KHEAP_PAGE
  <2>1. r \in 0 .. TABLE - 1 /\ p = TABLE * k + r
    BY <1>1, Sizes
  <2> HIDE DEF r, k
  <2> QED BY <1>1, <2>1, Sizes
<1>5. ASSUME NEW p \in Page PROVE p \div TABLE \in 0 .. k
  <2>1. CASE p < KHEAP_PAGE
    BY <1>2, <1>3, <2>1, Sizes DEF Page
  <2>2. CASE p >= KHEAP_PAGE
    BY <1>1, <1>4, <2>2, Sizes DEF Page
  <2> QED BY <2>1, <2>2, Sizes DEF Page
<1> QED BY <1>3, <1>4, <1>5, Sizes DEF TableOf, Page

(* kmalloc_int moves on by at most a frame.                                *)
LEMMA AlignedBounds ==
  ASSUME NEW a \in Nat
  PROVE  Aligned(a) \in Nat /\ a <= Aligned(a) /\ Aligned(a) <= a + FRAME_SIZE
<1> DEFINE q == a \div FRAME_SIZE
<1>1. q \in Nat /\ FRAME_SIZE * q <= a /\ a < FRAME_SIZE * q + FRAME_SIZE
  BY Sizes
<1>2. FRAME_SIZE * q \in Nat
  BY <1>1, Sizes
<1> HIDE DEF q
<1>3. Aligned(a) = IF a >= FRAME_SIZE THEN q * FRAME_SIZE + FRAME_SIZE ELSE a
  BY DEF Aligned, q
<1>4. q * FRAME_SIZE = FRAME_SIZE * q
  BY <1>1, Sizes
<1> QED BY <1>1, <1>2, <1>3, <1>4, Sizes

-----------------------------------------------------------------------------
(* What get_page and alloc_frame do.                                       *)

(* get_page makes the table of its page, and no table is ever lost.        *)
LEMMA GetPage ==
  ASSUME NEW page \in Page, get_page(page), placement_address \in Nat \ {0},
         tables \in [0 .. TableOf(KHEAP_PAGE) -> Nat]
  PROVE  /\ tables' \in [0 .. TableOf(KHEAP_PAGE) -> Nat]
         /\ \A t \in 0 .. TableOf(KHEAP_PAGE) : tables[t] # 0 => tables'[t] # 0
         /\ tables'[TableOf(page)] # 0
         /\ placement_address' \in Nat
         /\ placement_address <= placement_address'
         /\ placement_address' <= placement_address + 2 * FRAME_SIZE
         /\ tables[TableOf(page)] # 0 => UNCHANGED <<tables, placement_address>>
<1> DEFINE a == Aligned(placement_address)
<1>1. a \in Nat /\ placement_address <= a /\ a <= placement_address + FRAME_SIZE
  BY AlignedBounds
<1>2. TableOf(page) \in 0 .. TableOf(KHEAP_PAGE)
  BY TableOfPage
<1> HIDE DEF a
<1>3. CASE tables[TableOf(page)] # 0
  BY <1>2, <1>3, Sizes DEF get_page
<1>4. CASE tables[TableOf(page)] = 0
  <2>1. tables' = [tables EXCEPT ![TableOf(page)] = a]
        /\ placement_address' = a + FRAME_SIZE
    BY <1>4 DEF get_page, page_table_t, a
  <2> QED BY <1>1, <1>2, <1>4, <2>1, Sizes
<1> QED BY <1>3, <1>4

(* The first free frame behind an initial segment of them.                 *)
LEMMA FirstFree ==
  ASSUME NEW k \in Nat, k < num_of_frames, frame_allocations = 0 .. k - 1
  PROVE  first_free_frame = k
<1> DEFINE free == (0 .. num_of_frames - 1) \ frame_allocations
<1>1. free = k .. num_of_frames - 1
  BY Sizes
<1>2. k \in free /\ \A f \in free : k <= f /\ (f <= k => f = k)
  BY <1>1, Sizes
<1>3. Min(free) = k
  BY <1>2 DEF Min
<1> QED BY <1>2, <1>3 DEF first_free_frame

(* A page without a frame is given the next one.                           *)
LEMMA AllocFrame ==
  ASSUME NEW n \in Nat, NEW h \in Nat, Ascending(n, h), n + h < num_of_frames,
         NEW page \in Page, pages[page].frame = 0, alloc_frame(page)
  PROVE  /\ pages' = [pages EXCEPT ![page] = [present |-> TRUE, frame |-> n + h]]
         /\ frame_allocations' = 0 .. n + h
<1>1. first_free_frame = n + h
  BY FirstFree DEF Ascending
<1>2. frame_allocations' = frame_allocations \cup {n + h}
  BY <1>1 DEF alloc_frame, set_frame
<1> QED BY <1>1, <1>2 DEF alloc_frame, Ascending

(* A page of the image's mapping is given the frame of its own number.     *)
LEMMA MapsNext ==
  ASSUME NEW n \in Nat, n < KHEAP_PAGE, n < num_of_frames,
         Ascending(n, 0), alloc_frame(n)
  PROVE  Ascending(n + 1, 0)'
<1>1. n \in Page
  BY Sizes DEF Page
<1>2. pages[n] = [present |-> FALSE, frame |-> 0]
  BY <1>1, Sizes DEF Ascending, Entry
<1>3. /\ pages' = [pages EXCEPT ![n] = [present |-> TRUE, frame |-> n]]
      /\ frame_allocations' = 0 .. n
  BY <1>1, <1>2, AllocFrame
<1>4. ASSUME NEW page \in Page
      PROVE  Entry(n + 1, 0, page) =
               IF page = n THEN [present |-> TRUE, frame |-> n] ELSE Entry(n, 0, page)
  <2>1. page \in Nat /\ (page < n + 1 <=> (page < n \/ page = n)) /\ ~(n < n)
    BY Sizes DEF Page
  <2>2. page \notin KHEAP_PAGE .. KHEAP_PAGE + 0 - 1
    BY Sizes
  <2> QED BY <2>1, <2>2 DEF Entry
<1>5. pages' = [page \in Page |-> Entry(n + 1, 0, page)]
  BY <1>3, <1>4 DEF Ascending
<1>6. 0 .. (n + 1) + 0 - 1 = 0 .. n
  BY Sizes
<1>7. Ascending(n + 1, 0)' <=>
        /\ pages' = [page \in Page |-> Entry(n + 1, 0, page)]
        /\ frame_allocations' = 0 .. (n + 1) + 0 - 1
  BY DEF Ascending, Entry
<1> QED BY <1>3, <1>5, <1>6, <1>7

(* The next page of the heap is given the next frame.                      *)
LEMMA BacksNext ==
  ASSUME NEW n \in 0 .. KHEAP_PAGE, NEW h \in Nat, h < MaxPages, n + h < num_of_frames,
         Ascending(n, h), alloc_frame(KHEAP_PAGE + h)
  PROVE  Ascending(n, h + 1)'
<1> DEFINE next == KHEAP_PAGE + h
<1>1. next \in Page
  BY Sizes DEF Page
<1>2. pages[next] = [present |-> FALSE, frame |-> 0]
  BY <1>1, Sizes DEF Ascending, Entry
<1>3. /\ pages' = [pages EXCEPT ![next] = [present |-> TRUE, frame |-> n + h]]
      /\ frame_allocations' = 0 .. n + h
  <2>1. n \in Nat /\ pages[next].frame = 0
    BY <1>2, Sizes
  <2> QED BY <1>1, <2>1, AllocFrame
<1>4. ASSUME NEW page \in Page
      PROVE  Entry(n, h + 1, page) =
               IF page = next THEN [present |-> TRUE, frame |-> n + h]
                              ELSE Entry(n, h, page)
  <2>1. /\ ~(next < n) /\ n + (next - KHEAP_PAGE) = n + h
        /\ next \in KHEAP_PAGE .. KHEAP_PAGE + (h + 1) - 1
    BY Sizes
  <2>2. page # next => (page \in KHEAP_PAGE .. KHEAP_PAGE + (h + 1) - 1
                        <=> page \in KHEAP_PAGE .. KHEAP_PAGE + h - 1)
    BY Sizes DEF Page
  <2> HIDE DEF next
  <2>3. CASE page = next
    BY <2>1, <2>3 DEF Entry
  <2>4. CASE page # next
    BY <2>2, <2>4 DEF Entry
  <2> QED BY <2>3, <2>4
<1>5. pages' = [page \in Page |-> Entry(n, h + 1, page)]
  BY <1>3, <1>4 DEF Ascending
<1>6. 0 .. n + (h + 1) - 1 = 0 .. n + h
  BY Sizes
<1>7. Ascending(n, h + 1)' <=>
        /\ pages' = [page \in Page |-> Entry(n, h + 1, page)]
        /\ frame_allocations' = 0 .. n + (h + 1) - 1
  BY DEF Ascending, Entry
<1> QED BY <1>3, <1>5, <1>6, <1>7

(* A page of the heap that is backed already keeps its frame.              *)
LEMMA KeepsFrame ==
  ASSUME NEW n \in 1 .. KHEAP_PAGE, NEW h \in 0 .. MaxPages,
         NEW page \in KHEAP_PAGE .. KHEAP_PAGE + h - 1,
         Ascending(n, h), alloc_frame(page)
  PROVE  UNCHANGED <<pages, frame_allocations>>
<1>1. page \in Page /\ pages[page].frame = n + (page - KHEAP_PAGE)
  BY Sizes DEF Ascending, Entry, Page
<1> QED BY <1>1, Sizes DEF alloc_frame

-----------------------------------------------------------------------------
(* The first page is mapped before identity_map can stop.                  *)

LEMMA InitPInv == Init => PInv
<1> SUFFICES ASSUME Init PROVE PInv
  OBVIOUS
<1>1. Counters /\ Tabled
  BY Sizes DEF Init, Counters, Tabled, Early, Later, TableOf
<1>2. Placed
  BY Sizes DEF Init, Placed, Reach, Later
<1>3. Ascending(0, 0)
  BY Sizes DEF Init, Ascending, Entry, Page
<1>4. Progress(0, 0)
  BY DEF Init, Progress, Early, Later
<1> QED BY <1>1, <1>2, <1>3, <1>4, Sizes DEF PInv

LEMMA BitmapStep == PInv /\ set_up_frame_allocations => PInv'
<1> SUFFICES ASSUME PInv, set_up_frame_allocations PROVE PInv'
  OBVIOUS
<1> USE DEF set_up_frame_allocations, PInv
<1>1. Counters' /\ Tabled'
  BY Sizes DEF Counters, Tabled, Early, Later
<1>2. Placed'
  <2>1. /\ pc = "set_up_frame_allocations" /\ pc' = "set_up_page_directory"
        /\ placement_address \in Nat
    BY DEF Counters
  <2>2. PICK end \in KernelEnds : placement_address <= end
    BY <2>1 DEF Placed, Reach, Later
  <2>3. placement_address' <= Image(end)
    BY <2>1, <2>2, Sizes DEF Image
  <2> QED BY <2>1, <2>3 DEF Placed, Reach
<1> QED BY <1>1, <1>2 DEF Ascending, Entry, Progress, Early, Later

LEMMA DirectoryStep == PInv /\ set_up_page_directory => PInv'
<1> SUFFICES ASSUME PInv, set_up_page_directory PROVE PInv'
  OBVIOUS
<1> USE DEF set_up_page_directory, PInv
<1>1. /\ Aligned(placement_address) \in Nat
      /\ placement_address <= Aligned(placement_address)
      /\ Aligned(placement_address) <= placement_address + FRAME_SIZE
  BY AlignedBounds DEF Counters
<1>2. Counters' /\ Tabled'
  BY <1>1, Sizes DEF Counters, Tabled, Early, Later
<1>3. Placed'
  <2>1. PICK end \in KernelEnds : placement_address <= Image(end)
    BY DEF Placed, Reach, Later
  <2>2. end \in Nat /\ Image(end) \in Nat
    BY Sizes DEF Image
  <2>3. placement_address' <= Image(end) + 3 * FRAME_SIZE
    BY <1>1, <2>1, <2>2, Sizes DEF Counters
  <2>4. Image(end)' = Image(end)
    BY DEF Image
  <2>5. Reach(end)' >= Image(end) + 3 * FRAME_SIZE
    BY <2>2, Sizes DEF Reach, Image
  <2>6. Reach(end)' \in Nat
    BY <2>2, Sizes DEF Reach, Image
  <2>7. placement_address' \in Nat
    BY <1>1, Sizes
  <2> QED BY <2>2, <2>3, <2>5, <2>6, <2>7, Sizes DEF Placed
<1> QED BY <1>2, <1>3 DEF Ascending, Entry, Progress, Early, Later

(* The one table of the heap's pages is made by the first of them.         *)
LEMMA HeapTablesStep == PInv /\ map_heap_pages => PInv'
<1> SUFFICES ASSUME PInv, map_heap_pages PROVE PInv'
  OBVIOUS
<1> USE DEF map_heap_pages, PInv, InHeap
<1>0. /\ i \in KHEAP_PAGE .. KHEAP_PAGE + HeapPages /\ i \in Nat
      /\ pc = "map_heap_pages" /\ placement_address \in Nat \ {0}
      /\ tables \in [0 .. TableOf(KHEAP_PAGE) -> Nat]
      /\ TableOf(KHEAP_PAGE) \in 0 .. TableOf(KHEAP_PAGE)
  BY Sizes, TableOfPage DEF Counters, Page
<1>1. PICK end \in KernelEnds : placement_address <= Reach(end)
  BY DEF Placed, Later
<1>2. Image(end) \in Nat /\ Image(end)' = Image(end)
  BY Sizes DEF Image
<1>3. CASE InHeap(i)
  <2>1. i \in Page /\ TableOf(i) = TableOf(KHEAP_PAGE)
    BY <1>0, <1>3, Sizes, TableOfPage DEF Page
  <2>2. /\ tables' \in [0 .. TableOf(KHEAP_PAGE) -> Nat]
        /\ tables'[TableOf(KHEAP_PAGE)] # 0
        /\ placement_address' \in Nat
        /\ placement_address <= placement_address'
        /\ placement_address' <= placement_address + 2 * FRAME_SIZE
        /\ tables[TableOf(KHEAP_PAGE)] # 0 => placement_address' = placement_address
    BY <1>0, <1>3, <2>1, GetPage
  <2>3. Counters'
    BY <1>0, <1>3, <2>2, Sizes DEF Counters, Early, Later
  <2>4. Tabled'
    BY <1>0, <1>3, <2>2, Sizes DEF Tabled, Later
  <2> DEFINE made == tables[TableOf(KHEAP_PAGE)] # 0
             grown(m) == Image(end) + 3 * FRAME_SIZE + (IF m THEN 2 * FRAME_SIZE ELSE 0)
  <2>5. Reach(end) = grown(made) /\ Reach(end)' = grown(TRUE)
    BY <1>0, <1>2, <1>3, <2>2, Sizes DEF Reach
  <2>6. placement_address' <= Reach(end)'
    BY <1>0, <1>1, <1>2, <2>2, <2>5, Sizes
  <2> QED BY <1>0, <1>3, <2>3, <2>4, <2>6 DEF Placed, Ascending, Progress, Early, Later
<1>4. CASE ~InHeap(i)
  <2>1. i > KHEAP_PAGE
    BY <1>0, <1>4, Sizes
  <2>2. Counters' /\ Tabled'
    BY <1>0, <1>4, <2>1, Sizes DEF Counters, Tabled, Early, Later
  <2>3. Reach(end) = Image(end) + 3 * FRAME_SIZE + 2 * FRAME_SIZE
    BY <1>0, <2>1 DEF Reach, Tabled
  <2>4. Reach(end)' = Image(end) + 5 * FRAME_SIZE + 2 * FRAME_SIZE * 0
    BY <1>0, <1>2, <1>4 DEF Reach, TablesBelow
  <2>5. placement_address' <= Reach(end)'
    BY <1>0, <1>1, <1>2, <1>4, <2>3, <2>4, Sizes
  <2> QED BY <1>0, <1>4, <2>2, <2>5 DEF Placed, Ascending, Progress, Early, Later
<1> QED BY <1>3, <1>4

(* Two frames more for each table that has pages below page.               *)
LEMMA TablesBelowNext ==
  ASSUME NEW page \in Nat, page < KHEAP_PAGE
  PROVE  /\ TablesBelow(page) \in Nat /\ TablesBelow(page + 1) \in Nat
         /\ TablesBelow(page) <= TablesBelow(page + 1)
         /\ TablesBelow(page) <= TableOf(page) + 1
         /\ (\A p \in 0 .. page - 1 : TableOf(p) # TableOf(page))
              => TablesBelow(page) + 1 <= TablesBelow(page + 1)
<1>1. page \in Page /\ (page # 0 => page - 1 \in Page) /\ TableOf(KHEAP_PAGE) \in Nat
  BY Sizes DEF Page, TableOf
<1>2. TableOf(page) \in Nat /\ (page # 0 => TableOf(page - 1) \in Nat)
  BY <1>1, TableOfPage, Sizes
<1>3. page # 0 => TableOf(page - 1) <= TableOf(page)
  BY <1>1, TableOfPage, Sizes
<1>4. /\ TablesBelow(page + 1) = TableOf(page) + 1
      /\ TablesBelow(page) = IF page = 0 THEN 0 ELSE TableOf(page - 1) + 1
  BY Sizes DEF TablesBelow
<1>5. page # 0 => page - 1 \in 0 .. page - 1
  OBVIOUS
<1> QED BY <1>2, <1>3, <1>4, <1>5

(* While a page is mapped there are frames for it and for the largest heap.*)
LEMMA FramesSuffice ==
  ASSUME Counters, Placed, pc = "identity_map", Mapped(i), i < KHEAP_PAGE
  PROVE  i + 1 + MaxPages <= num_of_frames
<1>1. i \in Nat /\ placement_address \in Nat
  BY Sizes DEF Counters
<1>2. PICK end \in KernelEnds : placement_address <= Reach(end)
  BY DEF Placed, Later
<1> DEFINE b == TablesBelow(i)
           t == i \div TABLE + 1
           s == num_of_frames \div SECTION
<1>3. b \in Nat /\ t \in Nat /\ b <= t
  BY <1>1, TablesBelowNext, Sizes DEF TableOf
<1>4. end \in Nat /\ s \in Nat
  BY Sizes
<1>5. Reach(end) = end + s + 5 * FRAME_SIZE + 2 * FRAME_SIZE * b
  BY DEF Reach, Image
<1> HIDE DEF b, t, s
<1>6. 2 * FRAME_SIZE * b <= 2 * FRAME_SIZE * t /\ 2 * FRAME_SIZE * t \in Nat
      /\ 2 * FRAME_SIZE * b \in Nat
  BY <1>3, Sizes
<1>7. i * FRAME_SIZE < placement_address + FRAME_SIZE /\ i * FRAME_SIZE \in Nat
  BY <1>1, Sizes DEF Mapped
<1>8. i * FRAME_SIZE < end + s + 6 * FRAME_SIZE + 2 * FRAME_SIZE * t
  BY <1>1, <1>2, <1>4, <1>5, <1>6, <1>7, Sizes
<1>9. i * FRAME_SIZE < end + (num_of_frames \div SECTION) + 6 * FRAME_SIZE
                         + 2 * FRAME_SIZE * (i \div TABLE + 1)
  BY <1>8 DEF s, t
<1>10. i \in 0 .. KHEAP_PAGE - 1
  BY <1>1, Sizes
<1> QED BY <1>9, <1>10, FramesAssumption

(* identity_map follows the address its own tables move.                   *)
LEMMA IdentityStep == PInv /\ identity_map => PInv'
<1> SUFFICES ASSUME PInv, identity_map PROVE PInv'
  OBVIOUS
<1>0. /\ Counters /\ Tabled /\ Placed /\ pc = "identity_map"
      /\ i \in 0 .. KHEAP_PAGE /\ i \in Nat
      /\ placement_address \in Nat \ {0} /\ placement_address \in Nat
      /\ tables \in [0 .. TableOf(KHEAP_PAGE) -> Nat]
      /\ heap_end' = heap_end
  BY Sizes DEF Counters, PInv, identity_map
<1>1. PICK end \in KernelEnds : placement_address <= Reach(end)
  BY <1>0 DEF Placed, Later
<1>2. PICK n \in 0 .. KHEAP_PAGE, h \in 0 .. MaxPages : Ascending(n, h) /\ Progress(n, h)
  BY DEF PInv
<1>3. n = i /\ n \in Nat /\ h = 0 /\ Ascending(n, 0)
  BY <1>0, <1>2 DEF Progress
<1>4. CASE Mapped(i)
  <2>1. /\ i < KHEAP_PAGE /\ get_page(i) /\ alloc_frame(i)
        /\ i' = i + 1 /\ pc' = "identity_map"
    BY <1>0, <1>4 DEF identity_map
  <2>2. i + 1 + MaxPages <= num_of_frames
    BY <1>0, <1>4, <2>1, FramesSuffice
  <2>3. /\ i \in Page /\ TableOf(i) \in 0 .. TableOf(KHEAP_PAGE)
        /\ KHEAP_PAGE \in Page /\ TableOf(KHEAP_PAGE) \in 0 .. TableOf(KHEAP_PAGE)
        /\ \A p \in 0 .. i - 1 : TableOf(p) \in 0 .. TableOf(KHEAP_PAGE)
    BY <1>0, <2>1, Sizes, TableOfPage DEF Page
  <2>4. /\ tables' \in [0 .. TableOf(KHEAP_PAGE) -> Nat]
        /\ \A t \in 0 .. TableOf(KHEAP_PAGE) : tables[t] # 0 => tables'[t] # 0
        /\ tables'[TableOf(i)] # 0
        /\ placement_address' \in Nat
        /\ placement_address <= placement_address'
        /\ placement_address' <= placement_address + 2 * FRAME_SIZE
        /\ tables[TableOf(i)] # 0 => placement_address' = placement_address
    BY <1>0, <2>1, <2>3, GetPage
  <2>5. Counters'
    BY <1>0, <2>1, <2>4, Sizes DEF Counters, Early, Later
  <2>6. Tabled'
    <3>1. tables[TableOf(KHEAP_PAGE)] # 0 /\ \A p \in 0 .. i - 1 : tables[TableOf(p)] # 0
      BY <1>0 DEF Tabled
    <3>2. tables'[TableOf(KHEAP_PAGE)] # 0
      BY <2>3, <2>4, <3>1
    <3>3. ASSUME NEW p \in 0 .. i' - 1 PROVE tables'[TableOf(p)] # 0
      BY <1>0, <2>1, <2>3, <2>4, <3>1
    <3> QED BY <2>1, <3>2, <3>3 DEF Tabled, TableOf
  <2>7. Placed'
    <3> DEFINE b == TablesBelow(i)
               c == TablesBelow(i + 1)
    <3>1. b \in Nat /\ c \in Nat /\ b <= c
      BY <1>0, <2>1, TablesBelowNext
    <3>2. tables[TableOf(i)] = 0 => b + 1 <= c
      <4>1. \A p \in 0 .. i - 1 : tables[TableOf(p)] # 0
        BY <1>0 DEF Tabled
      <4> QED BY <1>0, <2>1, <4>1, TablesBelowNext
    <3>3. Image(end) \in Nat
      BY Sizes DEF Image
    <3>7. Reach(end) = Image(end) + 5 * FRAME_SIZE + 2 * FRAME_SIZE * b
      BY <1>0 DEF Reach
    <3>4. Reach(end)' = Image(end) + 5 * FRAME_SIZE + 2 * FRAME_SIZE * c
      BY <2>1 DEF Reach, Image, TablesBelow, TableOf
    <3> HIDE DEF b, c
    <3>5. /\ 2 * FRAME_SIZE * b <= 2 * FRAME_SIZE * c
          /\ b + 1 <= c => 2 * FRAME_SIZE * b + 2 * FRAME_SIZE <= 2 * FRAME_SIZE * c
          /\ 2 * FRAME_SIZE * b \in Nat /\ 2 * FRAME_SIZE * c \in Nat
      BY <3>1, Sizes
    <3>6. placement_address' <= Reach(end)'
      BY <1>0, <1>1, <2>4, <3>2, <3>3, <3>4, <3>5, <3>7, Sizes
    <3> QED BY <3>6 DEF Placed
  <2>8. Ascending(n + 1, 0)'
    <3>1. n < KHEAP_PAGE /\ n < num_of_frames /\ alloc_frame(n)
      BY <1>0, <1>3, <2>1, <2>2, Sizes
    <3> QED BY <1>3, <3>1, MapsNext
  <2>9. Progress(n + 1, 0)'
    BY <1>3, <2>1, <2>2 DEF Progress, Early, Later
  <2>10. n + 1 \in 0 .. KHEAP_PAGE /\ 0 \in 0 .. MaxPages
    BY <1>0, <1>3, <2>1, Sizes
  <2> QED BY <2>5, <2>6, <2>7, <2>8, <2>9, <2>10 DEF PInv
<1>5. CASE ~Mapped(i)
  <2>1. /\ pc' = "allocate_heap_pages" /\ i' = KHEAP_PAGE
        /\ UNCHANGED <<tables, placement_address, pages, frame_allocations>>
    BY <1>5 DEF identity_map
  <2>2. n > 0 /\ n * FRAME_SIZE >= placement_address + FRAME_SIZE
    <3>1. i * FRAME_SIZE >= placement_address + FRAME_SIZE
      BY <1>0, <1>5, Sizes DEF Mapped
    <3>2. i = 0 => i * FRAME_SIZE = 0
      BY Sizes
    <3> QED BY <1>0, <1>3, <3>1, <3>2, Sizes
  <2>3. Counters' /\ Tabled' /\ Placed'
    BY <1>0, <2>1, Sizes DEF Counters, Tabled, Placed, Early, Later, TableOf
  <2>4. Progress(n, 0)'
    <3>1. n + MaxPages <= num_of_frames
      BY <1>2, <1>3, <2>2 DEF Progress
    <3> QED BY <2>1, <2>2, <3>1, Sizes DEF Progress, Early, Later
  <2>5. Ascending(n, 0)'
    BY <1>3, <2>1 DEF Ascending, Entry
  <2>6. 0 \in 0 .. MaxPages
    BY Sizes
  <2> QED BY <2>3, <2>4, <2>5, <2>6 DEF PInv
<1> QED BY <1>4, <1>5

(* The table of a page of the heap is there: get_page places nothing.      *)
LEMMA HeapPageTable ==
  ASSUME Tabled, pc \in Later, NEW page \in KHEAP_PAGE .. KHEAP_PAGE + MaxPages - 1,
         get_page(page)
  PROVE  UNCHANGED <<tables, placement_address>>
<1>1. TableOf(page) = TableOf(KHEAP_PAGE)
  BY TableOfPage, Sizes
<1> QED BY <1>1 DEF Tabled, get_page

LEMMA HeapPagesStep == PInv /\ allocate_heap_pages => PInv'
<1> SUFFICES ASSUME PInv, allocate_heap_pages PROVE PInv'
  OBVIOUS
<1>0. /\ Counters /\ Tabled /\ Placed /\ pc = "allocate_heap_pages" /\ pc \in Later
      /\ i \in KHEAP_PAGE .. KHEAP_PAGE + HeapPages /\ i \in Nat
      /\ placement_address \in Nat \ {0} /\ heap_end' = heap_end
  BY Sizes DEF Counters, PInv, allocate_heap_pages, Later
<1>1. PICK n \in 0 .. KHEAP_PAGE, h \in 0 .. MaxPages : Ascending(n, h) /\ Progress(n, h)
  BY DEF PInv
<1>2. /\ n > 0 /\ n \in Nat /\ n + MaxPages <= num_of_frames
      /\ n * FRAME_SIZE >= placement_address + FRAME_SIZE
      /\ h = i - KHEAP_PAGE /\ h <= HeapPages /\ h \in Nat
  BY <1>0, <1>1, Sizes DEF Progress
<1>3. CASE InHeap(i)
  <2>1. /\ get_page(i) /\ alloc_frame(i) /\ i' = i + 1 /\ pc' = pc
        /\ i < KHEAP_PAGE + HeapPages
    BY <1>3 DEF allocate_heap_pages, InHeap
  <2>2. UNCHANGED <<tables, placement_address>>
    BY <1>0, <2>1, HeapPageTable, Sizes
  <2>3. Counters' /\ Tabled' /\ Placed'
    BY <1>0, <2>1, <2>2, Sizes DEF Counters, Tabled, Placed, Early, Later, TableOf
  <2>4. h + 1 \in 0 .. MaxPages
    BY <1>0, <1>2, <2>1, Sizes
  <2>5. Ascending(n, h + 1)'
    <3>1. i = KHEAP_PAGE + h /\ h < MaxPages /\ n + h < num_of_frames
      BY <1>0, <1>2, <2>1, Sizes
    <3> QED BY <1>1, <1>2, <2>1, <3>1, BacksNext
  <2>6. Progress(n, h + 1)'
    BY <1>0, <1>2, <2>1, <2>2, Sizes DEF Progress, Early, Later
  <2> QED BY <2>3, <2>4, <2>5, <2>6 DEF PInv
<1>4. CASE ~InHeap(i)
  <2>1. /\ pc' = "create_heap"
        /\ UNCHANGED <<i, tables, placement_address, pages, frame_allocations>>
    BY <1>4 DEF allocate_heap_pages
  <2>2. h = HeapPages
    BY <1>0, <1>2, <1>4, Sizes DEF InHeap
  <2>3. Counters' /\ Tabled' /\ Placed'
    BY <1>0, <2>1, Sizes DEF Counters, Tabled, Placed, Early, Later, TableOf
  <2>4. Progress(n, h)'
    BY <1>2, <2>1, <2>2 DEF Progress, Early, Later
  <2>5. Ascending(n, h)'
    BY <1>1, <2>1 DEF Ascending, Entry
  <2> QED BY <2>3, <2>4, <2>5 DEF PInv
<1> QED BY <1>3, <1>4

(* "the extra frame": the heap_t of create_heap is within it.              *)
LEMMA CreateStep == PInv /\ create_heap => PInv'
<1> SUFFICES ASSUME PInv, create_heap PROVE PInv'
  OBVIOUS
<1>0. /\ Counters /\ Tabled /\ Placed /\ pc = "create_heap"
      /\ placement_address \in Nat \ {0}
      /\ placement_address' = placement_address + HEAP_T
      /\ heap_end' = KHEAP_PAGE + HeapPages /\ pc' = "running"
      /\ UNCHANGED <<i, frame_allocations, tables, pages>>
  BY DEF Counters, PInv, create_heap
<1>1. PICK n \in 0 .. KHEAP_PAGE, h \in 0 .. MaxPages : Ascending(n, h) /\ Progress(n, h)
  BY DEF PInv
<1>2. /\ n > 0 /\ n \in Nat /\ n + MaxPages <= num_of_frames /\ h = HeapPages
      /\ n * FRAME_SIZE >= placement_address + FRAME_SIZE
  BY <1>0, <1>1, Sizes DEF Progress, Later
<1>3. n * FRAME_SIZE \in Nat
  BY <1>2, Sizes
<1>4. Counters' /\ Tabled' /\ Placed'
  BY <1>0, Sizes DEF Counters, Tabled, Placed, Early, Later, TableOf
<1>5. Progress(n, h)'
  <2>1. n * FRAME_SIZE >= placement_address'
    BY <1>0, <1>2, <1>3, Sizes
  <2> QED BY <1>0, <1>2, <2>1, Sizes DEF Progress, Early, Later
<1>6. Ascending(n, h)'
  BY <1>0, <1>1 DEF Ascending, Entry
<1> QED BY <1>4, <1>5, <1>6 DEF PInv

(* A page the heap gave back and takes again has kept its frame.           *)
LEMMA ExpandStep == PInv /\ expand => PInv'
<1> SUFFICES ASSUME PInv, expand PROVE PInv'
  OBVIOUS
<1>0. /\ Counters /\ Tabled /\ Placed /\ pc = "running" /\ pc \in Later /\ pc' = pc
      /\ i' = i /\ heap_end \in KHEAP_PAGE .. KHEAP_PAGE + MaxPages - 1
      /\ heap_end \in Nat /\ heap_end' = heap_end + 1
      /\ get_page(heap_end) /\ alloc_frame(heap_end)
  BY Sizes DEF Counters, PInv, expand, Later
<1>1. PICK n \in 0 .. KHEAP_PAGE, h \in 0 .. MaxPages : Ascending(n, h) /\ Progress(n, h)
  BY DEF PInv
<1>2. /\ n > 0 /\ n \in 1 .. KHEAP_PAGE /\ n \in Nat /\ n + MaxPages <= num_of_frames
      /\ n * FRAME_SIZE >= placement_address /\ KHEAP_PAGE + h >= heap_end /\ h \in Nat
  BY <1>0, <1>1, Sizes DEF Progress
<1>3. UNCHANGED <<tables, placement_address>>
  BY <1>0, HeapPageTable
<1>4. Counters' /\ Tabled' /\ Placed'
  BY <1>0, <1>3, Sizes DEF Counters, Tabled, Placed, Early, Later, TableOf
<1>5. CASE heap_end < KHEAP_PAGE + h
  <2>1. UNCHANGED <<pages, frame_allocations>>
    <3>1. heap_end \in KHEAP_PAGE .. KHEAP_PAGE + h - 1
      BY <1>0, <1>2, <1>5, Sizes
    <3> QED BY <1>0, <1>1, <1>2, <3>1, KeepsFrame
  <2>2. Ascending(n, h)'
    BY <1>1, <2>1 DEF Ascending, Entry
  <2>3. Progress(n, h)'
    BY <1>0, <1>2, <1>3, <1>5, Sizes DEF Progress, Early, Later
  <2> QED BY <1>4, <2>2, <2>3 DEF PInv
<1>6. CASE heap_end = KHEAP_PAGE + h
  <2>1. h < MaxPages /\ n + h < num_of_frames /\ h + 1 \in 0 .. MaxPages
    BY <1>0, <1>2, <1>6, Sizes
  <2>2. Ascending(n, h + 1)'
    BY <1>0, <1>1, <1>2, <1>6, <2>1, BacksNext
  <2>3. Progress(n, h + 1)'
    BY <1>0, <1>2, <1>3, <1>6, Sizes DEF Progress, Early, Later
  <2> QED BY <1>4, <2>1, <2>2, <2>3 DEF PInv
<1> QED BY <1>0, <1>2, <1>5, <1>6, Sizes

(* One page given back: no frame is.                                       *)
LEMMA ContractStep ==
  ASSUME OnePage, NEW new_end \in Heap, PInv, contract(new_end)
  PROVE  PInv'
<1>0. /\ Counters /\ Tabled /\ Placed /\ pc = "running" /\ pc' = pc
      /\ new_end \in KHEAP_PAGE + MinPages .. heap_end - 1
      /\ heap_end - new_end <= 1
      /\ heap_end \in Nat /\ heap_end \in KHEAP_PAGE .. KHEAP_PAGE + MaxPages
      /\ heap_end' = new_end
      /\ UNCHANGED <<i, placement_address, tables>>
      /\ free_frame(new_end + 1 .. heap_end - 1)
  BY Sizes DEF Counters, PInv, contract, OnePage
<1>1. PICK n \in 0 .. KHEAP_PAGE, h \in 0 .. MaxPages : Ascending(n, h) /\ Progress(n, h)
  BY DEF PInv
<1>2. new_end + 1 .. heap_end - 1 = {}
  BY <1>0, Sizes
<1>3. UNCHANGED <<pages, frame_allocations>>
  <2>1. /\ frame_allocations' = frame_allocations \ {}
        /\ pages' = [page \in Page |-> pages[page]]
    BY <1>0, <1>2, Zenon DEF free_frame
  <2> QED BY <1>1, <2>1 DEF Ascending
<1>4. Counters' /\ Tabled' /\ Placed'
  BY <1>0, Sizes DEF Counters, Tabled, Placed, Early, Later, TableOf
<1>5. Ascending(n, h)'
  BY <1>1, <1>3 DEF Ascending, Entry
<1>6. Progress(n, h)'
  BY <1>0, <1>1, Sizes DEF Progress, Early, Later
<1> QED BY <1>4, <1>5, <1>6 DEF PInv

LEMMA PagingStep == OnePage /\ PInv /\ [Next]_vars => PInv'
<1> SUFFICES ASSUME OnePage, PInv, [Next]_vars PROVE PInv'
  OBVIOUS
<1>1. CASE init_paging
  BY <1>1, BitmapStep, DirectoryStep, HeapTablesStep, IdentityStep, HeapPagesStep,
     CreateStep DEF init_paging
<1>2. CASE expand
  BY <1>2, ExpandStep
<1>3. CASE \E new_end \in Heap : contract(new_end)
  BY <1>3, ContractStep
<1>4. CASE UNCHANGED vars
  <2> USE <1>4 DEF vars
  <2>1. Counters' /\ Tabled'
    BY DEF PInv, Counters, Tabled, Early, Later, TableOf
  <2>2. ASSUME NEW end PROVE Reach(end)' = Reach(end)
    BY DEF Reach, Image, TablesBelow, TableOf
  <2>3. Placed'
    BY <2>2 DEF PInv, Placed, Later
  <2>4. ASSUME NEW n, NEW h, Ascending(n, h), Progress(n, h)
        PROVE  Ascending(n, h)' /\ Progress(n, h)'
    BY <2>4 DEF Ascending, Entry, Progress, Early, Later
  <2> QED BY <2>1, <2>3, <2>4 DEF PInv
<1> QED BY <1>1, <1>2, <1>3, <1>4 DEF Next

-----------------------------------------------------------------------------
(* What the invariant says of the properties.                              *)

LEMMA PInvTypeOK == PInv => TypeOK
<1> SUFFICES ASSUME PInv PROVE TypeOK
  OBVIOUS
<1>1. PICK n \in 0 .. KHEAP_PAGE, h \in 0 .. MaxPages : Ascending(n, h) /\ Progress(n, h)
  BY DEF PInv
<1>2. n \in Nat /\ h \in Nat /\ n + h <= num_of_frames
  <2>1. n \in Nat /\ h \in Nat
    BY Sizes
  <2>2. pc \in Early \cup {"identity_map"} \cup Later
    BY DEF PInv, Counters
  <2>3. n = 0 => h = 0
    BY <1>1, <2>2 DEF Progress, Early, Later
  <2> QED BY <1>1, <2>1, <2>3, Sizes DEF Progress
<1>3. frame_allocations \subseteq 0 .. num_of_frames - 1
  BY <1>1, <1>2, Sizes DEF Ascending
<1>4. ASSUME NEW page \in Page
      PROVE  Entry(n, h, page) \in [present : BOOLEAN, frame : 0 .. num_of_frames - 1]
  BY <1>2, Sizes DEF Entry, Page
<1>5. pages \in [Page -> [present : BOOLEAN, frame : 0 .. num_of_frames - 1]]
  BY <1>1, <1>4 DEF Ascending
<1>6. i \in Page /\ heap_end \in Page
  BY Sizes DEF PInv, Counters, Page, Early, Later
<1> QED BY <1>3, <1>5, <1>6 DEF TypeOK, PInv, Counters, Early, Later

LEMMA PInvFrames == PInv => FramesExclusive /\ BitmapExact
<1> SUFFICES ASSUME PInv PROVE FramesExclusive /\ BitmapExact
  OBVIOUS
<1>1. PICK n \in 0 .. KHEAP_PAGE, h \in 0 .. MaxPages : Ascending(n, h) /\ Progress(n, h)
  BY DEF PInv
<1>2. n \in Nat /\ h \in Nat /\ n <= KHEAP_PAGE /\ h <= MaxPages
  BY Sizes
<1>3. \A page \in Page : pages[page] = Entry(n, h, page)
  BY <1>1 DEF Ascending
<1>4. ASSUME NEW page \in Backed
      PROVE  /\ page \in Page
             /\ \/ page < n /\ pages[page].frame = page
                \/ /\ page \in KHEAP_PAGE .. KHEAP_PAGE + h - 1
                   /\ pages[page].frame = n + (page - KHEAP_PAGE)
  <2>1. page \in Page /\ Entry(n, h, page).present /\ pages[page] = Entry(n, h, page)
    BY <1>3 DEF Backed
  <2> QED BY <2>1 DEF Entry
<1>5. ASSUME NEW page \in Page, page < n \/ page \in KHEAP_PAGE .. KHEAP_PAGE + h - 1
      PROVE  /\ page \in Backed
             /\ pages[page].frame = IF page < n THEN page ELSE n + (page - KHEAP_PAGE)
  <2>1. pages[page] = Entry(n, h, page)
    BY <1>3
  <2>2. pages[page] = [present |-> TRUE,
                       frame |-> IF page < n THEN page ELSE n + (page - KHEAP_PAGE)]
    BY <1>5, <2>1 DEF Entry
  <2> QED BY <2>2 DEF Backed
<1>6. FramesExclusive
  <2> SUFFICES ASSUME NEW p \in InUse, NEW q \in InUse, pages[p].frame = pages[q].frame
               PROVE  p = q
    BY DEF FramesExclusive
  <2>1. p \in Backed /\ q \in Backed
    BY DEF InUse
  <2> QED BY <1>2, <1>4, <2>1, Sizes DEF Page
<1>7. BitmapExact
  <2>1. ASSUME NEW page \in Backed PROVE pages[page].frame \in 0 .. n + h - 1
    BY <1>2, <1>4, Sizes DEF Page
  <2>2. ASSUME NEW f \in 0 .. n + h - 1 PROVE \E page \in Backed : f = pages[page].frame
    <3>1. CASE f < n
      <4>1. f \in Page
        BY <1>2, <3>1, Sizes DEF Page
      <4> QED BY <1>5, <3>1, <4>1
    <3>2. CASE f >= n
      <4> DEFINE page == KHEAP_PAGE + (f - n)
      <4>1. page \in Page /\ page \in KHEAP_PAGE .. KHEAP_PAGE + h - 1 /\ ~(page < n)
            /\ n + (page - KHEAP_PAGE) = f
        BY <1>2, <3>2, Sizes DEF Page
      <4> HIDE DEF page
      <4> QED BY <1>5, <4>1
    <3> QED BY <1>2, <3>1, <3>2
  <2>3. frame_allocations = 0 .. n + h - 1
    BY <1>1 DEF Ascending
  <2> QED BY <2>1, <2>2, <2>3 DEF BitmapExact
<1> QED BY <1>6, <1>7

LEMMA PInvIdentity == PInv => IdentityMapped
<1> SUFFICES ASSUME PInv, pc \in Later, NEW page \in Page,
                    page * FRAME_SIZE < placement_address
             PROVE  pages[page].present /\ pages[page].frame = page
  BY DEF IdentityMapped, Later
<1>1. PICK n \in 0 .. KHEAP_PAGE, h \in 0 .. MaxPages : Ascending(n, h) /\ Progress(n, h)
  BY DEF PInv
<1>2. n \in Nat /\ page \in Nat /\ placement_address \in Nat
  BY Sizes DEF PInv, Counters, Page
<1>3. n * FRAME_SIZE \in Nat /\ page * FRAME_SIZE \in Nat
  BY <1>2, Sizes
<1>4. n * FRAME_SIZE >= placement_address
  BY <1>1, <1>2, <1>3, Sizes DEF Progress, Later
<1>5. page < n
  <2>1. SUFFICES ASSUME page >= n PROVE FALSE
    BY <1>2
  <2>2. page * FRAME_SIZE >= n * FRAME_SIZE
    BY <1>2, <2>1, Sizes
  <2> QED BY <1>2, <1>3, <1>4, <2>2
<1> QED BY <1>1, <1>5 DEF Ascending, Entry

LEMMA PInvHeap == PInv => HeapBacked
<1> SUFFICES ASSUME PInv PROVE HeapBacked
  OBVIOUS
<1>1. PICK n \in 0 .. KHEAP_PAGE, h \in 0 .. MaxPages : Ascending(n, h) /\ Progress(n, h)
  BY DEF PInv
<1>2. ASSUME NEW page \in KHEAP_PAGE .. KHEAP_PAGE + h - 1 PROVE page \in Backed
  <2>1. page \in Page
    BY Sizes DEF Page
  <2> QED BY <1>1, <2>1 DEF Ascending, Entry, Backed
<1>3. pc = "create_heap" => h = HeapPages
  BY <1>1 DEF Progress
<1>4. pc = "running" => KHEAP_PAGE + h >= heap_end
  BY <1>1 DEF Progress
<1>5. heap_end \in Nat /\ h \in Nat
  BY Sizes DEF PInv, Counters
<1> QED BY <1>2, <1>3, <1>4, <1>5, Sizes DEF HeapBacked

-----------------------------------------------------------------------------
(* The frames are handed out in order, one to each page the boot and the   *)
(* heap back, and the identity map ends behind all that was placed.        *)
THEOREM PagingInvariant ==
  ASSUME OnePage PROVE Spec => []PInv
<1>1. Init => PInv
  BY InitPInv
<1>2. PInv /\ [Next]_vars => PInv'
  BY PagingStep
<1> QED BY <1>1, <1>2, PTL DEF Spec

(* Every bit of the bitmap and every entry of a page names a frame the     *)
(* memory has: first_free_frame is never asked when all are taken.         *)
THEOREM PagingTypeCorrect ==
  ASSUME OnePage PROVE Spec => []TypeOK
BY PagingInvariant, PInvTypeOK, PTL

(* No frame backs two pages.                                               *)
THEOREM PagingFramesExclusive ==
  ASSUME OnePage PROVE Spec => []FramesExclusive
BY PagingInvariant, PInvFrames, PTL

(* Once paging is on, all that kmalloc placed is found at its address.     *)
THEOREM PagingIdentityMapped ==
  ASSUME OnePage PROVE Spec => []IdentityMapped
BY PagingInvariant, PInvIdentity, PTL

(* A frame's bit is set exactly when a page is backed by it.               *)
THEOREM PagingBitmapExact ==
  ASSUME OnePage PROVE Spec => []BitmapExact
BY PagingInvariant, PInvFrames, PTL

(* The pages of the heap are backed when its words are written.            *)
THEOREM PagingHeapBacked ==
  ASSUME OnePage PROVE Spec => []HeapBacked
BY PagingInvariant, PInvHeap, PTL
=============================================================================
