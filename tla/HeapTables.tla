----------------------------- MODULE HeapTables -----------------------------
(***************************************************************************)
(* The heap that allocates its own page tables.  KHeap adds the pages of   *)
(* expand in one step; here expand maps them one by one, through get_page, *)
(* and a page whose table does not exist yet makes get_page call           *)
(* kmalloc_ap: alloc is entered again, on the heap that it is extending    *)
(* and whose end_address is still the old one (kernel/mm/kheap.c with      *)
(* get_page and alloc_frame of kernel/mm/paging.c).                        *)
(*                                                                         *)
(* A table takes a page, as page_table_t does, and maps TABLE pages; an    *)
(* entry is the frame of its page, 0 for none.                             *)
(***************************************************************************)
EXTENDS KHeap

CONSTANTS
  TABLE,       \* pages that a page table maps: 1024
  PLACED,      \* stands for the tables made before the heap, outside it
  DEPTH        \* bound: calls of expand that are nested

ASSUME TableAssumption ==
  /\ TABLE \in 1 .. PAGE
  /\ PLACED \in 1 .. START - FOOTER - 1
  /\ DEPTH \in Nat \ {0}
  /\ FreeOrder \in {"never", "inner"} \* contract is left to KHeap

VARIABLES
  directory,   \* page_tables_virtual: pointer to the table, 0 for none
  physical,    \* page_tables_physical: frame of a table of the heap
  placed,      \* entries of the tables outside the heap
  frames,      \* the frames that frame_allocations holds as used
  expanding    \* the calls of expand in progress, the innermost last

tableVars == <<directory, physical, placed, frames, expanding>>

Pages == 0 .. PageOf(LIMIT - 1)
TableOf(page) == page \div TABLE
HeapTable(t) == directory[t] \notin {0, PLACED}
EntryAt(page) == directory[TableOf(page)] + (page % TABLE)
Entry(page) == IF HeapTable(TableOf(page)) THEN mem[EntryAt(page)] ELSE placed[page]

(* Slips of the code that the properties must notice: no other definition  *)
(* uses these.                                                             *)
MutantTableRequest == [size |-> PAGE, align |-> 0]  \* kmalloc_p for kmalloc_ap
MutantCleared(m, table) == m                        \* no memset
MutantAddedBy(e) == e.new - START                    \* the length for the growth

-----------------------------------------------------------------------------
(* Requests of callers.  The table that a request will need must fit a     *)
(* hole of the heap as it is, and leave the endmost hole at the end: alloc *)
(* has no other way to get at it, since expand needs the table first.      *)
TableRequest == [size |-> PAGE, align |-> 1]

ServesTable(h) ==
  LET gap  == PAGE - (h % PAGE) - HEADER
      left == SizeOf(mem, h) - gap - PAGE - OVERHEAD
  IN gap >= OVERHEAD /\ (left >= OVERHEAD \/ (left = 0 /\ EndOf(h) # end_address))

NewTables(size) ==
  {t \in {TableOf(PageOf(a)) : a \in end_address ..
            START + RoundUp(end_address - START + size + OVERHEAD) - 1} :
     directory[t] = 0}

MayCross(size) ==
  \/ find_smallest_hole(size + OVERHEAD, 0) > 0
  \/ NewTables(size) = {}
  \/ /\ Cardinality(NewTables(size)) = 1
     /\ end_address + 4 * PAGE + OVERHEAD <= LIMIT
     /\ LET i == find_smallest_hole(PAGE + OVERHEAD, 1)
        IN i > 0 /\ ServesTable(index[i])

Request(size) ==
  /\ expanding = <<>> /\ Call(size, 0) /\ MayCross(size)
  /\ UNCHANGED tableVars

Release(b) ==
  /\ expanding = <<>> /\ b.ptr \notin {directory[t] : t \in DOMAIN directory}
  /\ free(b) /\ UNCHANGED tableVars

-----------------------------------------------------------------------------
(* alloc without a hole that fits: expand begins at the end of the heap.   *)
BeginExpand ==
  /\ status = "running" /\ call # Idle /\ Len(expanding) < DEPTH
  /\ find_smallest_hole(call.size + OVERHEAD, call.align) = 0
  /\ Expanded <= LIMIT
  /\ expanding' = Append(expanding, [request |-> call, old |-> end_address,
                                     at |-> end_address, new |-> Expanded, table |-> 0])
  /\ call' = Idle
  /\ UNCHANGED <<mem, index, end_address, present, live, status,
                 directory, physical, placed, frames>>

Top1 == Len(expanding)
InLoop ==
  /\ status = "running" /\ call = Idle /\ expanding # <<>>
  /\ expanding[Top1].table = 0 /\ expanding[Top1].at < expanding[Top1].new
Page == PageOf(expanding[Top1].at)

(* get_page: the table is missing, and kmalloc_ap enters alloc.            *)
NeedTable ==
  /\ InLoop /\ directory[TableOf(Page)] = 0
  /\ call' = TableRequest
  /\ UNCHANGED <<mem, index, end_address, present, live, status>>
  /\ UNCHANGED tableVars

(* The last level of alloc, whose pointer goes to the caller, or to        *)
(* get_page when an expand waits for it.                                   *)
Serve ==
  /\ AllocFromHole
  /\ \/ (expanding = <<>> \/ status' # "running") /\ expanding' = expanding
     \/ /\ expanding # <<>>
        /\ \E b \in live' \ live : expanding' = [expanding EXCEPT ![Top1].table = b.ptr]
  /\ UNCHANGED <<directory, physical, placed, frames>>

(* The rest of get_page: kmalloc_int looks up the frame of the page the    *)
(* new table stands in, the table is cleared and entered.                  *)
Physical(table) == Entry(PageOf(table))
Cleared(m, table) == [a \in Addr |-> IF a \in table .. table + PAGE - 1 THEN 0 ELSE m[a]]
EnterTable ==
  /\ status = "running" /\ call = Idle /\ expanding # <<>>
  /\ \E table \in {expanding[Top1].table} \ {0} :
       /\ mem' = Cleared(mem, table)
       /\ directory' = [directory EXCEPT ![TableOf(Page)] = table]
       /\ physical' = [physical EXCEPT ![TableOf(Page)] = Physical(table)]
  /\ expanding' = [expanding EXCEPT ![Top1].table = 0]
  /\ UNCHANGED <<index, end_address, present, call, live, status, placed, frames>>

(* alloc_frame on the entry, unless it has a frame already.                *)
FirstFree == Min((1 .. Max(frames) + 1) \ frames)
alloc_frame ==
  \/ Entry(Page) # 0 /\ UNCHANGED <<mem, placed, frames, present>>
  \/ /\ Entry(Page) = 0
     /\ frames' = frames \cup {FirstFree} /\ present' = present \cup {Page}
     /\ \/ /\ HeapTable(TableOf(Page)) /\ placed' = placed
           /\ mem' = [mem EXCEPT ![EntryAt(Page)] = FirstFree]
        \/ /\ ~ HeapTable(TableOf(Page)) /\ mem' = mem
           /\ placed' = [placed EXCEPT ![Page] = FirstFree]

MapPage ==
  /\ InLoop /\ directory[TableOf(Page)] # 0
  /\ alloc_frame
  /\ expanding' = [expanding EXCEPT ![Top1].at = @ + PAGE]
  /\ UNCHANGED <<index, end_address, call, live, status, directory, physical>>

(* The end of expand and what alloc does with the words it added: its      *)
(* old_length and old_end_address are from before expand.  The recursion   *)
(* takes up the request again.                                             *)
AddedBy(e) == e.new - e.old
EndExpand ==
  /\ status = "running" /\ call = Idle /\ expanding # <<>>
  /\ expanding[Top1].table = 0 /\ expanding[Top1].at >= expanding[Top1].new
  /\ \E e \in {expanding[Top1]} :
       LET hole   == IF index = <<>> THEN e.old ELSE Max(Holes)
           length == IF index = <<>> THEN AddedBy(e) ELSE (SizeOf(mem, hole) + AddedBy(e)) % WORD
           foot   == (hole + length - FOOTER) % WORD
           header == IF index = <<>> THEN PutHeader(mem, hole, 1, length)
                                     ELSE [mem EXCEPT ![hole + 2] = length]
       IN /\ mem' = PutFooter(header, foot, hole)
          /\ index' = IF index = <<>> THEN InsertHole(mem', index, hole) ELSE index
          /\ end_address' = e.new
          /\ call' = e.request
  /\ expanding' = SubSeq(expanding, 1, Top1 - 1)
  /\ UNCHANGED <<present, live, status, directory, physical, placed, frames>>

-----------------------------------------------------------------------------
(* The boot leaves the tables of the first heap outside it, and its pages  *)
(* in the frames behind those of the kernel.                               *)
TablesInit ==
  /\ Init
  /\ placed = [p \in Pages |-> IF p \in present THEN p + TABLE ELSE 0]
  /\ frames = 1 .. Max(present) + TABLE
  /\ directory = [t \in {TableOf(p) : p \in Pages} |->
                    IF \E p \in present : TableOf(p) = t THEN PLACED ELSE 0]
  /\ physical = [t \in DOMAIN directory |-> 0]
  /\ expanding = <<>>

TablesNext ==
  \/ \E size \in Sizes : Request(size)
  \/ \E b \in live : Release(b)
  \/ BeginExpand \/ NeedTable \/ Serve \/ EnterTable \/ MapPage \/ EndExpand

TablesSpec == TablesInit /\ [][TablesNext]_<<vars, tableVars>>

-----------------------------------------------------------------------------
(* The tables say what the kernel believes, in spite of standing in the    *)
(* memory that alloc and free write their tags to: each page of the heap,  *)
(* and each page expand has mapped so far, has a frame of its own that     *)
(* frame_allocations holds as used, no other page has one, and the         *)
(* processor is sent to the frame where the kernel edits the table.        *)
TablesHold ==
  LET Mapped == {p \in Pages : directory[TableOf(p)] # 0 /\ Entry(p) # 0}
  IN /\ Mapped = present
     /\ {PageOf(a) : a \in START .. end_address - 1} \subseteq Mapped
     /\ {Entry(p) : p \in Mapped} \subseteq frames
     /\ \A p, q \in Mapped : Entry(p) = Entry(q) => p = q
     /\ \A t \in DOMAIN directory :
          HeapTable(t) => /\ physical[t] = Entry(PageOf(directory[t]))
                          /\ directory[t] % PAGE = 0

(* What a caller of alloc sees of all this is the heap of KHeap, whose     *)
(* expand is one step: the table is one more live block, cleared by its    *)
(* owner, and the request that made the heap grow begins when its pages    *)
(* are mapped.                                                             *)
InTable(a) ==
  \E t \in DOMAIN directory : HeapTable(t) /\ a \in directory[t] .. directory[t] + PAGE - 1
Growing == expanding # <<>>
Mapping == Growing /\ (expanding[1].table # 0 \/ expanding[1].at < expanding[1].new)
Heap == INSTANCE KHeap WITH
  mem     <- [a \in Addr |-> IF InTable(a) THEN 0 ELSE mem[a]],
  present <- IF Growing THEN present \ {PageOf(a) : a \in expanding[1].old .. expanding[1].at - 1}
                        ELSE present,
  call    <- IF call # Idle
             THEN IF ~ Growing /\ find_smallest_hole(call.size + OVERHEAD, call.align) = 0
                  THEN Idle ELSE call
             ELSE IF Growing /\ ~ Mapping THEN expanding[1].request ELSE Idle,
  Sizes   <- Sizes \cup {PAGE},
  Aligns  <- {0, 1},
  UserWords <- {0},
  Growth  <- "any"

ImplementsHeap == Heap!Init /\ [][Heap!Next]_(Heap!vars)
=============================================================================
