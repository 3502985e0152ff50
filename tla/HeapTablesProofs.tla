--------------------------- MODULE HeapTablesProofs ---------------------------
(***************************************************************************)
(* The page tables that the heap allocates for its own growth say which    *)
(* pages are mapped, and to which frames, for every size of a page and of  *)
(* a table, every boundary of the heap and every set of request sizes,     *)
(* wherever expand is when alloc is entered again; and alloc and free are  *)
(* to their callers those of KHeap, whose expand is one step.              *)
(***************************************************************************)
EXTENDS HeapTables, KHeapProofs, FiniteSetTheorems

-----------------------------------------------------------------------------
(* The inductive invariant.                                                *)

(* How far the pages are mapped: to the end of the heap, or to where       *)
(* expand is.                                                              *)
Reach == IF expanding = <<>> THEN end_address ELSE expanding[1].at

Bounded == START + PAGE <= end_address /\ end_address % PAGE = 0

(* Pages are mapped one behind the other, and so are the frames they take. *)
PagesMapped ==
  /\ present = PageOf(START) .. PageOf(Reach) - 1
  /\ frames = 1 .. PageOf(Reach) - 1 + TABLE

Directory == {TableOf(p) : p \in Pages}
TablesTyped ==
  /\ directory \in [Directory -> Nat]
  /\ physical \in [Directory -> Nat]
  /\ placed \in [Pages -> Nat]

(* A table of the heap is a live block on a page of its own.               *)
BlockOf(table) == [ptr |-> table, size |-> PAGE]
TableBlock(table) == table % PAGE = 0 /\ BlockOf(table) \in live

TablesStand ==
  \A t \in Directory : HeapTable(t) =>
    /\ TableBlock(directory[t])
    /\ physical[t] = PageOf(directory[t]) + TABLE
    /\ \A u \in Directory : directory[u] = directory[t] => u = t

EntriesTell ==
  \A p \in Pages :
    directory[TableOf(p)] # 0 => Entry(p) = IF p \in present THEN p + TABLE ELSE 0

Tables ==
  /\ TablesTyped /\ TablesStand /\ EntriesTell
  /\ \A p \in present : directory[TableOf(p)] # 0

(* The tables that the pages of the words lo .. hi - 1 lack: one at most,  *)
(* and then a hole of the heap has its page.                               *)
Lacking(lo, hi) == {t \in {TableOf(PageOf(a)) : a \in lo .. hi - 1} : directory[t] = 0}
TableReady ==
  LET i == find_smallest_hole(PAGE + OVERHEAD, 1) IN i > 0 /\ ServesTable(index[i])
Provided(lo, hi) ==
  \A t \in Lacking(lo, hi) : TableReady /\ \A u \in Lacking(lo, hi) : u = t

(* What expand adds can join a hole, or be the only one.                   *)
TailFree == index = <<>> \/ \E h \in Holes : EndOf(h) = end_address

Planned ==
  expanding = <<>> /\ call # Idle =>
    /\ call.align = 0
    /\ find_smallest_hole(call.size + OVERHEAD, 0) > 0 \/ Provided(end_address, Expanded)

(* The call e of expand maps its pages, has asked for a table, or holds    *)
(* the one it has been given.                                              *)
Waiting(e) == TableOf(PageOf(e.at))
Maps(e) == e.table = 0 /\ call = Idle /\ Provided(e.at, e.new)
AsksTable(e) ==
  /\ e.table = 0 /\ call = TableRequest /\ Provided(e.at, e.new)
  /\ e.at < e.new /\ directory[Waiting(e)] = 0
HoldsTable(e) ==
  /\ e.table # 0 /\ call = Idle /\ TableBlock(e.table)
  /\ e.at < e.new /\ directory[Waiting(e)] = 0
  /\ \A t \in Directory : directory[t] # e.table
  /\ \A t \in Lacking(e.at, e.new) : t = Waiting(e)

Expansions == [request : [size : Positive, align : {0}],
               old : Nat, at : Nat, new : Nat, table : Nat]
Underway(e) ==
  /\ e \in Expansions /\ TailFree
  /\ e.old = end_address /\ e.new % PAGE = 0 /\ e.new <= LIMIT
  /\ e.old + e.request.size + OVERHEAD <= e.new
  /\ e.at % PAGE = 0 /\ e.old <= e.at /\ e.at <= e.new
Expansion ==
  \/ expanding = <<>>
  \/ \E e \in {expanding[1]} :
       expanding = <<e>> /\ Underway(e) /\ (Maps(e) \/ AsksTable(e) \/ HoldsTable(e))

TInv == Base /\ Bounded /\ PagesMapped /\ Tables /\ Planned /\ Expansion

-----------------------------------------------------------------------------
(* Arithmetic of pages and tables.                                         *)

USE DEF HEADER, FOOTER, OVERHEAD

LEMMA Euclid ==
  ASSUME NEW n \in Nat, NEW d \in Nat, d > 0
  PROVE  /\ n \div d \in Nat /\ n % d \in 0 .. d - 1
         /\ n = d * (n \div d) + (n % d)
  OBVIOUS

LEMMA Quotients ==
  ASSUME NEW d \in Nat, d > 0, NEW q \in Nat, NEW r \in 0 .. d - 1
  PROVE  (d * q + r) \div d = q /\ (d * q + r) % d = r
<1> DEFINE n == d * q + r
           k == n \div d
           s == n % d
<1>1. n \in Nat /\ k \in Nat /\ s \in 0 .. d - 1 /\ n = d * k + s
  BY Euclid
<1>2. d * q + r = d * k + s
  BY <1>1
<1> HIDE DEF n, k, s
<1>3. d * (q - k) = s - r
  BY <1>1, <1>2
<1>4. q - k = 0
  <2>1. CASE q - k > 0
    <3>1. d * (q - k) >= d
      BY <1>1, <2>1
    <3> QED BY <1>1, <1>3, <3>1
  <2>2. CASE q - k < 0
    <3>1. d * (k - q) >= d
      BY <1>1, <2>2
    <3>2. d * (k - q) = r - s
      BY <1>1, <1>2
    <3> QED BY <1>1, <3>1, <3>2
  <2> QED BY <1>1, <2>1, <2>2
<1>5. q = k
  BY <1>1, <1>4
<1> QED BY <1>1, <1>2, <1>5 DEF n, k, s

LEMMA PageOrder ==
  ASSUME NEW a \in Nat, NEW b \in Nat, a <= b
  PROVE  PageOf(a) <= PageOf(b)
<1>1. PAGE \in Nat /\ PAGE > 0
  BY Geometry
<1> DEFINE j == PageOf(a)
           k == PageOf(b)
<1>2. j \in Nat /\ k \in Nat /\ a >= PAGE * j /\ b < PAGE * k + PAGE
  BY <1>1, Euclid DEF PageOf
<1> HIDE DEF j, k
<1>3. ASSUME j > k PROVE FALSE
  <2>1. PAGE * j >= PAGE * (k + 1)
    BY <1>1, <1>2, <1>3
  <2> QED BY <1>1, <1>2, <2>1
<1> QED BY <1>2, <1>3 DEF j, k

(* Boundaries of pages.                                                    *)
LEMMA PageBoundary ==
  ASSUME NEW b \in Nat, b % PAGE = 0
  PROVE  b = PAGE * PageOf(b)
  BY Geometry, Euclid DEF PageOf

LEMMA BelowBoundary ==
  ASSUME NEW a \in Nat, NEW b \in Nat, b % PAGE = 0, a < b
  PROVE  PageOf(a) < PageOf(b) /\ (a % PAGE = 0 => a + PAGE <= b)
<1>1. PAGE \in Nat /\ PAGE > 0
  BY Geometry
<1> DEFINE j == PageOf(a)
           k == PageOf(b)
<1>2. j \in Nat /\ k \in Nat /\ a >= PAGE * j /\ b = PAGE * k
  BY <1>1, Euclid DEF PageOf
<1>3. a % PAGE = 0 => a = PAGE * j
  BY PageBoundary
<1> HIDE DEF j, k
<1>4. ASSUME j >= k PROVE FALSE
  <2>1. PAGE * j >= PAGE * k
    BY <1>1, <1>2, <1>4
  <2> QED BY <1>1, <1>2, <2>1
<1>5. PAGE * (j + 1) <= PAGE * k
  BY <1>1, <1>2, <1>4
<1>6. PAGE * (j + 1) = PAGE * j + PAGE
  BY <1>1, <1>2
<1> QED BY <1>1, <1>2, <1>3, <1>4, <1>5, <1>6 DEF j, k

LEMMA NextPage ==
  ASSUME NEW a \in Nat, a % PAGE = 0
  PROVE  PageOf(a + PAGE) = PageOf(a) + 1 /\ (a + PAGE) % PAGE = 0
<1>1. PAGE \in Nat /\ PAGE > 0 /\ PageOf(a) \in Nat /\ a = PAGE * PageOf(a)
  BY Geometry, PageBoundary, PageOfType
<1> DEFINE k == PageOf(a) + 1
<1>2. k \in Nat /\ a + PAGE = PAGE * k + 0 /\ 0 \in 0 .. PAGE - 1
  BY <1>1
<1> HIDE DEF k
<1>3. (PAGE * k + 0) \div PAGE = k /\ (PAGE * k + 0) % PAGE = 0
  BY <1>1, <1>2, Quotients
<1> QED BY <1>2, <1>3 DEF PageOf, k

LEMMA BoundarySum ==
  ASSUME NEW a \in Nat, NEW b \in Nat, a % PAGE = 0, b % PAGE = 0
  PROVE  (a + b) % PAGE = 0
<1>1. /\ PAGE \in Nat /\ PAGE > 0 /\ PageOf(a) \in Nat /\ PageOf(b) \in Nat
      /\ a = PAGE * PageOf(a) /\ b = PAGE * PageOf(b)
  BY Geometry, PageBoundary, PageOfType
<1> DEFINE k == PageOf(a) + PageOf(b)
<1>2. k \in Nat /\ a + b = PAGE * k + 0 /\ 0 \in 0 .. PAGE - 1
  BY <1>1
<1> HIDE DEF k
<1>3. (PAGE * k + 0) % PAGE = 0
  BY <1>1, <1>2, Quotients
<1> QED BY <1>2, <1>3

LEMMA RoundedUp ==
  ASSUME NEW n \in Nat, n >= PAGE
  PROVE  RoundUp(n) % PAGE = 0 /\ RoundUp(n) >= n /\ RoundUp(n) \in Nat
<1>1. PAGE \in Nat /\ PAGE > 0
  BY Geometry
<1> DEFINE k == n \div PAGE
<1>2. k \in Nat /\ RoundUp(n) = k * PAGE + PAGE
  BY <1>1, Euclid DEF RoundUp
<1> HIDE DEF k
<1>3. RoundUp(n) = PAGE * (k + 1) + 0 /\ k + 1 \in Nat /\ 0 \in 0 .. PAGE - 1
  BY <1>1, <1>2
<1>4. (PAGE * (k + 1) + 0) % PAGE = 0
  BY <1>1, <1>3, Quotients
<1> QED BY <1>3, <1>4, RoundUpBound

LEMMA TableFacts ==
  /\ TABLE \in Nat /\ TABLE > 0 /\ TABLE <= PAGE
  /\ PLACED \in Nat /\ PLACED > 0 /\ PLACED < START
  /\ START % PAGE = 0 /\ START >= PAGE /\ INITIAL_SIZE % PAGE = 0 /\ INITIAL_SIZE >= PAGE
<1>1. ASSUME NEW n \in Nat, n > 0, n < PAGE PROVE n % PAGE # 0
  BY <1>1, GeometryAssumption
<1>2. START >= PAGE /\ START % PAGE = 0 /\ INITIAL_SIZE % PAGE = 0 /\ INITIAL_SIZE >= PAGE
  BY <1>1, GeometryAssumption, Geometry
<1>3. TABLE \in Nat /\ TABLE > 0 /\ TABLE <= PAGE
  BY Geometry, TableAssumption
<1>4. PLACED \in Nat /\ PLACED > 0 /\ PLACED < START
  BY Geometry, TableAssumption
<1> QED BY <1>2, <1>3, <1>4

LEMMA TableOfType ==
  ASSUME NEW p \in Nat
  PROVE  TableOf(p) \in Nat /\ p % TABLE \in 0 .. TABLE - 1
  BY TableFacts, Euclid DEF TableOf

(* A page is known from its table and its entry.                           *)
LEMMA SameEntry ==
  ASSUME NEW p \in Nat, NEW q \in Nat, TableOf(p) = TableOf(q), p % TABLE = q % TABLE
  PROVE  p = q
<1>1. p = TABLE * (p \div TABLE) + (p % TABLE) /\ q = TABLE * (q \div TABLE) + (q % TABLE)
  BY TableFacts, Euclid
<1> QED BY <1>1, Zenon DEF TableOf

LEMMA PageBelow ==
  ASSUME NEW a \in Nat, a < LIMIT
  PROVE  PageOf(a) \in Pages /\ TableOf(PageOf(a)) \in Directory
<1>1. LIMIT - 1 \in Nat /\ a <= LIMIT - 1
  BY Geometry
<1>2. PageOf(a) \in Nat /\ PageOf(a) <= PageOf(LIMIT - 1) /\ PageOf(LIMIT - 1) \in Nat
  BY <1>1, PageOrder, PageOfType
<1> QED BY <1>2 DEF Pages, Directory

(* Frames are numbers that a word holds, and none of them is HEAP_MAGIC.   *)
LEMMA FrameFits ==
  ASSUME NEW p \in Pages
  PROVE  p \in Nat /\ p + TABLE \in Word /\ p + TABLE # 0
<1>1. /\ LIMIT \in Nat /\ LIMIT - 1 \in Nat /\ PAGE \in Nat /\ PAGE >= 6 /\ LIMIT >= 2 * PAGE
  BY Geometry, TableFacts
<1> DEFINE k == PageOf(LIMIT - 1)
<1>2. k \in Nat /\ PAGE * k <= LIMIT - 1
  BY <1>1, Euclid DEF PageOf
<1> HIDE DEF k
<1>3. 6 * k <= PAGE * k
  BY <1>1, <1>2
<1>4. p \in Nat /\ p <= k
  BY <1>2 DEF Pages, k
<1>7. TABLE \in Nat /\ TABLE > 0 /\ TABLE <= PAGE
  BY TableFacts
<1> DEFINE x == PAGE * k
<1>5. x \in Nat /\ x <= LIMIT - 1 /\ 6 * k <= x /\ k \in Nat
  BY <1>1, <1>2, <1>3
<1> HIDE DEF x
<1>8. 6 * p <= LIMIT /\ 2 * TABLE <= LIMIT /\ p \in Nat /\ LIMIT \in Nat /\ LIMIT > 0
  BY <1>1, <1>4, <1>5, <1>7
<1>6. p + TABLE < LIMIT /\ p + TABLE \in Nat /\ p + TABLE > 0
  BY <1>7, <1>8
<1> QED BY <1>4, <1>6, Geometry DEF Word

-----------------------------------------------------------------------------
(* The heap, for calls that ask for a page boundary.                       *)

(* A step that changes none of the words and tags of the heap.             *)
LEMMA QuietPreserves ==
  ASSUME Base, UNCHANGED <<mem, index, end_address, live, status>>,
         call' \in Calls, CallServed', present \subseteq present', present' \subseteq Nat
  PROVE  Base'
<1>1. Holes' = Holes /\ Pieces' = Pieces
  BY DEF Holes, Pieces
<1>2. HeapTypes'
  BY DEF Base, HeapTypes
<1>3. /\ FreeSpaceIndexed' /\ BoundaryTags' /\ HoleTags' /\ NothingBelow'
      /\ AllPresent' /\ KeepsRunning'
  BY <1>1 DEF Base, FreeSpaceIndexed, BoundaryTags, HoleTags, NothingBelow,
              AllPresent, KeepsRunning
<1> QED BY <1>2, <1>3 DEF Base

(* The words from p on are the tags of a piece of n words.                 *)
IsPiece(m, p, is_hole, n) ==
  /\ m[p] = HEAP_MAGIC /\ m[p + 1] = is_hole /\ m[p + 2] = n
  /\ m[p + (n - 2)] = HEAP_MAGIC /\ m[p + (n - 1)] = p

LEMMA PieceWritten ==
  ASSUME NEW m \in [Addr -> Word], NEW p \in Nat, p >= START, NEW is_hole \in {0, 1},
         NEW n \in Nat, n >= OVERHEAD, p + n <= LIMIT,
         NEW f, f = p + (n - 2)
  PROVE  LET w == PutFooter(PutHeader(m, p, is_hole, n), f, p)
         IN /\ w \in [Addr -> Word] /\ IsPiece(w, p, is_hole, n)
            /\ \A a \in Addr : a < p \/ p + n <= a => w[a] = m[a]
<1> DEFINE m1 == PutHeader(m, p, is_hole, n)
<1>1. /\ p + 2 < LIMIT /\ n \in Word /\ p \in Word
      /\ f \in Nat /\ f >= START /\ f + 1 < LIMIT /\ f + 1 = p + (n - 1) /\ p + 2 < f
  BY Geometry DEF Word
<1>2. /\ m1 \in [Addr -> Word]
      /\ m1[p] = HEAP_MAGIC /\ m1[p + 1] = is_hole /\ m1[p + 2] = n
      /\ \A a \in Addr : a \notin p .. p + 2 => m1[a] = m[a]
  BY <1>1, PutHeaderWrites
<1> HIDE DEF m1
<1> DEFINE m2 == PutFooter(m1, f, p)
<1>3. /\ m2 \in [Addr -> Word] /\ m2[f] = HEAP_MAGIC /\ m2[f + 1] = p
      /\ \A a \in Addr : a \notin f .. f + 1 => m2[a] = m1[a]
  BY <1>1, <1>2, PutFooterWrites
<1> HIDE DEF m2
<1>4. /\ p \in Addr /\ p + 1 \in Addr /\ p + 2 \in Addr
      /\ p \notin f .. f + 1 /\ p + 1 \notin f .. f + 1 /\ p + 2 \notin f .. f + 1
  BY <1>1, Geometry DEF Addr
<1>5. IsPiece(m2, p, is_hole, n)
  BY <1>1, <1>2, <1>3, <1>4 DEF IsPiece
<1>6. ASSUME NEW a \in Addr, a < p \/ p + n <= a PROVE m2[a] = m[a]
  <2>1. a \notin p .. p + 2 /\ a \notin f .. f + 1
    BY <1>1, <1>6, Geometry DEF Addr
  <2> QED BY <1>2, <1>3, <2>1
<1>7. PutFooter(PutHeader(m, p, is_hole, n), f, p) = m2
  BY Zenon DEF m1, m2
<1> QED BY <1>3, <1>5, <1>6, <1>7

LEMMA PieceLeft ==
  ASSUME NEW m, NEW w, NEW p \in Nat, p >= START, NEW is_hole, NEW n \in Nat, n >= OVERHEAD,
         p + n <= LIMIT, IsPiece(m, p, is_hole, n), NEW lo \in Nat, NEW hi \in Nat,
         p + n <= lo \/ hi <= p, \A a \in Addr : a < lo \/ hi <= a => w[a] = m[a]
  PROVE  IsPiece(w, p, is_hole, n)
<1>1. \A k \in 0 .. n - 1 : p + k \in Addr /\ (p + k < lo \/ hi <= p + k)
  BY Geometry DEF Addr
<1>2. \A k \in 0 .. n - 1 : w[p + k] = m[p + k]
  BY <1>1
<1>3. w[p + 0] = m[p + 0] /\ w[p + 1] = m[p + 1] /\ w[p + 2] = m[p + 2]
  BY <1>2
<1>4. w[p + (n - 2)] = m[p + (n - 2)] /\ w[p + (n - 1)] = m[p + (n - 1)]
  BY <1>2
<1>5. p + 0 = p
  OBVIOUS
<1> QED BY <1>3, <1>4, <1>5, Zenon DEF IsPiece

(* What Carved makes of the hole h of S words: a hole of gap words, a      *)
(* block of a page and, if words are left, a hole behind it.               *)
SplitUp(c, h, S, gap) ==
  LET at == h + gap
      behind == at + PAGE + OVERHEAD
      left == S - gap - PAGE - OVERHEAD
  IN /\ c.mem \in [Addr -> Word]
     /\ \A a \in Addr : a \notin h .. h + S - 1 => c.mem[a] = mem[a]
     /\ IsPiece(c.mem, h, 1, gap) /\ IsPiece(c.mem, at, 0, PAGE + OVERHEAD)
     /\ c.ptr = at + HEADER /\ ~ c.faults
     /\ left = 0 => c.index = index
     /\ left > 0 => /\ IsPiece(c.mem, behind, 1, left)
                    /\ c.index = InsertHole(c.mem, index, behind)

LEMMA CarvedAligned ==
  ASSUME Base, NEW i \in 1 .. Len(index), ServesTable(index[i])
  PROVE  \E gap \in Nat :
           LET h == index[i]
               left == SizeOf(mem, h) - gap - PAGE - OVERHEAD
           IN /\ SplitUp(Carved(i, TableRequest), h, SizeOf(mem, h), gap)
              /\ gap >= OVERHEAD /\ (h + gap + HEADER) % PAGE = 0
              /\ (left = 0 /\ EndOf(h) # end_address) \/ left >= OVERHEAD
<1> DEFINE h == index[i]
           S == SizeOf(mem, h)
           c == Carved(i, TableRequest)
           gap == PAGE - (h % PAGE) - HEADER
           N == PAGE + OVERHEAD
           left == S - gap - PAGE - OVERHEAD
<1>1. h \in Pieces
  BY ToSetIsRange DEF Base, HeapTypes, Pieces, Holes
<1>2. /\ h \in Nat /\ START <= h /\ S \in Nat
      /\ h + S <= end_address /\ end_address \in Nat /\ end_address <= LIMIT
      /\ mem \in [Addr -> Word]
  <2>1. mem \in [Addr -> Word]
    BY DEF Base, HeapTypes
  <2> QED BY <1>1, <2>1, PieceNumbers, PieceFacts
<1>3. /\ gap >= OVERHEAD /\ gap \in Nat
      /\ (left = 0 /\ EndOf(h) # end_address) \/ left >= OVERHEAD
  <2>1. gap >= OVERHEAD /\ (left >= OVERHEAD \/ (left = 0 /\ EndOf(h) # end_address))
    BY Zenon DEF ServesTable, gap, left, h, S
  <2>2. h % PAGE \in Nat
    BY <1>2, Geometry, Euclid
  <2> QED BY <2>1, <2>2, Geometry
<1>4. (h + gap + HEADER) % PAGE = 0
  <2> DEFINE k == h \div PAGE
             r == h % PAGE
  <2>5. h \in Nat /\ PAGE \in Nat /\ PAGE > 0
    BY <1>2, Geometry
  <2> HIDE DEF h
  <2>1. k \in Nat /\ r \in Nat /\ h = PAGE * k + r /\ PAGE \in Nat /\ PAGE > 0
    BY <2>5, Euclid
  <2>2. gap = PAGE - r - HEADER
    OBVIOUS
  <2> HIDE DEF k, r, gap
  <2>3. h + gap + HEADER = PAGE * (k + 1) + 0 /\ k + 1 \in Nat /\ 0 \in 0 .. PAGE - 1
    BY <2>1, <2>2
  <2>4. (PAGE * (k + 1) + 0) % PAGE = 0
    BY <2>1, <2>3, Quotients
  <2> QED BY <2>3, <2>4
<1> DEFINE request == TableRequest
           tight == Sub(S, request.size + OVERHEAD) < OVERHEAD
           size == IF tight THEN S - OVERHEAD ELSE request.size
           new_size == size + OVERHEAD
           front == request.align > 0 /\ h >= PAGE
           at == IF front THEN h + gap ELSE h
           m1 == IF front
                 THEN PutFooter(PutHeader(mem, h, 1, gap % WORD), at - FOOTER, h)
                 ELSE mem
           rest == IF front THEN Sub(S, SizeOf(m1, h)) ELSE S
           m2 == PutFooter(PutHeader(m1, at, 0, new_size), at + HEADER + size, at)
           behind == at + new_size
           over == Sub(rest, new_size)
           foot == (behind + over - FOOTER) % WORD
           m3 == IF over > 0 THEN PutHeader(m2, behind, 1, over) ELSE m2
           m4 == IF over > 0 /\ foot < end_address THEN PutFooter(m3, foot, behind) ELSE m3
           kept == IF front THEN index ELSE remove_ordered_array(i, index)
<1>5. /\ c.mem = m4
      /\ c.index = IF over > 0 THEN InsertHole(m4, kept, behind) ELSE kept
      /\ c.ptr = at + HEADER
  BY Zenon DEF Carved, h, S
<1>6. c.faults => \/ ~ BackedHeader(at)
                  \/ front /\ ~ BackedFooter(at - FOOTER)
                  \/ ~ BackedFooter(at + HEADER + size)
                  \/ over > 0 /\ ~ BackedHeader(behind)
                  \/ over > 0 /\ foot < end_address /\ ~ BackedFooter(foot)
  BY Zenon DEF Carved, h, S
<1>7. request.size = PAGE /\ request.align > 0 /\ request.size + OVERHEAD = N
  BY DEF TableRequest
<1> HIDE DEF c, h, S, gap, request, N, left
<1>8. /\ N = PAGE + OVERHEAD /\ N \in Nat /\ N >= OVERHEAD /\ PAGE \in Nat
      /\ left \in Nat /\ left = S - gap - N /\ S = gap + N + left
  BY <1>2, <1>3, Geometry DEF N, left
<1>9. S < WORD /\ gap < WORD /\ S - N \in Nat /\ S - N >= OVERHEAD /\ S - N < WORD
  BY <1>2, <1>3, <1>8, Geometry
<1>10. ~ tight
  <2>1. Sub(S, N) = S - N
    BY <1>8, <1>9, NoWrap DEF Sub
  <2> QED BY <1>7, <1>8, <1>9, <2>1
<1>11. size = PAGE /\ new_size = N
  BY <1>7, <1>8, <1>10 DEF N
<1> HIDE DEF tight, size, new_size
<1>12. front /\ at = h + gap /\ kept = index
  BY <1>2, <1>7, GeometryAssumption
<1> HIDE DEF front, kept
<1>13. m1 = PutFooter(PutHeader(mem, h, 1, gap), at - FOOTER, h)
  <2>1. gap % WORD = gap
    BY <1>3, <1>9, NoWrap
  <2> QED BY <1>12, <2>1
<1>14. rest = Sub(S, SizeOf(m1, h))
  BY <1>12
<1> HIDE DEF m1, rest, at
<1>15. /\ m1 \in [Addr -> Word] /\ IsPiece(m1, h, 1, gap)
       /\ \A a \in Addr : a < h \/ h + gap <= a => m1[a] = mem[a]
  <2>1. at - FOOTER = h + (gap - 2) /\ h + gap <= LIMIT /\ h >= START
    BY <1>2, <1>3, <1>8, <1>12, Geometry
  <2> QED BY <1>2, <1>3, <1>13, <2>1, PieceWritten
<1>16. rest = S - gap
  <2>1. SizeOf(m1, h) = gap
    BY <1>15 DEF IsPiece, SizeOf
  <2>2. S - gap \in Nat /\ S - gap < WORD
    BY <1>2, <1>3, <1>8, <1>9, Geometry
  <2> QED BY <1>14, <2>1, <2>2, NoWrap DEF Sub
<1>17. over = left
  <2>1. rest - new_size = left /\ left < WORD
    BY <1>2, <1>3, <1>8, <1>9, <1>11, <1>16, Geometry
  <2> QED BY <1>8, <2>1, NoWrap DEF Sub
<1>18. m2 = PutFooter(PutHeader(m1, at, 0, N), at + HEADER + PAGE, at) /\ behind = at + N
  BY <1>11
<1> HIDE DEF m2, over, behind
<1>19. /\ at \in Nat /\ at >= START /\ at + N <= LIMIT /\ behind \in Nat /\ behind >= START
       /\ behind + left = h + S /\ h + S <= LIMIT /\ h >= START
  BY <1>2, <1>3, <1>8, <1>12, <1>18, Geometry
<1>20. /\ m2 \in [Addr -> Word] /\ IsPiece(m2, at, 0, N)
       /\ \A a \in Addr : a < at \/ at + N <= a => m2[a] = m1[a]
  <2>1. at + HEADER + PAGE = at + (N - 2)
    BY <1>8, <1>19
  <2>2. at \in Nat /\ at >= START /\ at + N <= LIMIT /\ N \in Nat /\ N >= OVERHEAD
    BY <1>8, <1>19
  <2>3. m1 \in [Addr -> Word]
    BY <1>15
  <2> QED BY <1>18, <2>1, <2>2, <2>3, PieceWritten
<1>26. /\ h \in Nat /\ gap \in Nat /\ S \in Nat /\ N \in Nat /\ left \in Nat
       /\ at = h + gap /\ behind = at + N /\ behind + left = h + S
       /\ h + S <= LIMIT /\ LIMIT \in Nat /\ at \in Nat /\ behind \in Nat
  BY <1>2, <1>3, <1>8, <1>12, <1>18, <1>19, Geometry
<1>24. h + gap <= at /\ h + gap <= LIMIT /\ h + gap <= behind /\ at + N <= behind
  BY <1>26
<1>25. IsPiece(m2, h, 1, gap)
  <2>1. PICK hi \in Nat : hi = at + N
    BY <1>26
  <2>2. \A a \in Addr : a < at \/ hi <= a => m2[a] = m1[a]
    BY <1>20, <2>1
  <2>3. IsPiece(m1, h, 1, gap) /\ h >= START /\ gap >= OVERHEAD /\ h + gap <= at
    BY <1>2, <1>3, <1>15, <1>24
  <2> QED BY <1>24, <1>26, <2>2, <2>3, PieceLeft
<1>21. BackedHeader(at) /\ BackedFooter(at - FOOTER) /\ BackedFooter(at + HEADER + PAGE)
  <2>1. /\ at + 2 < end_address /\ at - FOOTER \in Nat /\ START <= at - FOOTER
        /\ at - FOOTER + 1 < end_address
        /\ at + HEADER + PAGE \in Nat /\ START <= at + HEADER + PAGE
        /\ at + HEADER + PAGE + 1 < end_address
    BY <1>2, <1>3, <1>8, <1>12, <1>19, Geometry
  <2> QED BY <1>19, <2>1, TagsWithin
<1>22. CASE left = 0
  <2>1. c.mem = m2 /\ c.index = index /\ c.ptr = at + HEADER
    BY <1>5, <1>12, <1>17, <1>22
  <2>2. ~ c.faults
    BY <1>6, <1>11, <1>17, <1>21, <1>22
  <2>4. \A a \in Addr : a \notin h .. h + S - 1 => m2[a] = mem[a]
    <3>1. ASSUME NEW a \in Addr, a \notin h .. h + S - 1
          PROVE  (a < h \/ h + gap <= a) /\ (a < at \/ at + N <= a)
      <4>1. a \in Int /\ (a < h \/ h + S <= a)
        BY <1>26, <3>1, Geometry DEF Addr
      <4> QED BY <1>26, <4>1
    <3> QED BY <1>15, <1>20, <3>1
  <2>5. SplitUp(c, h, S, gap)
    <3>1. /\ at = h + gap /\ left = S - gap - PAGE - OVERHEAD /\ N = PAGE + OVERHEAD
      BY <1>8, <1>12 DEF left
    <3> QED BY <1>20, <1>22, <1>25, <2>1, <2>2, <2>4, <3>1 DEF SplitUp
  <2> QED BY <1>3, <1>4, <2>5, Zenon DEF left, h, S, c, gap, request
<1>23. CASE left > 0
  <2>1. left >= OVERHEAD
    BY <1>3, <1>23
  <2>2. foot = behind + (left - 2) /\ foot < end_address
    <3>1. /\ behind + left - FOOTER = behind + (left - 2)
          /\ behind + (left - 2) \in Nat /\ behind + (left - 2) < end_address
          /\ behind + (left - 2) < WORD
      <4>1. /\ behind \in Nat /\ left \in Nat /\ h \in Nat /\ S \in Nat
            /\ behind + left = h + S
        BY <1>2, <1>8, <1>19
      <4>2. h + S <= end_address /\ end_address \in Nat /\ end_address < WORD /\ WORD \in Nat
        BY <1>2, Geometry
      <4> QED BY <2>1, <4>1, <4>2
    <3>2. (behind + (left - 2)) % WORD = behind + (left - 2)
      BY <3>1, NoWrap
    <3> QED BY <1>17, <3>1, <3>2
  <2> DEFINE a4 == PutFooter(PutHeader(m2, behind, 1, left), foot, behind)
  <2> HIDE DEF foot
  <2>3. m4 = a4
    BY <1>17, <1>23, <2>2
  <2>4. c.mem = a4 /\ c.index = InsertHole(a4, index, behind) /\ c.ptr = at + HEADER
    BY <1>5, <1>12, <1>17, <1>23, <2>3
  <2> HIDE DEF m4
  <2>5. /\ a4 \in [Addr -> Word] /\ IsPiece(a4, behind, 1, left)
        /\ \A a \in Addr : a < behind \/ behind + left <= a => a4[a] = m2[a]
    <3>1. /\ behind \in Nat /\ behind >= START /\ behind + left <= LIMIT
          /\ left \in Nat /\ left >= OVERHEAD
      BY <1>8, <1>19, <2>1
    <3>2. m2 \in [Addr -> Word]
      BY <1>20
    <3> QED BY <2>2, <3>1, <3>2, PieceWritten
  <2> HIDE DEF a4
  <2>6. IsPiece(a4, at, 0, N) /\ IsPiece(a4, h, 1, gap)
    <3>1. PICK hi \in Nat : hi = behind + left
      BY <1>26
    <3>3. \A a \in Addr : a < behind \/ hi <= a => a4[a] = m2[a]
      BY <2>5, <3>1
    <3>2. IsPiece(m2, at, 0, N) /\ at >= START /\ at + N <= LIMIT /\ N >= OVERHEAD
      BY <1>8, <1>19, <1>20
    <3>4. IsPiece(a4, at, 0, N)
      BY <1>24, <1>26, <3>2, <3>3, PieceLeft
    <3>6. h >= START /\ gap >= OVERHEAD
      BY <1>2, <1>3
    <3>5. IsPiece(a4, h, 1, gap)
      BY <1>24, <1>25, <1>26, <3>3, <3>6, PieceLeft
    <3> QED BY <3>4, <3>5
  <2>8. \A a \in Addr : a \notin h .. h + S - 1 => a4[a] = mem[a]
    <3>1. ASSUME NEW a \in Addr, a \notin h .. h + S - 1
          PROVE  /\ a < h \/ h + gap <= a
                 /\ a < at \/ at + N <= a
                 /\ a < behind \/ behind + left <= a
      <4>1. a \in Int /\ (a < h \/ h + S <= a)
        BY <1>26, <3>1, Geometry DEF Addr
      <4> QED BY <1>26, <4>1
    <3> QED BY <1>15, <1>20, <2>5, <3>1
  <2>9. ~ c.faults
    <3>1. BackedHeader(behind) /\ BackedFooter(foot)
      <4>2. behind + left <= end_address /\ end_address \in Nat
        BY <1>2, <1>19
      <4>1. /\ behind + 2 < end_address /\ foot \in Nat /\ START <= foot
            /\ foot + 1 < end_address
        BY <1>19, <1>26, <2>1, <2>2, <4>2, Geometry
      <4> QED BY <1>19, <4>1, TagsWithin
    <3> QED BY <1>6, <1>11, <1>21, <3>1
  <2>10. SplitUp(c, h, S, gap)
    <3>1. /\ at = h + gap /\ behind = h + gap + PAGE + OVERHEAD
          /\ left = S - gap - PAGE - OVERHEAD /\ N = PAGE + OVERHEAD
      BY <1>8, <1>12, <1>18 DEF N, left
    <3> QED BY <1>23, <2>4, <2>5, <2>6, <2>8, <2>9, <3>1 DEF SplitUp
  <2> QED BY <1>3, <1>4, <2>10, Zenon DEF left, h, S, c, gap, request
<1> QED BY <1>8, <1>22, <1>23

(* A search of the index that succeeds stops at a position of it.          *)
LEMMA SearchPosition ==
  ASSUME NEW size, NEW align, index \in Seq(HeaderAddr), find_smallest_hole(size, align) > 0
  PROVE  find_smallest_hole(size, align) \in 1 .. Len(index)
<1> DEFINE I == {j \in 1 .. Len(index) : Fits(index[j], size, align)}
           i == find_smallest_hole(size, align)
<1>1. i = IF I # {} THEN Min(I) ELSE 0
  BY Zenon DEF find_smallest_hole, SelectInSeq
<1>2. CASE I # {}
  <2>1. \E j \in I : \A n \in I : j <= n
    <3>1. I \subseteq Nat
      OBVIOUS
    <3> QED BY <1>2, <3>1, LeastElement, Zenon
  <2>2. Min(I) \in I
    BY <2>1 DEF Min
  <2> QED BY <1>1, <1>2, <2>2
<1>3. CASE I = {}
  BY <1>1, <1>3
<1> QED BY <1>2, <1>3

(* The step that serves get_page: the hole h gives the page-aligned b.     *)
ServesPage(h, b) ==
  /\ h \in Holes /\ b = [ptr |-> b.ptr, size |-> PAGE]
  /\ b.ptr \in Nat /\ b.ptr >= START /\ b.ptr % PAGE = 0
  /\ b \notin live /\ live' = live \cup {b} /\ call' = Idle
  /\ UNCHANGED <<end_address, present, status>>
  /\ \A a \in Addr : a \notin h .. h + SizeOf(mem, h) - 1 => mem'[a] = mem[a]
  /\ TailFree => TailFree'
  /\ \A x \in Holes' : \E y \in Holes : SizeOf(mem', x) <= SizeOf(mem, y)

LEMMA TableServed ==
  ASSUME Base, call = TableRequest, TableReady, AllocFromHole
  PROVE  Base' /\ \E h, b : ServesPage(h, b)
<1> DEFINE i == find_smallest_hole(PAGE + OVERHEAD, 1)
           c == Carved(i, TableRequest)
           h == index[i]
           S == SizeOf(mem, h)
           N == PAGE + OVERHEAD
           b == [ptr |-> c.ptr, size |-> PAGE]
<1>1. index \in Seq(HeaderAddr) /\ Unique(index) /\ mem \in [Addr -> Word]
  BY DEF Base, HeapTypes, FreeSpaceIndexed, Unique
<1>2. i \in 1 .. Len(index) /\ ServesTable(h)
  BY <1>1, SearchPosition DEF TableReady
<1>3. PICK gap \in Nat :
        LET left == S - gap - PAGE - OVERHEAD
        IN /\ SplitUp(c, h, S, gap)
           /\ gap >= OVERHEAD /\ (h + gap + HEADER) % PAGE = 0
           /\ (left = 0 /\ EndOf(h) # end_address) \/ left >= OVERHEAD
  BY <1>2, CarvedAligned
<1> DEFINE at == h + gap
           behind == at + N
           left == S - gap - PAGE - OVERHEAD
<1>4. TableRequest.size = PAGE /\ TableRequest.align = 1
  BY DEF TableRequest
<1>5. /\ mem' = c.mem /\ index' = c.index /\ live' = live \cup {b}
      /\ call' = Idle /\ UNCHANGED <<end_address, present, status>>
  <2>1. ~ c.faults
    BY <1>3 DEF SplitUp
  <2>2. call.size + OVERHEAD = PAGE + OVERHEAD /\ call.align = 1 /\ call.size = PAGE
    BY <1>4
  <2> HIDE DEF c, i
  <2> QED BY <2>1, <2>2, Zenon DEF AllocFromHole, c, i
<1>6. h \in Holes /\ h \in Pieces
  BY <1>1, <1>2, ToSetIsRange DEF Pieces, Holes
<1>7. /\ h \in Nat /\ h >= START /\ S \in Nat /\ S >= OVERHEAD
      /\ h + S <= end_address /\ end_address \in Nat /\ end_address <= LIMIT
      /\ EndOf(h) = h + S
  BY <1>6, PieceNumbers, PieceFacts
<1> HIDE DEF i, c, h, S
<1>8. /\ gap \in Nat /\ gap >= OVERHEAD /\ (h + gap + HEADER) % PAGE = 0
      /\ mem' \in [Addr -> Word]
      /\ \A a \in Addr : a \notin h .. h + S - 1 => mem'[a] = mem[a]
      /\ IsPiece(mem', h, 1, gap) /\ IsPiece(mem', at, 0, N)
      /\ b.ptr = at + HEADER /\ b.size = PAGE
      /\ left = 0 => index' = index
      /\ left > 0 => IsPiece(mem', behind, 1, left) /\ index' = InsertHole(mem', index, behind)
  <2>1. at + PAGE + OVERHEAD = behind
    BY <1>7, Geometry
  <2> QED BY <1>3, <1>5, <2>1 DEF SplitUp
<1>9. (left = 0 /\ EndOf(h) # end_address) \/ left >= OVERHEAD
  BY <1>3
<1>10. /\ N \in Nat /\ N >= OVERHEAD /\ N > PAGE /\ left \in Nat /\ S = gap + N + left
       /\ at \in Nat /\ behind \in Nat /\ at = h + gap /\ behind = at + N
       /\ behind + left = h + S /\ S - gap = N + left /\ PAGE \in Nat /\ PAGE > 0
       /\ START \in Nat /\ LIMIT \in Nat
  BY <1>7, <1>8, <1>9, Geometry
<1> HIDE DEF N, at, behind, left, b
<1>11. /\ SizeOf(mem', h) = gap /\ SizeOf(mem', at) = N
       /\ left > 0 => SizeOf(mem', behind) = left
  BY <1>8 DEF IsPiece, SizeOf
<1>12. ASSUME NEW q \in Pieces, q # h
       PROVE  /\ SizeOf(mem', q) = SizeOf(mem, q) /\ q # at
              /\ \A o : Header(o) = q /\ BlockTagged(mem, o) => BlockTagged(mem', o)
              /\ \A e : HoleTagged(mem, q, e) => HoleTagged(mem', q, e)
  <2>1. EndOf(q) <= h \/ h + S <= q
    BY <1>6, <1>7, <1>12, Apart
  <2>2. q # at
    BY <1>7, <1>8, <1>10, <1>12, <2>1, PieceNumbers
  <2>3. h + S \in Nat
    BY <1>7
  <2> QED BY <1>7, <1>8, <1>12, <2>1, <2>2, <2>3, TagsKept
<1>13. Sized(Pieces, mem) /\ Tiles(Pieces, mem, end_address)
  BY PieceFacts DEF Base, FreeSpaceIndexed
<1>14. at \in HeaderAddr /\ (left > 0 => behind \in HeaderAddr)
  BY <1>7, <1>8, <1>9, <1>10, Geometry DEF HeaderAddr
<1>15. Header(b) = at
  BY <1>8, <1>10 DEF Header
<1>16. at \notin Pieces
  BY <1>12, <1>7, <1>8, <1>10
<1>17. b \in [ptr : START + HEADER .. LIMIT - FOOTER, size : Positive] /\ b.ptr \in Nat
       /\ b.ptr >= START /\ b.ptr % PAGE = 0
  <2>1. b.ptr \in START + HEADER .. LIMIT - FOOTER /\ PAGE \in Positive
    BY <1>7, <1>8, <1>10 DEF Positive
  <2>2. b.ptr % PAGE = 0
    BY <1>8, <1>10
  <2>3. b.ptr \in Nat /\ b.ptr >= START
    BY <1>8, <1>10, <1>7
  <2> QED BY <2>1, <2>2, <2>3 DEF b
<1>18. \A o \in live : Header(o) \in Pieces /\ Header(o) # h /\ Header(o) \notin Holes
                       /\ o.ptr # b.ptr
  BY <1>6, <1>15, <1>16 DEF Base, FreeSpaceIndexed, Pieces, Header
<1>19. b \notin live
  BY <1>18
<1>20. BoundaryTags'
  <2>1. BlockTagged(mem', b)
    <3>1. /\ at + N - FOOTER = at + (N - 2) /\ at + N - FOOTER + 1 = at + (N - 1)
          /\ N >= b.size + OVERHEAD
      BY <1>8, <1>10 DEF N
    <3> QED BY <1>8, <1>11, <1>15, <3>1 DEF BlockTagged, IsPiece
  <2>2. \A o \in live : BlockTagged(mem', o)
    BY <1>12, <1>18 DEF Base, BoundaryTags
  <2> QED BY <1>5, <2>1, <2>2 DEF BoundaryTags
<1>21. NothingBelow' /\ CallServed' /\ AllPresent' /\ KeepsRunning'
  <2>1. START - FOOTER \in Addr /\ START - FOOTER \notin h .. h + S - 1
    BY <1>7, Geometry DEF Addr
  <2>2. NothingBelow'
    BY <1>8, <2>1 DEF Base, NothingBelow
  <2>3. CallServed'
    BY <1>5 DEF CallServed
  <2> QED BY <1>5, <2>2, <2>3 DEF Base, AllPresent, KeepsRunning
<1>22. \A o, p \in live' : o.ptr = p.ptr => o = p
  BY <1>5, <1>18 DEF Base, FreeSpaceIndexed
<1>23. /\ HoleTagged(mem', h, end_address)
       /\ \A q \in Holes \ {h} : HoleTagged(mem', q, end_address)
  <2>1. h + gap - FOOTER = h + (gap - 2) /\ h + gap - FOOTER + 1 = h + (gap - 1)
    BY <1>7, <1>8
  <2>2. HoleTagged(mem', h, end_address)
    BY <1>8, <1>11, <2>1 DEF HoleTagged, IsPiece
  <2> QED BY <1>12, <2>2 DEF Base, HoleTags, Pieces
<1>26. \A x \in Holes : \E y \in Holes : SizeOf(mem', x) <= SizeOf(mem, y)
  <2>1. ASSUME NEW x \in Holes, x # h PROVE SizeOf(mem', x) <= SizeOf(mem, x)
    BY <1>12, <2>1, HoleIsPiece, PieceNumbers
  <2>2. SizeOf(mem', h) <= SizeOf(mem, h)
    BY <1>8, <1>10, <1>11 DEF S
  <2> QED BY <1>6, <2>1, <2>2
<1>24. CASE left = 0
  <2>1. Holes' = Holes /\ index' = index
    BY <1>8, <1>24 DEF Holes
  <2>2. Pieces' = Pieces \cup {at}
    BY <1>5, <1>15, <2>1 DEF Pieces, Header
  <2>3. Tiles(Pieces \cup {at}, mem', end_address)
    <3>1. gap < S /\ SizeOf(mem', at) = S - gap /\ 0 < gap
      BY <1>8, <1>10, <1>11, <1>24
    <3>2. SizeOf(mem, h) = S
      BY DEF S
    <3>3. \A q \in Pieces \ {h} : SizeOf(mem', q) = SizeOf(mem, q)
      BY <1>12
    <3>4. SizeOf(mem', h + gap) = SizeOf(mem, h) - gap /\ gap < SizeOf(mem, h)
      BY <1>10, <3>1, <3>2
    <3>5. Tiles(Pieces \cup {h + gap}, mem', end_address)
      BY <1>6, <1>7, <1>11, <1>13, <3>1, <3>3, <3>4, SplitTile
    <3> QED BY <1>10, <3>5
  <2>4. FreeSpaceIndexed'
    <3>1. \A o \in live' : Header(o) \notin Holes'
      <4>1. at \notin Holes
        BY <1>16 DEF Pieces
      <4> QED BY <1>5, <1>15, <1>18, <2>1, <4>1
    <3> QED BY <1>1, <1>5, <1>22, <2>1, <2>2, <2>3, <3>1 DEF FreeSpaceIndexed, Unique
  <2>5. HoleTags'
    BY <1>5, <1>6, <1>23, <2>1 DEF HoleTags
  <2>6. HeapTypes'
    BY <1>5, <1>8, <1>17, <2>1 DEF Base, HeapTypes, Calls
  <2>7. TailFree => TailFree'
    <3>1. index # <<>>
      BY <1>6 DEF Holes, ToSet
    <3>2. ASSUME NEW x \in Holes, EndOf(x) = end_address
          PROVE  x \in Holes' /\ EndOf(x)' = end_address'
      <4>1. x # h
        BY <1>9, <1>10, <1>24, <3>2
      <4>2. SizeOf(mem', x) = SizeOf(mem, x)
        BY <1>12, <4>1, HoleIsPiece
      <4> QED BY <1>5, <2>1, <3>2, <4>2 DEF EndOf
    <3> QED BY <3>1, <3>2 DEF TailFree, EndOf
  <2>8. ServesPage(h, b)
    BY <1>5, <1>6, <1>8, <1>17, <1>19, <1>26, <2>1, <2>7 DEF ServesPage, b, S
  <2> QED BY <1>20, <1>21, <2>4, <2>5, <2>6, <2>8 DEF Base
<1>25. CASE left >= OVERHEAD
  <2>1. left > 0 /\ left \in Nat
    BY <1>10, <1>25
  <2> DEFINE mA == [mem EXCEPT ![h + 2] = gap, ![at + 2] = N + left]
  <2>2. /\ h + 2 \in Addr /\ at + 2 \in Addr /\ h + 2 # at + 2
    BY <1>7, <1>8, <1>10, Geometry DEF Addr
  <2>3. /\ SizeOf(mA, h) = gap /\ SizeOf(mA, at) = N + left
        /\ \A q \in Pieces \ {h} : SizeOf(mA, q) = SizeOf(mem, q)
    <3>1. mA[h + 2] = gap /\ mA[at + 2] = N + left
      BY <1>1, <2>2
    <3>2. ASSUME NEW q \in Pieces \ {h} PROVE mA[q + 2] = mem[q + 2]
      <4>1. q \in Nat /\ q # h /\ q # at /\ q + 2 \in Addr
        <5>1. q \in HeaderAddr
          BY PieceFacts
        <5> QED BY <1>12, <3>2, <5>1, Geometry DEF HeaderAddr, Addr
      <4>2. q + 2 # h + 2 /\ q + 2 # at + 2
        BY <1>7, <1>10, <4>1
      <4> QED BY <1>1, <4>1, <4>2
    <3> QED BY <3>1, <3>2 DEF SizeOf
  <2> HIDE DEF mA
  <2>4. Tiles(Pieces \cup {at}, mA, end_address)
    <3>1. gap < S /\ SizeOf(mA, at) = S - gap /\ 0 < gap /\ SizeOf(mem, h) = S
      BY <1>8, <1>10, <2>3 DEF S
    <3>2. \A q \in Pieces \ {h} : SizeOf(mA, q) = SizeOf(mem, q)
      BY <2>3
    <3>3. SizeOf(mA, h) = gap /\ SizeOf(mA, h + gap) = SizeOf(mem, h) - gap
          /\ gap < SizeOf(mem, h)
      BY <1>10, <2>3, <3>1
    <3>4. Tiles(Pieces \cup {h + gap}, mA, end_address)
      BY <1>6, <1>7, <1>8, <1>13, <3>1, <3>2, <3>3, SplitTile
    <3> QED BY <1>10, <3>4
  <2> DEFINE P == Pieces \cup {at}
  <2>5. Sized(P, mA)
    <3>1. N + left \in Nat /\ N + left > 0 /\ at \in Nat /\ gap > 0
      BY <1>8, <1>10
    <3> QED BY <1>7, <1>8, <1>13, <2>3, <3>1 DEF Sized
  <2>6. \A q \in P \ {at} : SizeOf(mem', q) = SizeOf(mA, q)
    BY <1>11, <1>12, <2>3
  <2> HIDE DEF P
  <2>7. Tiles(P \cup {at + N}, mem', end_address) /\ at + N \notin P
    <3>1. /\ at \in P /\ 0 < N /\ N < SizeOf(mA, at) /\ SizeOf(mem', at) = N
          /\ SizeOf(mem', at + N) = SizeOf(mA, at) - N
      BY <1>10, <1>11, <2>1, <2>3 DEF P
    <3> QED BY <1>7, <1>10, <2>4, <2>5, <2>6, <3>1, SplitTile DEF P
  <2>8. /\ Holes' = Holes \cup {behind} /\ Unique(index') /\ index' \in Seq(HeaderAddr)
    <3>1. behind \in HeaderAddr /\ behind \notin ToSet(index)
      BY <1>10, <1>14, <2>1, <2>7 DEF P, Pieces, Holes
    <3>2. index' = InsertHole(mem', index, behind)
      BY <1>8, <2>1
    <3>3. /\ InsertHole(mem', index, behind) \in Seq(HeaderAddr)
          /\ ToSet(InsertHole(mem', index, behind)) = ToSet(index) \cup {behind}
          /\ Unique(InsertHole(mem', index, behind))
      BY <1>1, <3>1, InsertHoleItems
    <3> QED BY <3>2, <3>3 DEF Holes
  <2>9. Pieces' = P \cup {at + N}
    BY <1>5, <1>10, <1>15, <2>8 DEF Pieces, Header, P
  <2>10. behind \notin Pieces /\ behind # at
    BY <1>10, <2>7 DEF P
  <2>11. FreeSpaceIndexed'
    <3>1. \A o \in live' : Header(o) \notin Holes'
      <4>1. at \notin Holes
        BY <1>16 DEF Pieces
      <4> QED BY <1>5, <1>15, <1>18, <2>8, <2>10, <4>1
    <3> QED BY <1>5, <1>22, <2>7, <2>8, <2>9, <3>1 DEF FreeSpaceIndexed, Unique
  <2>12. HoleTags'
    <3>1. behind + left - FOOTER = behind + (left - 2)
          /\ behind + left - FOOTER + 1 = behind + (left - 1)
      BY <1>10
    <3>2. HoleTagged(mem', behind, end_address)
      BY <1>8, <1>11, <1>25, <2>1, <3>1 DEF HoleTagged, IsPiece
    <3> QED BY <1>5, <1>6, <1>23, <2>8, <3>2 DEF HoleTags
  <2>13. HeapTypes'
    BY <1>5, <1>8, <1>17, <2>8 DEF Base, HeapTypes, Calls
  <2>14. TailFree => TailFree'
    <3>1. index # <<>>
      BY <1>6 DEF Holes, ToSet
    <3>2. ASSUME NEW x \in Holes, EndOf(x) = end_address
          PROVE  \E y \in Holes' : EndOf(y)' = end_address'
      <4>1. CASE x # h
        <5>1. SizeOf(mem', x) = SizeOf(mem, x)
          BY <1>12, <4>1, HoleIsPiece
        <5>2. x \in Holes' /\ EndOf(x)' = end_address'
          BY <1>5, <2>8, <3>2, <5>1 DEF EndOf
        <5> QED BY <5>2
      <4>2. CASE x = h
        <5>1. behind + SizeOf(mem', behind) = end_address'
          BY <1>5, <1>7, <1>10, <1>11, <2>1, <3>2, <4>2
        <5>2. PICK y : y = behind
          OBVIOUS
        <5>3. y \in Holes' /\ EndOf(y)' = end_address'
          BY <2>8, <5>1, <5>2 DEF EndOf
        <5> QED BY <5>3
      <4> QED BY <4>1, <4>2
    <3> QED BY <3>1, <3>2 DEF TailFree, EndOf
  <2>15. \A x \in Holes' : \E y \in Holes : SizeOf(mem', x) <= SizeOf(mem, y)
    <3>1. SizeOf(mem', behind) <= SizeOf(mem, h)
      BY <1>8, <1>10, <1>11, <2>1 DEF S
    <3> QED BY <1>6, <1>26, <2>8, <3>1
  <2>16. ServesPage(h, b)
    BY <1>5, <1>6, <1>8, <1>17, <1>19, <2>14, <2>15 DEF ServesPage, b, S
  <2> QED BY <1>20, <1>21, <2>11, <2>12, <2>13, <2>16 DEF Base
<1> QED BY <1>9, <1>24, <1>25

-----------------------------------------------------------------------------
(* What the steps of expand leave as it was.                               *)

LEMMA SameSearch ==
  ASSUME index' = index, \A h \in Holes : SizeOf(mem', h) = SizeOf(mem, h),
         index \in Seq(HeaderAddr), NEW size, NEW align
  PROVE  find_smallest_hole(size, align)' = find_smallest_hole(size, align)
<1>1. \A j \in 1 .. Len(index) : index[j] \in Holes
  BY ToSetIsRange DEF Holes
<1> DEFINE I == {j \in 1 .. Len(index) : Fits(index[j], size, align)}
           J == {j \in 1 .. Len(index') : Fits(index[j], size, align)'}
<1>2. find_smallest_hole(size, align) = IF I # {} THEN Min(I) ELSE 0
  BY Zenon DEF find_smallest_hole, SelectInSeq
<1>3. find_smallest_hole(size, align)' = IF J # {} THEN Min(J) ELSE 0
  BY Zenon DEF find_smallest_hole, SelectInSeq
<1>4. \A j \in 1 .. Len(index) : Fits(index[j], size, align)' <=> Fits(index[j], size, align)
  BY <1>1 DEF Fits, AlignOffset, Sub
<1>5. I = J
  BY <1>4
<1> HIDE DEF I, J
<1> QED BY <1>2, <1>3, <1>5

LEMMA SameHoles ==
  ASSUME UNCHANGED <<index, end_address>>,
         \A h \in Holes : SizeOf(mem', h) = SizeOf(mem, h), index \in Seq(HeaderAddr)
  PROVE  (TableReady => TableReady') /\ (TailFree => TailFree')
<1> DEFINE n == PAGE + OVERHEAD
<1>1. \A j \in 1 .. Len(index) : index[j] \in Holes
  BY ToSetIsRange DEF Holes
<1>6. find_smallest_hole(n, 1)' = find_smallest_hole(n, 1)
  BY SameSearch
<1>7. TableReady => TableReady'
  <2> SUFFICES ASSUME TableReady PROVE TableReady'
    OBVIOUS
  <2> DEFINE i == find_smallest_hole(n, 1)
  <2>1. i > 0 /\ ServesTable(index[i])
    BY DEF TableReady
  <2>2. i \in 1 .. Len(index)
    BY <2>1, SearchPosition
  <2>3. PICK h : h = index[i]
    OBVIOUS
  <2>4. h \in Holes /\ ServesTable(h)
    BY <1>1, <2>1, <2>2, <2>3
  <2>5. ServesTable(h)'
    BY <2>4 DEF ServesTable, EndOf
  <2>6. i' = i
    BY <1>6
  <2> HIDE DEF i
  <2>7. index'[i'] = h /\ i' > 0
    BY <2>1, <2>3, <2>6
  <2> QED BY <2>5, <2>7 DEF TableReady, i
<1>8. TailFree => TailFree'
  <2>1. Holes' = Holes
    BY DEF Holes
  <2>2. ASSUME NEW h \in Holes, EndOf(h) = end_address PROVE EndOf(h)' = end_address'
    BY <2>2 DEF EndOf
  <2> QED BY <2>1, <2>2 DEF TailFree
<1> QED BY <1>7, <1>8

LEMMA SameLacking ==
  ASSUME NEW lo, NEW hi, directory' = directory
  PROVE  /\ Lacking(lo, hi)' = Lacking(lo, hi)
         /\ Provided(lo, hi) /\ (TableReady => TableReady') => Provided(lo, hi)'
<1>1. Lacking(lo, hi)' = Lacking(lo, hi)
  BY DEF Lacking
<1> QED BY <1>1 DEF Provided

(* Where an entry of a table of the heap stands.                           *)
LEMMA EntryStands ==
  ASSUME Base, Tables, NEW p \in Pages, HeapTable(TableOf(p))
  PROVE  /\ p \in Nat /\ TableOf(p) \in Directory
         /\ BlockOf(directory[TableOf(p)]) \in live
         /\ EntryAt(p) \in Payload(BlockOf(directory[TableOf(p)]))
<1>1. p \in Nat /\ TableOf(p) \in Directory
  BY FrameFits DEF Directory
<1>2. TableBlock(directory[TableOf(p)]) /\ directory[TableOf(p)] \in Nat
  BY <1>1 DEF Tables, TablesStand, TablesTyped
<1>3. p % TABLE \in 0 .. TABLE - 1
  BY <1>1, TableOfType
<1>4. EntryAt(p) \in directory[TableOf(p)] .. directory[TableOf(p)] + PAGE - 1
  BY <1>2, <1>3, TableFacts, Geometry DEF EntryAt
<1>5. Payload(BlockOf(directory[TableOf(p)]))
        = directory[TableOf(p)] .. directory[TableOf(p)] + PAGE - 1
  BY DEF Payload, BlockOf
<1> QED BY <1>1, <1>2, <1>4, <1>5 DEF TableBlock

(* Tables stay what they are while the words of their blocks do.           *)
LEMMA TablesKept ==
  ASSUME Base, Tables, UNCHANGED <<directory, physical, placed, present>>,
         \A t \in Directory : HeapTable(t) =>
           LET b == BlockOf(directory[t]) IN b \in live' /\ PayloadKept(b)
  PROVE  Tables'
<1>1. ASSUME NEW p \in Pages PROVE Entry(p)' = Entry(p)
  <2>1. CASE HeapTable(TableOf(p))
    <3>1. EntryAt(p)' = EntryAt(p)
      BY DEF EntryAt
    <3>2. PayloadKept(BlockOf(directory[TableOf(p)]))
      BY <2>1, EntryStands
    <3>3. mem'[EntryAt(p)] = mem[EntryAt(p)]
      BY <2>1, <3>2, EntryStands DEF PayloadKept
    <3> QED BY <2>1, <3>1, <3>3 DEF Entry, HeapTable
  <2>2. CASE ~ HeapTable(TableOf(p))
    BY <2>2 DEF Entry, HeapTable
  <2> QED BY <2>1, <2>2
<1>2. EntriesTell'
  BY <1>1 DEF Tables, EntriesTell
<1>3. TablesTyped'
  BY DEF Tables, TablesTyped
<1>4. TablesStand'
  <2> SUFFICES ASSUME NEW t \in Directory, HeapTable(t)
      PROVE /\ TableBlock(directory[t])' /\ physical'[t] = PageOf(directory[t]) + TABLE
            /\ \A u \in Directory : directory[u] = directory[t] => u = t
    BY DEF TablesStand, HeapTable
  <2> QED BY DEF Tables, TablesStand, TableBlock, BlockOf
<1> QED BY <1>2, <1>3, <1>4 DEF Tables

-----------------------------------------------------------------------------
(* The steps.                                                              *)

LEMMA LastPage ==
  ASSUME NEW b \in Nat, b % PAGE = 0, b >= PAGE
  PROVE  PageOf(b - 1) = PageOf(b) - 1 /\ b - 1 \in Nat /\ PageOf(b) \in Nat
<1>1. PAGE \in Nat /\ PAGE > 0
  BY Geometry
<1>2. b - 1 \in Nat /\ b - 1 < b /\ b - PAGE \in Nat /\ b - PAGE <= b - 1
  BY <1>1
<1>3. PageOf(b - 1) < PageOf(b)
  BY <1>2, BelowBoundary
<1>4. (b - PAGE) % PAGE = 0
  <2>1. PageOf(b) \in Nat /\ b = PAGE * PageOf(b)
    BY PageBoundary, PageOfType
  <2> DEFINE k == PageOf(b) - 1
  <2>2. k \in Nat
    <3>1. PageOf(b) # 0
      BY <1>1, <2>1
    <3> QED BY <2>1, <3>1
  <2>3. b - PAGE = PAGE * k + 0 /\ 0 \in 0 .. PAGE - 1
    BY <1>1, <2>1
  <2> HIDE DEF k
  <2>4. (PAGE * k + 0) % PAGE = 0
    BY <1>1, <2>2, <2>3, Quotients
  <2> QED BY <2>3, <2>4
<1>5. PageOf((b - PAGE) + PAGE) = PageOf(b - PAGE) + 1
  BY <1>2, <1>4, NextPage
<1>6. (b - PAGE) + PAGE = b
  BY <1>1
<1>7. PageOf(b - PAGE) <= PageOf(b - 1)
  BY <1>2, PageOrder
<1>8. PageOf(b) \in Nat /\ PageOf(b - 1) \in Nat /\ PageOf(b - PAGE) \in Nat
  BY <1>2, PageOfType
<1> QED BY <1>2, <1>3, <1>5, <1>6, <1>7, <1>8

LEMMA RangeMax ==
  ASSUME NEW m \in Nat, NEW n \in Nat, m <= n
  PROVE  Max(m .. n) = n
  BY DEF Max

LEMMA TInvInit ==
  ASSUME TablesInit
  PROVE  TInv
<1> DEFINE e == START + INITIAL_SIZE
           last == PageOf(e) - 1
<1>1. /\ end_address = e /\ call = Idle /\ expanding = <<>>
      /\ present = PageOf(START) .. PageOf(e - 1)
      /\ placed = [p \in Pages |-> IF p \in present THEN p + TABLE ELSE 0]
      /\ frames = 1 .. Max(present) + TABLE
      /\ directory = [t \in Directory |->
                        IF \E p \in present : TableOf(p) = t THEN PLACED ELSE 0]
      /\ physical = [t \in Directory |-> 0]
  <2>1. directory = [t \in Directory |->
                       IF \E p \in present : TableOf(p) = t THEN PLACED ELSE 0]
    BY Zenon DEF TablesInit, Directory
  <2>2. physical = [t \in Directory |-> 0]
    BY <2>1 DEF TablesInit
  <2>3. end_address = e /\ call = Idle /\ present = PageOf(START) .. PageOf(e - 1)
    <3>1. START + (INITIAL_SIZE - 1) = e - 1
      BY Geometry
    <3>2. end_address = e /\ call = Idle /\ present = PageOf(START) .. PageOf(START + (INITIAL_SIZE - 1))
      BY Zenon DEF TablesInit, Init
    <3> QED BY <3>1, <3>2, Zenon
  <2>4. placed = [p \in Pages |-> IF p \in present THEN p + TABLE ELSE 0]
    BY Zenon DEF TablesInit
  <2>5. frames = 1 .. Max(present) + TABLE /\ expanding = <<>>
    BY Zenon DEF TablesInit
  <2> QED BY <2>1, <2>2, <2>3, <2>4, <2>5, Zenon
<1>2. Base
  BY InitEstablishes DEF TablesInit
<1>3. /\ START \in Nat /\ INITIAL_SIZE \in Nat /\ START % PAGE = 0 /\ INITIAL_SIZE % PAGE = 0
      /\ INITIAL_SIZE >= PAGE /\ START >= PAGE /\ PAGE \in Nat /\ PAGE > 0
      /\ e \in Nat /\ e <= LIMIT /\ e >= PAGE /\ START + PAGE <= e /\ START < e
  BY TableFacts, Geometry
<1>4. e % PAGE = 0
  BY <1>3, BoundarySum
<1> HIDE DEF e
<1>5. /\ PageOf(e - 1) = last /\ last \in Nat /\ PageOf(START) \in Nat
      /\ PageOf(START) <= last /\ e - 1 \in Nat /\ e - 1 < LIMIT
  <2>1. PageOf(e - 1) = last /\ e - 1 \in Nat /\ PageOf(e) \in Nat
    BY <1>3, <1>4, LastPage
  <2>2. e - 1 < LIMIT /\ START <= e - 1
    BY <1>3, <2>1, Geometry
  <2> QED BY <1>3, <2>1, <2>2, PageOfType, PageOrder
<1> HIDE DEF last
<1>6. present = PageOf(START) .. last /\ Max(present) = last
  BY <1>1, <1>5, RangeMax
<1>7. Bounded
  BY <1>1, <1>3, <1>4 DEF Bounded
<1>8. PagesMapped
  <2>1. Reach = e
    BY <1>1 DEF Reach
  <2> QED BY <1>1, <1>6, <2>1 DEF PagesMapped, last
<1>9. present \subseteq Pages
  <2>1. last \in Pages
    BY <1>5, PageBelow
  <2>2. PageOf(LIMIT - 1) \in Nat
    BY Geometry, PageOfType
  <2> QED BY <1>5, <1>6, <2>1, <2>2 DEF Pages
<1>10. Tables
  <2>1. TablesTyped
    <3>1. \A p \in Pages : p + TABLE \in Nat
      BY FrameFits DEF Word
    <3>2. PLACED \in Nat
      BY TableFacts
    <3> QED BY <1>1, <3>1, <3>2 DEF TablesTyped
  <2>2. \A t \in Directory : ~ HeapTable(t)
    BY <1>1 DEF HeapTable
  <2>3. EntriesTell
    <3>1. \A p \in Pages : TableOf(p) \in Directory
      BY DEF Directory
    <3> QED BY <1>1, <2>2, <3>1 DEF EntriesTell, Entry
  <2>4. ASSUME NEW p \in present PROVE directory[TableOf(p)] # 0
    <3>1. TableOf(p) \in Directory
      BY <1>9 DEF Directory
    <3> QED BY <1>1, <3>1, TableFacts
  <2> QED BY <2>1, <2>2, <2>3, <2>4 DEF Tables, TablesStand
<1> QED BY <1>1, <1>2, <1>7, <1>8, <1>10 DEF TInv, Planned, Expansion

LEMMA IdleIsNoRequest ==
  ASSUME NEW size \in Nat, NEW align \in Nat
  PROVE  [size |-> size, align |-> align] # Idle
  BY IdleAssumption

(* The tables that the callers count are those that expand will lack.      *)
LEMMA NewTablesLack ==
  ASSUME Base, NEW size \in Nat
  PROVE  NewTables(size) = Lacking(end_address, START + RoundUp(end_address - START + size + OVERHEAD))
<1> DEFINE top == START + RoundUp(end_address - START + size + OVERHEAD)
<1> DEFINE T == {TableOf(PageOf(a)) : a \in end_address .. top - 1}
<1> DEFINE r == RoundUp(end_address - START + size + OVERHEAD)
           U == {TableOf(PageOf(a)) : a \in end_address .. START + (r - 1)}
<1>3. NewTables(size) = {t \in U : directory[t] = 0}
  BY Zenon DEF NewTables
<1>4. START + (r - 1) = top - 1
  <2>1. end_address - START + size + OVERHEAD \in Nat
    BY PieceFacts, Geometry
  <2>2. r \in Nat
    BY <2>1, RoundUpBound
  <2> HIDE DEF r
  <2> QED BY <2>2, Geometry DEF r
<1>1. NewTables(size) = {t \in T : directory[t] = 0}
  BY <1>3, <1>4, Zenon
<1>2. Lacking(end_address, top) = {t \in T : directory[t] = 0}
  BY Zenon DEF Lacking
<1> QED BY <1>1, <1>2

(* A request of a caller.                                                  *)
LEMMA RequestKeeps ==
  ASSUME TInv, Growth = "tail", NEW size \in Sizes, Request(size)
  PROVE  TInv'
<1>1. /\ expanding = <<>> /\ expanding' = <<>> /\ call = Idle
      /\ call' = [size |-> size, align |-> 0]
      /\ UNCHANGED <<mem, index, end_address, present, live, status>>
      /\ UNCHANGED <<directory, physical, placed, frames>>
      /\ MayRequest(size, 0) /\ MayCross(size)
  BY DEF Request, Call, tableVars
<1>2. Base /\ Bounded /\ PagesMapped /\ Tables
  BY DEF TInv
<1>3. size \in Positive /\ size \in Nat
  BY SizesPositive
<1>4. call'.size = size /\ call'.align = 0
  BY <1>1
<1>5. Holes' = Holes
  BY <1>1 DEF Holes
<1>6. Base'
  <2>1. CallServed'
    <3>1. \/ index = <<>>
          \/ \E h \in Holes : EndOf(h) = end_address
          \/ \E h \in Holes : SizeOf(mem, h) >= size + OVERHEAD
      BY <1>1 DEF MayRequest
    <3> QED BY <1>1, <1>4, <1>5, <3>1 DEF CallServed, EndOf
  <2>2. call' \in Calls
    BY <1>1, <1>3 DEF Calls
  <2>3. present \subseteq Nat
    BY <1>2 DEF Base, HeapTypes
  <2> QED BY <1>1, <1>2, <2>1, <2>2, <2>3, QuietPreserves
<1>7. Bounded' /\ PagesMapped'
  BY <1>1, <1>2 DEF Bounded, PagesMapped, Reach
<1>8. Tables'
  <2>1. ASSUME NEW t \in Directory, HeapTable(t)
        PROVE  LET b == BlockOf(directory[t]) IN b \in live' /\ PayloadKept(b)
    BY <1>1, <1>2, <2>1 DEF Tables, TablesStand, TableBlock, PayloadKept
  <2> QED BY <1>1, <1>2, <2>1, TablesKept
<1>9. Planned'
  <2> DEFINE top == START + RoundUp(end_address - START + size + OVERHEAD)
  <2>1. Expanded' = top
    BY <1>1, <1>4 DEF Expanded
  <2>2. NewTables(size) = Lacking(end_address, top)
    BY <1>2, <1>3, NewTablesLack
  <2>3. TableReady => TableReady'
    BY <1>1, <1>2, SameHoles DEF Base, HeapTypes
  <2>4. find_smallest_hole(size + OVERHEAD, 0)' = find_smallest_hole(size + OVERHEAD, 0)
    BY <1>1, <1>2, SameSearch DEF Base, HeapTypes
  <2>5. find_smallest_hole(size + OVERHEAD, 0) > 0 \/ Provided(end_address, top)
    <3>1. CASE NewTables(size) = {}
      BY <2>2, <3>1 DEF Provided
    <3>2. CASE Cardinality(NewTables(size)) = 1 /\ TableReady
      <4>1. IsFiniteSet(NewTables(size))
        <5>1. top - 1 \in Int /\ end_address \in Int
          <6>1. end_address \in Nat /\ START \in Nat /\ START <= end_address
            BY <1>2, PieceFacts, Geometry
          <6>2. end_address - START + size + OVERHEAD \in Nat
            BY <1>3, <6>1
          <6> QED BY <6>1, <6>2, RoundUpBound
        <5> HIDE DEF top
        <5> DEFINE A == end_address .. top - 1
                   T == {TableOf(PageOf(a)) : a \in A}
        <5>2. IsFiniteSet(A)
          BY <5>1, FS_Interval
        <5> HIDE DEF A
        <5>3. IsFiniteSet(T)
          <6> DEFINE f == [a \in A |-> TableOf(PageOf(a))]
          <6>1. f \in Surjection(A, T)
            BY DEF Surjection
          <6> QED BY <5>2, <6>1, FS_Surjection
        <5>4. NewTables(size) \subseteq T
          BY <2>2 DEF Lacking, A
        <5> QED BY <5>3, <5>4, FS_Subset
      <4>2. PICK t : NewTables(size) = {t}
        BY <3>2, <4>1, FS_Singleton
      <4> QED BY <2>2, <3>2, <4>2 DEF Provided
    <3> QED BY <1>1, <3>1, <3>2 DEF MayCross, TableReady
  <2> HIDE DEF top
  <2>6. PICK lo, hi : lo = end_address /\ hi = top
    OBVIOUS
  <2>7. Provided(end_address, top) => Provided(lo, hi)'
    BY <1>1, <2>3, <2>6, SameLacking
  <2>8. find_smallest_hole(size + OVERHEAD, 0)' > 0 \/ Provided(lo, hi)'
    BY <2>4, <2>5, <2>7
  <2> QED BY <1>1, <1>4, <2>1, <2>6, <2>8 DEF Planned
<1> QED BY <1>1, <1>6, <1>7, <1>8, <1>9 DEF TInv, Expansion

(* A step that leaves the blocks and their words alone leaves the tables.  *)
LEMMA TablesSurvive ==
  ASSUME Base, Tables, UNCHANGED <<directory, physical, placed, present>>,
         live \subseteq live', \A b \in live : PayloadKept(b)
  PROVE  Tables'
<1>1. ASSUME NEW t \in Directory, HeapTable(t)
      PROVE  LET b == BlockOf(directory[t]) IN b \in live' /\ PayloadKept(b)
  BY <1>1 DEF Tables, TablesStand, TableBlock
<1> QED BY <1>1, TablesKept

(* A caller gives a block back.                                            *)
LEMMA ReleaseKeeps ==
  ASSUME TInv, NEW b \in live, Release(b)
  PROVE  TInv'
<1>1. /\ expanding = <<>> /\ b.ptr \notin {directory[t] : t \in DOMAIN directory}
      /\ free(b) /\ UNCHANGED <<directory, physical, placed, frames, expanding>>
  BY DEF Release, tableVars
<1>2. Base /\ Bounded /\ PagesMapped /\ Tables
  BY DEF TInv
<1>3. PICK c \in live : Header(c) = EndOf(Header(b))
  BY <1>1, TableAssumption DEF free, MayFree
<1>4. PICK p : FreesInner(b, p)
  BY <1>1, <1>2, <1>3, FreeBeforeBlock
<1>5. Base'
  BY <1>2, <1>4, FreesInnerPreserves
<1>6. /\ UNCHANGED <<present, call, status, end_address>> /\ call = Idle
      /\ live' = live \ {b}
  BY <1>4 DEF FreesInner, Frees
<1>7. Bounded' /\ PagesMapped'
  BY <1>1, <1>2, <1>6 DEF Bounded, PagesMapped, Reach
<1>8. Tables'
  <2>1. ASSUME NEW t \in Directory, HeapTable(t)
        PROVE  LET c1 == BlockOf(directory[t]) IN c1 \in live' /\ PayloadKept(c1)
    <3>1. BlockOf(directory[t]) \in live
      BY <1>2, <2>1 DEF Tables, TablesStand, TableBlock
    <3>2. BlockOf(directory[t]).ptr # b.ptr
      BY <1>1, <1>2 DEF Tables, TablesTyped, BlockOf
    <3>3. BlockOf(directory[t]) \in live'
      BY <1>6, <3>1, <3>2
    <3> QED BY <1>2, <1>4, <3>1, <3>3, FreeingKeepsPayload
  <2> QED BY <1>1, <1>2, <1>6, <2>1, TablesKept
<1> QED BY <1>1, <1>5, <1>6, <1>7, <1>8 DEF TInv, Planned, Expansion

(* The call of expand in progress.                                         *)
LEMMA InExpand ==
  ASSUME TInv, expanding # <<>>
  PROVE  \E e \in Expansions :
           /\ expanding = <<e>> /\ Top1 = 1 /\ expanding[1] = e
           /\ Underway(e) /\ (Maps(e) \/ AsksTable(e) \/ HoldsTable(e))
           /\ Page = PageOf(e.at) /\ Waiting(e) = TableOf(Page)
<1>1. PICK e : expanding = <<e>> /\ Underway(e) /\ (Maps(e) \/ AsksTable(e) \/ HoldsTable(e))
  BY DEF TInv, Expansion
<1>2. Top1 = 1 /\ expanding[1] = e
  BY <1>1 DEF Top1
<1> QED BY <1>1, <1>2 DEF Underway, Page, Waiting

LEMMA WaitingLacks ==
  ASSUME NEW e \in Expansions, e.at < e.new, e.new <= LIMIT
  PROVE  /\ PageOf(e.at) \in Pages /\ Waiting(e) \in Directory
         /\ directory[Waiting(e)] = 0 => Waiting(e) \in Lacking(e.at, e.new)
<1>1. e.at \in Nat /\ e.new \in Nat
  BY DEF Expansions
<1>2. e.at < LIMIT /\ e.at \in e.at .. e.new - 1
  BY <1>1, Geometry
<1> QED BY <1>1, <1>2, PageBelow DEF Waiting, Lacking

LEMMA TableRequestIs ==
  TableRequest # Idle /\ TableRequest \in Calls /\ TableRequest.size = PAGE /\ TableRequest.align = 1
<1>1. PAGE \in Positive /\ PAGE \in Nat
  BY Geometry DEF Positive
<1>2. TableRequest # Idle
  BY <1>1, IdleIsNoRequest DEF TableRequest
<1> QED BY <1>1, <1>2 DEF TableRequest, Calls

(* alloc calls expand for a request only: kmalloc_ap is served by a hole.  *)
LEMMA BeginsFirst ==
  ASSUME TInv, BeginExpand
  PROVE  expanding = <<>>
<1> SUFFICES ASSUME expanding # <<>> PROVE FALSE
  OBVIOUS
<1>1. call # Idle /\ find_smallest_hole(call.size + OVERHEAD, call.align) = 0
  BY DEF BeginExpand
<1>2. PICK e \in Expansions : /\ Underway(e)
                              /\ Maps(e) \/ AsksTable(e) \/ HoldsTable(e)
  BY InExpand
<1>3. AsksTable(e)
  BY <1>1, <1>2 DEF Maps, HoldsTable
<1>4. e.at < e.new /\ e.new <= LIMIT /\ directory[Waiting(e)] = 0 /\ call = TableRequest
  BY <1>2, <1>3 DEF AsksTable, Underway
<1>5. TableReady
  BY <1>3, <1>4, WaitingLacks DEF AsksTable, Provided
<1> QED BY <1>1, <1>4, <1>5, TableRequestIs DEF TableReady

(* alloc finds no hole, and calls expand.                                  *)
LEMMA BeginExpandKeeps ==
  ASSUME TInv, BeginExpand
  PROVE  TInv'
<1>1. Base /\ Bounded /\ PagesMapped /\ Tables
  BY DEF TInv
<1>2. /\ call # Idle /\ call' = Idle /\ Expanded <= LIMIT
      /\ find_smallest_hole(call.size + OVERHEAD, call.align) = 0
      /\ UNCHANGED <<mem, index, end_address, present, live, status>>
      /\ UNCHANGED <<directory, physical, placed, frames>>
  BY DEF BeginExpand
<1>3. expanding = <<>>
  BY BeginsFirst
<1>4. call.align = 0 /\ Provided(end_address, Expanded)
  BY <1>2, <1>3 DEF TInv, Planned
<1>5. /\ call \in [size : Positive, align : {0}]
      /\ call.size \in Nat /\ call.size > 0
  BY <1>1, <1>2, <1>4, CallFacts
<1>6. TailFree
  <2>1. /\ index \in Seq(HeaderAddr)
        /\ \/ index = <<>>
           \/ \E h \in Holes : EndOf(h) = end_address
           \/ \E h \in Holes : SizeOf(mem, h) >= call.size + OVERHEAD
    BY <1>1, <1>2 DEF Base, HeapTypes, CallServed
  <2>2. ASSUME NEW h \in Holes, SizeOf(mem, h) >= call.size + OVERHEAD PROVE FALSE
    <3>1. \A j \in 1 .. Len(index) : ~ (SizeOf(mem, index[j]) >= call.size + OVERHEAD)
      <4>1. find_smallest_hole(call.size + OVERHEAD, 0) \notin 1 .. Len(index)
        BY <1>2, <1>4
      <4> QED BY <2>1, <4>1, SearchFinds
    <3>2. PICK j \in 1 .. Len(index) : index[j] = h
      BY <2>1, ToSetIsRange DEF Holes
    <3> QED BY <2>2, <3>1, <3>2
  <2> QED BY <2>1, <2>2 DEF TailFree
<1> DEFINE e == [request |-> call, old |-> end_address, at |-> end_address,
                 new |-> Expanded, table |-> 0]
<1>7. expanding' = <<e>>
  BY <1>3 DEF BeginExpand
<1>8. /\ end_address \in Nat /\ START <= end_address /\ START + PAGE <= end_address
      /\ end_address % PAGE = 0 /\ START \in Nat /\ PAGE \in Nat /\ PAGE > 0
      /\ START % PAGE = 0
  BY <1>1, PieceFacts, Geometry, TableFacts DEF Bounded
<1>9. /\ Expanded \in Nat /\ Expanded % PAGE = 0
      /\ end_address + call.size + OVERHEAD <= Expanded
  <2> DEFINE n == end_address - START + call.size + OVERHEAD
  <2>1. n \in Nat /\ n >= PAGE
    BY <1>5, <1>8
  <2> HIDE DEF n
  <2>2. RoundUp(n) % PAGE = 0 /\ RoundUp(n) \in Nat
    BY <2>1, RoundedUp
  <2>3. Expanded = START + RoundUp(n)
    BY DEF Expanded, n
  <2>4. Expanded % PAGE = 0
    BY <1>8, <2>2, <2>3, BoundarySum
  <2> QED BY <1>1, <1>2, <2>4, ExpandedIs
<1>10. Base'
  <2>1. CallServed' /\ call' \in Calls
    BY <1>2 DEF CallServed, Calls
  <2> QED BY <1>1, <1>2, <2>1, QuietPreserves DEF Base, HeapTypes
<1>11. Bounded'
  BY <1>1, <1>2 DEF Bounded
<1>12. PagesMapped'
  <2>1. Reach' = end_address /\ Reach = end_address
    BY <1>3, <1>7 DEF Reach
  <2> QED BY <1>1, <1>2, <2>1 DEF PagesMapped
<1>13. Tables'
  BY <1>1, <1>2, TablesSurvive DEF PayloadKept
<1>14. Planned'
  BY <1>7 DEF Planned
<1>15. (TableReady => TableReady') /\ TailFree'
  BY <1>1, <1>2, <1>6, SameHoles DEF Base, HeapTypes
<1>16. Expansion'
  <2>1. PICK x : x = e
    OBVIOUS
  <2>2. /\ x \in Expansions /\ x.old = end_address /\ x.at = end_address
        /\ x.new = Expanded /\ x.table = 0 /\ x.request = call
    BY <1>5, <1>8, <1>9, <2>1 DEF Expansions
  <2>3. Underway(x)'
    <3>1. /\ x.old = end_address' /\ x.new % PAGE = 0 /\ x.new <= LIMIT
          /\ x.old + x.request.size + OVERHEAD <= x.new
          /\ x.at % PAGE = 0 /\ x.old <= x.at
      BY <1>2, <1>8, <1>9, <2>2
    <3>2. x.at <= x.new
      <4>1. end_address <= Expanded
        BY <1>5, <1>8, <1>9
      <4> QED BY <2>2, <4>1
    <3> QED BY <1>15, <2>2, <3>1, <3>2, Zenon DEF Underway
  <2>4. Provided(x.at, x.new)'
    BY <1>2, <1>4, <1>15, <2>2, SameLacking
  <2>5. Maps(x)'
    BY <1>2, <2>2, <2>4 DEF Maps
  <2>6. expanding' = <<x>> /\ expanding'[1] = x
    BY <1>7, <2>1
  <2> HIDE DEF e
  <2> QED BY <2>3, <2>5, <2>6 DEF Expansion
<1> QED BY <1>10, <1>11, <1>12, <1>13, <1>14, <1>16 DEF TInv

(* get_page asks for a table.                                              *)
LEMMA NeedTableKeeps ==
  ASSUME TInv, NeedTable
  PROVE  TInv'
<1>1. Base /\ Bounded /\ PagesMapped /\ Tables
  BY DEF TInv
<1>2. /\ expanding # <<>> /\ call = Idle /\ call' = TableRequest
      /\ directory[TableOf(Page)] = 0
      /\ expanding[Top1].table = 0 /\ expanding[Top1].at < expanding[Top1].new
      /\ UNCHANGED <<mem, index, end_address, present, live, status>>
      /\ UNCHANGED <<directory, physical, placed, frames, expanding>>
  BY DEF NeedTable, InLoop, tableVars
<1>3. PICK e \in Expansions :
        /\ expanding = <<e>> /\ Top1 = 1 /\ expanding[1] = e
        /\ Underway(e) /\ (Maps(e) \/ AsksTable(e) \/ HoldsTable(e))
        /\ Page = PageOf(e.at) /\ Waiting(e) = TableOf(Page)
  BY <1>2, InExpand
<1>4. /\ e.table = 0 /\ e.at < e.new /\ directory[Waiting(e)] = 0 /\ e.new <= LIMIT
  BY <1>2, <1>3 DEF Underway
<1>5. Maps(e)
  BY <1>2, <1>3, <1>4, TableRequestIs DEF AsksTable, HoldsTable
<1>6. TableReady
  BY <1>4, <1>5, WaitingLacks DEF Maps, Provided
<1>7. Base'
  <2> DEFINE i == find_smallest_hole(PAGE + OVERHEAD, 1)
  <2>1. index \in Seq(HeaderAddr)
    BY <1>1 DEF Base, HeapTypes
  <2>2. i \in 1 .. Len(index) /\ ServesTable(index[i])
    BY <1>6, <2>1, SearchPosition DEF TableReady
  <2>3. PICK h : h = index[i]
    OBVIOUS
  <2>4. h \in Holes
    BY <2>1, <2>2, <2>3, ToSetIsRange DEF Holes
  <2>5. SizeOf(mem, h) >= PAGE + OVERHEAD
    <3>1. SizeOf(mem, h) \in Nat /\ h \in Nat
      BY <1>1, <2>4, HoleIsPiece, PieceNumbers
    <3> DEFINE gap == PAGE - (h % PAGE) - HEADER
    <3> DEFINE left == SizeOf(mem, h) - gap - PAGE - OVERHEAD
    <3>2. gap >= OVERHEAD /\ (left >= OVERHEAD \/ left = 0)
      <4>1. ServesTable(h)
        BY <2>2, <2>3, Zenon
      <4> QED BY <4>1, Zenon DEF ServesTable
    <3>3. gap \in Int
      BY <3>1, Geometry, Euclid
    <3>4. left = SizeOf(mem, h) - gap - PAGE - OVERHEAD
      OBVIOUS
    <3> HIDE DEF gap, left
    <3> QED BY <3>1, <3>2, <3>3, <3>4, Geometry
  <2>6. h \in Holes' /\ SizeOf(mem', h) >= call'.size + OVERHEAD
    BY <1>2, <2>4, <2>5, TableRequestIs DEF Holes
  <2>7. CallServed'
    BY <2>6 DEF CallServed
  <2> QED BY <1>1, <1>2, <2>7, TableRequestIs, QuietPreserves DEF Base, HeapTypes
<1>8. Bounded' /\ PagesMapped'
  BY <1>1, <1>2 DEF Bounded, PagesMapped, Reach
<1>9. Tables'
  BY <1>1, <1>2, TablesSurvive DEF PayloadKept
<1>10. (TableReady => TableReady') /\ TailFree'
  BY <1>1, <1>2, <1>3, SameHoles DEF Base, HeapTypes, Underway
<1>11. Underway(e)'
  BY <1>2, <1>3, <1>10 DEF Underway
<1>12. Provided(e.at, e.new)'
  BY <1>2, <1>5, <1>10, SameLacking DEF Maps
<1>13. AsksTable(e)'
  BY <1>2, <1>4, <1>12 DEF AsksTable, Waiting
<1>14. expanding' = <<e>> /\ expanding'[1] = e
  BY <1>2, <1>3
<1> QED BY <1>7, <1>8, <1>9, <1>11, <1>13, <1>14 DEF TInv, Planned, Expansion

(* A step within the call e of expand, which leaves the call as y.         *)
Follows(e, y) ==
  /\ e \in Expansions /\ expanding = <<e>> /\ expanding[1] = e /\ Underway(e)
  /\ y \in Expansions /\ expanding' = <<y>> /\ expanding'[1] = y
  /\ y.request = e.request /\ y.old = e.old /\ y.new = e.new

(* The level of alloc that serves get_page.                                *)
ServesTables(e, y, h, b) ==
  /\ Follows(e, y) /\ AsksTable(e) /\ y.at = e.at /\ y.table = b.ptr
  /\ TableReady /\ \A t \in Lacking(e.at, e.new) : t = Waiting(e)
  /\ ServesPage(h, b) /\ Base'
  /\ UNCHANGED <<directory, physical, placed, frames>>

LEMMA ServeDoes ==
  ASSUME TInv, Serve, expanding # <<>>
  PROVE  \E e, y, h, b : ServesTables(e, y, h, b)
<1>1. Base
  BY DEF TInv
<1>2. /\ AllocFromHole /\ call # Idle
      /\ UNCHANGED <<directory, physical, placed, frames>>
  BY DEF Serve, AllocFromHole
<1>3. PICK e \in Expansions :
        /\ expanding = <<e>> /\ Top1 = 1 /\ expanding[1] = e
        /\ Underway(e) /\ (Maps(e) \/ AsksTable(e) \/ HoldsTable(e))
        /\ Page = PageOf(e.at) /\ Waiting(e) = TableOf(Page)
  BY InExpand
<1>4. AsksTable(e)
  BY <1>2, <1>3 DEF Maps, HoldsTable
<1>5. /\ e.table = 0 /\ e.at < e.new /\ directory[Waiting(e)] = 0 /\ e.new <= LIMIT
      /\ call = TableRequest /\ Provided(e.at, e.new) /\ TailFree
  BY <1>3, <1>4 DEF Underway, AsksTable
<1>6. Waiting(e) \in Lacking(e.at, e.new)
  BY <1>5, WaitingLacks
<1>7. TableReady /\ \A t \in Lacking(e.at, e.new) : t = Waiting(e)
  BY <1>5, <1>6 DEF Provided
<1>8. Base' /\ \E h, b : ServesPage(h, b)
  BY <1>1, <1>2, <1>5, <1>7, TableServed
<1>9. PICK h, b : ServesPage(h, b)
  BY <1>8
<1>10. /\ h \in Holes /\ b = [ptr |-> b.ptr, size |-> PAGE]
      /\ b.ptr \in Nat /\ b.ptr >= START /\ b.ptr % PAGE = 0
      /\ b \notin live /\ live' = live \cup {b} /\ call' = Idle
      /\ UNCHANGED <<end_address, present, status>>
      /\ \A a \in Addr : a \notin h .. h + SizeOf(mem, h) - 1 => mem'[a] = mem[a]
      /\ TailFree'
  BY <1>5, <1>9 DEF ServesPage
<1> DEFINE x == [e EXCEPT !.table = b.ptr]
<1>11. expanding' = <<x>>
  <2>1. status' = "running"
    BY <1>8 DEF Base, KeepsRunning
  <2>2. PICK c \in live' \ live : expanding' = [expanding EXCEPT ![Top1].table = c.ptr]
    BY <2>1 DEF Serve
  <2>3. c = b
    BY <1>10, <2>2
  <2> QED BY <1>3, <2>2, <2>3
<1>12. PICK y : y = x
  OBVIOUS
<1>13. /\ y \in Expansions /\ y.request = e.request /\ y.old = e.old /\ y.at = e.at
       /\ y.new = e.new /\ y.table = b.ptr
  BY <1>3, <1>10, <1>12 DEF Expansions
<1>14. expanding' = <<y>> /\ expanding'[1] = y
  BY <1>11, <1>12
<1> HIDE DEF x
<1> QED BY <1>1, <1>2, <1>3, <1>4, <1>7, <1>8, <1>9, <1>13, <1>14 DEF ServesTables, Follows

(* The last level of alloc.                                                *)
LEMMA ServeKeeps ==
  ASSUME TInv, Serve
  PROVE  TInv'
<1>1. Base /\ Bounded /\ PagesMapped /\ Tables
  BY DEF TInv
<1>2. /\ AllocFromHole /\ call # Idle
      /\ UNCHANGED <<directory, physical, placed, frames>>
  BY DEF Serve, AllocFromHole
<1>3. CASE expanding = <<>>
  <2>1. call.align = 0
    BY <1>2, <1>3 DEF TInv, Planned
  <2>2. Base' /\ \E h, n, b : CarvesOut(h, n, b)
    BY <1>1, <1>2, <2>1, AllocFromHolePreserves
  <2>3. PICK h, n, b : CarvesOut(h, n, b)
    BY <2>2
  <2>4. /\ call' = Idle /\ end_address' = end_address /\ live \subseteq live'
        /\ expanding' = <<>>
    BY <1>3, <2>3 DEF CarvesOut, Serve
  <2>5. present' = present
    BY <1>2, Zenon DEF AllocFromHole, Panic
  <2>6. Bounded' /\ PagesMapped'
    BY <1>1, <1>2, <1>3, <2>4, <2>5 DEF Bounded, PagesMapped, Reach
  <2>7. \A x \in live : PayloadKept(x)
    BY <1>1, <2>3, CarvingKeepsPayload
  <2>8. Tables'
    BY <1>1, <1>2, <2>4, <2>5, <2>7, TablesSurvive
  <2> QED BY <2>2, <2>4, <2>6, <2>8 DEF TInv, Planned, Expansion
<1>4. CASE expanding # <<>>
  <2>1. PICK e, y, h, b : ServesTables(e, y, h, b)
    BY <1>4, ServeDoes
  <2>2. /\ e \in Expansions /\ expanding = <<e>> /\ expanding[1] = e /\ Underway(e)
        /\ AsksTable(e) /\ TableReady /\ Base'
    BY <2>1 DEF ServesTables, Follows
  <2>3. /\ e.table = 0 /\ e.at < e.new /\ directory[Waiting(e)] = 0 /\ e.new <= LIMIT
        /\ call = TableRequest /\ Provided(e.at, e.new) /\ TailFree
    BY <2>2 DEF Underway, AsksTable
  <2>5. \A t \in Lacking(e.at, e.new) : t = Waiting(e)
    BY <2>1 DEF ServesTables
  <2>8. /\ h \in Holes /\ b = [ptr |-> b.ptr, size |-> PAGE]
        /\ b.ptr \in Nat /\ b.ptr >= START /\ b.ptr % PAGE = 0
        /\ b \notin live /\ live' = live \cup {b} /\ call' = Idle
        /\ UNCHANGED <<end_address, present, status>>
        /\ \A a \in Addr : a \notin h .. h + SizeOf(mem, h) - 1 => mem'[a] = mem[a]
        /\ TailFree'
    BY <2>1, <2>3 DEF ServesPage, ServesTables
  <2>11. /\ y \in Expansions /\ y.request = e.request /\ y.old = e.old /\ y.at = e.at
         /\ y.new = e.new /\ y.table = b.ptr
    BY <2>1 DEF ServesTables, Follows
  <2>12. expanding' = <<y>> /\ expanding'[1] = y
    BY <2>1 DEF ServesTables, Follows
  <2>13. Bounded' /\ PagesMapped'
    <3>1. Reach' = Reach
      BY <2>2, <2>11, <2>12 DEF Reach
    <3> QED BY <1>1, <1>2, <2>8, <3>1 DEF Bounded, PagesMapped
  <2>14. Tables'
    <3>1. \A c \in live : PayloadKept(c)
      BY <1>1, <2>8, HoleChangesKeepPayload
    <3> QED BY <1>1, <1>2, <2>8, <3>1, TablesSurvive
  <2>15. Underway(y)'
    BY <2>2, <2>8, <2>11 DEF Underway
  <2>16. HoldsTable(y)'
    <3>1. b.ptr # 0 /\ b.ptr # PLACED
      <4>1. b.ptr \in Nat /\ b.ptr >= START
        BY <2>8
      <4> QED BY <4>1, TableFacts, Geometry
    <3>2. BlockOf(b.ptr) = b
      BY <2>8 DEF BlockOf
    <3>3. TableBlock(b.ptr)'
      BY <2>8, <3>2 DEF TableBlock, BlockOf
    <3>4. ASSUME NEW t \in Directory PROVE directory'[t] # b.ptr
      <4> SUFFICES ASSUME directory[t] = b.ptr PROVE FALSE
        BY <1>2
      <4>1. HeapTable(t)
        BY <3>1 DEF HeapTable
      <4>2. BlockOf(directory[t]) \in live
        BY <1>1, <4>1 DEF Tables, TablesStand, TableBlock
      <4> QED BY <2>8, <3>2, <4>2
    <3>5. Waiting(y)' = Waiting(e)
      BY <2>11 DEF Waiting
    <3>6. Lacking(y.at, y.new)' = Lacking(e.at, e.new)
      BY <1>2, <2>11, SameLacking
    <3> QED BY <1>2, <2>3, <2>5, <2>8, <2>11, <3>1, <3>3, <3>4, <3>5, <3>6 DEF HoldsTable
  <2>17. Planned'
    BY <2>12 DEF Planned
  <2> QED BY <2>2, <2>12, <2>13, <2>14, <2>15, <2>16, <2>17 DEF TInv, Expansion
<1> QED BY <1>3, <1>4

(* What expand reaches lies within the range of addresses.                 *)
LEMMA ReachFacts ==
  ASSUME TInv
  PROVE  /\ Reach \in Nat /\ Reach % PAGE = 0 /\ end_address <= Reach /\ Reach <= LIMIT
         /\ Reach >= PAGE /\ START < Reach
<1>1. /\ end_address \in Nat /\ end_address <= LIMIT /\ START + PAGE <= end_address
      /\ end_address % PAGE = 0 /\ PAGE \in Nat /\ PAGE > 0 /\ START \in Nat /\ START > 0
  BY PieceFacts, Geometry DEF TInv, Bounded
<1>2. CASE expanding = <<>>
  BY <1>1, <1>2 DEF Reach
<1>3. CASE expanding # <<>>
  <2>1. PICK e \in Expansions : expanding[1] = e /\ Underway(e)
    BY <1>3, InExpand
  <2>2. Reach = e.at /\ e.at \in Nat /\ e.new \in Nat
    BY <1>3, <2>1 DEF Reach, Expansions
  <2> QED BY <1>1, <2>1, <2>2, Geometry DEF Underway
<1> QED BY <1>2, <1>3

LEMMA PresentPages ==
  ASSUME TInv
  PROVE  /\ present \subseteq Pages
         /\ \A a \in START .. Reach - 1 : PageOf(a) \in present
<1>1. /\ Reach \in Nat /\ Reach % PAGE = 0 /\ Reach <= LIMIT
      /\ Reach >= PAGE /\ PAGE \in Nat /\ PAGE > 0 /\ START \in Nat
  BY ReachFacts, Geometry
<1>2. PageOf(Reach - 1) = PageOf(Reach) - 1 /\ Reach - 1 \in Nat /\ PageOf(Reach) \in Nat
  BY <1>1, LastPage
<1>3. Reach - 1 < LIMIT
  BY <1>1, <1>2, Geometry
<1>4. PageOf(Reach) - 1 \in Pages
  BY <1>2, <1>3, PageBelow
<1>5. present = PageOf(START) .. PageOf(Reach) - 1
  BY DEF TInv, PagesMapped
<1>6. PageOf(START) \in Nat /\ PageOf(LIMIT - 1) \in Nat
  BY Geometry, PageOfType
<1>7. present \subseteq Pages
  BY <1>2, <1>4, <1>5, <1>6 DEF Pages
<1>8. ASSUME NEW a \in START .. Reach - 1 PROVE PageOf(a) \in present
  <2>1. a \in Nat /\ START <= a /\ a < Reach
    BY <1>1, <1>8
  <2>2. PageOf(START) <= PageOf(a) /\ PageOf(a) < PageOf(Reach) /\ PageOf(a) \in Nat
    BY <1>1, <2>1, PageOrder, BelowBoundary, PageOfType
  <2> QED BY <1>2, <1>5, <1>6, <2>2
<1> QED BY <1>7, <1>8

(* What a step that stores to the block b only leaves of the others.       *)
LEMMA OthersKept ==
  ASSUME Base, NEW b \in live, \A a \in Addr : a \notin Payload(b) => mem'[a] = mem[a],
         NEW c \in live, c # b
  PROVE  PayloadKept(c)
<1> SUFFICES ASSUME NEW a \in Payload(c) PROVE a \in Addr /\ a \notin Payload(b)
  BY DEF PayloadKept
<1>1. /\ a \in Nat /\ a \in Addr /\ Header(c) + HEADER <= a /\ a < EndOf(Header(c))
  BY PayloadWords
<1>2. EndOf(Header(b)) <= Header(c) \/ EndOf(Header(c)) <= Header(b)
  BY BlocksApart
<1>3. /\ Header(c) \in Nat /\ Header(b) \in Nat
      /\ EndOf(Header(c)) \in Nat /\ EndOf(Header(b)) \in Nat
  BY BlockNumbers
<1>4. ASSUME a \in Payload(b) PROVE FALSE
  <2>1. Header(b) + HEADER <= a /\ a < EndOf(Header(b))
    BY <1>4, PayloadWords
  <2> QED BY <1>1, <1>2, <1>3, <2>1
<1> QED BY <1>1, <1>4

(* What EnterTable does, for the call e of expand and the block b.         *)
Enters(e, b) ==
  LET table == e.table
  IN /\ mem' = Cleared(mem, table)
     /\ directory' = [directory EXCEPT ![Waiting(e)] = table]
     /\ physical' = [physical EXCEPT ![Waiting(e)] = PageOf(table) + TABLE]
     /\ UNCHANGED <<index, end_address, present, call, live, status, placed, frames>>
     /\ b = BlockOf(table) /\ b \in live /\ Payload(b) = table .. table + PAGE - 1
     /\ table \in Nat /\ table > PLACED /\ table > 0 /\ table % PAGE = 0
     /\ \A t \in Directory : directory[t] # table
     /\ Waiting(e) \in Directory /\ directory[Waiting(e)] = 0
     /\ \A a \in Addr : a \notin Payload(b) => mem'[a] = mem[a]
     /\ \A a \in Payload(b) : mem'[a] = 0

LEMMA EntersTables ==
  ASSUME TInv, NEW e \in Expansions, NEW b, Enters(e, b)
  PROVE  Tables'
<1> DEFINE W == Waiting(e)
           table == e.table
<1>1. Base /\ Tables /\ TablesTyped /\ TablesStand /\ EntriesTell /\ present \subseteq Pages
  BY PresentPages DEF TInv, Tables
<1>2. W \in Directory /\ directory[W] = 0 /\ table \in Nat /\ table # 0 /\ table # PLACED
  BY TableFacts DEF Enters
<1>3. /\ directory \in [Directory -> Nat] /\ physical \in [Directory -> Nat]
      /\ directory' = [directory EXCEPT ![W] = table]
      /\ physical' = [physical EXCEPT ![W] = PageOf(table) + TABLE]
      /\ live' = live /\ placed' = placed /\ present' = present
  BY <1>1 DEF TablesTyped, Enters
<1>4. /\ directory'[W] = table /\ physical'[W] = PageOf(table) + TABLE
      /\ \A t \in Directory \ {W} : directory'[t] = directory[t] /\ physical'[t] = physical[t]
  BY <1>2, <1>3
<1>5. \A t \in Directory : directory[t] # table
  BY DEF Enters
<1>6. PageOf(table) + TABLE \in Nat
  BY <1>2, PageOfType, TableFacts
<1> HIDE DEF W, table
<1>7. TablesTyped'
  <2>1. directory' \in [Directory -> Nat] /\ physical' \in [Directory -> Nat]
    BY <1>2, <1>3, <1>6
  <2> QED BY <1>1, <1>3, <2>1 DEF TablesTyped
<1>8. TablesStand'
  <2> SUFFICES ASSUME NEW t \in Directory, HeapTable(t)'
      PROVE /\ directory'[t] % PAGE = 0 /\ BlockOf(directory'[t]) \in live'
            /\ physical'[t] = PageOf(directory'[t]) + TABLE
            /\ \A u \in Directory : directory'[u] = directory'[t] => u = t
    BY DEF TablesStand, TableBlock, BlockOf
  <2>1. CASE t = W
    <3>1. table % PAGE = 0 /\ BlockOf(table) \in live'
      BY DEF Enters, table
    <3> QED BY <1>4, <1>5, <2>1, <3>1
  <2>2. CASE t # W
    <3>1. HeapTable(t)
      BY <1>4, <2>2 DEF HeapTable
    <3>2. /\ TableBlock(directory[t]) /\ physical[t] = PageOf(directory[t]) + TABLE
          /\ \A u \in Directory : directory[u] = directory[t] => u = t
      BY <1>1, <3>1 DEF TablesStand
    <3>3. directory'[t] = directory[t] /\ physical'[t] = physical[t]
      BY <1>4, <2>2
    <3>4. directory'[t] % PAGE = 0 /\ BlockOf(directory'[t]) \in live'
      BY <1>3, <3>2, <3>3 DEF TableBlock
    <3>5. ASSUME NEW u \in Directory, directory'[u] = directory'[t] PROVE u = t
      BY <1>4, <1>5, <3>2, <3>3, <3>5
    <3> QED BY <3>2, <3>3, <3>4, <3>5
  <2> QED BY <2>1, <2>2
<1>9. EntriesTell'
  <2> SUFFICES ASSUME NEW p \in Pages, directory'[TableOf(p)] # 0
      PROVE  Entry(p)' = IF p \in present THEN p + TABLE ELSE 0
    BY <1>3 DEF EntriesTell
  <2>1. TableOf(p) \in Directory /\ p \in Nat
    BY FrameFits DEF Directory
  <2>2. CASE TableOf(p) = W
    <3>1. HeapTable(TableOf(p))'
      BY <1>2, <1>4, <2>2 DEF HeapTable
    <3>2. EntryAt(p)' = table + (p % TABLE)
      BY <1>4, <2>2 DEF EntryAt
    <3>3. table + (p % TABLE) \in Payload(b)
      <4>1. p % TABLE \in 0 .. TABLE - 1
        BY <2>1, TableOfType
      <4>2. table + (p % TABLE) \in table .. table + PAGE - 1
        BY <1>2, <4>1, TableFacts, Geometry
      <4> QED BY <4>2 DEF Enters, table
    <3>4. mem'[table + (p % TABLE)] = 0
      BY <3>3 DEF Enters
    <3>5. Entry(p)' = 0
      BY <3>1, <3>2, <3>4 DEF Entry
    <3>6. p \notin present
      BY <1>1, <1>2, <2>2 DEF Tables
    <3> QED BY <3>5, <3>6
  <2>3. CASE TableOf(p) # W
    <3>1. directory'[TableOf(p)] = directory[TableOf(p)]
      BY <1>4, <2>1, <2>3
    <3>2. Entry(p) = IF p \in present THEN p + TABLE ELSE 0
      BY <1>1, <3>1 DEF EntriesTell
    <3>3. CASE HeapTable(TableOf(p))
      <4>1. /\ BlockOf(directory[TableOf(p)]) \in live
            /\ EntryAt(p) \in Payload(BlockOf(directory[TableOf(p)]))
        BY <1>1, <3>3, EntryStands
      <4>2. BlockOf(directory[TableOf(p)]) # b
        BY <1>5, <2>1 DEF Enters, BlockOf, table
      <4>3. PayloadKept(BlockOf(directory[TableOf(p)]))
        BY <1>1, <4>1, <4>2, OthersKept DEF Enters
      <4>4. mem'[EntryAt(p)] = mem[EntryAt(p)]
        BY <4>1, <4>3 DEF PayloadKept
      <4> QED BY <3>1, <3>2, <3>3, <4>4 DEF Entry, HeapTable, EntryAt
    <3>4. CASE ~ HeapTable(TableOf(p))
      BY <1>3, <3>1, <3>2, <3>4 DEF Entry, HeapTable
    <3> QED BY <3>3, <3>4
  <2> QED BY <2>2, <2>3
<1>10. ASSUME NEW p \in present PROVE directory'[TableOf(p)] # 0
  <2>1. TableOf(p) \in Directory /\ directory[TableOf(p)] # 0
    BY <1>1 DEF Tables, Directory
  <2> QED BY <1>2, <1>4, <2>1
<1> QED BY <1>3, <1>7, <1>8, <1>9, <1>10 DEF Tables

(* get_page clears the table it was given and enters it.                   *)
EntersTable(e, y, b) ==
  /\ Follows(e, y) /\ HoldsTable(e) /\ y.at = e.at /\ y.table = 0
  /\ Enters(e, b) /\ Base' /\ \A q \in Pieces : SizeOf(mem', q) = SizeOf(mem, q)

LEMMA EnterTableDoes ==
  ASSUME TInv, EnterTable
  PROVE  \E e, y, b : EntersTable(e, y, b)
<1>1. Base /\ Bounded /\ PagesMapped /\ Tables
  BY DEF TInv
<1>2. PICK e \in Expansions :
        /\ expanding = <<e>> /\ Top1 = 1 /\ expanding[1] = e
        /\ Underway(e) /\ (Maps(e) \/ AsksTable(e) \/ HoldsTable(e))
        /\ Page = PageOf(e.at) /\ Waiting(e) = TableOf(Page)
  BY InExpand DEF EnterTable
<1> DEFINE table == e.table
           W == Waiting(e)
           b == BlockOf(table)
<1>3. /\ e.table # 0 /\ call = Idle /\ mem' = Cleared(mem, table)
      /\ directory' = [directory EXCEPT ![W] = table]
      /\ physical' = [physical EXCEPT ![W] = Physical(table)]
      /\ expanding' = [expanding EXCEPT ![1].table = 0]
      /\ UNCHANGED <<index, end_address, present, call, live, status, placed, frames>>
  BY <1>2 DEF EnterTable
<1>4. HoldsTable(e)
  BY <1>2, <1>3 DEF Maps, AsksTable
<1>5. /\ TableBlock(table) /\ e.at < e.new /\ directory[W] = 0
      /\ \A t \in Directory : directory[t] # table
      /\ \A t \in Lacking(e.at, e.new) : t = W
      /\ e.new <= LIMIT /\ TailFree
  BY <1>2, <1>4 DEF HoldsTable, Underway
<1>6. W \in Directory
  BY <1>5, WaitingLacks
<1>7. b \in live /\ table % PAGE = 0 /\ b.ptr = table /\ b.size = PAGE
  BY <1>5 DEF TableBlock, BlockOf
<1>8. /\ table \in Nat /\ table >= START /\ table > PLACED /\ table > 0
      /\ table < end_address /\ end_address \in Nat
      /\ Payload(b) = table .. table + PAGE - 1
  <2>1. /\ Header(b) \in Nat /\ Header(b) >= START /\ table = Header(b) + HEADER
        /\ BlockSize(b) \in Nat /\ BlockSize(b) >= b.size + OVERHEAD
        /\ EndOf(Header(b)) = Header(b) + BlockSize(b) /\ EndOf(Header(b)) <= end_address
        /\ end_address \in Nat
    BY <1>1, <1>7, BlockNumbers
  <2>2. Payload(b) = table .. table + PAGE - 1
    BY <1>7 DEF Payload
  <2> HIDE DEF table, b
  <2> QED BY <1>7, <2>1, <2>2, TableFacts, Geometry
<1> HIDE DEF table, b, W
<1>9. Physical(table) = PageOf(table) + TABLE
  <2>1. PageOf(table) \in present /\ PageOf(table) \in Pages
    <3>1. Reach \in Nat /\ end_address <= Reach
      BY ReachFacts
    <3>2. table \in START .. Reach - 1
      BY <1>8, <3>1, Geometry
    <3> QED BY <3>2, PresentPages
  <2> QED BY <1>1, <2>1 DEF Tables, EntriesTell, Physical
<1>10. Stores(b) /\ \A a \in Payload(b) : mem'[a] = 0
  <2>1. mem \in [Addr -> Word] /\ present \subseteq Nat
    BY <1>1 DEF Base, HeapTypes
  <2>2. 0 \in Word
    BY Geometry DEF Word
  <2>3. mem' = [a \in Addr |-> IF a \in Payload(b) THEN 0 ELSE mem[a]]
    BY <1>3, <1>8 DEF Cleared
  <2>4. \A a \in Payload(b) : a \in Addr
    BY <1>1, <1>7, PayloadWords
  <2> QED BY <1>3, <2>1, <2>2, <2>3, <2>4 DEF Stores
<1>11. Base' /\ \A q \in Pieces : SizeOf(mem', q) = SizeOf(mem, q)
  BY <1>1, <1>7, <1>10, StoresPreserve
<1>12. Enters(e, b)
  BY <1>3, <1>5, <1>6, <1>7, <1>8, <1>9, <1>10 DEF Enters, Stores, W, table, b
<1> DEFINE x == [e EXCEPT !.table = 0]
<1>14. expanding' = <<x>>
  BY <1>2, <1>3
<1>15. PICK y : y = x
  OBVIOUS
<1>16. /\ y \in Expansions /\ y.request = e.request /\ y.old = e.old /\ y.at = e.at
       /\ y.new = e.new /\ y.table = 0
  BY <1>2, <1>15 DEF Expansions
<1>17. expanding' = <<y>> /\ expanding'[1] = y
  BY <1>14, <1>15
<1> HIDE DEF x
<1> QED BY <1>2, <1>4, <1>11, <1>12, <1>16, <1>17 DEF EntersTable, Follows

(* The table that is entered was the last one that lacked.                 *)
LEMMA EntersLast ==
  ASSUME TInv, NEW e, NEW y, NEW b, EntersTable(e, y, b)
  PROVE  Lacking(y.at, y.new)' = {}
<1> DEFINE table == e.table
           W == Waiting(e)
<1>1. /\ directory' = [directory EXCEPT ![W] = table]
      /\ table > 0 /\ table \in Nat /\ W \in Directory
  BY DEF EntersTable, Enters
<1>2. /\ \A t \in Lacking(e.at, e.new) : t = W
      /\ e.new <= LIMIT /\ e \in Expansions /\ y.at = e.at /\ y.new = e.new
  BY DEF EntersTable, Follows, HoldsTable, Underway
<1> HIDE DEF table, W
<1> SUFFICES ASSUME NEW t \in Lacking(y.at, y.new)' PROVE FALSE
  OBVIOUS
<1>3. PICK a \in e.at .. e.new - 1 : t = TableOf(PageOf(a))
  BY <1>2 DEF Lacking
<1>4. a \in Nat /\ a < LIMIT
  BY <1>2, <1>3, Geometry DEF Expansions
<1>5. t \in Directory
  BY <1>3, <1>4, PageBelow
<1>6. directory'[t] = 0
  BY DEF Lacking
<1>7. t # W /\ directory[t] = 0
  <2>1. directory \in [Directory -> Nat]
    BY DEF TInv, Tables, TablesTyped
  <2>2. directory'[W] = table /\ (t # W => directory'[t] = directory[t])
    BY <1>1, <1>5, <2>1
  <2> QED BY <1>1, <1>6, <2>2
<1>8. t \in Lacking(e.at, e.new)
  BY <1>3, <1>7 DEF Lacking
<1> QED BY <1>2, <1>7, <1>8

LEMMA EnterTableKeeps ==
  ASSUME TInv, EnterTable
  PROVE  TInv'
<1>1. Base /\ Bounded /\ PagesMapped /\ Tables
  BY DEF TInv
<1>2. PICK e, y, b : EntersTable(e, y, b)
  BY EnterTableDoes
<1>3. UNCHANGED <<index, end_address, present, call, live, status, placed, frames>>
  BY <1>2 DEF EntersTable, Enters
<1>5. /\ TailFree /\ call = Idle /\ Underway(e) /\ e \in Expansions
      /\ expanding = <<e>> /\ expanding[1] = e
  BY <1>2 DEF EntersTable, Follows, HoldsTable, Underway
<1>11. Base' /\ \A q \in Pieces : SizeOf(mem', q) = SizeOf(mem, q)
  BY <1>2 DEF EntersTable
<1>13. Tables'
  BY <1>2, EntersTables DEF EntersTable, Follows
<1>16. /\ y \in Expansions /\ y.request = e.request /\ y.old = e.old /\ y.at = e.at
       /\ y.new = e.new /\ y.table = 0
  BY <1>2 DEF EntersTable, Follows
<1>17. expanding' = <<y>> /\ expanding'[1] = y
  BY <1>2 DEF EntersTable, Follows
<1>18. Bounded' /\ PagesMapped'
  <2>1. Reach' = Reach
    BY <1>5, <1>16, <1>17 DEF Reach
  <2> QED BY <1>1, <1>3, <2>1 DEF Bounded, PagesMapped
<1>19. Underway(y)'
  <2>1. TailFree'
    <3>1. \A h \in Holes : SizeOf(mem', h) = SizeOf(mem, h)
      BY <1>11, HoleIsPiece
    <3> QED BY <1>1, <1>3, <1>5, <3>1, SameHoles DEF Base, HeapTypes
  <2> QED BY <1>3, <1>5, <1>16, <2>1 DEF Underway
<1>20. Maps(y)'
  <2>1. Provided(y.at, y.new)'
    BY <1>2, EntersLast DEF Provided
  <2> QED BY <1>3, <1>5, <1>16, <2>1 DEF Maps
<1>21. Planned'
  BY <1>17 DEF Planned
<1> QED BY <1>11, <1>13, <1>17, <1>18, <1>19, <1>20, <1>21 DEF TInv, Expansion

(* The frame that alloc_frame takes.                                       *)
LEMMA FrameIs ==
  ASSUME NEW n \in Nat, n > 0, frames = 1 .. n
  PROVE  FirstFree = n + 1
<1>1. Max(frames) = n
  BY RangeMax
<1> DEFINE S == (1 .. Max(frames) + 1) \ frames
<1>2. S = {n + 1}
  BY <1>1
<1>3. Min({n + 1}) = n + 1
  BY DEF Min
<1> QED BY <1>2, <1>3 DEF FirstFree

(* What MapPage does to the table of the page p: its entry is written.     *)
Maps1(p) ==
  /\ p \in Pages /\ p \notin present /\ directory[TableOf(p)] # 0
  /\ present' = present \cup {p}
  /\ UNCHANGED <<index, end_address, call, live, status, directory, physical>>
  /\ \/ /\ HeapTable(TableOf(p)) /\ placed' = placed
        /\ mem' = [mem EXCEPT ![EntryAt(p)] = p + TABLE]
     \/ /\ ~ HeapTable(TableOf(p)) /\ mem' = mem
        /\ placed' = [placed EXCEPT ![p] = p + TABLE]

LEMMA Maps1Heap ==
  ASSUME Base, Tables, call = Idle, NEW p, Maps1(p)
  PROVE  /\ Base' /\ \A q \in Pieces : SizeOf(mem', q) = SizeOf(mem, q)
         /\ HeapTable(TableOf(p)) =>
              /\ mem'[EntryAt(p)] = p + TABLE
              /\ \A a \in Addr : a # EntryAt(p) => mem'[a] = mem[a]
<1>1. p \in Pages /\ p \in Nat /\ p + TABLE \in Word /\ p + TABLE # 0
  BY FrameFits DEF Maps1
<1>2. /\ mem \in [Addr -> Word] /\ present \subseteq Nat /\ present' = present \cup {p}
      /\ present' \subseteq Nat /\ present \subseteq present' /\ call' = Idle
      /\ UNCHANGED <<index, end_address, live, status>>
  BY <1>1 DEF Base, HeapTypes, Maps1
<1>3. CASE HeapTable(TableOf(p))
  <2> DEFINE b == BlockOf(directory[TableOf(p)])
             a0 == EntryAt(p)
  <2>1. b \in live /\ a0 \in Payload(b)
    BY <1>1, <1>3, EntryStands
  <2>2. mem' = [mem EXCEPT ![a0] = p + TABLE]
    BY <1>3 DEF Maps1
  <2> HIDE DEF b, a0
  <2>3. a0 \in Addr
    BY <2>1, PayloadWords
  <2>4. /\ mem' \in [Addr -> Word] /\ mem'[a0] = p + TABLE
        /\ \A a \in Addr : a # a0 => mem'[a] = mem[a]
    BY <1>1, <1>2, <2>2, <2>3
  <2>5. Stores(b)
    BY <1>2, <2>1, <2>4 DEF Stores
  <2> QED BY <2>1, <2>4, <2>5, StoresPreserve DEF a0
<1>4. CASE ~ HeapTable(TableOf(p))
  <2>1. mem' = mem
    BY <1>4 DEF Maps1
  <2>2. CallServed' /\ call' \in Calls
    BY <1>2 DEF CallServed, Calls
  <2> QED BY <1>2, <1>4, <2>1, <2>2, QuietPreserves
<1> QED BY <1>3, <1>4

LEMMA Maps1Tables ==
  ASSUME TInv, call = Idle, NEW p, Maps1(p)
  PROVE  Tables'
<1>1. Base /\ Tables /\ TablesTyped /\ TablesStand /\ EntriesTell
  BY DEF TInv, Tables
<1>2. p \in Pages /\ p \in Nat /\ p + TABLE \in Nat /\ TableOf(p) \in Directory
  BY FrameFits DEF Maps1, Word, Directory
<1>3. /\ directory' = directory /\ physical' = physical /\ live' = live
      /\ present' = present \cup {p} /\ p \notin present /\ directory[TableOf(p)] # 0
      /\ placed \in [Pages -> Nat]
  BY <1>1 DEF Maps1, TablesTyped
<1>4. placed' \in [Pages -> Nat] /\ \A q \in Pages \ {p} : placed'[q] = placed[q]
  BY <1>2, <1>3 DEF Maps1
<1>5. /\ HeapTable(TableOf(p)) =>
           /\ mem'[EntryAt(p)] = p + TABLE
           /\ \A a \in Addr : a # EntryAt(p) => mem'[a] = mem[a]
      /\ ~ HeapTable(TableOf(p)) => mem' = mem /\ placed'[p] = p + TABLE
  BY <1>1, <1>2, <1>3, Maps1Heap DEF Maps1
<1>6. TablesTyped' /\ TablesStand'
  BY <1>1, <1>3, <1>4 DEF TablesTyped, TablesStand, TableBlock, BlockOf, HeapTable
<1>7. ASSUME NEW q \in Pages, directory[TableOf(q)] # 0
      PROVE  Entry(q)' = IF q \in present' THEN q + TABLE ELSE 0
  <2>1. TableOf(q) \in Directory /\ q \in Nat
    BY FrameFits DEF Directory
  <2>2. /\ EntryAt(q)' = EntryAt(q) /\ HeapTable(TableOf(q))' = HeapTable(TableOf(q))
        /\ EntryAt(q) = directory[TableOf(q)] + (q % TABLE)
    BY <1>3 DEF EntryAt, HeapTable
  <2>3. CASE q = p
    BY <1>3, <1>5, <2>2, <2>3 DEF Entry
  <2>4. CASE q # p
    <3>1. Entry(q) = IF q \in present' THEN q + TABLE ELSE 0
      BY <1>1, <1>3, <1>7, <2>4 DEF EntriesTell
    <3>2. CASE ~ HeapTable(TableOf(q))
      BY <1>4, <2>2, <2>4, <3>1, <3>2 DEF Entry
    <3>3. CASE HeapTable(TableOf(q))
      <4> DEFINE c == BlockOf(directory[TableOf(q)])
                 b == BlockOf(directory[TableOf(p)])
      <4>1. c \in live /\ EntryAt(q) \in Payload(c)
        BY <1>1, <3>3, EntryStands
      <4>2. EntryAt(q) \in Addr
        BY <1>1, <4>1, PayloadWords
      <4>3. CASE HeapTable(TableOf(p))
        <5>1. b \in live /\ EntryAt(p) \in Payload(b)
          BY <1>1, <1>2, <4>3, EntryStands
        <5>2. EntryAt(q) # EntryAt(p)
          <6>1. CASE TableOf(q) = TableOf(p)
            <7>1. q % TABLE # p % TABLE
              BY <1>2, <2>1, <2>4, <6>1, SameEntry
            <7>2. /\ directory[TableOf(p)] \in Nat
                  /\ p % TABLE \in 0 .. TABLE - 1 /\ q % TABLE \in 0 .. TABLE - 1
              BY <1>1, <1>2, <2>1, TableOfType DEF TablesTyped
            <7>3. EntryAt(p) = directory[TableOf(p)] + (p % TABLE)
              BY DEF EntryAt
            <7> QED BY <2>2, <6>1, <7>1, <7>2, <7>3, TableFacts
          <6>2. CASE TableOf(q) # TableOf(p)
            <7>1. directory[TableOf(q)] # directory[TableOf(p)]
              BY <1>1, <1>2, <2>1, <4>3, <6>2 DEF TablesStand
            <7>2. b # c
              BY <7>1 DEF BlockOf
            <7> HIDE DEF b, c
            <7>3. EndOf(Header(b)) <= Header(c) \/ EndOf(Header(c)) <= Header(b)
              BY <1>1, <4>1, <5>1, <7>2, BlocksApart
            <7>4. /\ EntryAt(q) \in Nat /\ EntryAt(p) \in Nat
                  /\ Header(c) + HEADER <= EntryAt(q) /\ EntryAt(q) < EndOf(Header(c))
                  /\ Header(b) + HEADER <= EntryAt(p) /\ EntryAt(p) < EndOf(Header(b))
              BY <1>1, <4>1, <5>1, PayloadWords
            <7>5. /\ Header(b) \in Nat /\ Header(c) \in Nat
                  /\ EndOf(Header(b)) \in Nat /\ EndOf(Header(c)) \in Nat
              BY <1>1, <4>1, <5>1, BlockNumbers
            <7> QED BY <7>3, <7>4, <7>5
          <6> QED BY <6>1, <6>2
        <5>3. mem'[EntryAt(q)] = mem[EntryAt(q)]
          BY <1>5, <4>2, <4>3, <5>2
        <5> QED BY <2>2, <3>1, <3>3, <5>3 DEF Entry
      <4>4. CASE ~ HeapTable(TableOf(p))
        BY <1>5, <2>2, <3>1, <3>3, <4>4 DEF Entry
      <4> QED BY <4>3, <4>4
    <3> QED BY <3>2, <3>3
  <2> QED BY <2>3, <2>4
<1>8. EntriesTell'
  BY <1>3, <1>7 DEF EntriesTell
<1>9. \A q \in present' : directory'[TableOf(q)] # 0
  BY <1>1, <1>3 DEF Tables
<1> QED BY <1>6, <1>8, <1>9 DEF Tables

(* expand maps one page.                                                   *)
MapsPage(e, y, p) ==
  /\ Follows(e, y) /\ Maps(e) /\ e.at < e.new /\ y.at = e.at + PAGE /\ y.table = 0
  /\ p = PageOf(e.at) /\ Maps1(p) /\ present = PageOf(START) .. p - 1 /\ PageOf(START) <= p
  /\ PageOf(y.at) = p + 1 /\ y.at % PAGE = 0 /\ y.at <= e.new
  /\ frames = 1 .. p - 1 + TABLE /\ frames' = frames \cup {p + TABLE}

LEMMA MapPageDoes ==
  ASSUME TInv, MapPage
  PROVE  \E e, y, p : MapsPage(e, y, p)
<1>1. Base /\ Bounded /\ PagesMapped /\ Tables
  BY DEF TInv
<1>2. PICK e \in Expansions :
        /\ expanding = <<e>> /\ Top1 = 1 /\ expanding[1] = e
        /\ Underway(e) /\ (Maps(e) \/ AsksTable(e) \/ HoldsTable(e))
        /\ Page = PageOf(e.at) /\ Waiting(e) = TableOf(Page)
  BY InExpand DEF MapPage, InLoop
<1>3. /\ call = Idle /\ e.table = 0 /\ e.at < e.new /\ directory[TableOf(Page)] # 0
      /\ alloc_frame /\ expanding' = [expanding EXCEPT ![1].at = @ + PAGE]
      /\ UNCHANGED <<index, end_address, call, live, status, directory, physical>>
  BY <1>2 DEF MapPage, InLoop
<1>4. Maps(e)
  BY <1>2, <1>3, TableRequestIs DEF AsksTable, HoldsTable
<1>5. /\ e.at \in Nat /\ e.new \in Nat /\ e.old \in Nat /\ e.at % PAGE = 0
      /\ e.new % PAGE = 0 /\ e.old = end_address /\ e.old <= e.at /\ e.new <= LIMIT
      /\ e.old + e.request.size + OVERHEAD <= e.new /\ TailFree
      /\ PAGE \in Nat /\ PAGE > 0 /\ PageOf(e.at) \in Nat /\ PageOf(START) \in Nat
  BY <1>2, Geometry, PageOfType DEF Underway, Expansions
<1> DEFINE p == Page
<1>6. /\ p = PageOf(e.at) /\ p \in Pages /\ p \in Nat
      /\ PageOf(e.at + PAGE) = p + 1 /\ (e.at + PAGE) % PAGE = 0 /\ e.at + PAGE \in Nat
      /\ e.at + PAGE <= e.new
  BY <1>2, <1>3, <1>5, WaitingLacks, NextPage, BelowBoundary
<1> HIDE DEF p
<1>7. /\ present = PageOf(START) .. p - 1 /\ p \notin present
      /\ PageOf(START) <= p /\ frames = 1 .. p - 1 + TABLE
  <2>1. Reach = e.at
    BY <1>2 DEF Reach
  <2>2. PageOf(START) <= p
    BY <1>5, <1>6, <2>1, ReachFacts, PageOrder, Geometry
  <2> QED BY <1>1, <1>5, <1>6, <2>1, <2>2 DEF PagesMapped
<1>8. FirstFree = p + TABLE
  <2>1. PICK n : n = p - 1 + TABLE
    OBVIOUS
  <2>2. p > 0
    <3>1. START >= PAGE /\ START \in Nat
      BY TableFacts, Geometry
    <3>2. e.at >= PAGE
      BY <1>2, <1>5, <3>1, ReachFacts DEF Reach
    <3>3. PageOf(PAGE) <= PageOf(e.at)
      BY <1>5, <3>2, PageOrder
    <3>4. PageOf(PAGE) = 1
      <4>1. 1 \in Nat /\ 0 \in 0 .. PAGE - 1 /\ PAGE * 1 + 0 = PAGE
        BY <1>5
      <4>2. (PAGE * 1 + 0) \div PAGE = 1
        BY <1>5, <4>1, Quotients
      <4> QED BY <4>1, <4>2 DEF PageOf
    <3> QED BY <1>6, <3>3, <3>4
  <2>3. n \in Nat /\ n > 0 /\ n + 1 = p + TABLE /\ frames = 1 .. n
    BY <1>6, <1>7, <2>1, <2>2, TableFacts
  <2> QED BY <2>3, FrameIs
<1>9. Entry(p) = 0
  BY <1>1, <1>3, <1>6, <1>7 DEF Tables, EntriesTell, p
<1>10. Maps1(p) /\ frames' = frames \cup {p + TABLE}
  <2>1. Page = p
    BY DEF p
  <2>2. /\ frames' = frames \cup {FirstFree} /\ present' = present \cup {p}
        /\ \/ /\ HeapTable(TableOf(p)) /\ placed' = placed
              /\ mem' = [mem EXCEPT ![EntryAt(p)] = FirstFree]
           \/ /\ ~ HeapTable(TableOf(p)) /\ mem' = mem
              /\ placed' = [placed EXCEPT ![p] = FirstFree]
    BY <1>3, <1>9, <2>1, Zenon DEF alloc_frame
  <2> QED BY <1>3, <1>6, <1>7, <1>8, <2>1, <2>2 DEF Maps1
<1> DEFINE x == [e EXCEPT !.at = e.at + PAGE]
<1>13. expanding' = <<x>>
  BY <1>2, <1>3
<1>14. PICK y : y = x
  OBVIOUS
<1>15. /\ y \in Expansions /\ y.request = e.request /\ y.old = e.old
       /\ y.at = e.at + PAGE /\ y.new = e.new /\ y.table = e.table
  BY <1>2, <1>6, <1>14 DEF Expansions
<1>16. expanding' = <<y>> /\ expanding'[1] = y
  BY <1>13, <1>14
<1> HIDE DEF x
<1> QED
  <2>1. y.table = 0 /\ y.at = e.at + PAGE /\ PageOf(y.at) = p + 1 /\ y.at % PAGE = 0
        /\ y.at <= e.new
    BY <1>3, <1>6, <1>15
  <2>2. Follows(e, y)
    BY <1>2, <1>15, <1>16 DEF Follows
  <2>3. MapsPage(e, y, p)
    BY <1>3, <1>4, <1>6, <1>7, <1>10, <2>1, <2>2 DEF MapsPage
  <2> QED BY <2>3

LEMMA MapsFewer ==
  ASSUME NEW e, NEW y, NEW p, MapsPage(e, y, p)
  PROVE  Lacking(y.at, y.new)' \subseteq Lacking(e.at, e.new)
<1>1. directory' = directory /\ e.at \in Nat /\ e.new \in Nat /\ y.at = e.at + PAGE /\ y.new = e.new
  BY DEF MapsPage, Maps1, Follows, Expansions
<1>2. Lacking(y.at, y.new)' = Lacking(y.at, y.new)
  BY <1>1, SameLacking
<1>3. y.at .. y.new - 1 \subseteq e.at .. e.new - 1
  BY <1>1, Geometry
<1> QED BY <1>2, <1>3 DEF Lacking

LEMMA MapPageKeeps ==
  ASSUME TInv, MapPage
  PROVE  TInv'
<1>1. Base /\ Bounded /\ PagesMapped /\ Tables
  BY DEF TInv
<1>2. PICK e, y, p : MapsPage(e, y, p)
  BY MapPageDoes
<1>3. UNCHANGED <<index, end_address, call, live, status, directory, physical>>
  BY <1>2 DEF MapsPage, Maps1
<1>4. Maps(e) /\ call = Idle /\ Underway(e)
  BY <1>2 DEF MapsPage, Maps, Follows
<1>5. /\ e.at \in Nat /\ e.new \in Nat /\ e.old \in Nat
      /\ e.new % PAGE = 0 /\ e.old = end_address /\ e.old <= e.at /\ e.new <= LIMIT
      /\ e.old + e.request.size + OVERHEAD <= e.new /\ TailFree
      /\ PAGE \in Nat /\ PAGE > 0 /\ PageOf(e.at) \in Nat /\ PageOf(START) \in Nat
  <2>1. e \in Expansions
    BY <1>2 DEF MapsPage, Follows
  <2>2. e.at \in Nat /\ e.new \in Nat /\ e.old \in Nat
    BY <2>1 DEF Expansions
  <2>3. PAGE \in Nat /\ PAGE > 0 /\ START \in Nat
    BY Geometry
  <2>4. PageOf(e.at) \in Nat /\ PageOf(START) \in Nat
    BY <2>2, <2>3, PageOfType
  <2> QED BY <1>4, <2>2, <2>3, <2>4 DEF Underway
<1>6. /\ p = PageOf(e.at) /\ p \in Nat /\ PageOf(y.at) = p + 1 /\ y.at % PAGE = 0
      /\ y.at <= e.new /\ present = PageOf(START) .. p - 1 /\ PageOf(START) <= p
      /\ frames = 1 .. p - 1 + TABLE /\ frames' = frames \cup {p + TABLE}
  BY <1>2, <1>5 DEF MapsPage
<1>10. Maps1(p)
  BY <1>2 DEF MapsPage
<1>11. Base' /\ \A q \in Pieces : SizeOf(mem', q) = SizeOf(mem, q)
  BY <1>1, <1>4, <1>10, Maps1Heap
<1>12. Tables'
  BY <1>4, <1>10, Maps1Tables
<1>15. /\ y \in Expansions /\ y.request = e.request /\ y.old = e.old
       /\ y.at = e.at + PAGE /\ y.new = e.new /\ y.table = 0
  BY <1>2 DEF MapsPage, Follows
<1>16. expanding' = <<y>> /\ expanding'[1] = y
  BY <1>2 DEF MapsPage, Follows
<1>17. Bounded'
  BY <1>1, <1>3 DEF Bounded
<1>18. PagesMapped'
  <2>1. Reach' = y.at
    BY <1>15, <1>16 DEF Reach
  <2>2. present' = PageOf(START) .. p
    BY <1>5, <1>6, <1>10 DEF Maps1
  <2>3. frames' = 1 .. p + TABLE
    BY <1>6, TableFacts
  <2>4. PageOf(Reach') - 1 = p
    BY <1>6, <2>1
  <2> QED BY <2>2, <2>3, <2>4 DEF PagesMapped
<1>19. (TableReady => TableReady') /\ TailFree'
  <2>1. \A h \in Holes : SizeOf(mem', h) = SizeOf(mem, h)
    BY <1>11, HoleIsPiece
  <2> QED BY <1>1, <1>3, <1>5, <2>1, SameHoles DEF Base, HeapTypes
<1>20. Underway(y)'
  <2>1. y.old <= y.at /\ y.at <= y.new /\ y.at % PAGE = 0
    BY <1>5, <1>6, <1>15
  <2>2. y.old + y.request.size + OVERHEAD <= y.new /\ y.new % PAGE = 0 /\ y.new <= LIMIT
    BY <1>5, <1>15
  <2> QED BY <1>3, <1>5, <1>15, <1>19, <2>1, <2>2 DEF Underway
<1>21. Maps(y)'
  <2>1. Lacking(y.at, y.new)' \subseteq Lacking(e.at, e.new)
    BY <1>2, MapsFewer
  <2>2. Provided(y.at, y.new)'
    BY <1>4, <1>19, <2>1 DEF Maps, Provided
  <2> QED BY <1>3, <1>4, <1>15, <2>2 DEF Maps
<1>22. Planned'
  BY <1>16 DEF Planned
<1> QED BY <1>11, <1>12, <1>16, <1>17, <1>18, <1>20, <1>21, <1>22 DEF TInv, Expansion

(* The words are mapped, and alloc takes them into the heap.               *)
EndsExpand(e, added, t) ==
  /\ e \in Expansions /\ expanding = <<e>> /\ expanding[1] = e /\ Underway(e) /\ Maps(e)
  /\ e.at = e.new /\ end_address' = e.new /\ call' = e.request /\ expanding' = <<>>
  /\ added \in Nat /\ added > OVERHEAD /\ end_address + added = e.new
  /\ Grows(added) /\ GrowsAt(t) /\ Base'
  /\ UNCHANGED <<present, live, status, directory, physical, placed, frames>>

LEMMA EndExpandDoes ==
  ASSUME TInv, EndExpand
  PROVE  \E e, added, t : EndsExpand(e, added, t)
<1>1. Base /\ Bounded /\ PagesMapped /\ Tables
  BY DEF TInv
<1>2. PICK e \in Expansions :
        /\ expanding = <<e>> /\ Top1 = 1 /\ expanding[1] = e
        /\ Underway(e) /\ (Maps(e) \/ AsksTable(e) \/ HoldsTable(e))
        /\ Page = PageOf(e.at) /\ Waiting(e) = TableOf(Page)
  BY InExpand DEF EndExpand
<1>3. /\ e.old \in Nat /\ e.at \in Nat /\ e.new \in Nat
      /\ e.request \in [size : Positive, align : {0}]
      /\ e.request.size \in Nat /\ e.request.size > 0 /\ e.request.align = 0
      /\ e.old = end_address /\ e.old <= e.at /\ e.at <= e.new /\ e.new <= LIMIT
      /\ e.new % PAGE = 0 /\ e.old + e.request.size + OVERHEAD <= e.new /\ TailFree
  BY <1>2, SizesPositive DEF Underway, Expansions
<1>4. /\ call = Idle /\ e.at >= e.new /\ end_address' = e.new /\ call' = e.request
      /\ expanding' = <<>>
      /\ UNCHANGED <<present, live, status, directory, physical, placed, frames>>
  <2>1. SubSeq(expanding, 1, 0) = <<>>
    BY <1>2
  <2> QED BY <1>2, <2>1 DEF EndExpand
<1>5. e.at = e.new /\ Reach = e.new /\ Reach' = e.new
  BY <1>2, <1>3, <1>4 DEF Reach
<1> DEFINE added == e.new - end_address
<1>6. /\ added \in Nat /\ added > OVERHEAD /\ end_address + added = e.new
      /\ end_address \in Nat /\ end_address <= e.new
  BY <1>1, <1>3, PieceFacts
<1>7. Grows(added)
  <2>1. AddedBy(e) = added /\ expanding[Top1] = e
    BY <1>2, <1>3 DEF AddedBy
  <2> HIDE DEF added
  <2> QED BY <1>3, <2>1 DEF EndExpand, Grows
<1>8. Base' /\ \E t : GrowsAt(t)
  <2>1. \A a \in START .. end_address' - 1 : PageOf(a) \in present'
    BY <1>4, <1>5, PresentPages
  <2>2. call' \in Calls /\ present' \subseteq Nat
    BY <1>1, <1>3, <1>4 DEF Calls, Base, HeapTypes
  <2>3. end_address + added <= LIMIT /\ end_address' = end_address + added
    BY <1>3, <1>4, <1>6
  <2>4. index = <<>> \/ \E h \in Holes : EndOf(h) = end_address
    BY <1>3 DEF TailFree
  <2> HIDE DEF added
  <2> QED BY <1>1, <1>4, <1>6, <1>7, <2>1, <2>2, <2>3, <2>4, GrowthPreserves
<1>9. PICK t : GrowsAt(t)
  BY <1>8
<1>10. Maps(e)
  BY <1>2, <1>3, <1>4, <1>5, TableRequestIs DEF AsksTable, HoldsTable
<1> HIDE DEF added
<1> QED BY <1>2, <1>3, <1>4, <1>5, <1>6, <1>7, <1>8, <1>9, <1>10 DEF EndsExpand

(* The request fits what it made the heap grow by.                         *)
LEMMA RequestFits ==
  ASSUME TInv, NEW e, NEW added, NEW t, EndsExpand(e, added, t), NEW n, n = e.request.size + OVERHEAD
  PROVE  find_smallest_hole(n, 0)' > 0
<1>21. Base'
  BY DEF EndsExpand
<1>22. GrowsAt(t) /\ end_address' = e.new
  BY DEF EndsExpand
<1>23. /\ e.old \in Nat /\ e.new \in Nat /\ e.request.size \in Nat /\ e.old = end_address
       /\ e.old + e.request.size + OVERHEAD <= e.new /\ end_address \in Nat
  BY SizesPositive DEF EndsExpand, Underway, Expansions
<1>1. index' \in Seq(HeaderAddr)
  BY <1>21 DEF Base, HeapTypes
<1>2. /\ t \in Nat /\ t <= end_address /\ t \in Holes' /\ t + SizeOf(mem', t) = e.new
  BY <1>22, <1>22 DEF GrowsAt
<1>3. SizeOf(mem', t) >= e.request.size + OVERHEAD
  <2>1. SizeOf(mem', t) \in Nat
    <3>1. Base' => HolesSized'
      BY HolesAreSized, PTL
    <3> QED BY <1>21, <1>2, <3>1 DEF HolesSized
  <2> QED BY <1>23, <1>23, <1>2, <2>1
<1>4. PICK j \in 1 .. Len(index') : index'[j] = t
  BY <1>1, <1>2, ToSetIsRange DEF Holes
<1> DEFINE J == {k \in 1 .. Len(index') : SizeOf(mem', index'[k]) >= n}
<1>5. j \in J /\ J \subseteq Nat
  BY <1>3, <1>4
<1>6. find_smallest_hole(n, 0)' > 0
  <2>1. find_smallest_hole(n, 0)' = IF J # {} THEN Min(J) ELSE 0
    <3>1. \A k \in 1 .. Len(index') : Fits(index[k], n, 0)' <=> SizeOf(mem', index'[k]) >= n
      BY DEF Fits
    <3> DEFINE K == {k \in 1 .. Len(index') : Fits(index[k], n, 0)'}
    <3>2. find_smallest_hole(n, 0)' = IF K # {} THEN Min(K) ELSE 0
      BY Zenon DEF find_smallest_hole, SelectInSeq
    <3>3. K = J
      BY <3>1
    <3> HIDE DEF J, K
    <3> QED BY <3>2, <3>3
  <2>2. \E k \in J : \A l \in J : k <= l
    <3> HIDE DEF J
    <3> QED BY <1>5, LeastElement, Zenon
  <2>3. Min(J) \in J
    BY <2>2 DEF Min
  <2> QED BY <1>5, <2>1, <2>3
<1> QED BY <1>6

LEMMA EndExpandKeeps ==
  ASSUME TInv, EndExpand
  PROVE  TInv'
<1>1. Base /\ Bounded /\ PagesMapped /\ Tables
  BY DEF TInv
<1>2. PICK e, added, t : EndsExpand(e, added, t)
  BY EndExpandDoes
<1>3. /\ e.new \in Nat /\ e.new % PAGE = 0 /\ e.old = end_address /\ e.old \in Nat
      /\ e.request.align = 0 /\ e.old <= e.new /\ end_address <= e.new
      /\ e.at \in Nat /\ e.old <= e.at
  BY <1>2 DEF EndsExpand, Underway, Expansions
<1>4. /\ end_address' = e.new /\ call' = e.request /\ expanding' = <<>>
      /\ UNCHANGED <<present, live, status, directory, physical, placed, frames>>
  BY <1>2 DEF EndsExpand
<1>5. Reach = e.new /\ Reach' = e.new
  BY <1>2, <1>4 DEF Reach, EndsExpand
<1>8. Base' /\ GrowsAt(t)
  BY <1>2 DEF EndsExpand
<1>10. Bounded'
  BY <1>1, <1>3, <1>4, PieceFacts, Geometry DEF Bounded
<1>11. PagesMapped'
  BY <1>1, <1>4, <1>5 DEF PagesMapped
<1>12. Tables'
  BY <1>1, <1>4, <1>8, GrowthKeepsPayload, TablesSurvive
<1>13. Planned'
  <2>1. PICK n : n = e.request.size + OVERHEAD
    OBVIOUS
  <2>2. find_smallest_hole(n, 0)' > 0
    BY <1>2, <2>1, RequestFits
  <2> QED BY <1>3, <1>4, <2>1, <2>2 DEF Planned
<1> QED BY <1>4, <1>8, <1>10, <1>11, <1>12, <1>13 DEF TInv, Expansion

LEMMA TablesStutterKeeps ==
  ASSUME TInv, UNCHANGED <<vars, tableVars>>
  PROVE  TInv'
<1>1. /\ UNCHANGED <<mem, index, end_address, present, call, live, status>>
      /\ UNCHANGED <<directory, physical, placed, frames, expanding>>
  BY DEF vars, tableVars
<1>2. Base /\ Bounded /\ PagesMapped /\ Tables
  BY DEF TInv
<1>3. Base'
  <2>1. CallServed'
    BY <1>1, <1>2 DEF Base, CallServed, Holes, EndOf
  <2> QED BY <1>1, <1>2, <2>1, QuietPreserves DEF Base, HeapTypes
<1>4. Bounded' /\ PagesMapped'
  BY <1>1, <1>2 DEF Bounded, PagesMapped, Reach
<1>5. Tables'
  BY <1>1, <1>2, TablesSurvive DEF PayloadKept
<1>6. (TableReady => TableReady') /\ (TailFree => TailFree')
  BY <1>1, <1>2, SameHoles DEF Base, HeapTypes
<1>7. Planned'
  <2> SUFFICES ASSUME expanding = <<>>, call # Idle
      PROVE /\ call.align = 0
            /\ find_smallest_hole(call.size + OVERHEAD, 0)' > 0
               \/ Provided(end_address, Expanded)'
    BY <1>1 DEF Planned
  <2>1. /\ call.align = 0
        /\ find_smallest_hole(call.size + OVERHEAD, 0) > 0 \/ Provided(end_address, Expanded)
    BY DEF TInv, Planned
  <2>2. find_smallest_hole(call.size + OVERHEAD, 0)' = find_smallest_hole(call.size + OVERHEAD, 0)
    <3>1. PICK n : n = call.size + OVERHEAD
      OBVIOUS
    <3>2. find_smallest_hole(n, 0)' = find_smallest_hole(n, 0)
      BY <1>1, <1>2, SameSearch DEF Base, HeapTypes
    <3>3. n = (call.size + OVERHEAD)'
      BY <1>1, <3>1
    <3> QED BY <3>1, <3>2, <3>3
  <2>3. Provided(end_address, Expanded) => Provided(end_address, Expanded)'
    BY <1>1, <1>6 DEF Provided, Lacking, Expanded
  <2> QED BY <2>1, <2>2, <2>3
<1>8. Expansion'
  <2>1. CASE expanding = <<>>
    BY <1>1, <2>1 DEF Expansion
  <2>2. CASE expanding # <<>>
    <3>1. PICK e \in Expansions :
            /\ expanding = <<e>> /\ expanding[1] = e
            /\ Underway(e) /\ (Maps(e) \/ AsksTable(e) \/ HoldsTable(e))
      BY <2>2, InExpand
    <3>2. Provided(e.at, e.new) => Provided(e.at, e.new)'
      BY <1>1, <1>6, SameLacking
    <3>3. Underway(e)'
      BY <1>1, <1>6, <3>1 DEF Underway
    <3>4. (Maps(e) => Maps(e)') /\ (AsksTable(e) => AsksTable(e)')
      BY <1>1, <3>2 DEF Maps, AsksTable, Waiting
    <3>5. HoldsTable(e) => HoldsTable(e)'
      <4>1. Lacking(e.at, e.new)' = Lacking(e.at, e.new)
        BY <1>1, SameLacking
      <4> QED BY <1>1, <4>1 DEF HoldsTable, TableBlock, Waiting
    <3> QED BY <1>1, <3>1, <3>3, <3>4, <3>5 DEF Expansion
  <2> QED BY <2>1, <2>2
<1> QED BY <1>3, <1>4, <1>5, <1>7, <1>8 DEF TInv

LEMMA TablesStepKeeps ==
  ASSUME Growth = "tail", TInv, [TablesNext]_<<vars, tableVars>>
  PROVE  TInv'
<1>1. CASE UNCHANGED <<vars, tableVars>>
  BY <1>1, TablesStutterKeeps
<1>2. ASSUME NEW size \in Sizes, Request(size) PROVE TInv'
  BY <1>2, RequestKeeps
<1>3. ASSUME NEW b \in live, Release(b) PROVE TInv'
  BY <1>3, ReleaseKeeps
<1>4. CASE BeginExpand
  BY <1>4, BeginExpandKeeps
<1>5. CASE NeedTable
  BY <1>5, NeedTableKeeps
<1>6. CASE Serve
  BY <1>6, ServeKeeps
<1>7. CASE EnterTable
  BY <1>7, EnterTableKeeps
<1>8. CASE MapPage
  BY <1>8, MapPageKeeps
<1>9. CASE EndExpand
  BY <1>9, EndExpandKeeps
<1> QED BY <1>1, <1>2, <1>3, <1>4, <1>5, <1>6, <1>7, <1>8, <1>9 DEF TablesNext

(* A table of the heap stands on a page that is mapped.                    *)
LEMMA TableMapped ==
  ASSUME TInv, NEW table \in Nat, TableBlock(table)
  PROVE  Entry(PageOf(table)) = PageOf(table) + TABLE
<1> DEFINE b == BlockOf(table)
<1>1. Base /\ Tables /\ EntriesTell
  BY DEF TInv, Tables
<1>2. b \in live /\ b.ptr = table
  BY DEF TableBlock, BlockOf
<1>3. /\ Header(b) \in Nat /\ Header(b) >= START /\ table = Header(b) + HEADER
      /\ BlockSize(b) \in Nat /\ BlockSize(b) >= b.size + OVERHEAD /\ b.size \in Nat
      /\ EndOf(Header(b)) = Header(b) + BlockSize(b) /\ EndOf(Header(b)) <= end_address
      /\ end_address \in Nat
  BY <1>1, <1>2, BlockNumbers
<1> HIDE DEF b
<1>4. Reach \in Nat /\ end_address <= Reach
  BY ReachFacts
<1>5. table \in START .. Reach - 1
  BY <1>3, <1>4, Geometry
<1>6. PageOf(table) \in present /\ PageOf(table) \in Pages
  BY <1>5, PresentPages
<1> QED BY <1>1, <1>6 DEF Tables, EntriesTell

LEMMA TInvTablesHold ==
  ASSUME TInv
  PROVE  TablesHold
<1> DEFINE Mapped == {p \in Pages : directory[TableOf(p)] # 0 /\ Entry(p) # 0}
<1>1. Base /\ Tables /\ TablesTyped /\ TablesStand /\ EntriesTell /\ present \subseteq Pages
  BY PresentPages DEF TInv, Tables
<1>2. Mapped = present /\ \A p \in Mapped : p \in Nat /\ Entry(p) = p + TABLE
  <2>1. ASSUME NEW p \in Pages, directory[TableOf(p)] # 0
        PROVE  (Entry(p) # 0 <=> p \in present) /\ (p \in present => Entry(p) = p + TABLE)
    BY <1>1, <2>1, FrameFits DEF EntriesTell
  <2>2. \A p \in present : directory[TableOf(p)] # 0
    BY <1>1 DEF Tables
  <2> QED BY <1>1, <2>1, <2>2, FrameFits
<1> HIDE DEF Mapped
<1>3. {PageOf(a) : a \in START .. end_address - 1} \subseteq Mapped
  <2>1. START .. end_address - 1 \subseteq START .. Reach - 1
    BY <1>1, ReachFacts, PieceFacts, Geometry, ShorterRange
  <2> QED BY <1>2, <2>1, PresentPages
<1>4. {Entry(p) : p \in Mapped} \subseteq frames
  <2>1. PageOf(Reach) \in Nat /\ PageOf(START) \in Nat
    BY ReachFacts, PageOfType, Geometry
  <2>2. present = PageOf(START) .. PageOf(Reach) - 1 /\ frames = 1 .. PageOf(Reach) - 1 + TABLE
    BY DEF TInv, PagesMapped
  <2>3. ASSUME NEW p \in Mapped PROVE p + TABLE \in frames
    <3>1. p \in Nat /\ p <= PageOf(Reach) - 1
      BY <1>2, <2>1, <2>2
    <3> QED BY <2>1, <2>2, <3>1, TableFacts
  <2> QED BY <1>2, <2>3
<1>5. ASSUME NEW p \in Mapped, NEW q \in Mapped, Entry(p) = Entry(q) PROVE p = q
  BY <1>2, <1>5, TableFacts
<1>6. ASSUME NEW t \in DOMAIN directory, HeapTable(t)
      PROVE  physical[t] = Entry(PageOf(directory[t])) /\ directory[t] % PAGE = 0
  <2>1. t \in Directory /\ directory[t] \in Nat
    BY <1>1 DEF TablesTyped
  <2>2. TableBlock(directory[t]) /\ physical[t] = PageOf(directory[t]) + TABLE
    BY <1>1, <1>6, <2>1 DEF TablesStand
  <2> QED BY <2>1, <2>2, TableMapped DEF TableBlock
<1>7. Mapped = {p \in Pages : directory[TableOf(p)] # 0 /\ Entry(p) # 0}
  BY DEF Mapped
<1> QED BY <1>2, <1>3, <1>4, <1>5, <1>6, <1>7 DEF TablesHold

-----------------------------------------------------------------------------
(* The theorems.  They ask of the callers what TablesSpec asks already     *)
(* (requests that one table at most is missing for, blocks freed only in   *)
(* front of live ones) and that the heap grows when a hole reaches its end. *)

(* Every reachable state satisfies the invariant: alloc, entered again by  *)
(* get_page for the heap it is extending, finds the heap whole.            *)
THEOREM TablesInvariance ==
  ASSUME Growth = "tail"
  PROVE  TablesSpec => []TInv
<1>1. TablesInit => TInv
  BY TInvInit
<1>2. TInv /\ [TablesNext]_<<vars, tableVars>> => TInv'
  BY TablesStepKeeps
<1> QED BY <1>1, <1>2, PTL DEF TablesSpec

(* The page tables that stand in the memory alloc and free work on say     *)
(* which pages are mapped, and to which frames, at every step of expand.   *)
THEOREM TablesSound ==
  ASSUME Growth = "tail"
  PROVE  TablesSpec => []TablesHold
BY TablesInvariance, TInvTablesHold, PTL

(* The heap that allocates its own page tables leaks no word of its memory *)
(* and owns none twice, in the midst of expand too.                        *)
THEOREM TablesLeakNothing ==
  ASSUME Growth = "tail"
  PROVE  TablesSpec => []FreeSpaceIndexed
<1>1. TInv => FreeSpaceIndexed
  BY DEF TInv, Base
<1> QED BY <1>1, TablesInvariance, PTL

-----------------------------------------------------------------------------
(* The refinement: what a caller sees is the heap of KHeap.                *)

USE DEF Heap!HEADER, Heap!FOOTER, Heap!OVERHEAD

(* The memory, the pages and the call that the heap of KHeap has.          *)
Masked(m) == [a \in Addr |-> IF InTable(a) THEN 0 ELSE m[a]]
AbsMem == Masked(mem)
AbsPresent ==
  IF Growing THEN present \ {PageOf(a) : a \in expanding[1].old .. expanding[1].at - 1}
             ELSE present
AbsCall ==
  IF call # Idle
  THEN IF ~ Growing /\ find_smallest_hole(call.size + OVERHEAD, call.align) = 0
       THEN Idle ELSE call
  ELSE IF Growing /\ ~ Mapping THEN expanding[1].request ELSE Idle

LEMMA AbsVars ==
  Heap!vars = <<AbsMem, index, end_address, AbsPresent, AbsCall, live, status>>
BY DEF Heap!vars, AbsMem, Masked, AbsPresent, AbsCall

LEMMA SameAbs ==
  ASSUME AbsMem' = AbsMem, AbsPresent' = AbsPresent, AbsCall' = AbsCall,
         UNCHANGED <<index, end_address, live, status>>
  PROVE  UNCHANGED Heap!vars
<1>1. Heap!vars' = <<AbsMem', index', end_address', AbsPresent', AbsCall', live', status'>>
  BY DEF Heap!vars, AbsMem, Masked, AbsPresent, AbsCall
<1> QED BY <1>1, AbsVars

(* Words written outside the tables are written in what the caller sees.   *)
LEMMA MaskHeader ==
  ASSUME NEW m, DOMAIN m = Addr, NEW h, NEW is_hole, NEW size,
         ~ InTable(h), ~ InTable(h + 1), ~ InTable(h + 2)
  PROVE  PutHeader(Masked(m), h, is_hole, size) = Masked(PutHeader(m, h, is_hole, size))
BY DEF PutHeader, Masked

LEMMA MaskFooter ==
  ASSUME NEW m, DOMAIN m = Addr, NEW f, NEW h, ~ InTable(f), ~ InTable(f + 1)
  PROVE  PutFooter(Masked(m), f, h) = Masked(PutFooter(m, f, h))
BY DEF PutFooter, Masked

LEMMA MaskWord ==
  ASSUME NEW m, DOMAIN m = Addr, NEW a, NEW w, ~ InTable(a)
  PROVE  [Masked(m) EXCEPT ![a] = w] = Masked([m EXCEPT ![a] = w])
BY DEF Masked

LEMMA MaskReads ==
  ASSUME NEW m, NEW a \in Addr, ~ InTable(a)
  PROVE  Masked(m)[a] = m[a]
BY DEF Masked

(* Tables lie within the blocks of a caller, tags excluded.                *)
LEMMA TableWords ==
  ASSUME Base, Tables, NEW a, InTable(a)
  PROVE  \E b \in live : /\ a \in Nat /\ Header(b) \in Nat /\ EndOf(Header(b)) \in Nat
                         /\ Header(b) + HEADER <= a /\ a + FOOTER < EndOf(Header(b))
<1>1. PICK t \in DOMAIN directory :
        HeapTable(t) /\ a \in directory[t] .. directory[t] + PAGE - 1
  BY DEF InTable
<1>2. t \in Directory
  BY DEF Tables, TablesTyped
<1> DEFINE b == BlockOf(directory[t])
<1>3. b \in live /\ b.ptr = directory[t] /\ b.size = PAGE
  BY <1>1, <1>2 DEF Tables, TablesStand, TableBlock, BlockOf
<1>4. a \in Payload(b)
  BY <1>1, <1>3 DEF Payload
<1>5. /\ a \in Nat /\ Header(b) + HEADER <= a
  BY <1>3, <1>4, PayloadWords
<1>6. /\ Header(b) \in Nat /\ b.ptr = Header(b) + HEADER
      /\ BlockSize(b) \in Nat /\ BlockSize(b) >= b.size + OVERHEAD
      /\ EndOf(Header(b)) = Header(b) + BlockSize(b)
  BY <1>3, BlockNumbers
<1>7. a <= b.ptr + PAGE - 1
  BY <1>1, <1>3, <1>5, <1>6, Geometry
<1> HIDE DEF b
<1>8. EndOf(Header(b)) \in Nat /\ a + FOOTER < EndOf(Header(b))
  BY <1>3, <1>5, <1>6, <1>7, Geometry
<1> QED BY <1>3, <1>5, <1>6, <1>8

LEMMA TagsOutside ==
  ASSUME Base, Tables, NEW q \in Pieces
  PROVE  /\ ~ InTable(q) /\ ~ InTable(q + 1) /\ ~ InTable(q + 2)
         /\ \A f : f = EndOf(q) - FOOTER => ~ InTable(f) /\ ~ InTable(f + 1)
         /\ q \in Addr /\ q + 1 \in Addr /\ q + 2 \in Addr
<1>1. q \in Nat /\ START <= q /\ EndOf(q) \in Nat /\ q + OVERHEAD <= EndOf(q)
      /\ EndOf(q) <= end_address /\ end_address <= LIMIT /\ end_address \in Nat
  BY PieceNumbers
<1>2. ASSUME NEW a, InTable(a),
             a \in q .. q + 2 \/ a = EndOf(q) - 2 \/ a = EndOf(q) - 2 + 1
      PROVE  FALSE
  <2>1. PICK b \in live : /\ a \in Nat /\ Header(b) \in Nat /\ EndOf(Header(b)) \in Nat
                          /\ Header(b) + HEADER <= a /\ a + FOOTER < EndOf(Header(b))
    BY <1>2, TableWords
  <2>2. Header(b) \in Pieces
    BY DEF Pieces
  <2>3. q = Header(b) \/ EndOf(q) <= Header(b) \/ EndOf(Header(b)) <= q
    BY <2>2, Apart
  <2>4. q <= a /\ a < EndOf(q)
    BY <1>1, <1>2
  <2>5. q = Header(b)
    BY <1>1, <2>1, <2>3, <2>4
  <2> QED BY <1>1, <1>2, <2>1, <2>5
<1>3. q \in q .. q + 2 /\ q + 1 \in q .. q + 2 /\ q + 2 \in q .. q + 2
      /\ q \in Addr /\ q + 1 \in Addr /\ q + 2 \in Addr
  BY <1>1, Geometry DEF Addr
<1> QED BY <1>2, <1>3

LEMMA HolesOutside ==
  ASSUME Base, Tables, NEW h \in Holes, NEW a \in h .. h + SizeOf(mem, h) - 1
  PROVE  ~ InTable(a) /\ a \in Addr
<1>1. h \in Pieces
  BY HoleIsPiece
<1>2. h \in Nat /\ START <= h /\ EndOf(h) \in Nat /\ EndOf(h) = h + SizeOf(mem, h)
      /\ SizeOf(mem, h) \in Nat
      /\ EndOf(h) <= end_address /\ end_address <= LIMIT /\ end_address \in Nat
  BY <1>1, PieceNumbers
<1>3. a \in Nat /\ h <= a /\ a < EndOf(h)
  BY <1>2
<1>4. ASSUME InTable(a) PROVE FALSE
  <2>1. PICK b \in live : /\ a \in Nat /\ Header(b) \in Nat /\ EndOf(Header(b)) \in Nat
                          /\ Header(b) + HEADER <= a /\ a + FOOTER < EndOf(Header(b))
    BY <1>4, TableWords
  <2>2. Header(b) \in Pieces /\ Header(b) # h
    BY DEF Pieces, Base, FreeSpaceIndexed
  <2>3. EndOf(h) <= Header(b) \/ EndOf(Header(b)) <= h
    BY <1>1, <2>2, Apart
  <2> QED BY <1>2, <1>3, <2>1, <2>3
<1> QED BY <1>2, <1>3, <1>4, Geometry DEF Addr

LEMMA BeyondTables ==
  ASSUME Base, Tables, NEW a, a < START \/ end_address <= a + FOOTER
  PROVE  ~ InTable(a)
<1> SUFFICES ASSUME InTable(a) PROVE FALSE
  OBVIOUS
<1>1. PICK b \in live : /\ a \in Nat /\ Header(b) \in Nat /\ EndOf(Header(b)) \in Nat
                        /\ Header(b) + HEADER <= a /\ a + FOOTER < EndOf(Header(b))
  BY TableWords
<1>2. Header(b) >= START /\ EndOf(Header(b)) <= end_address /\ end_address \in Nat
  BY BlockNumbers
<1> QED BY <1>1, <1>2, Geometry

LEMMA AbsSize ==
  ASSUME Base, Tables, NEW q \in Pieces
  PROVE  /\ SizeOf(AbsMem, q) = SizeOf(mem, q)
         /\ AbsMem[q] = mem[q] /\ AbsMem[q + 1] = mem[q + 1]
BY TagsOutside, MaskReads DEF AbsMem, SizeOf

(* Insertion reads the sizes only.                                         *)
LEMMA MaskInsert ==
  ASSUME NEW m, NEW w, NEW S, NEW idx \in Seq(S), NEW h,
         SizeOf(w, h) = SizeOf(m, h), \A x \in ToSet(idx) : SizeOf(w, x) = SizeOf(m, x)
  PROVE  InsertHole(w, idx, h) = InsertHole(m, idx, h)
<1> DEFINE Less(u, a) == SizeOf(u, a) < SizeOf(u, h)
           Stop(u, k) == /\ \A j \in 1 .. k - 1 : Less(u, idx[j])
                         /\ k <= Len(idx) => ~ Less(u, idx[k])
           K(u) == CHOOSE k \in 1 .. Len(idx) + 1 : Stop(u, k)
<1>1. /\ InsertHole(m, idx, h) = InsertAt(idx, K(m), h)
      /\ InsertHole(w, idx, h) = InsertAt(idx, K(w), h)
  BY Zenon DEF InsertHole, insert_ordered_array, InsertionPoint
<1>2. \A j \in 1 .. Len(idx) : idx[j] \in ToSet(idx)
  BY ToSetIsRange
<1>3. \A j \in 1 .. Len(idx) : Less(w, idx[j]) = Less(m, idx[j])
  BY <1>2
<1> HIDE DEF Less
<1>4. \A k \in 1 .. Len(idx) + 1 : Stop(w, k) <=> Stop(m, k)
  <2> SUFFICES ASSUME NEW k \in 1 .. Len(idx) + 1 PROVE Stop(w, k) <=> Stop(m, k)
    OBVIOUS
  <2>1. \A j \in 1 .. k - 1 : j \in 1 .. Len(idx)
    OBVIOUS
  <2>2. k <= Len(idx) => k \in 1 .. Len(idx)
    OBVIOUS
  <2> QED BY <1>3, <2>1, <2>2
<1>5. ASSUME NEW u PROVE \E k \in 1 .. Len(idx) + 1 : Stop(u, k)
  <2> DEFINE T == {j \in 1 .. Len(idx) + 1 : j <= Len(idx) => ~ Less(u, idx[j])}
  <2>1. Len(idx) + 1 \in T /\ T \subseteq Nat
    OBVIOUS
  <2>2. PICK j \in T : \A i \in T : j <= i
    BY <2>1, LeastElement
  <2>3. Stop(u, j)
    BY <2>2
  <2> QED BY <2>3
<1>6. ASSUME NEW u, NEW i \in 1 .. Len(idx) + 1, NEW j \in 1 .. Len(idx) + 1,
             Stop(u, i), Stop(u, j), i < j
      PROVE  FALSE
  <2>1. i \in 1 .. j - 1 /\ i <= Len(idx)
    BY <1>6
  <2> QED BY <1>6, <2>1
<1>7. /\ K(m) \in 1 .. Len(idx) + 1 /\ Stop(m, K(m))
      /\ K(w) \in 1 .. Len(idx) + 1 /\ Stop(w, K(w))
  <2> HIDE DEF Stop
  <2> QED BY <1>5
<1>8. Stop(m, K(w))
  <2> HIDE DEF Stop, K
  <2> QED BY <1>4, <1>7
<1>9. K(w) = K(m)
  <2> HIDE DEF Stop, K
  <2> QED BY <1>6, <1>7, <1>8
<1> QED BY <1>1, <1>9

(* alloc finds the hole that the caller's heap finds.                      *)
LEMMA AbsSearch ==
  ASSUME Base, Tables, NEW size, NEW align
  PROVE  Heap!find_smallest_hole(size, align) = find_smallest_hole(size, align)
<1>1. index \in Seq(HeaderAddr)
  BY DEF Base, HeapTypes
<1>2. \A j \in 1 .. Len(index) : index[j] \in Pieces
  BY <1>1, ToSetIsRange DEF Holes, Pieces
<1> DEFINE I == {j \in 1 .. Len(index) : Fits(index[j], size, align)}
           J == {j \in 1 .. Len(index) : Heap!Fits(index[j], size, align)}
<1>3. find_smallest_hole(size, align) = IF I # {} THEN Min(I) ELSE 0
  BY Zenon DEF find_smallest_hole, SelectInSeq
<1>4. Heap!find_smallest_hole(size, align) = IF J # {} THEN Min(J) ELSE 0
  BY Zenon DEF Heap!find_smallest_hole, Heap!SelectInSeq, Heap!Min, Min
<1>5. \A h : Heap!Fits(h, size, align)
               <=> IF align > 0 THEN Sub(SizeOf(AbsMem, h), AlignOffset(h)) >= size
                                ELSE SizeOf(AbsMem, h) >= size
  BY Zenon DEF Heap!Fits, AbsMem, Masked, Heap!Sub, Sub, Heap!SizeOf, SizeOf,
     Heap!AlignOffset, AlignOffset, Heap!Addr, Addr
<1>6. \A j \in 1 .. Len(index) : SizeOf(AbsMem, index[j]) = SizeOf(mem, index[j])
  BY <1>2, AbsSize
<1>7. \A j \in 1 .. Len(index) :
        Heap!Fits(index[j], size, align) <=> Fits(index[j], size, align)
  BY <1>5, <1>6 DEF Fits
<1>8. I = J
  BY <1>7
<1> HIDE DEF I, J
<1> QED BY <1>3, <1>4, <1>8

-----------------------------------------------------------------------------
(* What the refinement needs of a request beyond TInv: alloc finds no hole *)
(* for it until its pages are mapped, and when a table is still missing    *)
(* there is room for the block that kmalloc_ap asks for.                   *)
RoomForTable == end_address + 4 * PAGE + OVERHEAD <= LIMIT
Room(lo, hi) == Lacking(lo, hi) = {} \/ RoomForTable
TooBig(size) == \A h \in Holes : SizeOf(mem, h) < size + OVERHEAD
NewEnd(size) == START + RoundUp(end_address - START + size + OVERHEAD)

Foreseen ==
  expanding = <<>> /\ call # Idle =>
    /\ call.size \in Sizes
    /\ find_smallest_hole(call.size + OVERHEAD, 0) > 0 \/ Room(end_address, Expanded)
Waits(e) ==
  /\ e.request.size \in Sizes /\ e.new = NewEnd(e.request.size)
  /\ TooBig(e.request.size) /\ Room(e.at, e.new)
Pending == Foreseen /\ (expanding # <<>> => Waits(expanding[1]))

LEMMA TooBigFinds ==
  ASSUME Base, NEW size \in Nat
  PROVE  TooBig(size) <=> find_smallest_hole(size + OVERHEAD, 0) = 0
<1> DEFINE n == size + OVERHEAD
<1>1. index \in Seq(HeaderAddr)
  BY DEF Base, HeapTypes
<1>2. \A h : h \in Holes <=> \E j \in 1 .. Len(index) : h = index[j]
  BY <1>1, ToSetIsRange DEF Holes
<1>3. \A h \in Holes : SizeOf(mem, h) \in Nat
  BY HoleIsPiece, PieceNumbers
<1>4. n \in Nat
  OBVIOUS
<1>5. PICK i : i = find_smallest_hole(n, 0)
  OBVIOUS
<1>6. \/ i \in 1 .. Len(index) /\ SizeOf(mem, index[i]) >= n
      \/ i = 0 /\ \A j \in 1 .. Len(index) : ~ (SizeOf(mem, index[j]) >= n)
  BY <1>1, <1>5, SearchFinds
<1>7. TooBig(size) <=> \A h \in Holes : ~ (SizeOf(mem, h) >= n)
  BY <1>3, <1>4 DEF TooBig
<1> HIDE DEF n
<1>8. CASE i = 0
  BY <1>2, <1>5, <1>6, <1>7, <1>8 DEF n
<1>9. CASE i \in 1 .. Len(index) /\ SizeOf(mem, index[i]) >= n
  BY <1>2, <1>5, <1>7, <1>9 DEF n
<1> QED BY <1>6, <1>8, <1>9

(* A step within expand that lets no hole grow leaves the request waiting. *)
LEMMA WaitsOn ==
  ASSUME Base, Base', NEW e, NEW y, Follows(e, y), Waits(e), end_address' = end_address,
         \A x \in Holes' : \E h \in Holes : SizeOf(mem', x) <= SizeOf(mem, h),
         Lacking(y.at, y.new)' \subseteq Lacking(e.at, e.new)
  PROVE  Pending'
<1>1. e.request.size \in Nat /\ y.request = e.request /\ y.new = e.new
  BY SizesPositive DEF Follows, Waits
<1>2. PICK n \in Nat : n = e.request.size
  BY <1>1
<1>3. TooBig(n)'
  <2>1. HolesSized'
    <3>1. Base => HolesSized
      BY HolesAreSized
    <3>2. Base' => HolesSized'
      BY HolesAreSized, PTL
    <3> QED BY <3>2
  <2>2. \A x \in Holes' : SizeOf(mem', x) \in Nat
    BY <2>1 DEF HolesSized
  <2>3. \A h \in Holes : SizeOf(mem, h) \in Nat /\ SizeOf(mem, h) < n + OVERHEAD
    BY <1>2, HoleIsPiece, PieceNumbers DEF Waits, TooBig
  <2> QED BY <2>2, <2>3 DEF TooBig
<1>4. NewEnd(n)' = NewEnd(n)
  BY DEF NewEnd
<1>5. PICK lo, hi : lo = y.at /\ hi = y.new
  OBVIOUS
<1>6. Room(lo, hi)'
  BY <1>5 DEF Waits, Room, RoomForTable
<1>7. Waits(y)'
  BY <1>1, <1>2, <1>3, <1>4, <1>5, <1>6 DEF Waits
<1>8. expanding' = <<y>> /\ expanding'[1] = y
  BY DEF Follows
<1> QED BY <1>7, <1>8 DEF Pending, Foreseen

LEMMA RequestPends ==
  ASSUME TInv, Growth = "tail", NEW size \in Sizes, Request(size)
  PROVE  Pending'
<1>1. /\ expanding' = <<>> /\ call' = [size |-> size, align |-> 0]
      /\ UNCHANGED <<mem, index, end_address, directory>> /\ MayCross(size)
  BY DEF Request, Call, tableVars
<1>2. Base
  BY DEF TInv
<1>3. size \in Nat
  BY SizesPositive
<1>4. call'.size = size
  BY <1>1
<1>5. Expanded' = NewEnd(size)
  BY <1>1, <1>4 DEF Expanded, NewEnd
<1>6. find_smallest_hole(size + OVERHEAD, 0)' = find_smallest_hole(size + OVERHEAD, 0)
  BY <1>1, <1>2, SameSearch DEF Base, HeapTypes
<1>7. NewTables(size) = Lacking(end_address, NewEnd(size))
  BY <1>2, <1>3, NewTablesLack DEF NewEnd
<1>8. find_smallest_hole(size + OVERHEAD, 0) > 0 \/ Room(end_address, NewEnd(size))
  BY <1>1, <1>7 DEF MayCross, Room, RoomForTable
<1>9. PICK lo, hi : lo = end_address /\ hi = NewEnd(size)
  OBVIOUS
<1>10. Room(lo, hi) => Room(lo, hi)'
  BY <1>1, SameLacking DEF Room, RoomForTable
<1>11. find_smallest_hole(size + OVERHEAD, 0)' > 0 \/ Room(lo, hi)'
  BY <1>6, <1>8, <1>9, <1>10
<1> QED BY <1>1, <1>4, <1>5, <1>9, <1>11 DEF Pending, Foreseen

LEMMA ReleasePends ==
  ASSUME TInv, NEW b \in live, Release(b)
  PROVE  Pending'
<1>1. expanding' = <<>> /\ call = Idle /\ call' = call
  BY Zenon DEF Release, free, tableVars
<1> QED BY <1>1 DEF Pending, Foreseen

LEMMA BeginExpandPends ==
  ASSUME TInv, Pending, BeginExpand
  PROVE  Pending'
<1>1. expanding = <<>>
  BY BeginsFirst
<1>2. /\ call # Idle /\ find_smallest_hole(call.size + OVERHEAD, call.align) = 0
      /\ UNCHANGED <<mem, index, end_address, directory>>
  BY DEF BeginExpand
<1>3. Base /\ call.align = 0
  BY <1>1, <1>2 DEF TInv, Planned
<1>4. call.size \in Sizes /\ Room(end_address, Expanded)
  BY <1>1, <1>2, <1>3 DEF Pending, Foreseen
<1>5. TooBig(call.size)
  BY <1>2, <1>3, <1>4, SizesPositive, TooBigFinds
<1> DEFINE e == [request |-> call, old |-> end_address, at |-> end_address,
                 new |-> Expanded, table |-> 0]
<1>6. expanding' = <<e>>
  BY <1>1 DEF BeginExpand
<1>7. PICK x : x = e
  OBVIOUS
<1>8. /\ x.at = end_address /\ x.new = Expanded /\ x.request = call
      /\ expanding' = <<x>> /\ expanding'[1] = x
  BY <1>6, <1>7
<1> HIDE DEF e
<1>9. PICK n : n = call.size
  OBVIOUS
<1>10. NewEnd(n)' = Expanded
  BY <1>2, <1>9 DEF NewEnd, Expanded
<1>11. TooBig(n)'
  BY <1>2, <1>5, <1>9 DEF TooBig, Holes
<1>12. Room(x.at, x.new)'
  BY <1>2, <1>4, <1>8, SameLacking DEF Room, RoomForTable
<1> QED BY <1>4, <1>8, <1>9, <1>10, <1>11, <1>12 DEF Pending, Foreseen, Waits

LEMMA NeedTablePends ==
  ASSUME TInv, Pending, NeedTable
  PROVE  Pending'
<1>1. expanding # <<>> /\ UNCHANGED <<mem, index, end_address, directory, expanding>>
  BY DEF NeedTable, InLoop, tableVars
<1>2. PICK e : expanding = <<e>> /\ expanding[1] = e
  BY <1>1, InExpand
<1>3. Waits(e)'
  <2>1. Waits(e)
    BY <1>1, <1>2 DEF Pending
  <2>2. Lacking(e.at, e.new)' = Lacking(e.at, e.new)
    BY <1>1, SameLacking
  <2> QED BY <1>1, <2>1, <2>2 DEF Waits, TooBig, Holes, NewEnd, Room, RoomForTable
<1> QED BY <1>1, <1>2, <1>3 DEF Pending, Foreseen

LEMMA ServePends ==
  ASSUME TInv, Pending, Serve
  PROVE  Pending'
<1>1. Base
  BY DEF TInv
<1>2. CASE expanding = <<>>
  <2>1. AllocFromHole /\ call.align = 0
    BY <1>2 DEF TInv, Planned, Serve, AllocFromHole
  <2>2. PICK h, n, b : CarvesOut(h, n, b)
    BY <1>1, <2>1, AllocFromHolePreserves
  <2>3. call' = Idle /\ expanding' = <<>>
    BY <1>2, <2>2 DEF CarvesOut, Serve
  <2> QED BY <2>3 DEF Pending, Foreseen
<1>3. CASE expanding # <<>>
  <2>1. PICK e, y, h, b : ServesTables(e, y, h, b)
    BY <1>3, ServeDoes
  <2>2. /\ Follows(e, y) /\ Base' /\ directory' = directory /\ y.at = e.at /\ y.new = e.new
        /\ end_address' = end_address
        /\ \A x \in Holes' : \E g \in Holes : SizeOf(mem', x) <= SizeOf(mem, g)
    BY <2>1 DEF ServesTables, ServesPage, Follows
  <2>3. Waits(e)
    BY <1>3, <2>2 DEF Pending, Follows
  <2>4. Lacking(y.at, y.new)' = Lacking(e.at, e.new)
    BY <2>2, SameLacking
  <2> QED BY <1>1, <2>2, <2>3, <2>4, WaitsOn
<1> QED BY <1>2, <1>3

(* The holes keep their sizes when the words of blocks are written.        *)
LEMMA HolesKept ==
  ASSUME Base, index' = index, \A q \in Pieces : SizeOf(mem', q) = SizeOf(mem, q)
  PROVE  \A x \in Holes' : \E h \in Holes : SizeOf(mem', x) <= SizeOf(mem, h)
<1> SUFFICES ASSUME NEW x \in Holes' PROVE x \in Holes /\ SizeOf(mem', x) <= SizeOf(mem, x)
  OBVIOUS
<1>1. x \in Holes /\ x \in Pieces
  BY DEF Holes, Pieces
<1>2. SizeOf(mem, x) \in Nat
  BY <1>1, PieceNumbers
<1> QED BY <1>1, <1>2

LEMMA EnterTablePends ==
  ASSUME TInv, Pending, EnterTable
  PROVE  Pending'
<1>1. PICK e, y, b : EntersTable(e, y, b)
  BY EnterTableDoes
<1>2. /\ Follows(e, y) /\ Base' /\ index' = index /\ end_address' = end_address
      /\ \A q \in Pieces : SizeOf(mem', q) = SizeOf(mem, q)
  BY <1>1 DEF EntersTable, Enters
<1>3. Base /\ Waits(e)
  BY <1>2 DEF TInv, Pending, Follows
<1>4. Lacking(y.at, y.new)' = {}
  BY <1>1, EntersLast
<1> QED BY <1>2, <1>3, <1>4, HolesKept, WaitsOn

LEMMA MapPagePends ==
  ASSUME TInv, Pending, MapPage
  PROVE  Pending'
<1>1. PICK e, y, p : MapsPage(e, y, p)
  BY MapPageDoes
<1>2. /\ Follows(e, y) /\ Maps1(p) /\ call = Idle /\ index' = index
      /\ end_address' = end_address
  BY <1>1 DEF MapsPage, Maps, Maps1
<1>3. Base /\ Tables /\ Waits(e)
  BY <1>2 DEF TInv, Pending, Follows
<1>4. Base' /\ \A q \in Pieces : SizeOf(mem', q) = SizeOf(mem, q)
  BY <1>2, <1>3, Maps1Heap
<1>5. Lacking(y.at, y.new)' \subseteq Lacking(e.at, e.new)
  BY <1>1, MapsFewer
<1> QED BY <1>2, <1>3, <1>4, <1>5, HolesKept, WaitsOn

LEMMA EndExpandPends ==
  ASSUME TInv, Pending, EndExpand
  PROVE  Pending'
<1>1. PICK e, added, t : EndsExpand(e, added, t)
  BY EndExpandDoes
<1>2. expanding # <<>> /\ expanding[1] = e /\ expanding' = <<>> /\ call' = e.request
  BY <1>1 DEF EndsExpand
<1>3. PICK n : n = e.request.size + OVERHEAD
  OBVIOUS
<1>4. find_smallest_hole(n, 0)' > 0
  BY <1>1, <1>3, RequestFits
<1>5. e.request.size \in Sizes
  BY <1>2 DEF Pending, Waits
<1> QED BY <1>2, <1>3, <1>4, <1>5 DEF Pending, Foreseen

LEMMA TablesStutterPends ==
  ASSUME TInv, Pending, UNCHANGED <<vars, tableVars>>
  PROVE  Pending'
<1>1. UNCHANGED <<mem, index, end_address, call, directory, expanding>>
  BY DEF vars, tableVars
<1>2. Foreseen'
  <2>1. PICK n, lo, hi : n = call.size + OVERHEAD /\ lo = end_address /\ hi = Expanded
    OBVIOUS
  <2>2. n = (call.size + OVERHEAD)' /\ lo = end_address' /\ hi = Expanded'
    BY <1>1, <2>1 DEF Expanded
  <2>3. find_smallest_hole(n, 0)' = find_smallest_hole(n, 0)
    BY <1>1, SameSearch DEF TInv, Base, HeapTypes
  <2>4. Room(lo, hi) => Room(lo, hi)'
    BY <1>1, SameLacking DEF Room, RoomForTable
  <2> QED BY <1>1, <2>1, <2>2, <2>3, <2>4 DEF Pending, Foreseen
<1>3. expanding # <<>> => Waits(expanding[1])'
  BY <1>1 DEF Pending, Waits, TooBig, Holes, NewEnd, Room, RoomForTable, Lacking
<1> QED BY <1>1, <1>2, <1>3 DEF Pending

LEMMA TablesStepPends ==
  ASSUME Growth = "tail", TInv, Pending, [TablesNext]_<<vars, tableVars>>
  PROVE  Pending'
BY RequestPends, ReleasePends, BeginExpandPends, NeedTablePends, ServePends, EnterTablePends,
   MapPagePends, EndExpandPends, TablesStutterPends DEF TablesNext

LEMMA InitPends ==
  ASSUME TablesInit
  PROVE  Pending
BY DEF TablesInit, Init, Pending, Foreseen

-----------------------------------------------------------------------------
(* The steps of the caller's heap, over what it sees.                      *)

LEMMA HeapCalls ==
  ASSUME NEW size \in Sizes \cup {PAGE}, NEW align \in {0, 1},
         status = "running", AbsCall = Idle,
         START + RoundUp(end_address - START + size + OVERHEAD)
           + align * (PAGE + size + OVERHEAD) <= LIMIT,
         AbsCall' = [size |-> size, align |-> align],
         AbsMem' = AbsMem, AbsPresent' = AbsPresent,
         UNCHANGED <<index, end_address, live, status>>
  PROVE  [Heap!Next]_(Heap!vars)
<1>1. Heap!RoundUp(end_address - START + size + OVERHEAD)
        = RoundUp(end_address - START + size + OVERHEAD)
  BY Zenon DEF Heap!RoundUp, RoundUp
<1>2. Heap!MayRequest(size, align)
  BY <1>1, Zenon DEF Heap!MayRequest
<1>3. Heap!Call(size, align)
  BY <1>2, Zenon DEF Heap!Call, AbsCall, AbsMem, Masked, AbsPresent, Heap!Addr, Addr
<1> QED BY <1>3, Zenon DEF Heap!Next

LEMMA HeapStores ==
  ASSUME NEW b \in live, status = "running", AbsCall = Idle, AbsCall' = Idle,
         AbsMem' = [a \in Addr |-> IF a \in Payload(b) THEN 0 ELSE AbsMem[a]],
         AbsPresent' = AbsPresent, UNCHANGED <<index, end_address, live, status>>
  PROVE  [Heap!Next]_(Heap!vars)
<1>1. Heap!UserStores(b, 0)
  BY Zenon DEF Heap!UserStores, AbsCall, AbsMem, Masked, AbsPresent, Heap!Addr, Addr,
     Heap!Payload, Payload
<1> QED BY <1>1, Zenon DEF Heap!Next

LEMMA HeapRests ==
  ASSUME AbsMem' = AbsMem, AbsPresent' = AbsPresent, AbsCall' = AbsCall,
         UNCHANGED <<index, end_address, live, status>>
  PROVE  [Heap!Next]_(Heap!vars)
BY SameAbs

(* What the caller sees between two calls of expand, and within one.       *)
Found == find_smallest_hole(call.size + OVERHEAD, call.align) # 0
QuietAbs ==
  /\ AbsPresent = present
  /\ call = Idle \/ ~ Found => AbsCall = Idle
  /\ call # Idle /\ Found => AbsCall = call
LEMMA AbsQuiet ==
  ASSUME expanding = <<>>
  PROVE  QuietAbs
BY DEF QuietAbs, Found, AbsPresent, AbsCall, Growing

PagesFrom(lo, hi) == {PageOf(a) : a \in lo .. hi - 1}
GrowingAbs(e) ==
  /\ AbsPresent = present \ PagesFrom(e.old, e.at)
  /\ call # Idle => AbsCall = call
  /\ call = Idle /\ (e.table # 0 \/ e.at < e.new) => AbsCall = Idle
  /\ call = Idle /\ ~ (e.table # 0 \/ e.at < e.new) => AbsCall = e.request
LEMMA AbsGrowing ==
  ASSUME NEW e, expanding = <<e>>
  PROVE  GrowingAbs(e)
<1>1. Growing /\ expanding[1] = e
  BY DEF Growing
<1> QED BY <1>1 DEF GrowingAbs, AbsPresent, AbsCall, Mapping, PagesFrom

LEMMA AbsNext ==
  /\ expanding' = <<>> => QuietAbs'
  /\ \A e : expanding' = <<e>> => GrowingAbs(e)'
<1>1. expanding' = <<>> => QuietAbs'
  BY DEF QuietAbs, Found, AbsPresent, AbsCall, Growing
<1>2. ASSUME NEW e, expanding' = <<e>> PROVE GrowingAbs(e)'
  <2>1. (Growing /\ expanding[1] = e)'
    BY <1>2 DEF Growing
  <2> QED BY <2>1 DEF GrowingAbs, AbsPresent, AbsCall, Mapping, PagesFrom
<1> QED BY <1>1, <1>2

LEMMA InTableSame ==
  ASSUME directory' = directory
  PROVE  \A a : InTable(a)' = InTable(a)
BY DEF InTable, HeapTable

LEMMA AbsMemSame ==
  ASSUME directory' = directory, mem' = mem
  PROVE  AbsMem' = AbsMem
<1>1. \A a : InTable(a)' = InTable(a)
  BY InTableSame
<1> QED BY <1>1 DEF AbsMem, Masked

-----------------------------------------------------------------------------
(* The steps that only move what the caller sees, or nothing of it.        *)

LEMMA RequestSimulates ==
  ASSUME TInv, Growth = "tail", NEW size \in Sizes, Request(size)
  PROVE  [Heap!Next]_(Heap!vars)
<1>1. /\ expanding = <<>> /\ expanding' = <<>> /\ call = Idle /\ status = "running"
      /\ call' = [size |-> size, align |-> 0]
      /\ UNCHANGED <<mem, index, end_address, present, live, status, directory>>
      /\ MayRequest(size, 0)
  BY DEF Request, Call, tableVars
<1>2. QuietAbs /\ QuietAbs' /\ AbsMem' = AbsMem
  BY <1>1, AbsQuiet, AbsNext, AbsMemSame
<1>3. AbsCall = Idle /\ AbsPresent' = AbsPresent
  BY <1>1, <1>2 DEF QuietAbs
<1>4. call' # Idle
  BY <1>1, SizesPositive, IdleIsNoRequest
<1>5. CASE ~ Found'
  <2>1. AbsCall' = Idle
    BY <1>2, <1>5 DEF QuietAbs
  <2> QED BY <1>1, <1>2, <1>3, <2>1, HeapRests
<1>6. CASE Found'
  <2>1. AbsCall' = [size |-> size, align |-> 0]
    BY <1>1, <1>2, <1>4, <1>6 DEF QuietAbs
  <2>2. START + RoundUp(end_address - START + size + OVERHEAD)
          + 0 * (PAGE + size + OVERHEAD) <= LIMIT
    BY <1>1 DEF MayRequest
  <2> QED BY <1>1, <1>2, <1>3, <2>1, <2>2, HeapCalls
<1> QED BY <1>5, <1>6

LEMMA BeginExpandSimulates ==
  ASSUME TInv, BeginExpand
  PROVE  [Heap!Next]_(Heap!vars)
<1>1. /\ expanding = <<>> /\ call # Idle /\ call' = Idle
      /\ find_smallest_hole(call.size + OVERHEAD, call.align) = 0
      /\ UNCHANGED <<mem, index, end_address, present, live, status, directory>>
  BY BeginsFirst DEF BeginExpand
<1>2. Base
  BY DEF TInv
<1> DEFINE e == [request |-> call, old |-> end_address, at |-> end_address,
                 new |-> Expanded, table |-> 0]
<1>3. expanding' = <<e>>
  BY <1>1 DEF BeginExpand
<1>4. PICK x : x = e
  OBVIOUS
<1>5. x.at = end_address /\ x.old = end_address /\ x.new = Expanded /\ expanding' = <<x>>
  BY <1>3, <1>4
<1> HIDE DEF e
<1>6. x.at < x.new
  <2>1. call.size \in Nat /\ end_address \in Nat
    BY <1>1, <1>2, PieceFacts, SizesPositive DEF Base, HeapTypes, Calls
  <2>2. Expanded \in Nat /\ end_address + call.size + OVERHEAD <= Expanded
    BY <1>1, <1>2, ExpandedIs
  <2> QED BY <1>5, <2>1, <2>2
<1>7. QuietAbs /\ GrowingAbs(x)' /\ AbsMem' = AbsMem
  BY <1>1, <1>5, AbsQuiet, AbsNext, AbsMemSame
<1>8. AbsCall = Idle /\ AbsCall' = Idle
  BY <1>1, <1>6, <1>7 DEF QuietAbs, GrowingAbs, Found
<1>9. AbsPresent' = AbsPresent
  <2>1. PagesFrom(x.old, x.at) = {}
    <3>1. end_address \in Nat
      BY <1>2, PieceFacts
    <3> QED BY <1>5, <3>1 DEF PagesFrom
  <2>2. AbsPresent' = present' \ PagesFrom(x.old, x.at)
    BY <1>7 DEF GrowingAbs, PagesFrom
  <2> QED BY <1>1, <1>7, <2>1, <2>2 DEF QuietAbs
<1> QED BY <1>1, <1>7, <1>8, <1>9, HeapRests

(* kmalloc_ap enters alloc for a table.                                    *)
LEMMA NeedTableSimulates ==
  ASSUME TInv, Pending, NeedTable
  PROVE  [Heap!Next]_(Heap!vars)
<1>1. /\ expanding # <<>> /\ call = Idle /\ call' = TableRequest /\ status = "running"
      /\ directory[TableOf(Page)] = 0
      /\ expanding[Top1].table = 0 /\ expanding[Top1].at < expanding[Top1].new
      /\ UNCHANGED <<mem, index, end_address, present, live, status, directory, expanding>>
  BY DEF NeedTable, InLoop, tableVars
<1>2. PICK e \in Expansions :
        /\ expanding = <<e>> /\ Top1 = 1 /\ expanding[1] = e /\ Underway(e)
        /\ Page = PageOf(e.at) /\ Waiting(e) = TableOf(Page)
  BY <1>1, InExpand
<1>3. GrowingAbs(e) /\ GrowingAbs(e)' /\ AbsMem' = AbsMem
  BY <1>1, <1>2, AbsGrowing, AbsNext, AbsMemSame
<1>4. AbsCall = Idle /\ AbsCall' = [size |-> PAGE, align |-> 1]
  BY <1>1, <1>2, <1>3, TableRequestIs DEF GrowingAbs, TableRequest
<1>5. AbsPresent' = AbsPresent
  BY <1>1, <1>3 DEF GrowingAbs, PagesFrom
<1>6. RoomForTable
  <2>1. Waiting(e) \in Lacking(e.at, e.new)
    BY <1>1, <1>2, WaitingLacks DEF Underway
  <2> QED BY <1>2, <2>1 DEF Pending, Waits, Room
<1>7. START + RoundUp(end_address - START + PAGE + OVERHEAD)
        + 1 * (PAGE + PAGE + OVERHEAD) <= LIMIT
  <2> DEFINE n == end_address - START
             k == n \div PAGE
  <2>1. end_address \in Nat /\ START \in Nat /\ PAGE \in Nat /\ PAGE > OVERHEAD
        /\ START + PAGE <= end_address /\ LIMIT \in Nat
    BY PieceFacts, Geometry DEF TInv, Bounded
  <2>2. n \in Nat /\ n % PAGE = 0
    <3>1. end_address % PAGE = 0 /\ START % PAGE = 0
      BY TableFacts DEF TInv, Bounded
    <3>2. end_address = PAGE * PageOf(end_address) /\ START = PAGE * PageOf(START)
          /\ PageOf(end_address) \in Nat /\ PageOf(START) \in Nat
      BY <2>1, <3>1, PageBoundary, PageOfType
    <3>3. PageOf(START) <= PageOf(end_address)
      BY <2>1, PageOrder
    <3>4. PICK q \in Nat : q = PageOf(end_address) - PageOf(START)
      BY <3>2, <3>3
    <3>5. n = PAGE * q + 0
      BY <2>1, <3>2, <3>4
    <3>6. (PAGE * q + 0) % PAGE = 0
      <4>1. 0 \in 0 .. PAGE - 1 /\ PAGE > 0
        BY <2>1
      <4> QED BY <2>1, <3>4, <4>1, Quotients
    <3> QED BY <2>1, <3>5, <3>6
  <2> HIDE DEF n
  <2>3. k \in Nat /\ n = PAGE * k
    BY <2>1, <2>2, Euclid
  <2> HIDE DEF k
  <2>4. (n + PAGE + OVERHEAD) \div PAGE = k + 1
    <3>1. n + PAGE + OVERHEAD = PAGE * (k + 1) + OVERHEAD /\ k + 1 \in Nat
          /\ OVERHEAD \in 0 .. PAGE - 1 /\ PAGE > 0
      BY <2>1, <2>3
    <3>2. (PAGE * (k + 1) + OVERHEAD) \div PAGE = k + 1
      BY <2>1, <3>1, Quotients
    <3> QED BY <3>1, <3>2
  <2>5. RoundUp(n + PAGE + OVERHEAD) = n + PAGE + PAGE
    <3>1. n + PAGE + OVERHEAD >= PAGE
      BY <2>1, <2>2
    <3>2. RoundUp(n + PAGE + OVERHEAD) = (k + 1) * PAGE + PAGE
      BY <2>4, <3>1, Zenon DEF RoundUp
    <3> QED BY <2>1, <2>3, <3>2
  <2>6. START + RoundUp(n + PAGE + OVERHEAD) + 1 * (PAGE + PAGE + OVERHEAD)
          = end_address + 4 * PAGE + OVERHEAD
    <3>1. START + (n + PAGE + PAGE) + 1 * (PAGE + PAGE + OVERHEAD)
            = end_address + 4 * PAGE + OVERHEAD
      BY <2>1 DEF n
    <3> QED BY <2>5, <3>1
  <2> QED BY <1>6, <2>6 DEF RoomForTable, n
<1> QED BY <1>1, <1>3, <1>4, <1>5, <1>7, HeapCalls

LEMMA TablesStutterSimulates ==
  ASSUME TInv, UNCHANGED <<vars, tableVars>>
  PROVE  [Heap!Next]_(Heap!vars)
<1>1. /\ UNCHANGED <<mem, index, end_address, present, call, live, status>>
      /\ UNCHANGED <<directory, physical, placed, frames, expanding>>
  BY DEF vars, tableVars
<1>2. AbsMem' = AbsMem
  BY <1>1, AbsMemSame
<1>3. AbsPresent' = AbsPresent
  BY <1>1 DEF AbsPresent, Growing
<1>4. AbsCall' = AbsCall
  <2>1. PICK n, align : n = call.size + OVERHEAD /\ align = call.align
    OBVIOUS
  <2>2. n = (call.size + OVERHEAD)' /\ align = call.align'
    BY <1>1, <2>1
  <2>3. find_smallest_hole(n, align)' = find_smallest_hole(n, align)
    BY <1>1, SameSearch DEF TInv, Base, HeapTypes
  <2> QED BY <1>1, <2>1, <2>2, <2>3 DEF AbsCall, Growing, Mapping
<1> QED BY <1>1, <1>2, <1>3, <1>4, HeapRests

-----------------------------------------------------------------------------
(* The table is entered: its owner stores zeros in all of it.              *)
LEMMA EnterTableSimulates ==
  ASSUME TInv, EnterTable
  PROVE  [Heap!Next]_(Heap!vars)
<1>1. PICK e, y, b : EntersTable(e, y, b)
  BY EnterTableDoes
<1> DEFINE W == Waiting(e)
           table == e.table
<1>2. /\ b \in live /\ Payload(b) = table .. table + PAGE - 1 /\ table \in Nat /\ table > PLACED
      /\ directory' = [directory EXCEPT ![W] = table] /\ W \in Directory /\ directory[W] = 0
      /\ UNCHANGED <<index, end_address, present, call, live, status>>
      /\ mem' = Cleared(mem, table) /\ table # 0
  BY <1>1 DEF EntersTable, Enters, HoldsTable
<1>3. /\ expanding = <<e>> /\ expanding' = <<y>> /\ call = Idle /\ e.at < e.new
      /\ y.at = e.at /\ y.new = e.new /\ y.old = e.old
  BY <1>1 DEF EntersTable, Follows, HoldsTable
<1>4. directory \in [Directory -> Nat] /\ status = "running"
  BY DEF TInv, Tables, TablesTyped, Base, KeepsRunning
<1>5. GrowingAbs(e) /\ GrowingAbs(y)'
  BY <1>3, AbsGrowing, AbsNext
<1>6. AbsCall = Idle /\ AbsCall' = Idle /\ AbsPresent' = AbsPresent
  BY <1>2, <1>3, <1>5 DEF GrowingAbs, PagesFrom
<1> HIDE DEF W, table
<1>7. ASSUME NEW a PROVE InTable(a)' <=> InTable(a) \/ a \in Payload(b)
  <2>1. DOMAIN directory = Directory /\ DOMAIN directory' = Directory
    BY <1>2, <1>4
  <2>2. directory'[W] = table /\ \A t \in Directory \ {W} : directory'[t] = directory[t]
    BY <1>2, <1>4
  <2>3. InTable(a)' <=> \E t \in Directory :
          directory'[t] \notin {0, PLACED} /\ a \in directory'[t] .. directory'[t] + PAGE - 1
    BY <2>1 DEF InTable, HeapTable
  <2>4. InTable(a) <=> \E t \in Directory :
          directory[t] \notin {0, PLACED} /\ a \in directory[t] .. directory[t] + PAGE - 1
    BY <2>1 DEF InTable, HeapTable
  <2>5. table \notin {0, PLACED}
    BY <1>2, TableFacts
  <2> QED BY <1>2, <2>2, <2>3, <2>4, <2>5
<1>8. AbsMem' = [a \in Addr |-> IF a \in Payload(b) THEN 0 ELSE AbsMem[a]]
  <2>1. \A a \in Addr : mem'[a] = IF a \in Payload(b) THEN 0 ELSE mem[a]
    BY <1>2 DEF Cleared
  <2>2. AbsMem' = [a \in Addr |-> IF InTable(a)' THEN 0 ELSE mem'[a]]
    BY DEF AbsMem, Masked
  <2>3. \A a \in Addr : AbsMem[a] = IF InTable(a) THEN 0 ELSE mem[a]
    BY DEF AbsMem, Masked
  <2> QED BY <1>7, <2>1, <2>2, <2>3
<1> QED BY <1>2, <1>4, <1>6, <1>8, HeapStores

(* A page is mapped, and its entry is written in a table.                  *)
LEMMA PagesStep ==
  ASSUME NEW lo \in Nat, NEW at \in Nat, lo <= at, at % PAGE = 0
  PROVE  PagesFrom(lo, at + PAGE) = PagesFrom(lo, at) \cup {PageOf(at)}
<1>1. PAGE \in Nat /\ PAGE > 0 /\ PageOf(at) \in Nat
  BY Geometry, PageOfType
<1>2. PageOf(at + PAGE) = PageOf(at) + 1 /\ (at + PAGE) % PAGE = 0
  BY NextPage
<1>3. ASSUME NEW a \in Nat, at <= a, a < at + PAGE PROVE PageOf(a) = PageOf(at)
  <2>1. PageOf(at) <= PageOf(a) /\ PageOf(a) < PageOf(at + PAGE) /\ PageOf(a) \in Nat
    BY <1>1, <1>2, <1>3, PageOrder, BelowBoundary, PageOfType
  <2> QED BY <1>1, <1>2, <2>1
<1>9. PICK hi : hi = at + PAGE
  OBVIOUS
<1>4. \A a \in lo .. hi - 1 : a \in lo .. at - 1 \/ (a \in Nat /\ at <= a /\ a < hi)
  BY <1>9, <1>1
<1>5. lo .. at - 1 \subseteq lo .. hi - 1 /\ at \in lo .. hi - 1
  BY <1>9, <1>1
<1>6. ASSUME NEW x \in PagesFrom(lo, hi) PROVE x \in PagesFrom(lo, at) \cup {PageOf(at)}
  <2>1. PICK a \in lo .. hi - 1 : x = PageOf(a)
    BY <1>6 DEF PagesFrom
  <2>2. CASE a \in lo .. at - 1
    BY <2>1, <2>2 DEF PagesFrom
  <2>3. CASE a \in Nat /\ at <= a /\ a < hi
    BY <1>9, <1>3, <2>1, <2>3
  <2> QED BY <1>4, <2>2, <2>3
<1>7. PagesFrom(lo, at) \subseteq PagesFrom(lo, hi)
  BY <1>5, Zenon DEF PagesFrom
<1>8. PageOf(at) \in PagesFrom(lo, hi)
  BY <1>5, Zenon DEF PagesFrom
<1> QED BY <1>9, <1>6, <1>7, <1>8

LEMMA MapPageSimulates ==
  ASSUME TInv, Pending, MapPage
  PROVE  [Heap!Next]_(Heap!vars)
<1>1. PICK e, y, p : MapsPage(e, y, p)
  BY MapPageDoes
<1>2. /\ expanding = <<e>> /\ expanding[1] = e /\ expanding' = <<y>> /\ e \in Expansions
      /\ y.at = e.at + PAGE /\ y.new = e.new /\ y.old = e.old /\ y.request = e.request
      /\ e.at < e.new /\ e.table = 0 /\ y.table = 0 /\ call = Idle /\ p = PageOf(e.at)
      /\ Underway(e) /\ y.at <= e.new
  BY <1>1 DEF MapsPage, Follows, Maps
<1>3. /\ p \in Pages /\ p \notin present /\ present' = present \cup {p}
      /\ directory[TableOf(p)] # 0
      /\ UNCHANGED <<index, end_address, call, live, status, directory>>
      /\ mem' = mem \/ (HeapTable(TableOf(p)) /\ mem' = [mem EXCEPT ![EntryAt(p)] = p + TABLE])
  BY <1>1 DEF MapsPage, Maps1
<1>4. /\ directory \in [Directory -> Nat] /\ status = "running" /\ mem \in [Addr -> Word]
  BY DEF TInv, Tables, TablesTyped, Base, HeapTypes, KeepsRunning
<1>5. GrowingAbs(e) /\ GrowingAbs(y)'
  BY <1>2, AbsGrowing, AbsNext
<1>6. AbsCall = Idle
  BY <1>2, <1>5 DEF GrowingAbs
<1>7. AbsPresent' = AbsPresent
  <2>1. e.old \in Nat /\ e.at \in Nat /\ e.old <= e.at /\ e.at % PAGE = 0
    BY <1>2 DEF Expansions, Underway
  <2>2. PagesFrom(y.old, y.at) = PagesFrom(e.old, e.at) \cup {p}
    BY <1>2, <2>1, PagesStep
  <2>3. AbsPresent' = present' \ PagesFrom(y.old, y.at)
    BY <1>5 DEF GrowingAbs, PagesFrom
  <2> QED BY <1>3, <1>5, <2>2, <2>3 DEF GrowingAbs
<1>8. AbsMem' = AbsMem
  <2>1. \A a : InTable(a)' = InTable(a)
    BY <1>3, InTableSame
  <2>2. CASE mem' = mem
    BY <1>3, <2>2, AbsMemSame
  <2>3. CASE HeapTable(TableOf(p)) /\ mem' = [mem EXCEPT ![EntryAt(p)] = p + TABLE]
    <3>1. p \in Nat /\ TableOf(p) \in Directory
      BY <1>3, FrameFits DEF Directory
    <3>2. p % TABLE \in 0 .. TABLE - 1 /\ directory[TableOf(p)] \in Nat
      BY <1>4, <3>1, TableOfType
    <3>3. EntryAt(p) \in directory[TableOf(p)] .. directory[TableOf(p)] + PAGE - 1
      BY <3>2, TableFacts, Geometry DEF EntryAt
    <3>4. InTable(EntryAt(p))
      BY <1>4, <2>3, <3>1, <3>3 DEF InTable
    <3>5. \A a \in Addr : a # EntryAt(p) => mem'[a] = mem[a]
      BY <1>4, <2>3
    <3> QED BY <2>1, <3>4, <3>5 DEF AbsMem, Masked
  <2> QED BY <1>3, <2>2, <2>3
<1>9. CASE y.at < y.new
  <2>1. AbsCall' = Idle
    BY <1>2, <1>3, <1>5, <1>9 DEF GrowingAbs
  <2> QED BY <1>3, <1>6, <1>7, <1>8, <2>1, HeapRests
<1>10. CASE ~ (y.at < y.new)
  <2> DEFINE size == e.request.size
  <2>1. AbsCall' = e.request
    BY <1>2, <1>3, <1>5, <1>10 DEF GrowingAbs
  <2>2. e.request = [size |-> size, align |-> 0]
    BY <1>2 DEF Expansions
  <2>3. size \in Sizes /\ size \in Nat /\ e.new = NewEnd(size) /\ e.new <= LIMIT
    BY <1>2, SizesPositive DEF Pending, Waits, Underway
  <2> HIDE DEF size
  <2>4. START + RoundUp(end_address - START + size + OVERHEAD)
          + 0 * (PAGE + size + OVERHEAD) <= LIMIT
    <3>1. NewEnd(size) \in Nat /\ NewEnd(size) <= LIMIT
      BY <1>2, <2>3 DEF Expansions
    <3>2. 0 * (PAGE + size + OVERHEAD) = 0
      BY <2>3, Geometry
    <3>3. NewEnd(size) + 0 * (PAGE + size + OVERHEAD) <= LIMIT
      BY <3>1, <3>2
    <3> QED BY <3>3 DEF NewEnd
  <2> QED BY <1>3, <1>4, <1>6, <1>7, <1>8, <2>1, <2>2, <2>3, <2>4, HeapCalls
<1> QED BY <1>9, <1>10

LEMMA InitSimulates ==
  ASSUME TablesInit
  PROVE  Heap!Init
<1>1. /\ Init /\ expanding = <<>>
      /\ directory = [t \in {TableOf(p) : p \in Pages} |->
                        IF \E p \in present : TableOf(p) = t THEN PLACED ELSE 0]
  BY DEF TablesInit
<1>2. ~ \E a : InTable(a)
  <2>1. \A t \in DOMAIN directory : directory[t] \in {0, PLACED}
    BY <1>1
  <2> QED BY <2>1 DEF InTable, HeapTable
<1>3. mem \in [Addr -> Word]
  BY <1>1, InitEstablishes DEF Base, HeapTypes
<1>4. AbsMem = mem
  BY <1>2, <1>3 DEF AbsMem, Masked
<1>5. AbsPresent = present /\ AbsCall = Idle
  BY <1>1, AbsQuiet DEF QuietAbs, Init
<1>6. Heap!Init <=>
        /\ AbsMem = PutHeader([a \in Addr |-> Unwritten], START, 1, INITIAL_SIZE)
        /\ index = <<START>>
        /\ end_address = START + INITIAL_SIZE
        /\ AbsPresent = PageOf(START) .. PageOf(START + INITIAL_SIZE - 1)
        /\ AbsCall = Idle
        /\ live = {}
        /\ status = "running"
  BY Zenon DEF Heap!Init, AbsMem, Masked, AbsPresent, AbsCall, Heap!Addr, Addr,
     Heap!PutHeader, PutHeader, Heap!PageOf, PageOf
<1> QED BY <1>1, <1>4, <1>5, <1>6 DEF Init

-----------------------------------------------------------------------------
(* The helpers of the caller's heap are those of this one.                 *)
LEMMA SameHelpers ==
  /\ \A m, h, is_hole, size : Heap!PutHeader(m, h, is_hole, size) = PutHeader(m, h, is_hole, size)
  /\ \A m, f, h : Heap!PutFooter(m, f, h) = PutFooter(m, f, h)
  /\ \A m, h : Heap!SizeOf(m, h) = SizeOf(m, h)
  /\ \A a, b : Heap!Sub(a, b) = Sub(a, b)
  /\ \A n : Heap!RoundUp(n) = RoundUp(n)
  /\ \A a : Heap!PageOf(a) = PageOf(a)
  /\ \A b : Heap!Header(b) = Header(b)
  /\ Heap!Holes = Holes
<1>1. \A m, h, is_hole, size : Heap!PutHeader(m, h, is_hole, size) = PutHeader(m, h, is_hole, size)
  BY Zenon DEF Heap!PutHeader, PutHeader
<1>2. \A m, f, h : Heap!PutFooter(m, f, h) = PutFooter(m, f, h)
  BY Zenon DEF Heap!PutFooter, PutFooter
<1>3. \A m, h : Heap!SizeOf(m, h) = SizeOf(m, h)
  BY Zenon DEF Heap!SizeOf, SizeOf
<1>4. \A a, b : Heap!Sub(a, b) = Sub(a, b)
  BY Zenon DEF Heap!Sub, Sub
<1>5. \A n : Heap!RoundUp(n) = RoundUp(n)
  BY Zenon DEF Heap!RoundUp, RoundUp
<1>6. \A a : Heap!PageOf(a) = PageOf(a)
  BY Zenon DEF Heap!PageOf, PageOf
<1>7. \A b : Heap!Header(b) = Header(b)
  BY Zenon DEF Heap!Header, Header
<1>8. Heap!Holes = Holes
  BY Zenon DEF Heap!Holes, Heap!ToSet, Holes, ToSet
<1> QED BY <1>1, <1>2, <1>3, <1>4, <1>5, <1>6, <1>7, <1>8, Zenon

LEMMA SameInsert ==
  \A m, idx, h : Heap!InsertHole(m, idx, h) = InsertHole(m, idx, h)
BY Zenon DEF Heap!InsertHole, InsertHole, Heap!SizeOf, SizeOf,
   Heap!insert_ordered_array, insert_ordered_array, Heap!InsertionPoint, InsertionPoint,
   Heap!InsertAt, InsertAt

LEMMA SameRemove ==
  \A i, idx : Heap!remove_ordered_array(i, idx) = remove_ordered_array(i, idx)
BY Zenon DEF Heap!remove_ordered_array, remove_ordered_array, Heap!RemoveAt, RemoveAt,
   Heap!Front, Front

(* Growth, as the caller's heap sees it.                                   *)
AbsGrows(added) ==
  LET hole   == IF index = <<>> THEN end_address ELSE Max(Holes)
      length == IF index = <<>> THEN added ELSE (SizeOf(AbsMem, hole) + added) % WORD
      foot   == (hole + length - FOOTER) % WORD
      header == IF index = <<>> THEN PutHeader(AbsMem, hole, 1, length)
                                ELSE [AbsMem EXCEPT ![hole + 2] = length]
  IN /\ AbsMem' = PutFooter(header, foot, hole)
     /\ index' = IF index = <<>> THEN InsertHole(AbsMem', index, hole) ELSE index

LEMMA HeapGrows ==
  ASSUME status = "running", AbsCall # Idle, NEW n, n = AbsCall.size + OVERHEAD,
         Heap!find_smallest_hole(n, AbsCall.align) = 0,
         NEW top, top = START + RoundUp(end_address - START + AbsCall.size + OVERHEAD),
         top <= LIMIT, end_address' = top,
         AbsPresent' = AbsPresent \cup PagesFrom(end_address, top),
         AbsGrows(top - end_address), AbsCall' = AbsCall, UNCHANGED <<live, status>>
  PROVE  [Heap!Next]_(Heap!vars)
<1>1. Heap!Max(Heap!Holes) = Max(Holes)
  BY SameHelpers, Zenon DEF Heap!Max, Max
<1>2. Heap!Expanded = top
  BY SameHelpers, Zenon DEF Heap!Expanded, AbsCall
<1>3. Heap!expand
  BY <1>2, SameHelpers, Zenon DEF Heap!expand, AbsPresent, PagesFrom
<1>4. Heap!AllocGrows
  <2>1. /\ AbsMem = [a \in Addr |-> IF InTable(a) THEN 0 ELSE mem[a]]
        /\ AbsMem' = [a \in Addr |-> IF InTable(a) THEN 0 ELSE mem[a]]'
    BY Zenon DEF AbsMem, Masked
  <2> QED BY <1>1, <1>2, <1>3, <2>1, SameHelpers, SameInsert, Zenon
             DEF Heap!AllocGrows, AbsGrows, AbsCall
<1> QED BY <1>4, Zenon DEF Heap!Next

(* The words that expand mapped join the heap, and the request begins.     *)
LEMMA MaskNext ==
  ASSUME directory' = directory, NEW w, w = mem'
  PROVE  AbsMem' = Masked(w)
<1>1. \A a : InTable(a)' = InTable(a)
  BY InTableSame
<1> QED BY <1>1 DEF AbsMem, Masked

LEMMA GrowthMasked ==
  ASSUME Base, Base', Tables, directory' = directory, NEW added \in Nat, added > OVERHEAD,
         NEW e2 \in Nat, end_address + added = e2, e2 <= LIMIT, end_address' = e2,
         Grows(added), NEW t, GrowsAt(t)
  PROVE  AbsGrows(added)
<1>1. PICK w : w = mem'
  OBVIOUS
<1>2. AbsMem' = Masked(w)
  BY <1>1, MaskNext
<1>3. mem \in [Addr -> Word] /\ index \in Seq(HeaderAddr) /\ end_address \in Nat
      /\ START <= end_address /\ e2 - FOOTER \in Nat /\ end_address <= e2 - FOOTER
  BY PieceFacts DEF Base, HeapTypes
<1>4. ~ InTable(e2 - FOOTER) /\ ~ InTable(e2 - FOOTER + 1)
  BY <1>3, BeyondTables
<1>5. CASE index = <<>>
  <2> DEFINE e == end_address
             a1 == PutHeader(mem, e, 1, added)
  <2>1. w = PutFooter(a1, (e + added - FOOTER) % WORD, e) /\ index' = InsertHole(w, index, e)
    BY <1>1, <1>5, Zenon DEF Grows
  <2>2. (e + added - FOOTER) % WORD = e2 - FOOTER
    BY <1>3, NoWrap, Geometry
  <2>3. ~ InTable(e) /\ ~ InTable(e + 1) /\ ~ InTable(e + 2)
    BY <1>3, BeyondTables
  <2>4. PutHeader(AbsMem, e, 1, added) = Masked(a1)
    BY <1>3, <2>3, MaskHeader DEF AbsMem
  <2>5. DOMAIN a1 = Addr
    BY <1>3 DEF PutHeader
  <2> HIDE DEF a1
  <2>6. Masked(w) = PutFooter(PutHeader(AbsMem, e, 1, added), (e + added - FOOTER) % WORD, e)
    BY <1>4, <2>1, <2>2, <2>4, <2>5, MaskFooter
  <2>7. InsertHole(Masked(w), index, e) = InsertHole(w, index, e)
    <3>1. e + 2 \in Addr
      BY <1>3, Geometry DEF Addr
    <3>2. SizeOf(Masked(w), e) = SizeOf(w, e)
      BY <2>3, <3>1, MaskReads DEF SizeOf
    <3>3. ToSet(index) = {}
      BY <1>5 DEF ToSet
    <3> HIDE DEF e
    <3> QED BY <1>3, <3>2, <3>3, MaskInsert
  <2> QED BY <1>2, <1>5, <2>1, <2>6, <2>7, Zenon DEF AbsGrows
<1>6. CASE index # <<>>
  <2> DEFINE L == SizeOf(mem, t)
  <2>1. t \in Holes
    <3>1. index[1] \in Holes
      BY <1>3, <1>6, ToSetIsRange DEF Holes
    <3> QED BY <3>1 DEF GrowsAt
  <2>2. /\ t \in Pieces /\ t \in Nat /\ L \in Nat /\ t + L = end_address /\ L >= OVERHEAD
    BY <2>1, HoleIsPiece, PieceNumbers DEF GrowsAt
  <2>3. Max(Holes) = t
    <3>1. ASSUME NEW q \in Holes PROVE q \in Nat /\ t >= q
      <4>1. q \in Pieces
        BY HoleIsPiece
      <4>2. q \in Nat /\ EndOf(q) \in Nat /\ q + OVERHEAD <= EndOf(q)
        BY <4>1, PieceNumbers
      <4>3. q = t \/ EndOf(q) <= t
        BY <4>1 DEF GrowsAt
      <4> QED BY <2>2, <4>2, <4>3
    <3>2. \A q \in Holes : (\A r \in Holes : q >= r) => q = t
      BY <2>1, <3>1, <2>2
    <3> QED BY <2>1, <3>1, <3>2 DEF Max
  <2>4. SizeOf(AbsMem, t) = L
    BY <2>2, AbsSize
  <2> DEFINE n == (L + added) % WORD
             foot == (t + n - FOOTER) % WORD
             a1 == [mem EXCEPT ![t + 2] = n]
  <2>5. foot = e2 - FOOTER
    <3>1. L + added = e2 - t /\ e2 - t \in Nat /\ e2 - t < WORD
      BY <1>3, <2>2, Geometry
    <3>2. n = e2 - t
      BY <3>1, NoWrap
    <3>3. t + n - FOOTER = e2 - FOOTER /\ e2 - FOOTER < WORD
      BY <1>3, <2>2, <3>1, <3>2, Geometry
    <3> HIDE DEF n
    <3> QED BY <1>3, <3>3, NoWrap
  <2>6. w = PutFooter(a1, foot, t) /\ index' = index
    BY <1>1, <1>6, <2>3, Zenon DEF Grows
  <2>7. ~ InTable(t + 2)
    BY <2>2, TagsOutside
  <2>8. [AbsMem EXCEPT ![t + 2] = n] = Masked(a1)
    <3> HIDE DEF n
    <3>1. DOMAIN mem = Addr
      BY <1>3
    <3> QED BY <2>7, <3>1, MaskWord, Zenon DEF AbsMem
  <2>9. DOMAIN a1 = Addr
    BY <1>3
  <2> HIDE DEF a1, n, foot
  <2>10. Masked(w) = PutFooter([AbsMem EXCEPT ![t + 2] = n], foot, t)
    <3>1. ~ InTable(foot) /\ ~ InTable(foot + 1)
      BY <1>4, <2>5
    <3>2. PutFooter(Masked(a1), foot, t) = Masked(PutFooter(a1, foot, t))
      BY <2>9, <3>1, MaskFooter
    <3> QED BY <2>6, <2>8, <3>2
  <2> QED BY <1>2, <1>6, <2>3, <2>4, <2>6, <2>10, Zenon DEF AbsGrows, n, foot
<1> QED BY <1>5, <1>6

LEMMA EndExpandSimulates ==
  ASSUME TInv, Pending, EndExpand
  PROVE  [Heap!Next]_(Heap!vars)
<1>1. PICK e, added, t : EndsExpand(e, added, t)
  BY EndExpandDoes
<1>2. /\ e \in Expansions /\ expanding = <<e>> /\ expanding[1] = e /\ expanding' = <<>>
      /\ e.at = e.new /\ e.old = end_address /\ e.table = 0 /\ call = Idle /\ call' = e.request
      /\ end_address' = e.new /\ e.new <= LIMIT
      /\ added \in Nat /\ added > OVERHEAD /\ end_address + added = e.new
      /\ Grows(added) /\ GrowsAt(t) /\ Base'
      /\ UNCHANGED <<present, live, status, directory>>
  BY <1>1 DEF EndsExpand, Underway, Maps
<1>3. Base /\ Tables /\ end_address \in Nat
  BY PieceFacts DEF TInv
<1> DEFINE size == e.request.size
           top == e.new
<1>4. /\ size \in Sizes /\ size \in Nat /\ top = NewEnd(size) /\ TooBig(size)
      /\ top \in Nat /\ e.request.align = 0
  BY <1>2, SizesPositive DEF Pending, Waits, Expansions
<1>5. GrowingAbs(e) /\ QuietAbs'
  BY <1>2, AbsGrowing, AbsNext
<1>6. AbsCall = e.request
  BY <1>2, <1>4, <1>5 DEF GrowingAbs
<1>7. call' # Idle
  <2>1. call' = [size |-> size, align |-> 0]
    BY <1>2, <1>4 DEF Expansions
  <2> QED BY <1>4, <2>1, IdleIsNoRequest
<1>8. AbsCall' = AbsCall
  <2>1. PICK n : n = e.request.size + OVERHEAD
    OBVIOUS
  <2>2. find_smallest_hole(n, 0)' > 0
    BY <1>1, <2>1, RequestFits
  <2>3. Found'
    BY <1>2, <1>4, <2>1, <2>2 DEF Found
  <2> QED BY <1>2, <1>5, <1>6, <1>7, <2>3 DEF QuietAbs
<1>9. AbsPresent' = AbsPresent \cup PagesFrom(end_address, top)
  <2>1. Reach = top
    BY <1>2 DEF Reach
  <2>2. PagesFrom(end_address, top) \subseteq present
    <3>1. end_address .. top - 1 \subseteq START .. Reach - 1
      BY <1>3, <1>4, <2>1, PieceFacts, Geometry
    <3> QED BY <3>1, PresentPages DEF PagesFrom
  <2> QED BY <1>2, <1>5, <2>2 DEF QuietAbs, GrowingAbs
<1>10. status = "running"
  BY <1>3 DEF Base, KeepsRunning
<1>11. PICK n : n = AbsCall.size + OVERHEAD
  OBVIOUS
<1>12. Heap!find_smallest_hole(n, AbsCall.align) = 0
  <2>1. find_smallest_hole(size + OVERHEAD, 0) = 0
    BY <1>3, <1>4, TooBigFinds
  <2> QED BY <1>3, <1>4, <1>6, <1>11, <2>1, AbsSearch
<1>13. AbsGrows(added) /\ added = top - end_address
  BY <1>2, <1>3, <1>4, GrowthMasked
<1>14. top = START + RoundUp(end_address - START + AbsCall.size + OVERHEAD)
  BY <1>4, <1>6 DEF NewEnd
<1>15. AbsCall # Idle
  BY <1>2, <1>6, <1>7
<1> HIDE DEF size, top
<1>16. top <= LIMIT /\ end_address' = top
  BY <1>2 DEF top
<1> QED BY <1>2, <1>8, <1>9, <1>10, <1>11, <1>12, <1>13, <1>14, <1>15, <1>16, HeapGrows

-----------------------------------------------------------------------------
(* The caller's heap may touch what the heap may.                          *)
LEMMA HeapBackedWord ==
  ASSUME TInv, NEW a \in START .. end_address - 1
  PROVE  Heap!Backed(a)
<1>1. a \in Addr /\ PageOf(a) \in present
  BY Within, Geometry DEF TInv, Base, AllPresent
<1>2. PageOf(a) \in AbsPresent
  <2>1. CASE expanding = <<>>
    BY <1>1, <2>1, AbsQuiet DEF QuietAbs
  <2>2. CASE expanding # <<>>
    <3>1. PICK e \in Expansions : expanding = <<e>> /\ Underway(e)
      BY <2>2, InExpand
    <3>2. /\ e.old = end_address /\ e.at \in Nat /\ end_address \in Nat /\ a \in Nat
          /\ a < end_address /\ end_address % PAGE = 0
      BY <3>1, PieceFacts, Geometry DEF TInv, Bounded, Underway, Expansions
    <3>3. ASSUME NEW x \in end_address .. e.at - 1, PageOf(x) = PageOf(a) PROVE FALSE
      <4>1. x \in Nat /\ end_address <= x
        BY <3>2, <3>3
      <4>2. PageOf(end_address) <= PageOf(x) /\ PageOf(a) < PageOf(end_address)
        BY <3>2, <4>1, PageOrder, BelowBoundary
      <4>3. PageOf(a) \in Nat /\ PageOf(x) \in Nat /\ PageOf(end_address) \in Nat
        BY <3>2, <4>1, PageOfType
      <4> QED BY <3>3, <4>2, <4>3
    <3>4. PageOf(a) \notin PagesFrom(e.old, e.at)
      BY <3>2, <3>3 DEF PagesFrom
    <3> QED BY <1>1, <3>1, <3>4, AbsGrowing DEF GrowingAbs
  <2> QED BY <2>1, <2>2
<1>3. Heap!Backed(a) <=> a \in Addr /\ (a < START \/ PageOf(a) \in AbsPresent)
  BY Zenon DEF Heap!Backed, Heap!Addr, Addr, Heap!PageOf, PageOf, AbsPresent
<1> QED BY <1>1, <1>2, <1>3

LEMMA HeapBacked ==
  ASSUME TInv, NEW a \in Nat, START <= a
  PROVE  /\ a + 2 < end_address => Heap!BackedHeader(a)
         /\ a + 1 < end_address => Heap!BackedFooter(a)
<1>1. end_address \in Nat /\ START \in Nat
  BY PieceFacts, Geometry DEF TInv
<1>2. ASSUME NEW k \in Nat, NEW w \in a .. a + k, a + k < end_address PROVE Heap!Backed(w)
  <2>1. w \in START .. end_address - 1
    BY <1>1, <1>2
  <2> QED BY <2>1, HeapBackedWord
<1>3. Heap!BackedHeader(a) <=> \A w \in a .. a + 2 : Heap!Backed(w)
  BY Zenon DEF Heap!BackedHeader
<1>4. Heap!BackedFooter(a) <=> \A w \in a .. a + 1 : Heap!Backed(w)
  BY Zenon DEF Heap!BackedFooter
<1> QED BY <1>2, <1>3, <1>4

(* free, of a block that another one follows.                              *)

(* Unify left, over a memory m; behind it, the hole is p.                  *)
Joined(m, h, f) ==
  LET q == m[h - FOOTER + 1]
      s == Body(m, index, end_address, h, f, TRUE)
  IN IF m[h - FOOTER] # HEAP_MAGIC \/ m[q + 1] # 1 THEN s
     ELSE Body([m EXCEPT ![f + 1] = q, ![q + 2] = (SizeOf(m, q) + SizeOf(m, h)) % WORD],
               index, end_address, q, f, FALSE)

LEMMA LeftUnified ==
  ASSUME NEW m, NEW h, NEW f,
         m[h - FOOTER] = HEAP_MAGIC => BackedHeader(m[h - FOOTER + 1])
  PROVE  UnifyLeft(Body(m, index, end_address, h, f, TRUE)) = Joined(m, h, f)
<1> DEFINE s == Body(m, index, end_address, h, f, TRUE)
           q == m[h - FOOTER + 1]
           n == (SizeOf(m, q) + SizeOf(m, h)) % WORD
           w == [m EXCEPT ![f + 1] = q, ![q + 2] = n]
<1>1. s.mem = m /\ s.header = h /\ s.footer = f
  BY DEF Body
<1>2. [s EXCEPT !.mem = w, !.header = q, !.do_add = FALSE]
        = Body(w, index, end_address, q, f, FALSE)
  <2>1. s = Body(m, index, end_address, h, f, TRUE)
    OBVIOUS
  <2> HIDE DEF w, q, s
  <2>2. PICK y : y = [s EXCEPT !.mem = w, !.header = q, !.do_add = FALSE]
    OBVIOUS
  <2>3. y = Body(w, index, end_address, q, f, FALSE)
    BY <2>1, <2>2 DEF Body
  <2> QED BY <2>2, <2>3
<1> HIDE DEF s
<1>3. UnifyLeft(s) = IF m[h - FOOTER] # HEAP_MAGIC THEN s
                     ELSE IF ~ BackedHeader(q) THEN [s EXCEPT !.status = "panic"]
                     ELSE IF m[q + 1] # 1 THEN s
                     ELSE [s EXCEPT !.mem = w, !.header = q, !.do_add = FALSE]
  BY <1>1, Zenon DEF UnifyLeft
<1>4. Joined(m, h, f) = IF m[h - FOOTER] # HEAP_MAGIC \/ m[q + 1] # 1 THEN s
                        ELSE Body(w, index, end_address, q, f, FALSE)
  BY Zenon DEF Joined, s
<1> HIDE DEF q, w
<1>5. m[h - FOOTER] = HEAP_MAGIC => BackedHeader(q)
  BY DEF q
<1>6. UnifyLeft(s) = Joined(m, h, f)
  BY <1>2, <1>3, <1>4, <1>5, Zenon
<1> QED BY <1>6 DEF s

LEMMA HeapLeftUnified ==
  ASSUME NEW m, NEW h, NEW f,
         m[h - FOOTER] = HEAP_MAGIC => Heap!BackedHeader(m[h - FOOTER + 1])
  PROVE  Heap!UnifyLeft(Body(m, index, end_address, h, f, TRUE)) = Joined(m, h, f)
<1> DEFINE s == Body(m, index, end_address, h, f, TRUE)
           q == m[h - FOOTER + 1]
           n == (SizeOf(m, q) + SizeOf(m, h)) % WORD
           w == [m EXCEPT ![f + 1] = q, ![q + 2] = n]
<1>1. s.mem = m /\ s.header = h /\ s.footer = f
  BY DEF Body
<1>2. [s EXCEPT !.mem = w, !.header = q, !.do_add = FALSE]
        = Body(w, index, end_address, q, f, FALSE)
  <2>1. s = Body(m, index, end_address, h, f, TRUE)
    OBVIOUS
  <2> HIDE DEF w, q, s
  <2>2. PICK y : y = [s EXCEPT !.mem = w, !.header = q, !.do_add = FALSE]
    OBVIOUS
  <2>3. y = Body(w, index, end_address, q, f, FALSE)
    BY <2>1, <2>2 DEF Body
  <2> QED BY <2>2, <2>3
<1> HIDE DEF s
<1>3. Heap!UnifyLeft(s) = IF m[h - FOOTER] # HEAP_MAGIC THEN s
                     ELSE IF ~ Heap!BackedHeader(q) THEN [s EXCEPT !.status = "panic"]
                     ELSE IF m[q + 1] # 1 THEN s
                     ELSE [s EXCEPT !.mem = w, !.header = q, !.do_add = FALSE]
  BY <1>1, Zenon DEF Heap!UnifyLeft, Heap!SizeOf, SizeOf
<1>4. Joined(m, h, f) = IF m[h - FOOTER] # HEAP_MAGIC \/ m[q + 1] # 1 THEN s
                        ELSE Body(w, index, end_address, q, f, FALSE)
  BY Zenon DEF Joined, s
<1> HIDE DEF q, w
<1>5. m[h - FOOTER] = HEAP_MAGIC => Heap!BackedHeader(q)
  BY DEF q
<1>6. Heap!UnifyLeft(s) = Joined(m, h, f)
  BY <1>2, <1>3, <1>4, <1>5, Zenon
<1> QED BY <1>6 DEF s

LEMMA BodyFields ==
  ASSUME NEW m, NEW p, NEW f, NEW do_add, NEW s, s = Body(m, index, end_address, p, f, do_add)
  PROVE  /\ s.mem = m /\ s.header = p /\ s.footer = f /\ s.do_add = do_add
         /\ s.index = index /\ s.end = end_address /\ s.status = "running"
BY DEF Body

(* Unify left reads and writes the tags of pieces only.                    *)
JoinsAlike(m0, h, f, J) ==
  /\ Joined(Masked(m0), h, f) = Body(Masked(J.mem), index, end_address, J.header, f, J.do_add)
  /\ m0[h - FOOTER] = HEAP_MAGIC => m0[h - FOOTER + 1] \in Pieces
  /\ Masked(m0)[h - FOOTER] = m0[h - FOOTER]
  /\ Masked(m0)[h - FOOTER + 1] = m0[h - FOOTER + 1]

LEMMA JoinedMasked ==
  ASSUME Base, Tables, NEW b \in live, NEW h, h = Header(b), NEW f, f = EndOf(h) - FOOTER,
         NEW m0, m0 = [mem EXCEPT ![h + 1] = 1],
         NEW J, J = Joined(m0, h, f)
  PROVE  JoinsAlike(m0, h, f, J)
<1>1. h \in Pieces
  BY DEF Pieces
<1>2. /\ h \in Nat /\ START <= h /\ EndOf(h) \in Nat /\ h + OVERHEAD <= EndOf(h)
      /\ EndOf(h) <= LIMIT /\ mem \in [Addr -> Word] /\ DOMAIN m0 = Addr
  BY <1>1, PieceNumbers, Geometry DEF Base, HeapTypes
<1>3. /\ h - FOOTER \in Addr /\ h - FOOTER + 1 \in Addr /\ h + 1 \in Addr
      /\ h - FOOTER # h + 1 /\ h - FOOTER + 1 # h + 1
  BY <1>2, Geometry DEF Addr
<1>4. ~ InTable(h - FOOTER) /\ ~ InTable(h - FOOTER + 1)
  <2>1. CASE h = START
    <3>1. h - FOOTER < START /\ h - FOOTER + 1 < START
      BY <1>2, <2>1, Geometry
    <3> QED BY <3>1, BeyondTables
  <2>2. CASE h # START
    <3>1. PICK x \in Pieces : EndOf(x) = h
      BY <1>1, <2>2, PieceBelow
    <3> QED BY <3>1, TagsOutside
  <2> QED BY <2>1, <2>2
<1>5. /\ m0[h - FOOTER] = mem[h - FOOTER] /\ m0[h - FOOTER + 1] = mem[h - FOOTER + 1]
      /\ Masked(m0)[h - FOOTER] = m0[h - FOOTER]
      /\ Masked(m0)[h - FOOTER + 1] = m0[h - FOOTER + 1]
  BY <1>2, <1>3, <1>4, MaskReads
<1> DEFINE q == m0[h - FOOTER + 1]
           M0 == Masked(m0)
           n == (SizeOf(m0, q) + SizeOf(m0, h)) % WORD
           w == [m0 EXCEPT ![f + 1] = q, ![q + 2] = n]
<1>6. m0[h - FOOTER] = HEAP_MAGIC => q \in Pieces
  BY <1>5, LeftNeighbour
<1>7. \A x \in Pieces : M0[x + 1] = m0[x + 1] /\ SizeOf(M0, x) = SizeOf(m0, x)
  BY TagsOutside, MaskReads DEF SizeOf
<1>8. M0[h - FOOTER] = m0[h - FOOTER] /\ M0[h - FOOTER + 1] = q
  BY <1>5
<1>9. DOMAIN w = Addr /\ DOMAIN [m0 EXCEPT ![f + 1] = q] = Addr
  BY <1>2
<1>20. J = IF m0[h - FOOTER] # HEAP_MAGIC \/ m0[q + 1] # 1
           THEN Body(m0, index, end_address, h, f, TRUE)
           ELSE Body(w, index, end_address, q, f, FALSE)
  BY Zenon DEF Joined
<1>21. Joined(M0, h, f)
         = IF m0[h - FOOTER] # HEAP_MAGIC \/ M0[q + 1] # 1
           THEN Body(M0, index, end_address, h, f, TRUE)
           ELSE Body([M0 EXCEPT ![f + 1] = q, ![q + 2] = (SizeOf(M0, q) + SizeOf(M0, h)) % WORD],
                     index, end_address, q, f, FALSE)
  <2> HIDE DEF M0, q
  <2> QED BY <1>8, Zenon DEF Joined
<1> HIDE DEF q, M0, w
<1>10. CASE m0[h - FOOTER] # HEAP_MAGIC \/ m0[q + 1] # 1
  <2>1. J = Body(m0, index, end_address, h, f, TRUE)
    BY <1>10, <1>20, Zenon
  <2>2. J.mem = m0 /\ J.header = h /\ J.do_add = TRUE
    <3>1. PICK u, t : u = m0 /\ t = TRUE
      OBVIOUS
    <3>2. J = Body(u, index, end_address, h, f, t)
      BY <2>1, <3>1, Zenon
    <3>3. J.mem = u /\ J.header = h /\ J.do_add = t
      BY <3>2, BodyFields
    <3> QED BY <3>1, <3>3, Zenon
  <2>3. m0[h - FOOTER] # HEAP_MAGIC \/ M0[q + 1] # 1
    BY <1>6, <1>7, <1>10
  <2>4. Joined(M0, h, f) = Body(M0, index, end_address, h, f, TRUE)
    BY <1>21, <2>3, Zenon
  <2>5. Joined(M0, h, f) = Body(Masked(J.mem), index, end_address, J.header, f, J.do_add)
    BY <2>2, <2>4, Zenon DEF M0
  <2> QED BY <1>5, <1>6, <2>5 DEF JoinsAlike, M0, q
<1>11. CASE m0[h - FOOTER] = HEAP_MAGIC /\ m0[q + 1] = 1
  <2>1. J = Body(w, index, end_address, q, f, FALSE)
    BY <1>11, <1>20, Zenon
  <2>2. J.mem = w /\ J.header = q /\ J.do_add = FALSE
    BY <2>1 DEF Body
  <2>3. q \in Pieces
    BY <1>6, <1>11
  <2>4. M0[q + 1] = 1 /\ SizeOf(M0, q) = SizeOf(m0, q) /\ SizeOf(M0, h) = SizeOf(m0, h)
    BY <1>1, <1>7, <1>11, <2>3
  <2>5. Joined(M0, h, f) = Body([M0 EXCEPT ![f + 1] = q, ![q + 2] = n], index, end_address, q, f, FALSE)
    BY <1>11, <1>21, <2>4, Zenon
  <2>6. ~ InTable(f + 1) /\ ~ InTable(q + 2)
    BY <1>1, <2>3, TagsOutside
  <2> DEFINE w1 == [m0 EXCEPT ![f + 1] = q]
  <2>7. [M0 EXCEPT ![f + 1] = q] = Masked(w1)
    <3>1. PICK u, a : u = m0 /\ a = f + 1
      OBVIOUS
    <3>2. DOMAIN u = Addr /\ ~ InTable(a)
      BY <1>2, <2>6, <3>1
    <3>3. [Masked(u) EXCEPT ![a] = q] = Masked([u EXCEPT ![a] = q])
      BY <3>2, MaskWord, Zenon
    <3> QED BY <3>1, <3>3, Zenon DEF M0, w1
  <2>8. DOMAIN w1 = Addr
    BY <1>9
  <2>10. PICK k : k = n
    OBVIOUS
  <2> HIDE DEF w1, n
  <2>9. [Masked(w1) EXCEPT ![q + 2] = k] = Masked([w1 EXCEPT ![q + 2] = k])
    BY <2>6, <2>8, MaskWord, Zenon
  <2>11. [M0 EXCEPT ![f + 1] = q, ![q + 2] = k] = [[M0 EXCEPT ![f + 1] = q] EXCEPT ![q + 2] = k]
    OBVIOUS
  <2>12. w = [w1 EXCEPT ![q + 2] = k]
    BY <2>10 DEF w, w1
  <2>13. [M0 EXCEPT ![f + 1] = q, ![q + 2] = n] = Masked(w)
    BY <2>7, <2>9, <2>10, <2>11, <2>12, Zenon
  <2>14. Joined(M0, h, f) = Body(Masked(J.mem), index, end_address, J.header, f, J.do_add)
    BY <2>2, <2>5, <2>13, Zenon
  <2> QED BY <1>5, <1>6, <2>14 DEF JoinsAlike, M0, q
<1> QED BY <1>10, <1>11

(* The words behind a block that another one follows are left alone.       *)
LEMMA HeapRightOfBlock ==
  ASSUME TInv, NEW m, NEW p, NEW do_add, NEW lost,
         NEW g \in Nat, START <= g, g + 2 < end_address, m[g + 1] = 0,
         NEW s, s = Body(m, index, end_address, p, g - FOOTER, do_add)
  PROVE  Heap!ContractTail(Heap!UnifyRight(s), lost) = s
<1>1. /\ s.status = "running" /\ s.footer + FOOTER = g /\ s.end = end_address
      /\ s.mem[g + 1] = 0
  BY DEF Body
<1>2. Heap!BackedHeader(g)
  BY HeapBacked
<1>3. Heap!UnifyRight(s) = s
  BY <1>1, <1>2, Zenon DEF Heap!UnifyRight
<1>4. g # end_address
  BY PieceFacts DEF TInv
<1>5. Heap!ContractTail(s, lost) = s
  BY <1>1, <1>4, Zenon DEF Heap!ContractTail
<1> QED BY <1>3, <1>5

LEMMA ReleaseSimulates ==
  ASSUME TInv, NEW b \in live, Release(b)
  PROVE  [Heap!Next]_(Heap!vars)
<1>1. /\ expanding = <<>> /\ expanding' = <<>> /\ free(b) /\ directory' = directory
      /\ call = Idle /\ status = "running" /\ Base /\ Tables
  BY Zenon DEF Release, tableVars, free, TInv
<1>2. PICK c \in live : Header(c) = EndOf(Header(b))
  BY <1>1, TableAssumption DEF free, MayFree
<1> DEFINE h == Header(b)
           g == EndOf(h)
           f == g - FOOTER
           m0 == [mem EXCEPT ![h + 1] = 1]
           J == Joined(m0, h, f)
           K == Joined(Masked(m0), h, f)
           s == Body(J.mem, index, end_address, J.header, f, J.do_add)
           S == Body(Masked(J.mem), index, end_address, J.header, f, J.do_add)
<1>3. PICK m, do_add, p :
        /\ LeftJoined(m, do_add, b, p)
        /\ UnifyLeft(MakeHole(b)) = Body(m, index, end_address, p, f, do_add)
  BY <1>1, UnifyLeftResult
<1>4. /\ h \in Pieces /\ h \in Nat /\ START <= h /\ g \in Nat /\ g \in Pieces
      /\ h + OVERHEAD <= g /\ g + OVERHEAD <= end_address /\ end_address \in Nat
      /\ SizeOf(mem, h) \in Nat /\ g = h + SizeOf(mem, h) /\ end_address <= LIMIT
      /\ p \in Pieces /\ p \in Nat /\ p < g
  <2>1. h \in Pieces /\ g \in Pieces
    BY <1>2 DEF Pieces
  <2>2. p \in Pieces /\ p \in Nat /\ p <= h
    BY <1>1, <1>3, LeftJoinedFacts
  <2>3. g + OVERHEAD <= EndOf(g) /\ EndOf(g) <= end_address /\ EndOf(g) \in Nat
    BY <1>1, <2>1, PieceNumbers
  <2>4. h \in Nat /\ START <= h /\ g \in Nat /\ h + OVERHEAD <= g /\ end_address \in Nat
        /\ SizeOf(mem, h) \in Nat /\ g = h + SizeOf(mem, h) /\ end_address <= LIMIT
    BY <1>1, <2>1, PieceNumbers
  <2> HIDE DEF h, g
  <2> QED BY <2>1, <2>2, <2>3, <2>4
<1> HIDE DEF h, g, f, m0
<1>5. /\ MakeHole(b) = Body(m0, index, end_address, h, f, TRUE)
      /\ Heap!MakeHole(b) = Body(Masked(m0), index, end_address, h, f, TRUE)
  <2>1. h + SizeOf(mem, h) - FOOTER = f
    BY <1>4 DEF f
  <2>2. SizeOf(AbsMem, h) = SizeOf(mem, h)
    BY <1>1, <1>4, AbsSize
  <2>3. MakeHole(b) = Body(m0, index, end_address, h, h + SizeOf(mem, h) - FOOTER, TRUE)
    BY Zenon DEF MakeHole, Body, h, m0
  <2>4. [AbsMem EXCEPT ![h + 1] = 1] = Masked(m0)
    <3>1. ~ InTable(h + 1) /\ DOMAIN mem = Addr
      BY <1>1, <1>4, TagsOutside DEF Base, HeapTypes
    <3> QED BY <3>1, MaskWord, Zenon DEF AbsMem, m0
  <2>5. Heap!MakeHole(b) = Body([AbsMem EXCEPT ![h + 1] = 1], index, end_address, h,
                                h + SizeOf(AbsMem, h) - FOOTER, TRUE)
    BY Zenon DEF Heap!MakeHole, Body, h, Heap!Header, Header, Heap!SizeOf, SizeOf,
       AbsMem, Masked, Heap!Addr, Addr
  <2> QED BY <2>1, <2>2, <2>3, <2>4, <2>5
<1>6. /\ K = S
      /\ m0[h - FOOTER] = HEAP_MAGIC => m0[h - FOOTER + 1] \in Pieces
      /\ Masked(m0)[h - FOOTER] = m0[h - FOOTER]
      /\ Masked(m0)[h - FOOTER + 1] = m0[h - FOOTER + 1]
  <2>1. h = Header(b) /\ f = EndOf(h) - FOOTER /\ m0 = [mem EXCEPT ![h + 1] = 1]
    BY DEF h, f, g, m0
  <2>2. J = Joined(m0, h, f)
    OBVIOUS
  <2> HIDE DEF J
  <2>3. JoinsAlike(m0, h, f, J)
    BY <1>1, <2>1, <2>2, JoinedMasked
  <2> QED BY <2>3, Zenon DEF JoinsAlike
<1>7. UnifyLeft(MakeHole(b)) = J /\ Heap!UnifyLeft(Heap!MakeHole(b)) = K
  <2>1. \A x \in Pieces : BackedHeader(x) /\ Heap!BackedHeader(x)
    <3> SUFFICES ASSUME NEW x \in Pieces PROVE BackedHeader(x) /\ Heap!BackedHeader(x)
      OBVIOUS
    <3>1. x \in Nat /\ START <= x /\ x + 2 < end_address
      BY <1>1, PieceNumbers
    <3> QED BY <1>1, <3>1, TagsWithin, HeapBacked
  <2>2. UnifyLeft(Body(m0, index, end_address, h, f, TRUE)) = J
    BY <1>6, <2>1, LeftUnified
  <2>3. Heap!UnifyLeft(Body(Masked(m0), index, end_address, h, f, TRUE)) = K
    BY <1>6, <2>1, HeapLeftUnified
  <2> QED BY <1>5, <2>2, <2>3, Zenon
<1>8. J = Body(m, index, end_address, p, f, do_add)
  BY <1>3, <1>7, Zenon
<1>9. J.mem = m /\ J.header = p /\ J.do_add = do_add
  <2> HIDE DEF J
  <2> QED BY <1>8, BodyFields
<1>10. K = Body(Masked(m), index, end_address, p, f, do_add)
  BY <1>6, <1>9, Zenon
<1>11. m[g + 1] = 0 /\ Masked(m)[g + 1] = 0
  <2>1. mem[g + 1] = 0
    BY <1>1, <1>2 DEF Base, BoundaryTags, BlockTagged, g, h
  <2>2. g + 1 \in Addr /\ g + 1 \notin p .. g - 1 /\ ~ InTable(g + 1)
    <3>1. g + 1 \in Addr /\ ~ InTable(g + 1)
      <4>1. Base /\ Tables /\ g \in Pieces
        BY <1>1, <1>4
      <4> QED BY <4>1, TagsOutside, Zenon
    <3>2. g \in Nat
      BY <1>4
    <3> QED BY <3>1, <3>2
  <2>3. \A a \in Addr : a \notin p .. g - 1 => m[a] = mem[a]
    BY <1>3 DEF LeftJoined, g, h
  <2> QED BY <2>1, <2>2, <2>3, MaskReads
<1> DEFINE s1 == Body(m, index, end_address, p, f, do_add)
           s2 == Body(Masked(m), index, end_address, p, f, do_add)
<1> HIDE DEF J, K
<1>12. \A lost : ContractTail(UnifyRight(s1), lost) = s1
  BY <1>1, <1>4, <1>11, RightOfBlock, Geometry DEF f
<1>13. \A lost : Heap!ContractTail(Heap!UnifyRight(s2), lost) = s2
  <2>1. PICK x : x = s2
    OBVIOUS
  <2>2. START <= g /\ g + 2 < end_address
    BY <1>4, Geometry
  <2>3. \A lost : Heap!ContractTail(Heap!UnifyRight(x), lost) = x
    <3> HIDE DEF s2
    <3>1. x = Body(Masked(m), index, end_address, p, g - FOOTER, do_add)
      BY <2>1 DEF s2, f
    <3> QED BY <1>4, <1>11, <2>2, <3>1, HeapRightOfBlock
  <2> QED BY <2>1, <2>3
<1>14. /\ s1.status = "running" /\ s1.mem = m /\ s1.index = index /\ s1.header = p
       /\ s1.do_add = do_add /\ s1.end = end_address
  BY BodyFields
<1>15. /\ s2.status = "running" /\ s2.mem = Masked(m) /\ s2.index = index /\ s2.header = p
       /\ s2.do_add = do_add /\ s2.end = end_address
  BY BodyFields
<1> HIDE DEF s1, s2
<1>16. UnifyLeft(MakeHole(b)) = s1 /\ Heap!UnifyLeft(Heap!MakeHole(b)) = s2
  BY <1>7, <1>8, <1>10, Zenon DEF s1, s2
<1>17. PICK lost \in BOOLEAN :
        LET x == ContractTail(UnifyRight(UnifyLeft(MakeHole(b))), lost)
        IN IF x.status # "running"
           THEN /\ status' = x.status
                /\ UNCHANGED <<mem, index, end_address, present, call, live>>
           ELSE /\ mem' = x.mem
                /\ index' = IF x.do_add THEN InsertHole(x.mem, x.index, x.header)
                                        ELSE x.index
                /\ end_address' = x.end
                /\ live' = live \ {b}
                /\ UNCHANGED <<present, call, status>>
  BY <1>1 DEF free
<1>18. /\ mem' = m /\ end_address' = end_address /\ live' = live \ {b}
       /\ UNCHANGED <<present, call, status>>
       /\ index' = IF do_add THEN InsertHole(m, index, p) ELSE index
  BY <1>12, <1>14, <1>16, <1>17, Zenon
<1>19. InsertHole(Masked(m), index, p) = InsertHole(m, index, p)
  <2>1. index \in Seq(HeaderAddr)
    BY <1>1 DEF Base, HeapTypes
  <2>2. \A x \in Pieces : SizeOf(Masked(m), x) = SizeOf(m, x)
    BY <1>1, TagsOutside, MaskReads DEF SizeOf
  <2>3. \A x \in ToSet(index) : x \in Pieces
    BY DEF Pieces, Holes
  <2>4. PICK w : w = Masked(m)
    OBVIOUS
  <2>5. SizeOf(w, p) = SizeOf(m, p) /\ \A x \in ToSet(index) : SizeOf(w, x) = SizeOf(m, x)
    BY <1>4, <2>2, <2>3, <2>4
  <2>6. InsertHole(w, index, p) = InsertHole(m, index, p)
    BY <2>1, <2>5, MaskInsert
  <2> QED BY <2>4, <2>6
<1>20. AbsMem' = Masked(m)
  BY <1>1, <1>18, MaskNext
<1>21. AbsCall = Idle /\ AbsCall' = Idle /\ AbsPresent' = AbsPresent
  BY <1>1, <1>18, AbsQuiet, AbsNext DEF QuietAbs
<1>22. Heap!MayFree(b)
  <2>1. Heap!EndOf(h) = g
    <3>1. Heap!EndOf(h) = h + SizeOf(AbsMem, h)
      BY Zenon DEF Heap!EndOf, Heap!SizeOf, SizeOf, AbsMem, Masked, Heap!Addr, Addr
    <3> QED BY <1>1, <1>4, <3>1, AbsSize
  <2>2. Heap!Header(b) = h /\ Heap!Header(c) = g
    BY <1>2, SameHelpers, Zenon DEF h, g
  <2>3. FreeOrder = "inner"
    BY <1>1, TableAssumption DEF free, MayFree
  <2> QED BY <2>1, <2>2, <2>3, Zenon DEF Heap!MayFree
<1>23. Heap!free(b)
  <2>1. Heap!ContractTail(Heap!UnifyRight(Heap!UnifyLeft(Heap!MakeHole(b))), lost) = s2
    BY <1>13, <1>16, Zenon
  <2>2. index' = IF do_add THEN Heap!InsertHole(Masked(m), index, p) ELSE index
    BY <1>18, <1>19, SameInsert, Zenon
  <2>3. /\ AbsMem = [a \in Addr |-> IF InTable(a) THEN 0 ELSE mem[a]]
        /\ AbsMem' = [a \in Addr |-> IF InTable(a) THEN 0 ELSE mem[a]]'
    BY Zenon DEF AbsMem, Masked
  <2> QED BY <1>1, <1>15, <1>17, <1>18, <1>20, <1>21, <1>22, <2>1, <2>2, <2>3, Zenon
          DEF Heap!free, AbsCall, AbsPresent, Heap!Addr, Addr
<1> QED BY <1>23, Zenon DEF Heap!Next

-----------------------------------------------------------------------------
(* The last level of alloc.                                                *)

(* The requests that reach it: of callers, and of get_page.                *)
Served(h, request) ==
  \/ /\ request \in [size : Positive, align : {0}]
     /\ SizeOf(mem, h) >= request.size + OVERHEAD
  \/ request = TableRequest /\ ServesTable(h)

CarvesAlike(c, d) ==
  d.mem = Masked(c.mem) /\ d.index = c.index /\ d.ptr = c.ptr /\ ~ d.faults

LEMMA PutDomain ==
  /\ \A m, h, is_hole, size : DOMAIN PutHeader(m, h, is_hole, size) = DOMAIN m
  /\ \A m, f, h : DOMAIN PutFooter(m, f, h) = DOMAIN m
BY DEF PutHeader, PutFooter

(* Carved, of the memory u and the size S of the hole h.                   *)
Cut(u, h, S, request, removed) ==
  LET tight == Sub(S, request.size + OVERHEAD) < OVERHEAD
      size == IF tight THEN S - OVERHEAD ELSE request.size
      new_size == size + OVERHEAD
      front == request.align > 0 /\ h >= PAGE
      gap == PAGE - (h % PAGE) - HEADER
      at == IF front THEN h + gap ELSE h
      m1 == IF front
            THEN PutFooter(PutHeader(u, h, 1, gap % WORD), at - FOOTER, h)
            ELSE u
      rest == IF front THEN Sub(S, SizeOf(m1, h)) ELSE S
      m2 == PutFooter(PutHeader(m1, at, 0, new_size), at + HEADER + size, at)
      behind == at + new_size
      over == Sub(rest, new_size)
      foot == (behind + over - FOOTER) % WORD
      m3 == IF over > 0 THEN PutHeader(m2, behind, 1, over) ELSE m2
      m4 == IF over > 0 /\ foot < end_address THEN PutFooter(m3, foot, behind) ELSE m3
      kept == IF front THEN index ELSE removed
  IN [mem    |-> m4,
      index  |-> IF over > 0 THEN InsertHole(m4, kept, behind) ELSE kept,
      ptr    |-> at + HEADER,
      faults |-> \/ ~ Heap!BackedHeader(at)
                 \/ front /\ ~ Heap!BackedFooter(at - FOOTER)
                 \/ ~ Heap!BackedFooter(at + HEADER + size)
                 \/ over > 0 /\ ~ Heap!BackedHeader(behind)
                 \/ over > 0 /\ foot < end_address /\ ~ Heap!BackedFooter(foot)]

LEMMA HeapCut ==
  ASSUME NEW i, NEW request, NEW S, SizeOf(AbsMem, index[i]) = S
  PROVE  Heap!Carved(i, request)
           = Cut(AbsMem, index[i], S, request, remove_ordered_array(i, index))
<1>1. Heap!Carved(i, request)
        = Cut(AbsMem, index[i], SizeOf(AbsMem, index[i]), request,
              Heap!remove_ordered_array(i, index))
  BY Zenon DEF Heap!Carved, Cut, AbsMem, Masked, Heap!PutHeader, PutHeader,
     Heap!PutFooter, PutFooter, Heap!SizeOf, SizeOf, Heap!Sub, Sub, Heap!Addr, Addr,
     Heap!InsertHole, InsertHole, Heap!insert_ordered_array, insert_ordered_array,
     Heap!InsertionPoint, InsertionPoint, Heap!InsertAt, InsertAt
<1>2. PICK removed : removed = remove_ordered_array(i, index)
  OBVIOUS
<1>3. Heap!remove_ordered_array(i, index) = removed
  BY <1>2, SameRemove
<1> QED BY <1>1, <1>2, <1>3

(* Carved reads and writes words of the hole only, which no table takes.   *)
LEMMA CarvedMasked ==
  ASSUME TInv, NEW i \in 1 .. Len(index), NEW request, Served(index[i], request)
  PROVE  CarvesAlike(Carved(i, request), Heap!Carved(i, request))
<1> DEFINE h == index[i]
           S == SizeOf(mem, h)
           gap == PAGE - (h % PAGE) - HEADER
           tight == Sub(S, request.size + OVERHEAD) < OVERHEAD
           size == IF tight THEN S - OVERHEAD ELSE request.size
           new_size == size + OVERHEAD
           front == request.align > 0 /\ h >= PAGE
           at == IF front THEN h + gap ELSE h
           m1(u) == IF front
                    THEN PutFooter(PutHeader(u, h, 1, gap % WORD), at - FOOTER, h)
                    ELSE u
           rest(u) == IF front THEN Sub(S, SizeOf(m1(u), h)) ELSE S
           m2(u) == PutFooter(PutHeader(m1(u), at, 0, new_size), at + HEADER + size, at)
           behind == at + new_size
           over(u) == Sub(rest(u), new_size)
           foot(u) == (behind + over(u) - FOOTER) % WORD
           m3(u) == IF over(u) > 0 THEN PutHeader(m2(u), behind, 1, over(u)) ELSE m2(u)
           m4(u) == IF over(u) > 0 /\ foot(u) < end_address
                    THEN PutFooter(m3(u), foot(u), behind) ELSE m3(u)
           kept == IF front THEN index ELSE remove_ordered_array(i, index)
           c == Carved(i, request)
           d == Heap!Carved(i, request)
<1>1. /\ c.mem = m4(mem)
      /\ c.index = IF over(mem) > 0 THEN InsertHole(m4(mem), kept, behind) ELSE kept
      /\ c.ptr = at + HEADER
  BY Zenon DEF Carved
<1>2. Base /\ Tables /\ h \in Holes /\ h \in Pieces
  BY ToSetIsRange DEF TInv, Base, HeapTypes, Pieces, Holes
<1>3. SizeOf(AbsMem, h) = S
  BY <1>2, AbsSize
<1>4. /\ d.mem = m4(AbsMem)
      /\ d.index = IF over(AbsMem) > 0 THEN InsertHole(m4(AbsMem), kept, behind) ELSE kept
      /\ d.ptr = at + HEADER
      /\ d.faults <=> \/ ~ Heap!BackedHeader(at)
                      \/ front /\ ~ Heap!BackedFooter(at - FOOTER)
                      \/ ~ Heap!BackedFooter(at + HEADER + size)
                      \/ over(AbsMem) > 0 /\ ~ Heap!BackedHeader(behind)
                      \/ over(AbsMem) > 0 /\ foot(AbsMem) < end_address
                           /\ ~ Heap!BackedFooter(foot(AbsMem))
  <2>1. d = Cut(AbsMem, h, S, request, remove_ordered_array(i, index))
    BY <1>3, HeapCut
  <2> HIDE DEF S, h, d
  <2>2. d.mem = m4(AbsMem)
    BY <2>1, Zenon DEF Cut
  <2>3. d.index = IF over(AbsMem) > 0 THEN InsertHole(m4(AbsMem), kept, behind) ELSE kept
    BY <2>1, Zenon DEF Cut
  <2>4. d.ptr = at + HEADER
    BY <2>1, Zenon DEF Cut
  <2>5. d.faults = \/ ~ Heap!BackedHeader(at)
                   \/ front /\ ~ Heap!BackedFooter(at - FOOTER)
                   \/ ~ Heap!BackedFooter(at + HEADER + size)
                   \/ over(AbsMem) > 0 /\ ~ Heap!BackedHeader(behind)
                   \/ over(AbsMem) > 0 /\ foot(AbsMem) < end_address
                        /\ ~ Heap!BackedFooter(foot(AbsMem))
    BY <2>1, Zenon DEF Cut
  <2> HIDE DEF at, front, size, behind, over, foot, m4, kept
  <2> QED BY <2>2, <2>3, <2>4, <2>5
<1>5. /\ h \in Nat /\ START <= h /\ S \in Nat /\ S >= OVERHEAD /\ S < WORD
      /\ h + S <= end_address /\ end_address \in Nat /\ end_address <= LIMIT
      /\ mem \in [Addr -> Word] /\ index \in Seq(HeaderAddr)
  <2>1. mem \in [Addr -> Word] /\ index \in Seq(HeaderAddr)
    BY <1>2 DEF Base, HeapTypes
  <2>2. /\ h \in Nat /\ START <= h /\ S \in Nat /\ S >= OVERHEAD
        /\ h + S <= end_address /\ end_address \in Nat /\ end_address <= LIMIT
    BY <1>2, PieceNumbers, PieceFacts
  <2> QED BY <2>1, <2>2, Geometry
<1> DEFINE Within1 ==
             /\ size \in Nat /\ at \in Nat /\ h <= at /\ at + size + OVERHEAD <= h + S
             /\ front => h + OVERHEAD <= at
             /\ behind \in Nat /\ over(mem) \in Nat /\ behind + over(mem) = h + S
             /\ over(mem) > 0 => over(mem) >= OVERHEAD
<1>6. ASSUME request \in [size : Positive, align : {0}], S >= request.size + OVERHEAD
      PROVE  Within1
  <2> DEFINE N == request.size + OVERHEAD
  <2>1. request.align = 0 /\ request.size \in Positive
    BY <1>6
  <2>2. request.size \in Nat /\ request.size > 0
    BY <2>1, SizesPositive DEF Positive
  <2> HIDE DEF h, S
  <2>3. N \in Nat /\ N >= OVERHEAD /\ N <= S /\ S - N \in Nat /\ S - N < WORD
        /\ request.size + OVERHEAD = N /\ request.size = N - OVERHEAD
    <3>1. PICK k \in Nat : k = request.size
      BY <2>2
    <3> QED BY <1>5, <1>6, <3>1, Geometry
  <2>4. ~ front /\ at = h /\ rest(mem) = S
    BY <2>1
  <2> HIDE DEF N, front, at, rest
  <2>5. Sub(S, N) = S - N /\ Sub(S, S) = 0
    <3>1. S - S = 0 /\ 0 < WORD
      BY <1>5, Geometry
    <3> QED BY <2>3, <3>1, NoWrap DEF Sub
  <2>6. ASSUME S - N < OVERHEAD PROVE Within1
    <3>1. size = S - OVERHEAD /\ new_size = S - OVERHEAD + OVERHEAD
      BY <2>3, <2>5, <2>6
    <3> HIDE DEF size, new_size, tight
    <3>2. new_size = S
      BY <1>5, <3>1
    <3>3. over(mem) = 0 /\ behind = h + S
      BY <2>4, <2>5, <3>2
    <3> HIDE DEF over, behind
    <3> QED BY <1>5, <2>4, <3>1, <3>3
  <2>7. ASSUME ~ (S - N < OVERHEAD) PROVE Within1
    <3>1. size = request.size /\ new_size = N
      BY <2>3, <2>5, <2>7
    <3> HIDE DEF size, new_size, tight
    <3>3. over(mem) = S - N /\ behind = h + N
      BY <2>4, <2>5, <3>1
    <3> HIDE DEF over, behind
    <3> QED BY <1>5, <2>2, <2>3, <2>4, <2>7, <3>1, <3>3
  <2> QED BY <2>6, <2>7
<1>7. ASSUME request = TableRequest, ServesTable(h)
      PROVE  Within1
  <2> DEFINE N == PAGE + OVERHEAD
             left == S - gap - PAGE - OVERHEAD
  <2>1. gap >= OVERHEAD /\ (left >= OVERHEAD \/ left = 0)
    BY <1>7, Zenon DEF ServesTable
  <2>2. h % PAGE \in Nat
    BY <1>5, Geometry, Euclid
  <2>3. gap \in Nat /\ gap >= OVERHEAD /\ left \in Nat /\ (left >= OVERHEAD \/ left = 0)
    <3> HIDE DEF h, S
    <3> QED BY <1>5, <2>1, <2>2, Geometry
  <2>4. request.size = PAGE /\ request.align > 0 /\ request.size + OVERHEAD = N
    BY <1>7 DEF TableRequest
  <2> HIDE DEF h, S, gap, N, left
  <2>5. /\ N = PAGE + OVERHEAD /\ N \in Nat /\ N >= OVERHEAD /\ PAGE \in Nat
        /\ left = S - gap - N /\ S = gap + N + left
    BY <1>5, <2>3, Geometry DEF N, left
  <2>6. gap < WORD /\ S - N \in Nat /\ S - N >= OVERHEAD /\ S - N < WORD
        /\ S - gap \in Nat /\ S - gap < WORD
    BY <1>5, <2>3, <2>5, Geometry
  <2>7. ~ tight
    <3>1. Sub(S, N) = S - N
      BY <2>5, <2>6, NoWrap DEF Sub
    <3> QED BY <2>4, <2>5, <2>6, <3>1
  <2>8. size = PAGE /\ new_size = N
    BY <2>4, <2>5, <2>7 DEF N
  <2> HIDE DEF tight, size, new_size
  <2>9. front /\ at = h + gap
    BY <1>5, <2>4, GeometryAssumption
  <2> HIDE DEF front
  <2>10. m1(mem) = PutFooter(PutHeader(mem, h, 1, gap), at - FOOTER, h)
    <3>1. gap % WORD = gap
      BY <2>3, <2>6, NoWrap
    <3> QED BY <2>9, <3>1
  <2>11. rest(mem) = Sub(S, SizeOf(m1(mem), h))
    BY <2>9
  <2> HIDE DEF m1, rest, at
  <2>12. IsPiece(m1(mem), h, 1, gap)
    <3>1. at - FOOTER = h + (gap - 2) /\ h + gap <= LIMIT /\ h >= START
      BY <1>5, <2>3, <2>5, <2>9, Geometry
    <3>2. PICK f : f = at - FOOTER
      OBVIOUS
    <3> QED BY <1>5, <2>3, <2>10, <3>1, <3>2, PieceWritten
  <2>13. rest(mem) = S - gap
    <3>1. SizeOf(m1(mem), h) = gap
      BY <2>12 DEF IsPiece, SizeOf
    <3> QED BY <2>11, <2>6, <3>1, NoWrap DEF Sub
  <2>14. over(mem) = left /\ behind = at + N
    <3>1. S - gap - N = left /\ left < WORD
      BY <1>5, <2>3, <2>5, Geometry
    <3>2. Sub(S - gap, N) = left
      BY <2>3, <3>1, NoWrap DEF Sub
    <3> QED BY <2>8, <2>13, <3>2
  <2> HIDE DEF over, behind
  <2> QED BY <1>5, <2>3, <2>5, <2>8, <2>9, <2>14, Geometry
<1>8. Within1
  BY <1>6, <1>7 DEF Served
<1>9. over(mem) > 0 => foot(mem) = h + S - FOOTER
  <2> HIDE DEF h, S, at, behind, over
  <2>2. behind \in Nat /\ over(mem) \in Nat /\ behind + over(mem) = h + S
    BY <1>8
  <2>3. behind + over(mem) - FOOTER = h + S - FOOTER
    <3>1. PICK z \in Nat, o \in Nat : z = behind /\ o = over(mem)
      BY <2>2
    <3> QED BY <1>5, <2>2, <3>1
  <2>1. h + S - FOOTER \in Nat /\ h + S - FOOTER < WORD
    BY <1>5, Geometry
  <2> QED BY <2>1, <2>3, NoWrap
<1>10. ASSUME NEW a \in Nat, h <= a, a < h + S
       PROVE  ~ InTable(a) /\ a \in Addr
  <2>1. a \in h .. h + S - 1
    BY <1>5, <1>10
  <2> QED BY <1>2, <2>1, HolesOutside
<1> HIDE DEF h, S
<1>11. ASSUME NEW a \in Nat, h <= a, a + 2 < h + S
       PROVE  /\ ~ InTable(a) /\ ~ InTable(a + 1) /\ ~ InTable(a + 2)
              /\ a + 2 \in Addr /\ Heap!BackedHeader(a)
  <2>1. /\ a + 1 \in Nat /\ h <= a + 1 /\ a + 1 < h + S /\ a < h + S
        /\ a + 2 \in Nat /\ h <= a + 2 /\ a + 2 < end_address /\ START <= a
    BY <1>5, <1>11, Geometry
  <2> QED BY <1>10, <1>11, <2>1, HeapBacked
<1>12. ASSUME NEW a \in Nat, h <= a, a + 1 < h + S
       PROVE  ~ InTable(a) /\ ~ InTable(a + 1) /\ Heap!BackedFooter(a)
  <2>1. /\ a + 1 \in Nat /\ h <= a + 1 /\ a < h + S
        /\ a + 1 < end_address /\ START <= a
    BY <1>5, <1>12, Geometry
  <2> QED BY <1>10, <1>12, <2>1, HeapBacked
<1>13. /\ at \in Nat /\ h <= at /\ at + 2 < h + S
       /\ front => at - FOOTER \in Nat /\ h <= at - FOOTER /\ at - FOOTER + 1 < h + S
       /\ at + HEADER + size \in Nat /\ h <= at + HEADER + size
       /\ at + HEADER + size + 1 < h + S
       /\ over(mem) > 0 => /\ behind \in Nat /\ h <= behind /\ behind + 2 < h + S
                          /\ foot(mem) = h + S - FOOTER /\ foot(mem) \in Nat
                          /\ h <= foot(mem) /\ foot(mem) + 1 < h + S
  <2> DEFINE o == over(mem)
             k == size
             p == at
             z == behind
  <2>1. /\ k \in Nat /\ p \in Nat /\ h <= p /\ p + k + OVERHEAD <= h + S
        /\ front => h + OVERHEAD <= p
        /\ o > 0 => o >= OVERHEAD
        /\ o \in Nat /\ z \in Nat /\ z + o = h + S /\ z = p + (k + OVERHEAD)
    BY <1>8
  <2>2. o > 0 => foot(mem) = h + S - FOOTER
    BY <1>9
  <2> HIDE DEF h, S, k, p, z, o, front, foot
  <2>3. /\ p \in Nat /\ h <= p /\ p + 2 < h + S
        /\ front => p - FOOTER \in Nat /\ h <= p - FOOTER /\ p - FOOTER + 1 < h + S
        /\ p + HEADER + k \in Nat /\ h <= p + HEADER + k
        /\ p + HEADER + k + 1 < h + S
        /\ o > 0 => /\ z \in Nat /\ h <= z /\ z + 2 < h + S
                   /\ foot(mem) = h + S - FOOTER /\ foot(mem) \in Nat
                   /\ h <= foot(mem) /\ foot(mem) + 1 < h + S
    BY <1>5, <2>1, <2>2
  <2> QED BY <2>3, Zenon DEF k, p, z, o
<1> HIDE DEF front, size, at, gap, tight
<1>14. m1(AbsMem) = Masked(m1(mem)) /\ DOMAIN m1(mem) = Addr
  <2>0. DOMAIN mem = Addr
    BY <1>5
  <2>1. CASE front
    <3>1. ~ InTable(h) /\ ~ InTable(h + 1) /\ ~ InTable(h + 2)
      BY <1>5, <1>11
    <3>6. PutHeader(AbsMem, h, 1, gap % WORD) = Masked(PutHeader(mem, h, 1, gap % WORD))
      BY <2>0, <3>1, MaskHeader DEF AbsMem
    <3>2. /\ PutHeader(AbsMem, h, 1, gap % WORD) = Masked(PutHeader(mem, h, 1, gap % WORD))
          /\ DOMAIN PutHeader(mem, h, 1, gap % WORD) = Addr
      BY <2>0, <3>6, PutDomain
    <3>3. ~ InTable(at - FOOTER) /\ ~ InTable(at - FOOTER + 1)
      BY <1>12, <1>13, <2>1
    <3> DEFINE w == PutHeader(mem, h, 1, gap % WORD)
               f == at - FOOTER
    <3>4. DOMAIN w = Addr /\ ~ InTable(f) /\ ~ InTable(f + 1)
      BY <3>2, <3>3
    <3>5. m1(AbsMem) = PutFooter(Masked(w), f, h) /\ m1(mem) = PutFooter(w, f, h)
      BY <2>1, <3>2
    <3> HIDE DEF w, f, m1
    <3>7. PutFooter(Masked(w), f, h) = Masked(PutFooter(w, f, h))
      BY <3>4, MaskFooter
    <3> QED BY <3>4, <3>5, <3>7, PutDomain
  <2>2. CASE ~ front
    BY <2>0, <2>2 DEF AbsMem
  <2> QED BY <2>1, <2>2
<1>15. rest(AbsMem) = rest(mem)
  <2>1. ~ InTable(h + 2) /\ h + 2 \in Addr
    BY <1>5, <1>11, Geometry
  <2>2. SizeOf(m1(AbsMem), h) = SizeOf(m1(mem), h)
    <3> HIDE DEF m1
    <3> QED BY <1>14, <2>1, MaskReads DEF SizeOf
  <2> HIDE DEF m1
  <2> QED BY <2>2
<1> HIDE DEF m1, rest
<1>16. m2(AbsMem) = Masked(m2(mem)) /\ DOMAIN m2(mem) = Addr
  <2> DEFINE w == PutHeader(m1(mem), at, 0, new_size)
             f == at + HEADER + size
  <2>1. /\ ~ InTable(at) /\ ~ InTable(at + 1) /\ ~ InTable(at + 2)
        /\ ~ InTable(f) /\ ~ InTable(f + 1)
    BY <1>11, <1>12, <1>13
  <2>2. PutHeader(m1(AbsMem), at, 0, new_size) = Masked(w) /\ DOMAIN w = Addr
    <3> HIDE DEF new_size, m1
    <3>1. PutHeader(Masked(m1(mem)), at, 0, new_size) = Masked(PutHeader(m1(mem), at, 0, new_size))
      BY <1>14, <2>1, MaskHeader
    <3> QED BY <1>14, <3>1, PutDomain
  <2>3. m2(AbsMem) = PutFooter(Masked(w), f, at) /\ m2(mem) = PutFooter(w, f, at)
    BY <2>2
  <2> HIDE DEF w, f, m2
  <2>4. PutFooter(Masked(w), f, at) = Masked(PutFooter(w, f, at))
    BY <2>1, <2>2, MaskFooter
  <2> QED BY <2>2, <2>3, <2>4, PutDomain
<1>17. over(AbsMem) = over(mem)
  BY <1>15
<1> HIDE DEF m2, over, new_size
<1>18. foot(AbsMem) = foot(mem)
  BY <1>17
<1> HIDE DEF foot, behind
<1>19. m3(AbsMem) = Masked(m3(mem)) /\ DOMAIN m3(mem) = Addr
  <2>1. CASE over(mem) > 0
    <3>1. ~ InTable(behind) /\ ~ InTable(behind + 1) /\ ~ InTable(behind + 2)
      BY <1>11, <1>13, <2>1
    <3>2. PutHeader(Masked(m2(mem)), behind, 1, over(mem))
            = Masked(PutHeader(m2(mem), behind, 1, over(mem)))
      BY <1>16, <3>1, MaskHeader
    <3> QED BY <1>16, <1>17, <2>1, <3>2, PutDomain
  <2>2. CASE ~ (over(mem) > 0)
    BY <1>16, <1>17, <2>2
  <2> QED BY <2>1, <2>2
<1> HIDE DEF m3
<1>20. m4(AbsMem) = Masked(m4(mem))
  <2>1. CASE over(mem) > 0 /\ foot(mem) < end_address
    <3>1. ~ InTable(foot(mem)) /\ ~ InTable(foot(mem) + 1)
      BY <1>12, <1>13, <2>1
    <3>2. PICK f : f = foot(mem)
      OBVIOUS
    <3> QED BY <1>17, <1>18, <1>19, <2>1, <3>1, <3>2, MaskFooter
  <2>2. CASE ~ (over(mem) > 0 /\ foot(mem) < end_address)
    BY <1>17, <1>18, <1>19, <2>2
  <2> QED BY <2>1, <2>2
<1> HIDE DEF m4
<1>21. kept \in Seq(HeaderAddr) /\ ToSet(kept) \subseteq Holes
  <2>1. remove_ordered_array(i, index) \in Seq(HeaderAddr)
        /\ ToSet(remove_ordered_array(i, index)) \subseteq ToSet(index)
    <3>1. Unique(index)
      BY <1>2 DEF Base, FreeSpaceIndexed, Unique
    <3> QED BY <1>5, <3>1, RemoveAtItems, RemoveAtProperties DEF remove_ordered_array
  <2> QED BY <1>5, <2>1 DEF Holes
<1> HIDE DEF kept
<1>22. over(mem) > 0 => InsertHole(m4(AbsMem), kept, behind) = InsertHole(m4(mem), kept, behind)
  <2> SUFFICES ASSUME over(mem) > 0
               PROVE  InsertHole(m4(AbsMem), kept, behind) = InsertHole(m4(mem), kept, behind)
    OBVIOUS
  <2>1. \A x \in ToSet(kept) : SizeOf(Masked(m4(mem)), x) = SizeOf(m4(mem), x)
    BY <1>2, <1>21, HoleIsPiece, TagsOutside, MaskReads DEF SizeOf
  <2>2. SizeOf(Masked(m4(mem)), behind) = SizeOf(m4(mem), behind)
    BY <1>11, <1>13, MaskReads DEF SizeOf
  <2> QED BY <1>20, <1>21, <2>1, <2>2, MaskInsert
<1>23. ~ d.faults
  <2>1. /\ Heap!BackedHeader(at) /\ (front => Heap!BackedFooter(at - FOOTER))
        /\ Heap!BackedFooter(at + HEADER + size)
        /\ over(mem) > 0 => Heap!BackedHeader(behind) /\ Heap!BackedFooter(foot(mem))
    BY <1>11, <1>12, <1>13
  <2> HIDE DEF d
  <2> QED BY <1>4, <1>17, <1>18, <2>1
<1> HIDE DEF c, d
<1>24. CarvesAlike(c, d)
  BY <1>1, <1>4, <1>17, <1>20, <1>22, <1>23 DEF CarvesAlike
<1> QED BY <1>24 DEF c, d, h

LEMMA HeapServes ==
  ASSUME status = "running", AbsCall # Idle, NEW n, n = AbsCall.size + OVERHEAD,
         NEW i, i = Heap!find_smallest_hole(n, AbsCall.align), i > 0,
         NEW d, d = Heap!Carved(i, AbsCall), ~ d.faults,
         AbsMem' = d.mem, index' = d.index,
         live' = live \cup {[ptr |-> d.ptr, size |-> AbsCall.size]}, AbsCall' = Idle,
         AbsPresent' = AbsPresent, UNCHANGED <<end_address, status>>
  PROVE  [Heap!Next]_(Heap!vars)
<1>1. Heap!AllocFromHole
  <2>1. AbsMem' = [a \in Addr |-> IF InTable(a) THEN 0 ELSE mem[a]]'
    BY Zenon DEF AbsMem, Masked
  <2> QED BY <2>1, Zenon DEF Heap!AllocFromHole, AbsCall, AbsPresent, Heap!Addr, Addr
<1> QED BY <1>1, Zenon DEF Heap!Next

(* The level of alloc that carves the hole i for the request, unseen by    *)
(* the tables.                                                             *)
Serves(i, c, request) ==
  /\ i > 0 /\ i = find_smallest_hole(request.size + OVERHEAD, request.align)
  /\ c = Carved(i, request) /\ mem' = c.mem /\ index' = c.index /\ call' = Idle
  /\ live' = live \cup {[ptr |-> c.ptr, size |-> request.size]}
  /\ UNCHANGED <<end_address, present, status>>

LEMMA AllocServes ==
  ASSUME AllocFromHole, status' = "running"
  PROVE  \E i, c : Serves(i, c, call)
<1> DEFINE i == find_smallest_hole(call.size + OVERHEAD, call.align)
           c == Carved(i, call)
<1>1. /\ i > 0
      /\ IF c.faults
         THEN Panic
         ELSE /\ mem' = c.mem
              /\ index' = c.index
              /\ live' = live \cup {[ptr |-> c.ptr, size |-> call.size]}
              /\ call' = Idle
              /\ UNCHANGED <<end_address, present, status>>
  BY Zenon DEF AllocFromHole
<1>2. ~ Panic
  BY DEF Panic
<1>3. i = find_smallest_hole(call.size + OVERHEAD, call.align) /\ c = Carved(i, call)
  OBVIOUS
<1> HIDE DEF i, c
<1>4. Serves(i, c, call)
  BY <1>1, <1>2, <1>3 DEF Serves
<1> QED BY <1>4

LEMMA ServeSimulates ==
  ASSUME TInv, Serve
  PROVE  [Heap!Next]_(Heap!vars)
<1>1. Base /\ Tables /\ AllocFromHole /\ call # Idle /\ status = "running"
      /\ directory' = directory /\ index \in Seq(HeaderAddr)
  BY DEF TInv, Serve, AllocFromHole, Base, HeapTypes
<1>2. status' = "running"
  BY ServeKeeps DEF TInv, Base, KeepsRunning
<1>3. PICK request, i, c : request = call /\ Serves(i, c, call)
  BY <1>1, <1>2, AllocServes
<1>4. i \in 1 .. Len(index)
  <2>1. PICK n : n = call.size + OVERHEAD
    OBVIOUS
  <2> QED BY <1>1, <1>3, <2>1, SearchPosition DEF Serves
<1>5. /\ AbsCall = request /\ AbsCall' = Idle /\ AbsPresent' = AbsPresent
      /\ Served(index[i], request)
  <2>1. CASE expanding = <<>>
    <3>1. expanding' = <<>>
      BY <1>1, <2>1 DEF Serve
    <3>2. QuietAbs /\ QuietAbs'
      BY <2>1, <3>1, AbsQuiet, AbsNext
    <3>3. Found /\ call' = Idle /\ present' = present
      BY <1>3 DEF Serves, Found
    <3>4. call.align = 0 /\ call \in [size : Positive, align : {0}]
      <4>1. call.align = 0
        BY <1>1, <2>1 DEF TInv, Planned
      <4> QED BY <1>1, <4>1, SizesPositive DEF Base, HeapTypes, Calls
    <3>5. SizeOf(mem, index[i]) >= request.size + OVERHEAD
      <4>1. PICK n : n = call.size + OVERHEAD
        OBVIOUS
      <4>2. i = find_smallest_hole(n, 0)
        BY <1>3, <3>4, <4>1 DEF Serves
      <4> QED BY <1>1, <1>3, <1>4, <4>1, <4>2, SearchFinds
    <3> QED BY <1>1, <1>3, <3>2, <3>3, <3>4, <3>5 DEF QuietAbs, Served
  <2>2. CASE expanding # <<>>
    <3>1. PICK e, y, h, b : ServesTables(e, y, h, b)
      BY <2>2, ServeDoes
    <3>2. /\ expanding = <<e>> /\ expanding' = <<y>> /\ y.old = e.old /\ y.at = e.at
          /\ call = TableRequest /\ TableReady
          /\ y.table = b.ptr /\ b.ptr \in Nat /\ b.ptr >= START
          /\ call' = Idle /\ present' = present
      BY <3>1 DEF ServesTables, Follows, AsksTable, ServesPage
    <3>3. GrowingAbs(e) /\ GrowingAbs(y)'
      BY <3>2, AbsGrowing, AbsNext
    <3>4. y.table # 0
      BY <3>2, Geometry
    <3>5. AbsCall = call /\ AbsCall' = Idle /\ AbsPresent' = AbsPresent
      BY <1>1, <3>2, <3>3, <3>4 DEF GrowingAbs, PagesFrom
    <3>6. ServesTable(index[i])
      <4>1. i = find_smallest_hole(PAGE + OVERHEAD, 1)
        BY <1>3, <3>2, TableRequestIs DEF Serves, TableRequest
      <4> QED BY <3>2, <4>1, Zenon DEF TableReady
    <3> QED BY <1>3, <3>2, <3>5, <3>6 DEF Served
  <2> QED BY <2>1, <2>2
<1>6. PICK d : d = Heap!Carved(i, request)
  OBVIOUS
<1>7. CarvesAlike(c, d)
  <2>1. CarvesAlike(Carved(i, request), Heap!Carved(i, request))
    BY <1>4, <1>5, CarvedMasked
  <2> QED BY <1>3, <1>6, <2>1, Zenon DEF Serves
<1>8. /\ AbsMem' = d.mem /\ index' = d.index /\ ~ d.faults
      /\ live' = live \cup {[ptr |-> d.ptr, size |-> request.size]}
  <2>1. PICK w : w = mem'
    OBVIOUS
  <2>2. AbsMem' = Masked(w)
    BY <1>1, <2>1, MaskNext
  <2> QED BY <1>3, <1>7, <2>1, <2>2 DEF CarvesAlike, Serves
<1>9. PICK n : n = request.size + OVERHEAD
  OBVIOUS
<1>10. i = Heap!find_smallest_hole(n, request.align) /\ i > 0
  BY <1>1, <1>3, <1>9, AbsSearch DEF Serves
<1>11. UNCHANGED <<end_address, status>>
  BY <1>3 DEF Serves
<1> QED BY <1>1, <1>3, <1>5, <1>6, <1>8, <1>9, <1>10, <1>11, HeapServes

(* Every step is one of the heap of KHeap, or none of it.                  *)
LEMMA TablesStepSimulates ==
  ASSUME Growth = "tail", TInv, Pending, [TablesNext]_<<vars, tableVars>>
  PROVE  [Heap!Next]_(Heap!vars)
<1>1. CASE UNCHANGED <<vars, tableVars>>
  BY <1>1, TablesStutterSimulates
<1>2. ASSUME NEW size \in Sizes, Request(size) PROVE [Heap!Next]_(Heap!vars)
  BY <1>2, RequestSimulates
<1>3. ASSUME NEW b \in live, Release(b) PROVE [Heap!Next]_(Heap!vars)
  BY <1>3, ReleaseSimulates
<1>4. CASE BeginExpand
  BY <1>4, BeginExpandSimulates
<1>5. CASE NeedTable
  BY <1>5, NeedTableSimulates
<1>6. CASE Serve
  BY <1>6, ServeSimulates
<1>7. CASE EnterTable
  BY <1>7, EnterTableSimulates
<1>8. CASE MapPage
  BY <1>8, MapPageSimulates
<1>9. CASE EndExpand
  BY <1>9, EndExpandSimulates
<1> QED BY <1>1, <1>2, <1>3, <1>4, <1>5, <1>6, <1>7, <1>8, <1>9 DEF TablesNext

(* alloc and free of a heap that maps its own pages, table by table, and   *)
(* whose alloc is entered again while it grows, are to their callers those *)
(* of the heap that grows in one step (kheap.c with get_page and           *)
(* alloc_frame of paging.c).                                               *)
THEOREM TablesRefineHeap ==
  ASSUME Growth = "tail"
  PROVE  TablesSpec => ImplementsHeap
<1>1. TablesInit => TInv /\ Pending
  BY TInvInit, InitPends
<1>2. TInv /\ Pending /\ [TablesNext]_<<vars, tableVars>> => (TInv /\ Pending)'
  BY TablesStepKeeps, TablesStepPends
<1>3. TablesInit => Heap!Init
  BY InitSimulates
<1>4. TInv /\ Pending /\ [TablesNext]_<<vars, tableVars>> => [Heap!Next]_(Heap!vars)
  BY TablesStepSimulates
<1> QED BY <1>1, <1>2, <1>3, <1>4, PTL DEF TablesSpec, ImplementsHeap
=============================================================================
