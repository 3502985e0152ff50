----------------------------- MODULE KHeapProofs -----------------------------
(***************************************************************************)
(* Callers that ask for no page alignment, let the heap grow only at its   *)
(* tail or not at all, and keep to an order of frees: for them the heap of *)
(* kheap.c never owns a word twice and never stops, whatever the page      *)
(* size, the size of the heap, the requests and their order.               *)
(***************************************************************************)
EXTENDS KHeap, OrderedArrayTheorems

(* The call in progress can be served: its caller asked for growth only    *)
(* when the endmost hole reaches the end of the heap.                      *)
CallServed ==
  call # Idle =>
    \/ index = <<>>
    \/ \E h \in Holes : EndOf(h) = end_address
    \/ \E h \in Holes : SizeOf(mem, h) >= call.size + OVERHEAD

(* The word below the heap never looks like a footer.                      *)
NothingBelow == mem[START - FOOTER] # HEAP_MAGIC

(* Every page that the heap lies on is present.                            *)
AllPresent == \A a \in START .. end_address - 1 : PageOf(a) \in present

(* The types, whatever sizes and alignments the callers ask for.           *)
Positive == Nat \ {0}
Calls == [size : Positive, align : {0, 1}] \cup {Idle}
HeapTypes ==
  /\ mem \in [Addr -> Word]
  /\ index \in Seq(HeaderAddr)
  /\ end_address \in START .. LIMIT
  /\ present \subseteq Nat
  /\ call \in Calls
  /\ live \subseteq [ptr : START + HEADER .. LIMIT - FOOTER, size : Positive]
  /\ status \in {"running", "panic", "wild"}

Base ==
  /\ HeapTypes /\ FreeSpaceIndexed /\ BoundaryTags /\ HoleTags
  /\ CallServed /\ NothingBelow /\ AllPresent /\ KeepsRunning

USE DEF HEADER, FOOTER, OVERHEAD

-----------------------------------------------------------------------------
(* Arithmetic.                                                             *)

LEMMA Geometry ==
  /\ PAGE \in Nat /\ PAGE > 5 /\ START \in Nat /\ START > 5
  /\ INITIAL_SIZE \in Nat /\ INITIAL_SIZE > 5
  /\ LIMIT \in Nat /\ START + INITIAL_SIZE <= LIMIT
  /\ WORD \in Nat /\ LIMIT < WORD
  /\ HEAP_MAGIC \in Nat /\ HEAP_MAGIC < WORD /\ HEAP_MAGIC >= LIMIT
<1>1. ASSUME NEW n \in Nat, n > 0, n < PAGE PROVE n % PAGE # 0
  BY <1>1, GeometryAssumption
<1>2. INITIAL_SIZE >= PAGE
  BY <1>1, GeometryAssumption
<1> QED BY <1>2, GeometryAssumption, MagicAssumption, CallerAssumption

LEMMA SizesPositive ==
  /\ \A size \in Positive : size \in Nat /\ size > 0
  /\ \A size \in Sizes : size \in Positive /\ size \in Nat /\ size > 0
  BY CallerAssumption DEF Positive

(* Arithmetic within the heap does not wrap.                               *)
LEMMA NoWrap ==
  ASSUME NEW n \in Nat, n < WORD
  PROVE  n % WORD = n
  BY Geometry

LEMMA ShorterRange ==
  ASSUME NEW lo \in Nat, NEW m \in Nat, NEW n \in Nat, m <= n
  PROVE  lo .. m - 1 \subseteq lo .. n - 1
  OBVIOUS

LEMMA RoundUpBound ==
  ASSUME NEW n \in Nat
  PROVE  RoundUp(n) \in Nat /\ RoundUp(n) >= n
  BY Geometry DEF RoundUp

LEMMA PageOfType ==
  ASSUME NEW a \in Nat
  PROVE  PageOf(a) \in Nat
  BY Geometry DEF PageOf

-----------------------------------------------------------------------------
(* Memory.                                                                 *)

(* PutHeader writes the three words of a header and no other.              *)
LEMMA PutHeaderWrites ==
  ASSUME NEW m \in [Addr -> Word], NEW h \in Nat, h >= START, h + 2 < LIMIT,
         NEW is_hole \in {0, 1}, NEW size \in Word
  PROVE  LET n == PutHeader(m, h, is_hole, size)
         IN /\ n \in [Addr -> Word]
            /\ n[h] = HEAP_MAGIC /\ n[h + 1] = is_hole /\ n[h + 2] = size
            /\ \A a \in Addr : a \notin h .. h + 2 => n[a] = m[a]
<1>1. {h, h + 1, h + 2} \subseteq Addr /\ {HEAP_MAGIC, is_hole, size} \subseteq Word
  BY Geometry DEF Addr, Word
<1>2. {h, h + 1, h + 2} \subseteq h .. h + 2 /\ h # h + 1 /\ h # h + 2 /\ h + 1 # h + 2
  OBVIOUS
<1> QED BY <1>1, <1>2 DEF PutHeader

(* PutFooter writes the two words of a footer and no other.                *)
LEMMA PutFooterWrites ==
  ASSUME NEW m \in [Addr -> Word], NEW f \in Nat, f >= START, f + 1 < LIMIT,
         NEW h \in Word
  PROVE  LET n == PutFooter(m, f, h)
         IN /\ n \in [Addr -> Word]
            /\ n[f] = HEAP_MAGIC /\ n[f + 1] = h
            /\ \A a \in Addr : a \notin f .. f + 1 => n[a] = m[a]
  BY Geometry DEF PutFooter, Addr, Word

(* Inserting a hole into the index.                                        *)
LEMMA InsertHoleItems ==
  ASSUME NEW S, NEW m, NEW idx \in Seq(S), Unique(idx), NEW h \in S, h \notin ToSet(idx)
  PROVE  /\ InsertHole(m, idx, h) \in Seq(S)
         /\ ToSet(InsertHole(m, idx, h)) = ToSet(idx) \cup {h}
         /\ Unique(InsertHole(m, idx, h))
<1> DEFINE Less(a) == SizeOf(m, a) < SizeOf(m, h)
           Stop(k) == /\ \A j \in 1 .. k - 1 : Less(idx[j])
                      /\ k <= Len(idx) => ~ Less(idx[k])
           k == CHOOSE k \in 1 .. Len(idx) + 1 : Stop(k)
<1>1. InsertHole(m, idx, h) = InsertAt(idx, k, h)
  BY Zenon DEF InsertHole, insert_ordered_array, InsertionPoint
<1>2. \E j \in 1 .. Len(idx) + 1 : Stop(j)
  <2> HIDE DEF Less
  <2> DEFINE T == {j \in 1 .. Len(idx) + 1 : j <= Len(idx) => ~ Less(idx[j])}
  <2>1. Len(idx) + 1 \in T /\ T \subseteq Nat
    OBVIOUS
  <2>2. PICK j \in T : \A i \in T : j <= i
    BY <2>1, LeastElement
  <2>3. Stop(j)
    BY <2>2
  <2> QED BY <2>3
<1>3. k \in 1 .. Len(idx) + 1
  <2> HIDE DEF Stop
  <2> QED BY <1>2
<1> HIDE DEF k
<1> QED BY <1>1, <1>3, InsertAtProperties, InsertAtItems

(* A search of the index stops at a hole that passes the test, or at 0.    *)
LEMMA SearchFinds ==
  ASSUME NEW size, index \in Seq(HeaderAddr)
  PROVE  LET i == find_smallest_hole(size, 0)
         IN \/ i \in 1 .. Len(index) /\ SizeOf(mem, index[i]) >= size
            \/ i = 0 /\ \A j \in 1 .. Len(index) : ~ (SizeOf(mem, index[j]) >= size)
<1> DEFINE I == {j \in 1 .. Len(index) : Fits(index[j], size, 0)}
           i == find_smallest_hole(size, 0)
<1>1. i = IF I # {} THEN Min(I) ELSE 0
  BY Zenon DEF find_smallest_hole, SelectInSeq
<1>2. \A j \in 1 .. Len(index) : Fits(index[j], size, 0) <=> SizeOf(mem, index[j]) >= size
  BY DEF Fits
<1>3. CASE I # {}
  <2>1. \E j \in I : \A n \in I : j <= n
    <3>1. I \subseteq Nat
      OBVIOUS
    <3> QED BY <1>3, <3>1, LeastElement, Zenon
  <2>2. Min(I) \in I
    BY <2>1 DEF Min
  <2> QED BY <1>1, <1>2, <1>3, <2>2
<1>4. CASE I = {}
  BY <1>1, <1>2, <1>4
<1> QED BY <1>3, <1>4

-----------------------------------------------------------------------------
(* Tilings: how the calls of the heap cut, join and extend its pieces.     *)

Sized(P, m) == \A p \in P : p \in Nat /\ SizeOf(m, p) \in Nat /\ SizeOf(m, p) > 0

(* Cutting the piece at h in two.                                          *)
LEMMA SplitTile ==
  ASSUME NEW P, NEW m, NEW m2, NEW e \in Nat, NEW h \in P, NEW n \in Nat,
         Sized(P, m), Tiles(P, m, e), 0 < n, n < SizeOf(m, h),
         SizeOf(m2, h) = n, SizeOf(m2, h + n) = SizeOf(m, h) - n,
         \A p \in P \ {h} : SizeOf(m2, p) = SizeOf(m, p)
  PROVE  Tiles(P \cup {h + n}, m2, e) /\ h + n \notin P
<1>1. h + n \notin P
  BY DEF Tiles, Sized
<1>2. \A p \in P \cup {h + n} : START <= p /\ p + SizeOf(m2, p) <= e
  BY Geometry DEF Tiles, Sized
<1>3. \A p, q \in P \cup {h + n} : p < q => p + SizeOf(m2, p) <= q
  BY DEF Tiles, Sized
<1>4. ASSUME NEW w \in START .. e - 1
      PROVE  \E p \in P \cup {h + n} : p <= w /\ w < p + SizeOf(m2, p)
  <2>1. PICK p \in P : p <= w /\ w < p + SizeOf(m, p)
    BY DEF Tiles
  <2>2. CASE p # h
    BY <2>1, <2>2
  <2>3. CASE p = h /\ w < h + n
    BY <2>1, <2>3
  <2>4. CASE p = h /\ w >= h + n
    BY <2>1, <2>4 DEF Sized
  <2> QED BY <2>1, <2>2, <2>3, <2>4, Geometry DEF Sized
<1> QED BY <1>1, <1>2, <1>3, <1>4 DEF Tiles

(* Joining the piece at h to the piece at g that ends where it begins.     *)
LEMMA MergeTiles ==
  ASSUME NEW P, NEW m, NEW m2, NEW e \in Nat, NEW g \in P, NEW h \in P,
         Sized(P, m), Tiles(P, m, e), g + SizeOf(m, g) = h,
         SizeOf(m2, g) = SizeOf(m, g) + SizeOf(m, h),
         \A p \in P \ {g, h} : SizeOf(m2, p) = SizeOf(m, p)
  PROVE  Tiles(P \ {h}, m2, e)
<1>1. \A p \in P \ {h} : START <= p /\ p + SizeOf(m2, p) <= e
  BY DEF Tiles, Sized
<1>2. \A p, q \in P \ {h} : p < q => p + SizeOf(m2, p) <= q
  BY DEF Tiles, Sized
<1>3. ASSUME NEW w \in START .. e - 1
      PROVE  \E p \in P \ {h} : p <= w /\ w < p + SizeOf(m2, p)
  <2>1. PICK p \in P : p <= w /\ w < p + SizeOf(m, p)
    BY DEF Tiles
  <2>2. CASE p \notin {g, h}
    BY <2>1, <2>2
  <2>3. CASE p \in {g, h}
    <3>1. g \in P \ {h} /\ g <= w /\ w < g + SizeOf(m2, g)
      BY <2>1, <2>3, Geometry DEF Sized
    <3> QED BY <3>1
  <2> QED BY <2>2, <2>3
<1> QED BY <1>1, <1>2, <1>3 DEF Tiles

(* The piece at h, the last, grows with the heap, whose end moves to e2.   *)
LEMMA ExtendTile ==
  ASSUME NEW P, NEW m, NEW m2, NEW e \in Nat, NEW e2 \in Nat, NEW h \in P,
         Sized(P, m), Tiles(P, m, e), h + SizeOf(m, h) = e, e <= e2,
         SizeOf(m2, h) = e2 - h,
         \A p \in P \ {h} : SizeOf(m2, p) = SizeOf(m, p)
  PROVE  Tiles(P, m2, e2)
<1>1. \A p \in P : START <= p /\ p + SizeOf(m2, p) <= e2
  BY DEF Tiles, Sized
<1>2. \A p, q \in P : p < q => p + SizeOf(m2, p) <= q
  BY DEF Tiles, Sized
<1>3. ASSUME NEW w \in START .. e2 - 1
      PROVE  \E p \in P : p <= w /\ w < p + SizeOf(m2, p)
  <2>1. CASE w < h
    <3>1. PICK p \in P : p <= w /\ w < p + SizeOf(m, p)
      BY <2>1, Geometry DEF Tiles, Sized
    <3>2. p \in P \ {h}
      BY <2>1, <3>1, Geometry DEF Sized
    <3> QED BY <3>1, <3>2
  <2>2. CASE w >= h
    BY <2>2 DEF Sized
  <2> QED BY <2>1, <2>2, Geometry DEF Sized
<1> QED BY <1>1, <1>2, <1>3 DEF Tiles

(* A piece that fills the words between the old end e and the new one e2.  *)
LEMMA AppendTile ==
  ASSUME NEW P, NEW m, NEW m2, NEW e \in Nat, NEW e2 \in Nat,
         Sized(P, m), Tiles(P, m, e), START <= e, e < e2,
         SizeOf(m2, e) = e2 - e,
         \A p \in P : SizeOf(m2, p) = SizeOf(m, p)
  PROVE  Tiles(P \cup {e}, m2, e2) /\ e \notin P
<1>1. e \notin P
  BY DEF Tiles, Sized
<1>2. \A p \in P \cup {e} : START <= p /\ p + SizeOf(m2, p) <= e2
  BY DEF Tiles, Sized
<1>3. \A p, q \in P \cup {e} : p < q => p + SizeOf(m2, p) <= q
  BY DEF Tiles, Sized
<1>4. ASSUME NEW w \in START .. e2 - 1
      PROVE  \E p \in P \cup {e} : p <= w /\ w < p + SizeOf(m2, p)
  <2>1. CASE w < e
    <3>1. PICK p \in P : p <= w /\ w < p + SizeOf(m, p)
      BY <2>1, Geometry DEF Tiles
    <3> QED BY <3>1
  <2>2. CASE w >= e
    BY <2>2
  <2> QED BY <2>1, <2>2, Geometry
<1> QED BY <1>1, <1>2, <1>3, <1>4 DEF Tiles

-----------------------------------------------------------------------------
(* What the invariant says of the pieces of the heap.                      *)

LEMMA PieceFacts ==
  ASSUME Base
  PROVE  /\ end_address \in Nat /\ START <= end_address /\ end_address <= LIMIT
         /\ Sized(Pieces, mem)
         /\ \A p \in Pieces : /\ p \in HeaderAddr /\ SizeOf(mem, p) \in Word
                             /\ SizeOf(mem, p) >= OVERHEAD
                             /\ EndOf(p) <= end_address
         /\ \A p, q \in Pieces : p < q => EndOf(p) <= q
<1>1. end_address \in Nat /\ START <= end_address /\ end_address <= LIMIT
  BY Geometry DEF Base, HeapTypes
<1>2. \A h \in Holes : h \in HeaderAddr
  BY ToSetIsRange DEF Base, HeapTypes, Holes
<1>3. ASSUME NEW b \in live
      PROVE  Header(b) \in HeaderAddr /\ b.size \in Nat /\ b.size > 0
  <2>1. b \in [ptr : START + HEADER .. LIMIT - FOOTER, size : Positive]
    BY DEF Base, HeapTypes
  <2>2. b.ptr \in START + HEADER .. LIMIT - FOOTER /\ b.size \in Positive
    BY <2>1
  <2>3. b.size \in Nat /\ b.size > 0
    BY <2>2, SizesPositive
  <2> QED BY <2>2, <2>3, Geometry DEF Header, HeaderAddr
<1>4. \A p \in HeaderAddr : SizeOf(mem, p) \in Word
  BY Geometry DEF Base, HeapTypes, HeaderAddr, Addr, SizeOf
<1>5. \A h \in Holes : SizeOf(mem, h) >= OVERHEAD
  BY DEF Base, HoleTags, HoleTagged
<1>6. \A b \in live : SizeOf(mem, Header(b)) >= OVERHEAD
  BY <1>3, <1>4, Geometry DEF Base, BoundaryTags, BlockTagged, Word
<1>7. \A p \in Pieces : p \in HeaderAddr /\ SizeOf(mem, p) >= OVERHEAD
  BY <1>2, <1>3, <1>5, <1>6 DEF Pieces
<1>8. Sized(Pieces, mem)
  BY <1>4, <1>7, Geometry DEF Sized, HeaderAddr, Word
<1>9. /\ \A p \in Pieces : EndOf(p) <= end_address
      /\ \A p, q \in Pieces : p < q => EndOf(p) <= q
  BY DEF Base, FreeSpaceIndexed, Tiles, EndOf
<1> QED BY <1>1, <1>4, <1>7, <1>8, <1>9

(* A change of the words lo .. hi - 1 leaves the tags of a piece outside   *)
(* them as they were.                                                      *)
LEMMA TagsKept ==
  ASSUME Base, NEW m \in [Addr -> Word], NEW lo \in Nat, NEW hi \in Nat,
         \A a \in Addr : a \notin lo .. hi - 1 => m[a] = mem[a],
         NEW q \in Pieces, EndOf(q) <= lo \/ hi <= q
  PROVE  /\ m[q] = mem[q] /\ m[q + 1] = mem[q + 1]
         /\ SizeOf(m, q) = SizeOf(mem, q)
         /\ \A b : Header(b) = q /\ BlockTagged(mem, b) => BlockTagged(m, b)
         /\ \A e : HoleTagged(mem, q, e) => HoleTagged(m, q, e)
<1> DEFINE n == SizeOf(mem, q)
<1>1. /\ q \in Nat /\ q >= START /\ n \in Nat /\ n >= OVERHEAD
      /\ EndOf(q) = q + n /\ q + n <= LIMIT
  BY PieceFacts, Geometry DEF HeaderAddr, EndOf, Word
<1> HIDE DEF n
<1>2. \A k \in 0 .. n - 1 : q + k \in Addr /\ q + k \notin lo .. hi - 1
  BY <1>1, Geometry DEF Addr
<1>3. \A k \in 0 .. n - 1 : m[q + k] = mem[q + k]
  BY <1>2
<1>4. m[q + 0] = mem[q + 0] /\ m[q + 1] = mem[q + 1] /\ m[q + 2] = mem[q + 2]
  BY <1>1, <1>3
<1>5. m[q + (n - 2)] = mem[q + (n - 2)] /\ m[q + (n - 1)] = mem[q + (n - 1)]
  BY <1>1, <1>3
<1>6. q + 0 = q /\ q + (n - 2) = q + n - FOOTER /\ q + (n - 1) = q + n - FOOTER + 1
  BY <1>1
<1>7. /\ m[q] = mem[q] /\ m[q + 1] = mem[q + 1]
      /\ SizeOf(m, q) = n /\ SizeOf(mem, q) = n
      /\ m[q + n - FOOTER] = mem[q + n - FOOTER]
      /\ m[q + n - FOOTER + 1] = mem[q + n - FOOTER + 1]
  BY <1>4, <1>5, <1>6 DEF SizeOf, n
<1>8. \A b : Header(b) = q /\ BlockTagged(mem, b) => BlockTagged(m, b)
  BY <1>7, Zenon DEF BlockTagged
<1>9. \A e : HoleTagged(mem, q, e) => HoleTagged(m, q, e)
  BY <1>7, Zenon DEF HoleTagged
<1> QED BY <1>7, <1>8, <1>9

(* Two pieces never share a word.                                          *)
LEMMA Apart ==
  ASSUME Base, NEW p \in Pieces, NEW q \in Pieces, p # q
  PROVE  EndOf(q) <= p \/ EndOf(p) <= q
  BY PieceFacts, Geometry DEF HeaderAddr

(* The heap may touch every word of its own.                               *)
LEMMA Within ==
  ASSUME Base, NEW a \in START .. end_address - 1
  PROVE  Backed(a) /\ a \in Addr
<1>1. a \in Addr
  BY PieceFacts, Geometry DEF Addr
<1>2. PageOf(a) \in present
  BY DEF Base, AllPresent
<1> QED BY <1>1, <1>2 DEF Backed

LEMMA TagsWithin ==
  ASSUME Base, NEW a \in Nat, START <= a
  PROVE  /\ a + 2 < end_address => BackedHeader(a)
         /\ a + 1 < end_address => BackedFooter(a)
<1>1. end_address \in Nat /\ START \in Nat
  BY PieceFacts, Geometry
<1>2. ASSUME NEW k \in Nat, NEW w \in a .. a + k, a + k < end_address PROVE Backed(w)
  <2>1. w \in START .. end_address - 1
    BY <1>1, <1>2
  <2> QED BY <2>1, Within
<1> QED BY <1>2 DEF BackedHeader, BackedFooter

-----------------------------------------------------------------------------
(* alloc.                                                                  *)

(* The hole h of S words, position i of the index, is now a block of n     *)
(* words and, if words are left, a hole behind it.                         *)
IsCarved(c, i, n) ==
  LET h == index[i]
      S == SizeOf(mem, h)
  IN /\ n \in Nat /\ n <= S
     /\ c.ptr = h + HEADER
     /\ c.mem \in [Addr -> Word]
     /\ \A a \in Addr : a \notin h .. h + S - 1 => c.mem[a] = mem[a]
     /\ c.mem[h] = HEAP_MAGIC /\ c.mem[h + 1] = 0 /\ c.mem[h + 2] = n
     /\ c.mem[h + n - 2] = HEAP_MAGIC /\ c.mem[h + n - 1] = h
     /\ n = S => c.index = RemoveAt(index, i)
     /\ n < S =>
          /\ n + OVERHEAD <= S
          /\ c.mem[h + n] = HEAP_MAGIC /\ c.mem[h + n + 1] = 1
          /\ c.mem[h + n + 2] = S - n
          /\ c.mem[h + S - 2] = HEAP_MAGIC /\ c.mem[h + S - 1] = h + n
          /\ c.index = InsertHole(c.mem, RemoveAt(index, i), h + n)

(* The step of a call that finds a hole: the hole h becomes the block b.   *)
CarvesOut(h, n, b) ==
  LET S == SizeOf(mem, h)
  IN /\ h \in Holes /\ n \in Nat /\ n <= S
     /\ b = [ptr |-> h + HEADER, size |-> call.size] /\ Header(b) = h
     /\ call.size + OVERHEAD <= n
     /\ S >= call.size + 2 * OVERHEAD => n = call.size + OVERHEAD
     /\ call # Idle /\ live' = live \cup {b} /\ call' = Idle
     /\ end_address' = end_address
     /\ SizeOf(mem', h) = n
     /\ n = S => Holes' = Holes \ {h}
     /\ n < S => /\ Holes' = (Holes \ {h}) \cup {h + n}
                 /\ n + OVERHEAD <= S /\ SizeOf(mem', h + n) = S - n
     /\ \A q \in Pieces \ {h} : SizeOf(mem', q) = SizeOf(mem, q)
     /\ \A a \in Addr : a \notin h .. h + S - 1 => mem'[a] = mem[a]

LEMMA CarvedPlain ==
  ASSUME Base, NEW i \in 1 .. Len(index), NEW request \in [size : Positive, align : {0}],
         SizeOf(mem, index[i]) >= request.size + OVERHEAD
  PROVE  /\ \E n \in Nat :
              /\ request.size + OVERHEAD <= n /\ IsCarved(Carved(i, request), i, n)
              /\ SizeOf(mem, index[i]) >= request.size + 2 * OVERHEAD
                   => n = request.size + OVERHEAD
         /\ ~ Carved(i, request).faults
<1> DEFINE h == index[i]
           S == SizeOf(mem, h)
           c == Carved(i, request)
           N == request.size + OVERHEAD
           Put(n) == PutFooter(PutHeader(mem, h, 0, n), h + n - FOOTER, h)
<1>1. h \in Pieces
  BY ToSetIsRange DEF Base, HeapTypes, Pieces, Holes
<1>2. /\ h \in Nat /\ START <= h /\ S \in Nat /\ S >= OVERHEAD
      /\ h + S <= end_address /\ end_address \in Nat /\ end_address <= LIMIT
      /\ mem \in [Addr -> Word]
  <2>1. end_address \in Nat /\ end_address <= LIMIT
    BY PieceFacts
  <2>2. mem \in [Addr -> Word]
    BY DEF Base, HeapTypes
  <2>3. h \in HeaderAddr /\ S \in Word /\ S >= OVERHEAD /\ EndOf(h) <= end_address
    BY <1>1, PieceFacts
  <2> QED BY <2>1, <2>2, <2>3, Geometry DEF HeaderAddr, EndOf, Word
<1>3. /\ request.align = 0 /\ request.size \in Nat
      /\ N \in Nat /\ N > OVERHEAD /\ N <= S
  <2>1. request.align = 0 /\ request.size \in Positive
    OBVIOUS
  <2>2. request.size \in Nat /\ request.size > 0
    BY <2>1, SizesPositive
  <2> QED BY <2>1, <2>2, <1>2
<1>5. remove_ordered_array(i, index) = RemoveAt(index, i)
  BY DEF remove_ordered_array
<1> HIDE DEF h, S, N
<1>6. ASSUME NEW n \in Nat, n >= OVERHEAD, n <= S
      PROVE  /\ Put(n) \in [Addr -> Word]
             /\ Put(n)[h] = HEAP_MAGIC /\ Put(n)[h + 1] = 0 /\ Put(n)[h + 2] = n
             /\ Put(n)[h + n - 2] = HEAP_MAGIC /\ Put(n)[h + n - 1] = h
             /\ \A a \in Addr : a \notin h .. h + n - 1 => Put(n)[a] = mem[a]
  <2> DEFINE m1 == PutHeader(mem, h, 0, n)
  <2>1. /\ m1 \in [Addr -> Word]
        /\ m1[h] = HEAP_MAGIC /\ m1[h + 1] = 0 /\ m1[h + 2] = n
        /\ \A a \in Addr : a \notin h .. h + 2 => m1[a] = mem[a]
    <3>1. h + 2 < LIMIT /\ n \in Word
      BY <1>2, <1>6, Geometry DEF Word
    <3> QED BY <1>2, <3>1, PutHeaderWrites
  <2> HIDE DEF m1
  <2>2. /\ h + n - FOOTER \in Nat /\ h + n - FOOTER >= START
        /\ h + n - FOOTER + 1 < LIMIT /\ h \in Word
    BY <1>2, <1>6, Geometry DEF Word
  <2> DEFINE m2 == PutFooter(m1, h + n - FOOTER, h)
  <2>3. /\ m2 \in [Addr -> Word]
        /\ m2[h + n - FOOTER] = HEAP_MAGIC /\ m2[h + n - FOOTER + 1] = h
        /\ \A a \in Addr : a \notin h + n - FOOTER .. h + n - FOOTER + 1 => m2[a] = m1[a]
    BY <2>1, <2>2, PutFooterWrites
  <2> HIDE DEF m2
  <2>4. /\ h \in Addr /\ h + 1 \in Addr /\ h + 2 \in Addr
        /\ h + n - FOOTER + 1 = h + n - 1
    BY <1>2, <1>6, Geometry DEF Addr
  <2>5. /\ m2 \in [Addr -> Word]
        /\ m2[h] = HEAP_MAGIC /\ m2[h + 1] = 0 /\ m2[h + 2] = n
        /\ m2[h + n - 2] = HEAP_MAGIC /\ m2[h + n - 1] = h
        /\ \A a \in Addr : a \notin h .. h + n - 1 => m2[a] = mem[a]
    <3> DEFINE f == h + n - FOOTER
    <3>1. f = h + n - 2 /\ f + 1 = h + n - 1 /\ f \in Nat /\ h + 2 < f
      BY <1>2, <1>6
    <3>2. m2[h + n - 2] = HEAP_MAGIC /\ m2[h + n - 1] = h
      BY <2>3, <3>1
    <3>3. \A a \in h .. h + 2 : a \notin f .. f + 1
      BY <1>2, <3>1
    <3>4. \A a \in Addr : a \notin f .. f + 1 => m2[a] = m1[a]
      BY <2>3
    <3>5. h \in h .. h + 2 /\ h + 1 \in h .. h + 2 /\ h + 2 \in h .. h + 2
      BY <1>2
    <3>6. m2[h] = HEAP_MAGIC /\ m2[h + 1] = 0 /\ m2[h + 2] = n
      BY <2>1, <2>4, <3>3, <3>4, <3>5
    <3>7. ASSUME NEW a \in Addr, a \notin h .. h + n - 1 PROVE m2[a] = mem[a]
      <4>1. a \notin h .. h + 2 /\ a \notin f .. f + 1
        BY <1>2, <1>6, <3>1, <3>7 DEF Addr
      <4> QED BY <2>1, <3>4, <4>1
    <3> QED BY <2>3, <3>2, <3>6, <3>7
  <2>6. Put(n) = m2
    BY Zenon DEF m1, m2
  <2> QED BY <2>5, <2>6, Zenon
<1> HIDE DEF Put
<1>7. S - N \in Nat /\ Sub(S, N) = S - N
  BY <1>2, <1>3, NoWrap, Geometry DEF Sub
<1> DEFINE tight == Sub(S, request.size + OVERHEAD) < OVERHEAD
           size == IF tight THEN S - OVERHEAD ELSE request.size
           new_size == size + OVERHEAD
           front == request.align > 0 /\ h >= PAGE
           gap == PAGE - (h % PAGE) - HEADER
           at == IF front THEN h + gap ELSE h
           m1 == IF front
                 THEN PutFooter(PutHeader(mem, h, 1, gap % WORD), at - FOOTER, h)
                 ELSE mem
           rest == IF front THEN Sub(S, SizeOf(m1, h)) ELSE S
           m2 == PutFooter(PutHeader(m1, at, 0, new_size), at + HEADER + size, at)
           behind == at + new_size
           left == Sub(rest, new_size)
           foot == (behind + left - FOOTER) % WORD
           m3 == IF left > 0 THEN PutHeader(m2, behind, 1, left) ELSE m2
           m4 == IF left > 0 /\ foot < end_address THEN PutFooter(m3, foot, behind) ELSE m3
           kept == IF front THEN index ELSE remove_ordered_array(i, index)
<1>8. /\ c.mem = m4
      /\ c.index = IF left > 0 THEN InsertHole(m4, kept, behind) ELSE kept
      /\ c.ptr = at + HEADER
  BY Zenon DEF Carved, h, S
<1>13. c.faults => \/ ~ BackedHeader(at) \/ front
                   \/ ~ BackedFooter(at + HEADER + size)
                   \/ left > 0 /\ ~ BackedHeader(behind)
                   \/ left > 0 /\ foot < end_address /\ ~ BackedFooter(foot)
  BY Zenon DEF Carved, h, S
<1> HIDE DEF c
<1>9. at = h /\ rest = S /\ m1 = mem /\ kept = RemoveAt(index, i) /\ ~ front
  BY <1>3, <1>5
<1> HIDE DEF front
<1> HIDE DEF at, rest, m1, kept
<1>10. tight <=> S - N < OVERHEAD
  BY <1>7 DEF N
<1> HIDE DEF tight
<1>11. CASE S - N < OVERHEAD
  <2>1. new_size = S /\ at + HEADER + size = h + S - FOOTER
    BY <1>2, <1>9, <1>10, <1>11
  <2>2. m2 = Put(S)
    BY <1>9, <2>1, Zenon DEF Put
  <2>3. left = 0
    BY <1>2, <1>9, <2>1, NoWrap, Geometry DEF Sub
  <2> HIDE DEF m2, left
  <2>4. c.mem = Put(S) /\ c.index = RemoveAt(index, i) /\ c.ptr = h + HEADER
    BY <1>8, <1>9, <2>2, <2>3
  <2>5. /\ Put(S) \in [Addr -> Word]
        /\ Put(S)[h] = HEAP_MAGIC /\ Put(S)[h + 1] = 0 /\ Put(S)[h + 2] = S
        /\ Put(S)[h + S - 2] = HEAP_MAGIC /\ Put(S)[h + S - 1] = h
        /\ \A a \in Addr : a \notin h .. h + S - 1 => Put(S)[a] = mem[a]
        /\ S \in Nat /\ S <= S /\ ~ (S < S)
    BY <1>2, <1>6
  <2>6. IsCarved(c, i, S)
    BY <2>4, <2>5, Zenon DEF IsCarved, h, S
  <2>7. ~ c.faults
    <3>1. BackedHeader(h) /\ BackedFooter(h + S - FOOTER)
      <4>1. h + 2 < end_address /\ h + S - FOOTER \in Nat /\ START <= h + S - FOOTER
            /\ h + S - FOOTER + 1 < end_address
        BY <1>2, Geometry
      <4> QED BY <1>2, <4>1, TagsWithin
    <3> QED BY <1>9, <1>13, <2>1, <2>3, <3>1
  <2>8. ~ (SizeOf(mem, index[i]) >= request.size + 2 * OVERHEAD)
    BY <1>2, <1>3, <1>11 DEF N, S, h
  <2> QED BY <1>2, <1>3, <2>6, <2>7, <2>8 DEF c, N
<1>12. CASE ~ (S - N < OVERHEAD)
  <2>1. new_size = N /\ at + HEADER + size = h + N - FOOTER /\ behind = h + N
    BY <1>2, <1>3, <1>9, <1>10, <1>12 DEF N
  <2>2. m2 = Put(N)
    BY <1>9, <2>1, Zenon DEF Put
  <2>3. left = S - N /\ left >= OVERHEAD /\ left \in Nat
    BY <1>2, <1>3, <1>7, <1>9, <1>12, <2>1
  <2> HIDE DEF m2, left, new_size
  <2>4. foot = h + S - FOOTER /\ foot < end_address
    <3>1. behind + left - FOOTER = h + S - FOOTER /\ h + S - FOOTER \in Nat
          /\ h + S - FOOTER < WORD
      BY <1>2, <1>3, <2>1, <2>3, Geometry
    <3> QED BY <1>2, <3>1, NoWrap
  <2>5. /\ m2 \in [Addr -> Word]
        /\ m2[h] = HEAP_MAGIC /\ m2[h + 1] = 0 /\ m2[h + 2] = N
        /\ m2[h + N - 2] = HEAP_MAGIC /\ m2[h + N - 1] = h
        /\ \A a \in Addr : a \notin h .. h + N - 1 => m2[a] = mem[a]
    BY <1>2, <1>3, <1>6, <2>2
  <2> HIDE DEF behind, foot
  <2> DEFINE a3 == PutHeader(m2, behind, 1, left)
             a4 == PutFooter(a3, foot, behind)
  <2>6. m4 = a4
    BY <2>3, <2>4
  <2> HIDE DEF m4
  <2>7. /\ a3 \in [Addr -> Word]
        /\ a3[behind] = HEAP_MAGIC /\ a3[behind + 1] = 1 /\ a3[behind + 2] = left
        /\ \A a \in Addr : a \notin behind .. behind + 2 => a3[a] = m2[a]
    <3>1. /\ behind \in Nat /\ behind >= START /\ behind + 2 < LIMIT
          /\ left \in Word
      BY <1>2, <1>3, <2>1, <2>3, Geometry DEF Word
    <3>2. m2 \in [Addr -> Word]
      BY <2>5
    <3> QED BY <3>1, <3>2, PutHeaderWrites
  <2> HIDE DEF a3
  <2>8. /\ a4 \in [Addr -> Word]
        /\ a4[foot] = HEAP_MAGIC /\ a4[foot + 1] = behind
        /\ \A a \in Addr : a \notin foot .. foot + 1 => a4[a] = a3[a]
    <3>1. /\ foot \in Nat /\ foot >= START /\ foot + 1 < LIMIT
          /\ behind \in Word
      BY <1>2, <1>3, <2>1, <2>3, <2>4, Geometry DEF Word
    <3> QED BY <2>7, <3>1, PutFooterWrites
  <2> HIDE DEF a4
  <2>9. \A k \in 0 .. S - 1 : h + k \in Addr
    BY <1>2, Geometry DEF Addr
  <2>10. ASSUME NEW k \in 0 .. N - 1 PROVE a4[h + k] = m2[h + k]
    <3>1. /\ h + k \in Addr /\ h + k \notin behind .. behind + 2
          /\ h + k \notin foot .. foot + 1
      <4>1. k \in 0 .. S - 1 /\ h + k < behind /\ behind <= foot
        BY <1>2, <1>3, <2>1, <2>3, <2>4
      <4>2. h + k \in Int /\ behind \in Int /\ foot \in Int
        BY <1>2, <1>3, <2>1, <2>4, <4>1
      <4>3. h + k \notin behind .. behind + 2 /\ h + k \notin foot .. foot + 1
        BY <4>1, <4>2
      <4> QED BY <2>9, <4>1, <4>3
    <3> QED BY <2>7, <2>8, <3>1
  <2>11. ASSUME NEW k \in 0 .. 2 PROVE a4[behind + k] = a3[behind + k]
    <3>1. N + k \in 0 .. S - 1 /\ h + (N + k) = behind + k
      BY <1>2, <1>3, <2>1, <2>3
    <3>2. behind + k \in Addr
      BY <2>9, <3>1
    <3>3. behind + k < foot /\ behind + k \in Int /\ foot \in Int
      BY <1>2, <1>3, <2>1, <2>3, <2>4
    <3>4. behind + k \notin foot .. foot + 1
      BY <3>3
    <3> QED BY <2>8, <3>2, <3>4
  <2>12. \A a \in Addr : a \notin h .. h + S - 1 => a4[a] = mem[a]
    BY <1>2, <1>3, <2>1, <2>3, <2>4, <2>5, <2>7, <2>8
  <2>13. /\ a4[h + 0] = HEAP_MAGIC /\ a4[h + 1] = 0 /\ a4[h + 2] = N
         /\ a4[h + (N - 2)] = HEAP_MAGIC /\ a4[h + (N - 1)] = h
    <3>1. /\ 0 \in 0 .. N - 1 /\ 1 \in 0 .. N - 1 /\ 2 \in 0 .. N - 1
          /\ N - 2 \in 0 .. N - 1 /\ N - 1 \in 0 .. N - 1
          /\ h + 0 = h /\ h + (N - 2) = h + N - 2 /\ h + (N - 1) = h + N - 1
      BY <1>2, <1>3
    <3> QED BY <2>5, <2>10, <3>1
  <2>14. /\ a4[h + N + 0] = HEAP_MAGIC /\ a4[h + N + 1] = 1 /\ a4[h + N + 2] = S - N
         /\ a4[h + S - 2] = HEAP_MAGIC /\ a4[h + S - 1] = h + N
    BY <1>2, <1>3, <2>1, <2>3, <2>4, <2>7, <2>8, <2>11
  <2>15. /\ c.mem = a4 /\ c.ptr = h + HEADER
         /\ c.index = InsertHole(a4, RemoveAt(index, i), h + N)
    BY <1>8, <1>9, <2>1, <2>3, <2>6
  <2>16. IsCarved(c, i, N)
    <3>1. h + 0 = h /\ h + (N - 2) = h + N - 2 /\ h + (N - 1) = h + N - 1
          /\ h + N + 0 = h + N /\ N + OVERHEAD <= S
      BY <1>2, <1>3, <1>12
    <3> QED BY <1>3, <2>8, <2>12, <2>13, <2>14, <2>15, <3>1 DEF IsCarved, h, S
  <2>17. ~ c.faults
    <3>1. BackedHeader(h) /\ BackedFooter(h + N - FOOTER)
          /\ BackedHeader(h + N) /\ BackedFooter(h + S - FOOTER)
      <4>1. h + 2 < end_address /\ h + N + 2 < end_address
            /\ h + N - FOOTER + 1 < end_address /\ h + S - FOOTER + 1 < end_address
        BY <1>2, <1>3, <1>12, Geometry
      <4>2. h + N \in Nat /\ h + N - FOOTER \in Nat /\ h + S - FOOTER \in Nat
            /\ START <= h + N /\ START <= h + N - FOOTER /\ START <= h + S - FOOTER
        BY <1>2, <1>3, <1>12, Geometry
      <4> QED BY <1>2, <4>1, <4>2, TagsWithin
    <3> QED BY <1>9, <1>13, <2>1, <2>4, <3>1
  <2> QED BY <1>3, <2>16, <2>17 DEF c, N
<1> QED BY <1>11, <1>12

(* The request that is being served.                                       *)
LEMMA CallFacts ==
  ASSUME Base, call # Idle, call.align = 0
  PROVE  /\ call \in [size : Positive, align : {0}]
         /\ call.align = 0 /\ call.size \in Nat /\ call.size > 0
<1>1. call \in [size : Positive, align : {0, 1}]
  BY DEF Base, HeapTypes, Calls
<1> QED BY <1>1, SizesPositive

(* A block is carved out of a hole.                                        *)
LEMMA AllocFromHolePreserves ==
  ASSUME Base, call.align = 0, AllocFromHole
  PROVE  Base' /\ \E h, n, b : CarvesOut(h, n, b)
<1> DEFINE i == find_smallest_hole(call.size + OVERHEAD, call.align)
           c == Carved(i, call)
<1>1. /\ call \in [size : Positive, align : {0}]
      /\ call.align = 0 /\ call.size \in Nat /\ call.size > 0
  BY CallFacts DEF AllocFromHole
<1>2. i \in 1 .. Len(index) /\ SizeOf(mem, index[i]) >= call.size + OVERHEAD
  BY <1>1, SearchFinds DEF AllocFromHole, Base, HeapTypes
<1> DEFINE h == index[i]
           S == SizeOf(mem, h)
<1>3. PICK n \in Nat :
        /\ call.size + OVERHEAD <= n /\ IsCarved(c, i, n)
        /\ S >= call.size + 2 * OVERHEAD => n = call.size + OVERHEAD
  BY <1>1, <1>2, CarvedPlain
<1>4. ~ c.faults
  BY <1>1, <1>2, CarvedPlain
<1> DEFINE b == [ptr |-> c.ptr, size |-> call.size]
<1>5. /\ mem' = c.mem /\ index' = c.index /\ live' = live \cup {b}
      /\ call' = Idle
      /\ UNCHANGED <<end_address, present, status>>
  BY <1>4, Zenon DEF AllocFromHole
<1>6. h \in Holes /\ h \in Pieces
  BY <1>2, ToSetIsRange DEF Base, HeapTypes, Pieces, Holes
<1>7. /\ h \in Nat /\ h >= START /\ S \in Nat /\ S >= OVERHEAD
      /\ h + S <= end_address /\ end_address \in Nat /\ end_address <= LIMIT
      /\ h \in HeaderAddr
  BY <1>6, PieceFacts, Geometry DEF HeaderAddr, EndOf, Word
<1> HIDE DEF i, c, h, S
<1>8. /\ n <= S /\ mem' \in [Addr -> Word]
      /\ \A a \in Addr : a \notin h .. h + S - 1 => mem'[a] = mem[a]
      /\ mem'[h] = HEAP_MAGIC /\ mem'[h + 1] = 0 /\ mem'[h + 2] = n
      /\ mem'[h + n - 2] = HEAP_MAGIC /\ mem'[h + n - 1] = h
  BY <1>3, <1>5 DEF IsCarved, h, S
<1>9. /\ n = S => index' = RemoveAt(index, i)
      /\ n < S =>
           /\ n + OVERHEAD <= S
           /\ mem'[h + n] = HEAP_MAGIC /\ mem'[h + n + 1] = 1
           /\ mem'[h + n + 2] = S - n
           /\ mem'[h + S - 2] = HEAP_MAGIC /\ mem'[h + S - 1] = h + n
           /\ index' = InsertHole(mem', RemoveAt(index, i), h + n)
  BY <1>3, <1>5 DEF IsCarved, h, S
<1>10. Header(b) = h /\ b.size = call.size /\ b.ptr = h + HEADER
  BY <1>3, <1>7 DEF IsCarved, Header, h
<1> HIDE DEF b
<1>11. ASSUME NEW q \in Pieces, q # h
      PROVE  /\ mem'[q] = mem[q] /\ mem'[q + 1] = mem[q + 1]
             /\ SizeOf(mem', q) = SizeOf(mem, q)
             /\ \A o : Header(o) = q /\ BlockTagged(mem, o) => BlockTagged(mem', o)
             /\ \A e : HoleTagged(mem, q, e) => HoleTagged(mem', q, e)
  <2>1. EndOf(q) <= h \/ h + S <= q
    BY <1>6, <1>11, Apart DEF EndOf, S
  <2> QED BY <1>7, <1>8, <1>11, <2>1, TagsKept
<1>12. Unique(index) /\ index \in Seq(HeaderAddr)
  BY DEF Base, HeapTypes, FreeSpaceIndexed, Unique
<1>13. /\ RemoveAt(index, i) \in Seq(HeaderAddr) /\ Unique(RemoveAt(index, i))
      /\ ToSet(RemoveAt(index, i)) = Holes \ {h}
  BY <1>2, <1>12, RemoveAtProperties, RemoveAtItems DEF Holes, h
<1>14. b \in [ptr : START + HEADER .. LIMIT - FOOTER, size : Positive]
  <2>1. c.ptr \in START + HEADER .. LIMIT - FOOTER /\ call.size \in Positive
    BY <1>1, <1>7, <1>10, Geometry DEF b
  <2> QED BY <2>1 DEF b
<1>15. \A o \in live : Header(o) \in Pieces /\ Header(o) # h /\ o.ptr # b.ptr
  BY <1>6, <1>10 DEF Base, FreeSpaceIndexed, Pieces, Header
<1>16. BoundaryTags'
  <2>1. BlockTagged(mem', b)
    <3>1. h + n - FOOTER = h + n - 2 /\ h + n - FOOTER + 1 = h + n - 1
      BY <1>7
    <3> QED BY <1>3, <1>8, <1>10, <3>1 DEF BlockTagged, SizeOf
  <2>2. \A o \in live : BlockTagged(mem', o)
    BY <1>11, <1>15 DEF Base, BoundaryTags
  <2> QED BY <1>5, <2>1, <2>2 DEF BoundaryTags
<1>17. NothingBelow' /\ CallServed'
  <2>1. START - FOOTER \in Addr /\ START - FOOTER \notin h .. h + S - 1
    BY <1>7, Geometry DEF Addr
  <2> QED BY <1>5, <1>8, <2>1 DEF Base, NothingBelow, CallServed
<1>18. \A o, p \in live' : o.ptr = p.ptr => o = p
  BY <1>5, <1>15 DEF Base, FreeSpaceIndexed
<1>19. \A q \in Holes \ {h} : HoleTagged(mem', q, end_address)
  BY <1>11 DEF Base, HoleTags, Pieces
<1>20. Sized(Pieces, mem) /\ Tiles(Pieces, mem, end_address)
  BY PieceFacts DEF Base, FreeSpaceIndexed
<1>23. AllPresent' /\ KeepsRunning'
  BY <1>5 DEF Base, AllPresent, KeepsRunning
<1>24. call # Idle /\ b = [ptr |-> h + HEADER, size |-> call.size]
  BY <1>10 DEF AllocFromHole, b
<1>25. \A q \in Pieces \ {h} : SizeOf(mem', q) = SizeOf(mem, q)
  BY <1>11
<1>26. SizeOf(mem', h) = n /\ SizeOf(mem, h) = S
  BY <1>8 DEF SizeOf, S
<1>21. CASE n = S
  <2>1. Holes' = Holes \ {h} /\ Unique(index') /\ index' \in Seq(HeaderAddr)
    BY <1>9, <1>13, <1>21 DEF Holes
  <2>2. Pieces' = Pieces
    BY <1>5, <1>6, <1>10, <1>15, <2>1 DEF Pieces
  <2>3. \A q \in Pieces : SizeOf(mem', q) = SizeOf(mem, q)
    BY <1>8, <1>11, <1>21 DEF SizeOf, S
  <2>4. Tiles(Pieces, mem', end_address)
    BY <1>20, <2>3 DEF Tiles
  <2>5. FreeSpaceIndexed'
    <3>1. \A o \in live' : Header(o) \notin Holes'
      BY <1>5, <1>10, <1>15, <2>1 DEF Base, FreeSpaceIndexed
    <3> QED BY <1>5, <1>18, <2>1, <2>2, <2>4, <3>1 DEF FreeSpaceIndexed, Unique
  <2>6. HoleTags'
    BY <1>5, <1>19, <2>1 DEF HoleTags
  <2>7. HeapTypes'
    BY <1>5, <1>8, <1>14, <2>1 DEF Base, HeapTypes, Calls
  <2>8. CarvesOut(h, n, b)
    BY <1>3, <1>5, <1>6, <1>8, <1>10, <1>21, <1>24, <1>25, <1>26, <2>1 DEF CarvesOut
  <2> QED BY <1>16, <1>17, <1>23, <2>5, <2>6, <2>7, <2>8 DEF Base
<1>22. CASE n < S
  <2>1. /\ h + n \in HeaderAddr /\ S - n \in Nat /\ S - n >= OVERHEAD
        /\ 0 < n
    BY <1>1, <1>3, <1>7, <1>9, <1>22, Geometry DEF HeaderAddr
  <2>2. Tiles(Pieces \cup {h + n}, mem', end_address) /\ h + n \notin Pieces
    <3>1. /\ SizeOf(mem', h) = n
          /\ SizeOf(mem', h + n) = SizeOf(mem, h) - n
      BY <1>8, <1>9, <1>22 DEF SizeOf, S
    <3>2. n < SizeOf(mem, h)
      BY <1>22 DEF S
    <3>3. \A q \in Pieces \ {h} : SizeOf(mem', q) = SizeOf(mem, q)
      BY <1>11
    <3> QED BY <1>6, <1>7, <1>20, <2>1, <3>1, <3>2, <3>3, SplitTile
  <2>3. /\ Holes' = (Holes \ {h}) \cup {h + n}
        /\ Unique(index') /\ index' \in Seq(HeaderAddr)
    <3>1. h + n \notin ToSet(RemoveAt(index, i))
      BY <1>13, <2>2 DEF Pieces
    <3> DEFINE r == RemoveAt(index, i)
    <3> HIDE DEF r
    <3>2. /\ InsertHole(mem', r, h + n) \in Seq(HeaderAddr)
          /\ ToSet(InsertHole(mem', r, h + n)) = ToSet(r) \cup {h + n}
          /\ Unique(InsertHole(mem', r, h + n))
      BY <1>13, <2>1, <3>1, InsertHoleItems DEF r
    <3> QED BY <1>9, <1>13, <1>22, <3>2 DEF Holes, r
  <2>4. Pieces' = Pieces \cup {h + n}
    BY <1>5, <1>6, <1>10, <2>3 DEF Pieces
  <2>5. FreeSpaceIndexed'
    <3>1. \A o \in live' : Header(o) \notin Holes'
      <4>1. h # h + n
        BY <1>7, <2>1
      <4> QED BY <1>5, <1>10, <1>15, <2>2, <2>3, <4>1 DEF Base, FreeSpaceIndexed
    <3> QED BY <1>5, <1>18, <2>2, <2>3, <2>4, <3>1 DEF FreeSpaceIndexed, Unique
  <2>6. HoleTags'
    <3>1. HoleTagged(mem', h + n, end_address)
      <4>1. h + n + (S - n) - FOOTER = h + S - 2
            /\ h + n + (S - n) - FOOTER + 1 = h + S - 1
        BY <1>7, <2>1
      <4> QED BY <1>9, <1>22, <2>1, <4>1 DEF HoleTagged, SizeOf
    <3> QED BY <1>5, <1>19, <2>3, <3>1 DEF HoleTags
  <2>7. HeapTypes'
    BY <1>5, <1>8, <1>14, <2>3 DEF Base, HeapTypes, Calls
  <2>8. SizeOf(mem', h + n) = S - n
    BY <1>9, <1>22 DEF SizeOf
  <2>9. CarvesOut(h, n, b)
    BY <1>3, <1>5, <1>6, <1>8, <1>9, <1>10, <1>22, <1>24, <1>25, <1>26, <2>3, <2>8
       DEF CarvesOut
  <2> QED BY <1>16, <1>17, <1>23, <2>5, <2>6, <2>7, <2>9 DEF Base
<1> QED BY <1>7, <1>8, <1>21, <1>22

(* The step of a call that grows the heap: its last hole t ends at the new *)
(* end.                                                                    *)
GrowsAt(t) ==
  /\ live' = live /\ end_address' \in Nat /\ end_address <= end_address'
  /\ t \in Nat /\ START <= t /\ t <= end_address /\ Holes' = Holes \cup {t}
  /\ t \in Holes \/ Holes = {}
  /\ t \in Holes => EndOf(t) = end_address
  /\ t + SizeOf(mem', t) = end_address'
  /\ \A q \in Pieces \ {t} : SizeOf(mem', q) = SizeOf(mem, q) /\ EndOf(q) <= t
  /\ \A a \in Addr : a \notin t .. end_address' - 1 => mem'[a] = mem[a]

(* What alloc does with the words that expand has added.                   *)
Grows(added) ==
  LET hole   == IF index = <<>> THEN end_address ELSE Max(Holes)
      length == IF index = <<>> THEN added ELSE (SizeOf(mem, hole) + added) % WORD
      foot   == (hole + length - FOOTER) % WORD
      header == IF index = <<>> THEN PutHeader(mem, hole, 1, length)
                                ELSE [mem EXCEPT ![hole + 2] = length]
  IN /\ mem' = PutFooter(header, foot, hole)
     /\ index' = IF index = <<>> THEN InsertHole(mem', index, hole) ELSE index

(* The heap grows: at its tail, or by a hole of its own when there is none. *)
LEMMA GrowthPreserves ==
  ASSUME Base, NEW added \in Nat, added > OVERHEAD, end_address + added <= LIMIT,
         index = <<>> \/ \E h \in Holes : EndOf(h) = end_address,
         Grows(added), end_address' = end_address + added,
         UNCHANGED <<live, status>>, present' \subseteq Nat,
         \A a \in START .. end_address' - 1 : PageOf(a) \in present',
         call' \in Calls
  PROVE  Base' /\ \E t : GrowsAt(t)
<1> DEFINE e == end_address
           e2 == end_address'
<1>1. UNCHANGED <<live, status>>
  OBVIOUS
<1>2. e \in Nat /\ START <= e /\ e <= LIMIT /\ Sized(Pieces, mem)
  BY PieceFacts
<1>3. /\ e2 \in Nat /\ e + OVERHEAD < e2 /\ e2 <= LIMIT
      /\ added = e2 - e /\ added \in Nat
  BY <1>2
<1>5. mem \in [Addr -> Word] /\ index \in Seq(HeaderAddr) /\ Tiles(Pieces, mem, e)
  BY DEF Base, HeapTypes, FreeSpaceIndexed
<1>8. AllPresent' /\ KeepsRunning'
  BY <1>1 DEF Base, AllPresent, KeepsRunning
<1>6. CASE index = <<>>
  <2> DEFINE a1 == PutHeader(mem, e, 1, added)
  <2>1. mem' = PutFooter(a1, (e + added - FOOTER) % WORD, e)
    BY <1>6, Zenon DEF Grows
  <2>2. index' = InsertHole(mem', index, e)
    BY <1>6, Zenon DEF Grows
  <2>3. (e + added - FOOTER) % WORD = e2 - FOOTER
    BY <1>1, <1>2, <1>3, NoWrap, Geometry
  <2>4. /\ a1 \in [Addr -> Word]
        /\ a1[e] = HEAP_MAGIC /\ a1[e + 1] = 1 /\ a1[e + 2] = added
        /\ \A a \in Addr : a \notin e .. e + 2 => a1[a] = mem[a]
    <3>1. e + 2 < LIMIT /\ added \in Word
      BY <1>1, <1>2, <1>3, Geometry DEF Word
    <3> QED BY <1>2, <1>5, <3>1, PutHeaderWrites
  <2> HIDE DEF a1
  <2>5. /\ mem' \in [Addr -> Word]
        /\ \A a \in Addr : a \notin e2 - FOOTER .. e2 - FOOTER + 1 => mem'[a] = a1[a]
    <3>1. /\ e2 - FOOTER \in Nat /\ e2 - FOOTER >= START /\ e2 - FOOTER + 1 < LIMIT
          /\ e \in Word
      BY <1>1, <1>2, <1>3, Geometry DEF Word
    <3> QED BY <2>1, <2>3, <2>4, <3>1, PutFooterWrites
  <2>6. mem'[e] = HEAP_MAGIC /\ mem'[e + 1] = 1 /\ SizeOf(mem', e) = e2 - e
    <3>1. \A k \in 0 .. 2 : e + k \in Addr /\ e + k \notin e2 - FOOTER .. e2 - FOOTER + 1
      BY <1>1, <1>2, <1>3, Geometry DEF Addr
    <3>2. mem'[e + 0] = a1[e + 0] /\ mem'[e + 1] = a1[e + 1] /\ mem'[e + 2] = a1[e + 2]
      BY <2>5, <3>1
    <3> QED BY <1>2, <1>3, <2>4, <3>2 DEF SizeOf
  <2>7. \A a \in Addr : a \notin e .. e2 - 1 => mem'[a] = mem[a]
    BY <1>1, <1>2, <1>3, <2>4, <2>5
  <2>8. ASSUME NEW q \in Pieces
        PROVE  /\ SizeOf(mem', q) = SizeOf(mem, q)
               /\ \A o : Header(o) = q /\ BlockTagged(mem, o) => BlockTagged(mem', o)
    BY <1>2, <1>3, <2>5, <2>7, PieceFacts, TagsKept
  <2>9. e \in HeaderAddr /\ e < e2
    BY <1>1, <1>2, <1>3, Geometry DEF HeaderAddr
  <2>10. Holes = {}
    BY <1>6 DEF Holes, ToSet
  <2>11. Tiles(Pieces \cup {e}, mem', e2) /\ e \notin Pieces
    BY <1>2, <1>3, <1>5, <2>6, <2>8, <2>9, AppendTile
  <2>12. Holes' = {e} /\ Unique(index') /\ index' \in Seq(HeaderAddr)
    <3>1. Unique(index) /\ e \notin ToSet(index)
      BY <1>6, <2>10 DEF Unique, Holes
    <3>2. /\ InsertHole(mem', index, e) \in Seq(HeaderAddr)
          /\ ToSet(InsertHole(mem', index, e)) = ToSet(index) \cup {e}
          /\ Unique(InsertHole(mem', index, e))
      BY <1>5, <2>9, <3>1, InsertHoleItems
    <3> QED BY <2>2, <2>10, <3>2 DEF Holes
  <2>13. Pieces' = Pieces \cup {e}
    BY <1>1, <2>10, <2>12 DEF Pieces
  <2>14. FreeSpaceIndexed'
    <3>1. \A o \in live' : Header(o) \notin Holes'
      BY <1>1, <2>11, <2>12 DEF Pieces
    <3> QED BY <1>1, <2>11, <2>12, <2>13, <3>1 DEF Base, FreeSpaceIndexed, Unique
  <2>15. BoundaryTags'
    BY <1>1, <2>8 DEF Base, BoundaryTags, Pieces
  <2>16. HoleTags'
    <3>1. e2 - e >= OVERHEAD /\ e + (e2 - e) - FOOTER + FOOTER = e2
      BY <1>1, <1>2, <1>3
    <3>2. HoleTagged(mem', e, e2)
      BY <2>6, <3>1 DEF HoleTagged
    <3> QED BY <2>12, <3>2 DEF HoleTags
  <2>17. CallServed'
    <3>1. e + SizeOf(mem', e) = e2
      BY <1>2, <1>3, <2>6
    <3> QED BY <2>12, <3>1 DEF CallServed, EndOf
  <2>18. NothingBelow'
    <3>1. START - FOOTER \in Addr /\ START - FOOTER \notin e .. e2 - 1
      BY <1>2, Geometry DEF Addr
    <3> QED BY <2>7, <3>1 DEF Base, NothingBelow
  <2>19. HeapTypes'
    <3>1. e2 \in START .. LIMIT
      BY <1>1, <1>2, <1>3, Geometry
    <3> QED BY <1>1, <2>5, <2>12, <3>1 DEF Base, HeapTypes
  <2>20. GrowsAt(e)
    <3>1. \A q \in Pieces : EndOf(q) <= e
      BY PieceFacts
    <3>2. e + SizeOf(mem', e) = e2
      BY <1>2, <1>3, <2>6
    <3>3. e <= e2 /\ e <= e
      BY <1>1, <1>2, <1>3
    <3> QED BY <1>1, <1>2, <1>3, <2>7, <2>8, <2>10, <2>12, <3>1, <3>2, <3>3 DEF GrowsAt
  <2> QED BY <1>8, <2>14, <2>15, <2>16, <2>17, <2>18, <2>19, <2>20 DEF Base
<1>7. CASE index # <<>>
  <2>2. PICK t \in Holes : EndOf(t) = e
    BY <1>7
  <2> DEFINE L == SizeOf(mem, t)
  <2>3. /\ t \in Pieces /\ t \in Nat /\ t >= START /\ t \in HeaderAddr
        /\ L \in Nat /\ L >= OVERHEAD /\ t + L = e
    <3>1. t \in Pieces
      BY DEF Pieces
    <3> QED BY <2>2, <3>1, PieceFacts, Geometry DEF HeaderAddr, EndOf, Word
  <2>4. ASSUME NEW q \in Pieces, q # t
        PROVE  q < t /\ EndOf(q) <= t
    <3>1. EndOf(q) <= t \/ e <= q
      BY <2>2, <2>3, <2>4, Apart
    <3>2. /\ q \in Nat /\ SizeOf(mem, q) \in Nat /\ SizeOf(mem, q) >= OVERHEAD
          /\ EndOf(q) = q + SizeOf(mem, q) /\ EndOf(q) <= e
      BY PieceFacts, Geometry DEF HeaderAddr, EndOf, Word
    <3> QED BY <1>2, <2>3, <3>1, <3>2
  <2>5. Max(Holes) = t
    <3>1. \A q \in Holes : q \in Nat /\ t >= q
      BY <2>3, <2>4, PieceFacts, Geometry DEF Pieces, HeaderAddr
    <3>2. \A q \in Holes : (\A r \in Holes : q >= r) => q = t
      BY <2>2, <3>1
    <3> QED BY <2>2, <3>1, <3>2 DEF Max
  <2>6. (L + added) % WORD = e2 - t /\ (t + (e2 - t) - FOOTER) % WORD = e2 - FOOTER
    <3>1. L + added = e2 - t /\ e2 - t \in Nat /\ e2 - t < WORD
      BY <1>1, <1>2, <1>3, <2>3, Geometry
    <3>2. t + (e2 - t) - FOOTER = e2 - FOOTER /\ e2 - FOOTER \in Nat /\ e2 - FOOTER < WORD
      BY <1>1, <1>2, <1>3, <2>3, Geometry
    <3> QED BY <3>1, <3>2, NoWrap
  <2> DEFINE a1 == [mem EXCEPT ![t + 2] = e2 - t]
  <2>7. mem' = PutFooter(a1, e2 - FOOTER, t) /\ index' = index
    BY <1>7, <2>5, <2>6 DEF Grows
  <2>8. /\ a1 \in [Addr -> Word] /\ a1[t + 2] = e2 - t
        /\ \A a \in Addr : a # t + 2 => a1[a] = mem[a]
    <3>1. t + 2 \in Addr /\ e2 - t \in Word
      BY <1>1, <1>2, <1>3, <2>3, Geometry DEF Addr, Word
    <3> QED BY <1>5, <3>1
  <2> HIDE DEF a1, L
  <2>9. /\ mem' \in [Addr -> Word]
        /\ mem'[e2 - FOOTER] = HEAP_MAGIC /\ mem'[e2 - FOOTER + 1] = t
        /\ \A a \in Addr : a \notin e2 - FOOTER .. e2 - FOOTER + 1 => mem'[a] = a1[a]
    <3>1. /\ e2 - FOOTER \in Nat /\ e2 - FOOTER >= START /\ e2 - FOOTER + 1 < LIMIT
          /\ t \in Word
      BY <1>1, <1>2, <1>3, <2>3, Geometry DEF Word
    <3> QED BY <2>7, <2>8, <3>1, PutFooterWrites
  <2>10. mem'[t] = HEAP_MAGIC /\ mem'[t + 1] = 1 /\ SizeOf(mem', t) = e2 - t
    <3>1. \A k \in 0 .. 2 : t + k \in Addr /\ t + k \notin e2 - FOOTER .. e2 - FOOTER + 1
      BY <1>1, <1>2, <1>3, <2>3, Geometry DEF Addr
    <3>2. mem'[t + 0] = a1[t + 0] /\ mem'[t + 1] = a1[t + 1] /\ mem'[t + 2] = a1[t + 2]
      BY <2>9, <3>1
    <3>3. t + 0 \in Addr /\ t + 1 \in Addr /\ t + 0 # t + 2 /\ t + 1 # t + 2 /\ t + 0 = t
      BY <2>3, <3>1
    <3>4. mem[t] = HEAP_MAGIC /\ mem[t + 1] = 1
      BY <2>2 DEF Base, HoleTags, HoleTagged
    <3> QED BY <2>8, <3>2, <3>3, <3>4 DEF SizeOf
  <2>11. \A a \in Addr : a \notin t .. e2 - 1 => mem'[a] = mem[a]
    BY <1>1, <1>2, <1>3, <2>3, <2>8, <2>9
  <2>12. ASSUME NEW q \in Pieces, q # t
         PROVE  /\ SizeOf(mem', q) = SizeOf(mem, q)
                /\ \A o : Header(o) = q /\ BlockTagged(mem, o) => BlockTagged(mem', o)
                /\ \A x : HoleTagged(mem, q, x) => HoleTagged(mem', q, x)
    BY <1>3, <2>3, <2>4, <2>9, <2>11, <2>12, TagsKept
  <2>13. Tiles(Pieces, mem', e2)
    <3>1. t + SizeOf(mem, t) = e
      BY <2>3 DEF L
    <3>2. e <= e2
      BY <1>1, <1>2, <1>3
    <3> QED BY <1>2, <1>3, <1>5, <2>3, <2>10, <2>12, <3>1, <3>2, ExtendTile
  <2>14. Holes' = Holes /\ Pieces' = Pieces
    BY <1>1, <2>7 DEF Holes, Pieces
  <2>15. FreeSpaceIndexed'
    BY <1>1, <2>7, <2>13, <2>14 DEF Base, FreeSpaceIndexed
  <2>16. BoundaryTags'
    <3>1. \A o \in live : Header(o) \in Pieces /\ Header(o) # t
      BY <2>2 DEF Base, FreeSpaceIndexed, Pieces
    <3> QED BY <1>1, <2>12, <3>1 DEF Base, BoundaryTags
  <2>17. HoleTags'
    <3>1. e2 - t >= OVERHEAD /\ t + (e2 - t) - FOOTER = e2 - FOOTER
      BY <1>1, <1>2, <1>3, <2>3
    <3>2. HoleTagged(mem', t, e2)
      BY <2>9, <2>10, <3>1 DEF HoleTagged
    <3>3. ASSUME NEW q \in Holes, q # t PROVE HoleTagged(mem', q, e2)
      <4>1. q \in Pieces
        BY DEF Pieces
      <4>2. HoleTagged(mem, q, e)
        BY DEF Base, HoleTags
      <4>3. q + SizeOf(mem, q) - FOOTER + FOOTER # e
        <5>1. EndOf(q) <= t /\ q \in Nat /\ SizeOf(mem, q) \in Nat
          BY <2>4, <3>3, <4>1, PieceFacts, Geometry DEF HeaderAddr, Word
        <5> QED BY <2>3, <5>1 DEF EndOf
      <4>4. HoleTagged(mem, q, e2)
        BY <4>2, <4>3, Zenon DEF HoleTagged
      <4> QED BY <2>12, <3>3, <4>1, <4>4
    <3> QED BY <2>14, <3>2, <3>3 DEF HoleTags
  <2>18. CallServed'
    <3>1. EndOf(t)' = e2
      BY <1>2, <1>3, <2>3, <2>10 DEF EndOf
    <3> QED BY <2>2, <2>14, <3>1 DEF CallServed, EndOf
  <2>19. NothingBelow'
    <3>1. START - FOOTER \in Addr /\ START - FOOTER \notin t .. e2 - 1
      BY <2>3, Geometry DEF Addr
    <3> QED BY <2>11, <3>1 DEF Base, NothingBelow
  <2>20. HeapTypes'
    <3>1. e2 \in START .. LIMIT
      BY <1>1, <1>2, <1>3, Geometry
    <3> QED BY <1>1, <2>7, <2>9, <3>1 DEF Base, HeapTypes
  <2>21. GrowsAt(t)
    <3>1. t + SizeOf(mem', t) = e2 /\ e <= e2
      BY <1>1, <1>2, <1>3, <2>3, <2>10
    <3>2. Holes' = Holes \cup {t}
      BY <2>2, <2>14
    <3> QED BY <1>1, <1>3, <2>2, <2>3, <2>4, <2>11, <2>12, <3>1, <3>2 DEF GrowsAt
  <2> QED BY <1>8, <2>15, <2>16, <2>17, <2>18, <2>19, <2>20, <2>21 DEF Base
<1> QED BY <1>6, <1>7

(* The length that expand is asked for.                                    *)
LEMMA ExpandedIs ==
  ASSUME Base, call # Idle
  PROVE  Expanded \in Nat /\ end_address + call.size + OVERHEAD <= Expanded
<1>1. call.size \in Nat /\ end_address \in Nat /\ START <= end_address
  BY PieceFacts, SizesPositive DEF Base, HeapTypes, Calls
<1> DEFINE n == end_address - START + call.size + OVERHEAD
<1>2. n \in Nat /\ Expanded = START + RoundUp(n)
  BY <1>1, Geometry DEF Expanded
<1> HIDE DEF n
<1>3. RoundUp(n) \in Nat /\ RoundUp(n) >= n
  BY <1>2, RoundUpBound
<1> QED BY <1>1, <1>2, <1>3, Geometry DEF n

LEMMA AllocGrowsPreserves ==
  ASSUME Base, call.align = 0, AllocGrows
  PROVE  Base' /\ \E t : GrowsAt(t)
<1> DEFINE added == Expanded - end_address
<1>1. /\ call # Idle /\ call.align = 0 /\ call.size \in Nat /\ call.size > 0
      /\ UNCHANGED <<call, live, status>>
  BY CallFacts DEF AllocGrows
<1>2. end_address \in Nat /\ START <= end_address /\ end_address <= LIMIT
  BY PieceFacts
<1>3. /\ end_address' = Expanded /\ Expanded \in Nat /\ Expanded <= LIMIT
      /\ end_address + call.size + OVERHEAD <= Expanded
      /\ present' = present \cup {PageOf(a) : a \in end_address .. Expanded - 1}
  BY <1>1, ExpandedIs DEF AllocGrows, expand
<1>4. /\ added \in Nat /\ added > OVERHEAD /\ end_address + added <= LIMIT
      /\ end_address' = end_address + added
  BY <1>1, <1>2, <1>3
<1>5. Grows(added)
  BY Zenon DEF AllocGrows, Grows
<1> HIDE DEF added
<1>6. index = <<>> \/ \E h \in Holes : EndOf(h) = end_address
  <2> SUFFICES ASSUME index # <<>> PROVE \E h \in Holes : EndOf(h) = end_address
    OBVIOUS
  <2> DEFINE N == call.size + OVERHEAD
  <2>1. find_smallest_hole(N, 0) = 0
    BY <1>1, Zenon DEF AllocGrows
  <2>2. index \in Seq(HeaderAddr)
    BY DEF Base, HeapTypes
  <2>3. \A j \in 1 .. Len(index) : ~ (SizeOf(mem, index[j]) >= N)
    BY <2>1, <2>2, SearchFinds
  <2>4. \A h \in Holes : ~ (SizeOf(mem, h) >= N)
    BY <2>2, <2>3, ToSetIsRange DEF Holes
  <2> QED BY <1>1, <2>4 DEF Base, CallServed
<1>7. present' \subseteq Nat /\ \A a \in START .. end_address' - 1 : PageOf(a) \in present'
  <2>1. \A a \in end_address .. Expanded - 1 : PageOf(a) \in Nat
    BY <1>2, <1>3, PageOfType
  <2>2. present \subseteq Nat
    BY DEF Base, HeapTypes
  <2>3. ASSUME NEW a \in START .. end_address' - 1 PROVE PageOf(a) \in present'
    <3>1. CASE a < end_address
      <4>1. a \in START .. end_address - 1
        BY <1>2, <1>3, <3>1, Geometry
      <4> QED BY <1>3, <4>1 DEF Base, AllPresent
    <3>2. CASE end_address <= a
      <4>1. a \in end_address .. Expanded - 1
        BY <1>2, <1>3, <3>2, Geometry
      <4> QED BY <1>3, <4>1
    <3> QED BY <1>2, <1>3, <3>1, <3>2, Geometry
  <2> QED BY <1>3, <2>1, <2>2, <2>3
<1>8. call' \in Calls
  BY <1>1 DEF Base, HeapTypes
<1> QED BY <1>1, <1>4, <1>5, <1>6, <1>7, <1>8, GrowthPreserves

-----------------------------------------------------------------------------
(* free.                                                                   *)

(* What stands to the left of a block: nothing that looks like a footer,   *)
(* or the footer of the piece that ends there.                             *)
LEMMA LeftNeighbour ==
  ASSUME Base, NEW b \in live, mem[Header(b) - FOOTER] = HEAP_MAGIC
  PROVE  \E q \in Pieces : EndOf(q) = Header(b) /\ mem[Header(b) - FOOTER + 1] = q
<1> DEFINE h == Header(b)
<1>1. h \in Pieces
  BY DEF Pieces
<1>2. /\ h \in Nat /\ h >= START /\ SizeOf(mem, h) \in Nat /\ SizeOf(mem, h) >= OVERHEAD
      /\ h + SizeOf(mem, h) <= end_address /\ end_address \in Nat
  BY <1>1, PieceFacts, Geometry DEF HeaderAddr, EndOf, Word
<1> HIDE DEF h
<1>3. h # START
  BY DEF Base, NothingBelow, h
<1>4. PICK q \in Pieces : q <= h - 1 /\ h - 1 < q + SizeOf(mem, q)
  <2>1. h - 1 \in START .. end_address - 1
    BY <1>2, <1>3, Geometry
  <2> QED BY <2>1 DEF Base, FreeSpaceIndexed, Tiles
<1>5. /\ q \in Nat /\ SizeOf(mem, q) \in Nat /\ EndOf(q) = q + SizeOf(mem, q)
      /\ q < h => EndOf(q) <= h
  BY <1>1, PieceFacts, Geometry DEF HeaderAddr, EndOf, Word
<1>6. EndOf(q) = h /\ q # h
  BY <1>2, <1>4, <1>5
<1>7. h - FOOTER = q + SizeOf(mem, q) - FOOTER
  BY <1>2, <1>5, <1>6
<1>8. mem[h - FOOTER + 1] = q
  <2>1. CASE q \in Holes
    <3>1. q + SizeOf(mem, q) - FOOTER + FOOTER # end_address
      BY <1>2, <1>5, <1>6
    <3> QED BY <1>7, <2>1, <3>1 DEF Base, HoleTags, HoleTagged
  <2>2. CASE \E o \in live : q = Header(o)
    BY <1>7, <2>2 DEF Base, BoundaryTags, BlockTagged
  <2> QED BY <2>1, <2>2 DEF Pieces
<1> QED BY <1>6, <1>8 DEF h

(* The locals of free, as a record.                                        *)
Body(m, idx, end, header, footer, do_add) ==
  [mem |-> m, index |-> idx, end |-> end, header |-> header, footer |-> footer,
   do_add |-> do_add, status |-> "running"]

(* Behind unify left the hole p ends where block b did; p is the hole that *)
(* was on the left of b, or b's header when there was none.                *)
LeftJoined(m, do_add, b, p) ==
  LET h == Header(b)
      g == EndOf(h)
  IN /\ \/ p = h /\ do_add /\ \A q \in Holes : EndOf(q) # h
        \/ p \in Holes /\ EndOf(p) = h /\ ~ do_add
     /\ m \in [Addr -> Word]
     /\ m[p] = HEAP_MAGIC /\ m[p + 1] = 1 /\ SizeOf(m, p) = g - p
     /\ m[g - FOOTER] = HEAP_MAGIC /\ m[g - FOOTER + 1] = p
     /\ \A a \in Addr : a \notin p .. g - 1 => m[a] = mem[a]

LEMMA UnifyLeftResult ==
  ASSUME Base, NEW b \in live
  PROVE  \E m, do_add, p :
           /\ LeftJoined(m, do_add, b, p)
           /\ UnifyLeft(MakeHole(b))
                = Body(m, index, end_address, p, EndOf(Header(b)) - FOOTER, do_add)
<1> DEFINE h == Header(b)
           n == SizeOf(mem, h)
           m0 == [mem EXCEPT ![h + 1] = 1]
           s0 == MakeHole(b)
           left == m0[h - FOOTER + 1]
           s == UnifyLeft(s0)
<1>1. h \in Pieces
  BY DEF Pieces
<1>2. /\ h \in Nat /\ h >= START /\ n \in Nat /\ n >= OVERHEAD
      /\ h + n <= end_address /\ end_address \in Nat /\ end_address <= LIMIT
      /\ mem \in [Addr -> Word] /\ EndOf(h) = h + n
  BY <1>1, PieceFacts, Geometry DEF HeaderAddr, EndOf, Word, Base, HeapTypes
<1>3. s0 = Body(m0, index, end_address, h, h + n - FOOTER, TRUE)
  BY Zenon DEF MakeHole, Body
<1> HIDE DEF h, n
<1>4. /\ s0.mem = m0 /\ s0.header = h /\ s0.footer = h + n - FOOTER
      /\ s0.status = "running"
  BY <1>3 DEF Body
<1>5. /\ m0 \in [Addr -> Word] /\ m0[h + 1] = 1
      /\ \A a \in Addr : a # h + 1 => m0[a] = mem[a]
  <2>1. 1 \in Word /\ h + 1 \in Addr
    BY <1>2, Geometry DEF Word, Addr
  <2> QED BY <1>2, <2>1
<1>6. h - FOOTER \in Addr /\ h - FOOTER + 1 \in Addr
      /\ h - FOOTER # h + 1 /\ h - FOOTER + 1 # h + 1
  BY <1>2, Geometry DEF Addr
<1>7. m0[h - FOOTER] = mem[h - FOOTER] /\ left = mem[h - FOOTER + 1]
  BY <1>5, <1>6
<1>8. /\ mem[h] = HEAP_MAGIC
      /\ mem[h + n - FOOTER] = HEAP_MAGIC /\ mem[h + n - FOOTER + 1] = h
  BY DEF Base, BoundaryTags, BlockTagged, h, n
<1>9. /\ h \in Addr /\ h + 2 \in Addr
      /\ h + n - FOOTER \in Addr /\ h + n - FOOTER + 1 \in Addr
      /\ h # h + 1 /\ h + 2 # h + 1 /\ h + n - FOOTER # h + 1 /\ h + n - FOOTER + 1 # h + 1
  BY <1>2, Geometry DEF Addr
<1>10. /\ m0[h] = HEAP_MAGIC /\ SizeOf(m0, h) = n
       /\ m0[h + n - FOOTER] = HEAP_MAGIC /\ m0[h + n - FOOTER + 1] = h
  BY <1>5, <1>8, <1>9 DEF SizeOf, n
<1>11. ASSUME s = s0, \A q \in Holes : EndOf(q) # h
       PROVE  \E m, do_add, p :
                /\ LeftJoined(m, do_add, b, p)
                /\ s = Body(m, index, end_address, p, EndOf(h) - FOOTER, do_add)
  <2>1. \A a \in Addr : a \notin h .. h + n - 1 => m0[a] = mem[a]
    BY <1>2, <1>5
  <2>2. (h + n) - h = n
    BY <1>2
  <2> HIDE DEF m0, s0, s
  <2>3. LeftJoined(m0, TRUE, b, h)
    <3>1. /\ \A q \in Holes : EndOf(q) # Header(b)
          /\ EndOf(Header(b)) = h + n /\ h = Header(b)
      BY <1>2, <1>11 DEF h
    <3>2. SizeOf(m0, h) = (h + n) - h
      BY <1>10, <2>2
    <3> HIDE DEF h
    <3> QED BY <1>2, <1>5, <1>10, <2>1, <3>1, <3>2 DEF LeftJoined
  <2>4. s = Body(m0, index, end_address, h, EndOf(h) - FOOTER, TRUE)
    <3>1. EndOf(h) - FOOTER = h + n - FOOTER
      BY <1>2
    <3> QED BY <1>3, <1>11, <3>1
  <2> WITNESS m0, TRUE, h
  <2> QED BY <2>3, <2>4
<1>12. CASE mem[h - FOOTER] # HEAP_MAGIC
  <2>1. s = s0
    BY <1>4, <1>7, <1>12 DEF UnifyLeft
  <2>2. ASSUME NEW q \in Holes PROVE EndOf(q) # h
    <3>1. SUFFICES ASSUME q + SizeOf(mem, q) = h PROVE FALSE
      BY DEF EndOf
    <3>2. q \in Nat /\ SizeOf(mem, q) \in Nat
      BY PieceFacts, Geometry DEF Pieces, HeaderAddr, Word
    <3>3. q + SizeOf(mem, q) - FOOTER = h - FOOTER /\ h - FOOTER + FOOTER # end_address
      BY <1>2, <3>1, <3>2
    <3>4. HoleTagged(mem, q, end_address)
      BY DEF Base, HoleTags
    <3> QED BY <1>12, <3>3, <3>4 DEF HoleTagged
  <2> HIDE DEF s, s0
  <2> QED BY <1>11, <2>1, <2>2 DEF s, s0, h
<1>13. CASE mem[h - FOOTER] = HEAP_MAGIC
  <2>1. PICK q \in Pieces : EndOf(q) = h /\ left = q
    BY <1>7, <1>13, LeftNeighbour DEF h
  <2>2. /\ q \in Nat /\ q >= START /\ SizeOf(mem, q) \in Nat
        /\ SizeOf(mem, q) >= OVERHEAD /\ q + SizeOf(mem, q) = h
    BY <2>1, PieceFacts, Geometry DEF HeaderAddr, EndOf, Word
  <2>3. \A k \in 0 .. 2 : q + k \in Addr /\ q + k # h + 1
    BY <1>2, <2>2, Geometry DEF Addr
  <2>4. m0[q + 1] = mem[q + 1] /\ SizeOf(m0, q) = SizeOf(mem, q)
    BY <1>5, <2>3 DEF SizeOf
  <2>5. BackedHeader(q)
    <3>1. q + 2 < end_address
      BY <1>2, <2>2
    <3> QED BY <2>2, <3>1, TagsWithin
  <2> HIDE DEF s0, m0
  <2>6. CASE m0[q + 1] # 1
    <3>1. s = s0
      BY <1>4, <1>7, <1>13, <2>1, <2>5, <2>6 DEF UnifyLeft
    <3>2. ASSUME NEW r \in Holes PROVE EndOf(r) # h
      <4>1. SUFFICES ASSUME EndOf(r) = h PROVE FALSE
        OBVIOUS
      <4>2. r \in Pieces /\ r \in Nat /\ SizeOf(mem, r) \in Nat /\ SizeOf(mem, r) >= OVERHEAD
            /\ EndOf(r) = r + SizeOf(mem, r)
        BY PieceFacts, Geometry DEF Pieces, HeaderAddr, EndOf, Word
      <4>3. r = q
        <5>1. r # q => EndOf(q) <= r \/ EndOf(r) <= q
          BY <4>2, Apart
        <5> QED BY <2>1, <2>2, <4>1, <4>2, <5>1
      <4>4. mem[r + 1] = 1
        BY DEF Base, HoleTags, HoleTagged
      <4> QED BY <2>4, <2>6, <4>3, <4>4
    <3> HIDE DEF s
    <3> QED BY <1>11, <3>1, <3>2 DEF s, s0, h
  <2>7. CASE m0[q + 1] = 1
    <3>1. q \in Holes
      <4>1. mem[q + 1] = 1
        BY <2>4, <2>7
      <4>2. ASSUME NEW o \in live PROVE q # Header(o)
        BY <4>1 DEF Base, BoundaryTags, BlockTagged
      <4> QED BY <4>2 DEF Pieces
    <3>2. (SizeOf(m0, q) + SizeOf(m0, h)) % WORD = SizeOf(mem, q) + n
      <4>1. SizeOf(mem, q) + n \in Nat /\ SizeOf(mem, q) + n < WORD
        BY <1>2, <2>2, Geometry
      <4> QED BY <1>10, <2>4, <4>1, NoWrap
    <3> DEFINE m1 == [m0 EXCEPT ![s0.footer + 1] = q, ![q + 2] = SizeOf(mem, q) + n]
    <3>3. s = [s0 EXCEPT !.mem = m1, !.header = q, !.do_add = FALSE]
      BY <1>4, <1>7, <1>13, <2>1, <2>5, <2>7, <3>2 DEF UnifyLeft
    <3>4. m1 = [m0 EXCEPT ![h + n - FOOTER + 1] = q, ![q + 2] = SizeOf(mem, q) + n]
      BY <1>4, Zenon
    <3> HIDE DEF m1
    <3>5. s = Body(m1, index, end_address, q, h + n - FOOTER, FALSE)
      <4> DEFINE foot == h + n - FOOTER
      <4>1. s0 = Body(m0, index, end_address, h, foot, TRUE)
        BY <1>3
      <4> HIDE DEF foot
      <4>2. s = Body(m1, index, end_address, q, foot, FALSE)
        BY <3>3, <4>1 DEF Body
      <4> QED BY <4>2 DEF foot
    <3> HIDE DEF s
    <3>6. q \in Word /\ SizeOf(mem, q) + n \in Word
      BY <1>2, <2>2, Geometry DEF Word
    <3>7. /\ m1 \in [Addr -> Word]
          /\ m1[q + 2] = SizeOf(mem, q) + n /\ m1[h + n - FOOTER + 1] = q
          /\ \A a \in Addr : a \notin {q + 2, h + n - FOOTER + 1} => m1[a] = m0[a]
      <4>1. q + 2 \in Addr /\ q + 2 # h + n - FOOTER + 1
        BY <1>2, <2>2, <2>3
      <4> QED BY <1>5, <1>9, <3>4, <3>6, <4>1
    <3>8. \A a \in Addr : a \notin q .. h + n - 1 => m1[a] = mem[a]
      BY <1>2, <1>5, <2>2, <3>7
    <3>9. m1[h + n - FOOTER] = HEAP_MAGIC
      <4>1. h + n - FOOTER # q + 2 /\ h + n - FOOTER # h + n - FOOTER + 1
        BY <1>2, <2>2
      <4> QED BY <1>9, <1>10, <3>7, <4>1
    <3>10. m1[q] = HEAP_MAGIC /\ m1[q + 1] = 1
      <4>1. mem[q] = HEAP_MAGIC /\ mem[q + 1] = 1
        BY <3>1 DEF Base, HoleTags, HoleTagged
      <4>2. /\ q + 0 \in Addr /\ q + 1 \in Addr /\ q + 0 = q
            /\ q # h + 1 /\ q + 1 # h + 1 /\ q # q + 2 /\ q + 1 # q + 2
            /\ q # h + n - FOOTER + 1 /\ q + 1 # h + n - FOOTER + 1
        BY <1>2, <2>2, <2>3
      <4> QED BY <1>5, <3>7, <4>1, <4>2
    <3>11. SizeOf(m1, q) = (h + n) - q
      <4>1. SizeOf(mem, q) + n = (h + n) - q
        BY <1>2, <2>2
      <4> QED BY <3>7, <4>1 DEF SizeOf
    <3>12. LeftJoined(m1, FALSE, b, q)
      <4>1. /\ EndOf(q) = Header(b) /\ EndOf(Header(b)) = h + n
        BY <1>2, <2>1 DEF h
      <4> QED BY <1>2, <2>2, <3>1, <3>7, <3>8, <3>9, <3>10, <3>11, <4>1 DEF LeftJoined
    <3>13. s = Body(m1, index, end_address, q, EndOf(Header(b)) - FOOTER, FALSE)
      <4>1. EndOf(Header(b)) = h + n
        BY <1>2 DEF h
      <4>2. EndOf(Header(b)) - FOOTER = h + n - FOOTER
        BY <1>2, <4>1
      <4> QED BY <3>5, <4>2
    <3>14. UnifyLeft(MakeHole(b)) = s
      BY DEF s, s0
    <3> WITNESS m1, FALSE, q
    <3> QED BY <3>12, <3>13, <3>14, Zenon
  <2> QED BY <2>6, <2>7
<1> QED BY <1>12, <1>13

-----------------------------------------------------------------------------
(* The other steps.                                                        *)

LEMMA InitEstablishes ==
  ASSUME Init
  PROVE  Base
<1> DEFINE blank == [a \in Addr |-> Unwritten]
           e == START + INITIAL_SIZE
<1>1. /\ mem \in [Addr -> Word]
      /\ mem[START] = HEAP_MAGIC /\ mem[START + 1] = 1 /\ mem[START + 2] = INITIAL_SIZE
      /\ \A a \in Addr : a \notin START .. START + 2 => mem[a] = Unwritten
  <2>1. blank \in [Addr -> Word]
    BY MagicAssumption DEF Word
  <2>2. INITIAL_SIZE \in Word
    BY Geometry DEF Word
  <2>3. mem = PutHeader(blank, START, 1, INITIAL_SIZE)
    BY DEF Init
  <2>4. \A a \in Addr : blank[a] = Unwritten
    OBVIOUS
  <2> HIDE DEF blank
  <2>5. START \in Nat /\ START >= START /\ START + 2 < LIMIT
    BY Geometry
  <2> QED BY <2>1, <2>2, <2>3, <2>4, <2>5, PutHeaderWrites
<1>2. /\ index = <<START>> /\ end_address = e /\ call = Idle
      /\ live = {} /\ status = "running"
  BY DEF Init
<1>3. START \in HeaderAddr /\ e \in START .. LIMIT
  BY Geometry DEF HeaderAddr
<1>4. index \in Seq(HeaderAddr) /\ Len(index) = 1 /\ index[1] = START
  BY <1>2, <1>3
<1>5. Holes = {START}
  BY <1>4, ToSetIsRange DEF Holes
<1>6. Pieces = {START}
  BY <1>2, <1>5 DEF Pieces
<1>7. present \subseteq Nat
  <2>1. PageOf(START) \in Nat /\ PageOf(e - 1) \in Nat
    BY Geometry, PageOfType
  <2>2. present = PageOf(START) .. PageOf(e - 1)
    <3>1. START + INITIAL_SIZE - 1 = e - 1
      BY Geometry
    <3> QED BY <3>1, Zenon DEF Init
  <2> QED BY <2>1, <2>2
<1>8. HeapTypes
  BY <1>1, <1>2, <1>3, <1>4, <1>7 DEF HeapTypes, Calls
<1>12. AllPresent /\ KeepsRunning
  <2>1. ASSUME NEW a \in START .. e - 1
        PROVE  PageOf(a) \in PageOf(START) .. PageOf(e - 1)
    BY Geometry DEF PageOf
  <2>2. START + INITIAL_SIZE - 1 = e - 1
    BY Geometry
  <2>3. present = PageOf(START) .. PageOf(e - 1)
    BY <2>2, Zenon DEF Init
  <2> QED BY <1>2, <2>1, <2>3 DEF AllPresent, KeepsRunning
<1>9. FreeSpaceIndexed
  <2>1. SizeOf(mem, START) = INITIAL_SIZE
    BY <1>1 DEF SizeOf
  <2>2. Tiles(Pieces, mem, end_address)
    BY <1>2, <1>6, <2>1, Geometry DEF Tiles
  <2> QED BY <1>2, <1>4, <2>2 DEF FreeSpaceIndexed
<1>10. HoleTags
  <2>1. START + INITIAL_SIZE - FOOTER + FOOTER = end_address /\ INITIAL_SIZE >= OVERHEAD
    BY <1>2, Geometry
  <2> QED BY <1>1, <1>5, <2>1 DEF HoleTags, HoleTagged, SizeOf
<1>11. NothingBelow
  <2>1. START - FOOTER \in Addr /\ START - FOOTER \notin START .. START + 2
    BY Geometry DEF Addr
  <2> QED BY <1>1, <2>1, MagicAssumption DEF NothingBelow
<1> QED BY <1>2, <1>8, <1>9, <1>10, <1>11, <1>12 DEF Base, BoundaryTags, CallServed

LEMMA CallPreserves ==
  ASSUME Base, Growth = "tail", NEW size \in Sizes, NEW align \in Aligns,
         Call(size, align)
  PROVE  Base'
<1>1. /\ call' = [size |-> size, align |-> align]
      /\ UNCHANGED <<mem, index, end_address, present, live, status>>
  BY DEF Call
<1>2. Holes' = Holes /\ Pieces' = Pieces
  BY <1>1 DEF Holes, Pieces
<1>3. HeapTypes'
  BY <1>1, SizesPositive, CallerAssumption DEF Base, HeapTypes, Calls
<1>4. CallServed'
  <2>1. \/ index = <<>>
        \/ \E h \in Holes : EndOf(h) = end_address
        \/ \E h \in Holes : SizeOf(mem, h) >= size + OVERHEAD
    BY DEF Call, MayRequest
  <2>2. call'.size = size
    BY <1>1
  <2> QED BY <1>1, <1>2, <2>1, <2>2 DEF CallServed, EndOf
<1>5. /\ FreeSpaceIndexed' /\ BoundaryTags' /\ HoleTags' /\ NothingBelow'
      /\ AllPresent' /\ KeepsRunning'
  BY <1>1, <1>2 DEF Base, FreeSpaceIndexed, BoundaryTags, HoleTags, NothingBelow,
                    AllPresent, KeepsRunning
<1> QED BY <1>3, <1>4, <1>5 DEF Base

(* Words of the block b change, and no others.                             *)
Stores(b) ==
  /\ mem' \in [Addr -> Word]
  /\ \A a \in Addr : a \notin Payload(b) => mem'[a] = mem[a]
  /\ call = Idle /\ call' = Idle
  /\ UNCHANGED <<index, end_address, live, status>>
  /\ present \subseteq present' /\ present' \subseteq Nat

LEMMA StoresPreserve ==
  ASSUME Base, NEW b \in live, Stores(b)
  PROVE  Base' /\ \A q \in Pieces : SizeOf(mem', q) = SizeOf(mem, q)
<1> DEFINE h == Header(b)
           n == SizeOf(mem, h)
           lo == b.ptr
           hi == b.ptr + b.size
<1>1. h \in Pieces
  BY DEF Pieces
<1>2. /\ h \in Nat /\ h >= START /\ n \in Nat /\ n >= OVERHEAD
      /\ h + n <= end_address /\ end_address \in Nat /\ end_address <= LIMIT
      /\ mem \in [Addr -> Word] /\ EndOf(h) = h + n
  BY <1>1, PieceFacts, Geometry DEF HeaderAddr, EndOf, Word, Base, HeapTypes
<1>3. lo \in Nat /\ hi \in Nat /\ lo = h + HEADER /\ hi <= h + n - FOOTER /\ lo < hi
  <2>1. b.ptr \in START + HEADER .. LIMIT - FOOTER /\ b.size \in Positive
    BY DEF Base, HeapTypes
  <2>2. b.size \in Nat /\ b.size > 0
    BY <2>1, SizesPositive
  <2>3. n >= b.size + OVERHEAD
    BY DEF Base, BoundaryTags, BlockTagged
  <2> QED BY <1>2, <2>1, <2>2, <2>3, Geometry DEF Header
<1>4. /\ UNCHANGED <<index, end_address, live, status>> /\ call' = Idle
      /\ present \subseteq present' /\ present' \subseteq Nat
  BY DEF Stores
<1>15. Payload(b) = lo .. hi - 1
  <2>1. b.ptr + b.size - 1 = hi - 1
    <3>1. b.ptr \in Nat /\ b.size \in Nat
      BY SizesPositive, Geometry DEF Base, HeapTypes
    <3> QED BY <3>1
  <2> QED BY <2>1, Zenon DEF Payload
<1> HIDE DEF h, n, lo, hi
<1>5. /\ mem' \in [Addr -> Word]
      /\ \A a \in Addr : a \notin lo .. hi - 1 => mem'[a] = mem[a]
  BY <1>15 DEF Stores
<1>6. Holes' = Holes /\ Pieces' = Pieces
  BY <1>4 DEF Holes, Pieces
<1>7. ASSUME NEW q \in Pieces
      PROVE  /\ SizeOf(mem', q) = SizeOf(mem, q)
             /\ \A o : Header(o) = q /\ BlockTagged(mem, o) => BlockTagged(mem', o)
             /\ \A x : HoleTagged(mem, q, x) => HoleTagged(mem', q, x)
  <2>1. CASE q # h
    <3>1. EndOf(q) <= lo \/ hi <= q
      <4>1. EndOf(q) <= h \/ h + n <= q
        BY <1>1, <1>2, <2>1, Apart
      <4>2. q \in Nat /\ SizeOf(mem, q) \in Nat /\ EndOf(q) = q + SizeOf(mem, q)
        BY PieceFacts, Geometry DEF HeaderAddr, EndOf, Word
      <4> QED BY <1>2, <1>3, <4>1, <4>2
    <3> QED BY <1>3, <1>5, <3>1, TagsKept
  <2>2. CASE q = h
    <3>1. \A k \in {0, 1, 2, n - 2, n - 1} : h + k \in Addr /\ h + k \notin lo .. hi - 1
      BY <1>2, <1>3, Geometry DEF Addr
    <3>2. \A k \in {0, 1, 2, n - 2, n - 1} : mem'[h + k] = mem[h + k]
      BY <1>5, <3>1
    <3>3. /\ h + 0 = h /\ h + (n - 2) = h + n - FOOTER
          /\ h + (n - 1) = h + n - FOOTER + 1
      BY <1>2
    <3>4. /\ mem'[h] = mem[h] /\ mem'[h + 1] = mem[h + 1]
          /\ SizeOf(mem', h) = n /\ SizeOf(mem, h) = n
          /\ mem'[h + n - FOOTER] = mem[h + n - FOOTER]
          /\ mem'[h + n - FOOTER + 1] = mem[h + n - FOOTER + 1]
      <4>1. mem'[h + 0] = mem[h + 0] /\ mem'[h + 1] = mem[h + 1] /\ mem'[h + 2] = mem[h + 2]
        BY <3>2
      <4>2. /\ mem'[h + (n - 2)] = mem[h + (n - 2)]
            /\ mem'[h + (n - 1)] = mem[h + (n - 1)]
        BY <3>2
      <4> QED BY <3>3, <4>1, <4>2 DEF SizeOf, n
    <3>5. \A o : Header(o) = h /\ BlockTagged(mem, o) => BlockTagged(mem', o)
      BY <3>4, Zenon DEF BlockTagged
    <3>6. \A x : HoleTagged(mem, h, x) => HoleTagged(mem', h, x)
      BY <3>4, Zenon DEF HoleTagged
    <3> QED BY <2>2, <3>4, <3>5, <3>6
  <2> QED BY <2>1, <2>2
<1>8. HeapTypes'
  BY <1>4, <1>5 DEF Base, HeapTypes, Calls
<1>9. FreeSpaceIndexed'
  <2>1. Tiles(Pieces, mem', end_address)
    BY <1>7 DEF Base, FreeSpaceIndexed, Tiles
  <2> QED BY <1>4, <1>6, <2>1 DEF Base, FreeSpaceIndexed
<1>10. BoundaryTags'
  BY <1>4, <1>7 DEF Base, BoundaryTags, Pieces
<1>11. HoleTags'
  BY <1>4, <1>6, <1>7 DEF Base, HoleTags, Pieces
<1>12. NothingBelow'
  <2>1. START - FOOTER \in Addr /\ START - FOOTER \notin lo .. hi - 1
    BY <1>2, <1>3, Geometry DEF Addr
  <2> QED BY <1>5, <2>1 DEF Base, NothingBelow
<1>13. AllPresent' /\ KeepsRunning'
  BY <1>4 DEF Base, AllPresent, KeepsRunning
<1>14. Base'
  BY <1>4, <1>8, <1>9, <1>10, <1>11, <1>12, <1>13 DEF Base, CallServed
<1> QED BY <1>7, <1>14

LEMMA UserStoresPreserves ==
  ASSUME Base, NEW b \in live, NEW w \in UserWords, UserStores(b, w)
  PROVE  Base' /\ \A q \in Pieces : SizeOf(mem', q) = SizeOf(mem, q)
<1>1. w \in Word
  BY CallerAssumption DEF Word
<1>2. mem \in [Addr -> Word] /\ present \subseteq Nat
  BY DEF Base, HeapTypes
<1>3. /\ mem' = [a \in Addr |-> IF a \in Payload(b) THEN w ELSE mem[a]]
      /\ call = Idle /\ UNCHANGED <<index, end_address, present, call, live, status>>
  BY DEF UserStores
<1>4. mem' \in [Addr -> Word] /\ \A a \in Addr : a \notin Payload(b) => mem'[a] = mem[a]
  BY <1>1, <1>2, <1>3
<1>5. Stores(b)
  BY <1>2, <1>3, <1>4 DEF Stores
<1> QED BY <1>5, StoresPreserve

-----------------------------------------------------------------------------
(* free, behind unify left: unify right, contract and the index.           *)

(* The search of RemoveHole finds a hole of the index and removes it.      *)
LEMMA RemoveHoleItems ==
  ASSUME NEW S, NEW idx \in Seq(S), Unique(idx), NEW g \in ToSet(idx),
         NEW m, NEW end, NEW header, NEW footer, NEW do_add
  PROVE  \E r \in Seq(S) :
           /\ ToSet(r) = ToSet(idx) \ {g} /\ Unique(r)
           /\ RemoveHole(Body(m, idx, end, header, footer, do_add), g)
                = Body(m, r, end, header, footer, do_add)
<1> DEFINE I == {j \in 1 .. Len(idx) : idx[j] = g}
           found == SelectInSeq(idx, LAMBDA x : x = g)
           s == Body(m, idx, end, header, footer, do_add)
           i == IF found = 0 THEN Len(idx) + 1 ELSE found
<1>1. PICK k \in 1 .. Len(idx) : g = idx[k]
  BY ToSetIsRange
<1>2. \E j \in I : \A n \in I : j <= n
  <2>1. I \subseteq Nat /\ I # {}
    BY <1>1
  <2> QED BY <2>1, LeastElement, Zenon
<1>3. found = Min(I)
  <2>1. I # {}
    BY <1>1
  <2> QED BY <2>1, Zenon DEF SelectInSeq
<1>4. found \in 1 .. Len(idx) /\ idx[found] = g
  BY <1>2, <1>3 DEF Min
<1> HIDE DEF found
<1>5. i = found /\ remove_ordered_array(i, idx) = RemoveAt(idx, found)
  BY <1>4 DEF remove_ordered_array
<1>6. idx # <<>>
  BY <1>1
<1>7. s.index = idx
  BY DEF Body
<1>8. RemoveHole(s, g) = [s EXCEPT !.index = remove_ordered_array(i, s.index)]
  BY <1>6, <1>7, Zenon DEF RemoveHole, found
<1>9. RemoveHole(s, g) = [s EXCEPT !.index = RemoveAt(idx, found)]
  BY <1>5, <1>7, <1>8, Zenon
<1>10. RemoveHole(s, g) = Body(m, RemoveAt(idx, found), end, header, footer, do_add)
  BY <1>9, Zenon DEF Body
<1>11. /\ RemoveAt(idx, found) \in Seq(S) /\ Unique(RemoveAt(idx, found))
       /\ ToSet(RemoveAt(idx, found)) = ToSet(idx) \ {g}
  BY <1>4, RemoveAtProperties, RemoveAtItems
<1> QED BY <1>10, <1>11, Zenon

(* Neither unify right nor contract does anything when the piece at g,     *)
(* behind the hole, is a block.                                            *)
LEMMA RightOfBlock ==
  ASSUME Base, NEW m, NEW p, NEW do_add, NEW lost,
         NEW g \in Nat, START <= g, g + 2 < end_address, m[g + 1] = 0
  PROVE  LET s == Body(m, index, end_address, p, g - FOOTER, do_add)
         IN ContractTail(UnifyRight(s), lost) = s
<1> DEFINE s == Body(m, index, end_address, p, g - FOOTER, do_add)
<1>1. /\ s.status = "running" /\ s.footer + FOOTER = g /\ s.end = end_address
      /\ s.mem[g + 1] = 0
  BY DEF Body
<1>2. BackedHeader(g)
  BY TagsWithin
<1> HIDE DEF s
<1>3. UnifyRight(s) = s
  BY <1>1, <1>2, Zenon DEF UnifyRight
<1>4. g # end_address
  BY PieceFacts
<1>5. ContractTail(s, lost) = s
  BY <1>1, <1>4, Zenon DEF ContractTail
<1> QED BY <1>3, <1>5 DEF s

LEMMA Quotient ==
  /\ \A x \in Nat : x % PAGE = 0 => x \div PAGE \in Nat /\ x = PAGE * (x \div PAGE)
  /\ \A a \in Nat : PAGE * (a \div PAGE) <= a /\ a \div PAGE \in Nat
  /\ \A k \in Nat : (PAGE * k) \div PAGE = k
  BY Geometry

LEMMA ContractedToMinimum ==
  ASSUME NEW n \in Nat, n < HEAP_MIN_SIZE
  PROVE  ContractedSize(n) = HEAP_MIN_SIZE
<1> DEFINE x == IF (n \div PAGE) % 2 = 1 THEN 2 * PAGE ELSE n
<1>1. HEAP_MIN_SIZE \in Nat /\ HEAP_MIN_SIZE % PAGE = 0 /\ PAGE \in Nat /\ PAGE > 0
  BY GeometryAssumption
<1>2. x \in Nat /\ x <= HEAP_MIN_SIZE
  <2>1. CASE (n \div PAGE) % 2 = 1
    <3> DEFINE k == n \div PAGE
               o == HEAP_MIN_SIZE \div PAGE
    <3>1. k \in Nat /\ k >= 1 /\ o \in Nat
      BY <1>1, <2>1, Quotient
    <3>2. PAGE * k < PAGE * o
      BY <1>1, Quotient
    <3> HIDE DEF k, o
    <3>3. o > k
      BY <1>1, <3>1, <3>2
    <3>4. o >= 2
      BY <3>1, <3>3
    <3>5. 2 * PAGE <= PAGE * o
      BY <1>1, <3>1, <3>4
    <3> QED BY <1>1, <2>1, <3>5, Quotient DEF o
  <2>2. CASE (n \div PAGE) % 2 # 1
    BY <1>1, <2>2
  <2> QED BY <2>1, <2>2
<1> HIDE DEF x
<1>3. Max({HEAP_MIN_SIZE, x}) = HEAP_MIN_SIZE
  BY <1>1, <1>2 DEF Max
<1> QED BY <1>3, Zenon DEF ContractedSize, x

(* contract gives back no page at or below the new end.                    *)
LEMMA FreedAbove ==
  ASSUME NEW old \in Nat, old % PAGE = 0, NEW new \in Nat, NEW a \in Nat,
         PageOf(a) \in FreedPages(old, new)
  PROVE  a > START + new
<1>1. PICK k \in 1 .. old \div PAGE : new < old - k * PAGE
                                      /\ PageOf(a) = PageOf(START + old - k * PAGE)
  BY DEF FreedPages
<1> DEFINE s == START \div PAGE
           o == old \div PAGE
<1>2. /\ START = PAGE * s /\ old = PAGE * o /\ s \in Nat /\ o \in Nat
      /\ PAGE \in Nat /\ k \in Nat /\ k <= o
  BY <1>1, Quotient, GeometryAssumption
<1> HIDE DEF s, o
<1>3. START + old - k * PAGE = PAGE * (s + o - k) /\ s + o - k \in Nat
  BY <1>2
<1>4. PageOf(a) = s + o - k
  BY <1>1, <1>3, Quotient DEF PageOf
<1>5. PAGE * (s + o - k) <= a
  BY <1>4, Quotient DEF PageOf
<1> HIDE DEF PageOf
<1>6. START + new < START + old - k * PAGE
  BY <1>1, <1>2
<1> QED BY <1>2, <1>3, <1>5, <1>6

(* Unify right takes in the hole g that reaches the end of the heap.       *)
TakesIn(s, m, p, g, do_add) ==
  \E r \in Seq(HeaderAddr) :
    /\ ToSet(r) = Holes \ {g} /\ Unique(r)
    /\ UnifyRight(s) = Body([m EXCEPT ![p + 2] = end_address - p], r, end_address, p,
                            end_address - FOOTER, do_add)

LEMMA RightOfHole ==
  ASSUME Base, NEW g \in Holes, EndOf(g) = end_address, NEW do_add,
         NEW p \in Nat, START <= p, p + OVERHEAD <= g,
         NEW m \in [Addr -> Word], SizeOf(m, p) = g - p,
         \A a \in Addr : a \notin p .. g - 1 => m[a] = mem[a],
         NEW f, f = g - FOOTER, NEW s, s = Body(m, index, end_address, p, f, do_add)
  PROVE  TakesIn(s, m, p, g, do_add)
<1> DEFINE n == SizeOf(mem, g)
           m2 == [m EXCEPT ![p + 2] = end_address - p]
           merged == Body(m2, index, end_address, p, end_address - FOOTER, do_add)
<1>1. g \in Pieces
  BY DEF Pieces
<1>2. /\ g \in Nat /\ START <= g /\ n \in Nat /\ n >= OVERHEAD
      /\ g + n = end_address /\ end_address \in Nat /\ end_address <= LIMIT
  BY <1>1, PieceFacts, Geometry DEF HeaderAddr, EndOf, Word
<1>3. mem[g] = HEAP_MAGIC /\ mem[g + 1] = 1
  BY DEF Base, HoleTags, HoleTagged
<1>4. /\ g \in Addr /\ g + 1 \in Addr /\ g + 2 \in Addr
      /\ g \notin p .. g - 1 /\ g + 1 \notin p .. g - 1 /\ g + 2 \notin p .. g - 1
  <2>1. START \in Nat /\ LIMIT \in Nat /\ START - FOOTER <= g /\ g + 2 <= LIMIT - 1
    BY <1>2, Geometry
  <2>2. g \in Addr /\ g + 1 \in Addr /\ g + 2 \in Addr
    BY <1>2, <2>1 DEF Addr
  <2>3. /\ g \notin p .. g - 1 /\ g + 1 \notin p .. g - 1 /\ g + 2 \notin p .. g - 1
    BY <1>2
  <2> QED BY <2>2, <2>3
<1>5. m[g] = HEAP_MAGIC /\ m[g + 1] = 1 /\ SizeOf(m, g) = n
  BY <1>3, <1>4 DEF SizeOf, n
<1> HIDE DEF n
<1>6. (SizeOf(m, p) + n) % WORD = end_address - p
  <2>1. SizeOf(m, p) + n = end_address - p
    BY <1>2
  <2>2. end_address - p \in Nat /\ end_address - p < WORD
    BY <1>2, Geometry
  <2> QED BY <2>1, <2>2, NoWrap
<1>7. BackedHeader(g)
  <2>1. g + 2 < end_address
    BY <1>2
  <2> QED BY <1>2, <2>1, TagsWithin
<1>8. /\ s.status = "running" /\ s.footer + FOOTER = g /\ s.header = p
      /\ s.mem = m
  BY <1>2 DEF Body
<1>9. UnifyRight(s)
        = RemoveHole([s EXCEPT !.mem = [@ EXCEPT ![p + 2] = end_address - p],
                               !.footer = g + n - FOOTER], g)
  <2>1. 1 # 0
    OBVIOUS
  <2> QED BY <1>5, <1>6, <1>7, <1>8, <2>1, Zenon DEF UnifyRight
<1>10. [s EXCEPT !.mem = [@ EXCEPT ![p + 2] = end_address - p],
                 !.footer = g + n - FOOTER] = merged
  <2> DEFINE foot == g + n - FOOTER
  <2>1. foot = end_address - FOOTER
    BY <1>2
  <2> HIDE DEF foot
  <2>2. [s EXCEPT !.mem = [@ EXCEPT ![p + 2] = end_address - p], !.footer = foot]
          = [s EXCEPT !.mem = m2, !.footer = foot]
    BY <1>8, Zenon
  <2> HIDE DEF m2
  <2>3. [s EXCEPT !.mem = m2, !.footer = foot]
          = Body(m2, index, end_address, p, foot, do_add)
    <3> DEFINE s1 == Body(m, index, end_address, p, f, do_add)
               s2 == Body(m2, index, end_address, p, f, do_add)
    <3>1. s = s1
      OBVIOUS
    <3>2. [s1 EXCEPT !.mem = m2] = s2
      BY DEF Body
    <3>3. [s2 EXCEPT !.footer = foot] = Body(m2, index, end_address, p, foot, do_add)
      BY DEF Body
    <3> HIDE DEF s1, s2
    <3>4. [s EXCEPT !.mem = m2, !.footer = foot]
            = [[s EXCEPT !.mem = m2] EXCEPT !.footer = foot]
      BY Zenon
    <3> QED BY <3>1, <3>2, <3>3, <3>4, Zenon
  <2> QED BY <2>1, <2>2, <2>3 DEF foot
<1> HIDE DEF m2, merged
<1>11. index \in Seq(HeaderAddr) /\ Unique(index) /\ g \in ToSet(index)
  BY DEF Base, HeapTypes, FreeSpaceIndexed, Unique, Holes
<1>12. PICK r \in Seq(HeaderAddr) :
         /\ ToSet(r) = ToSet(index) \ {g} /\ Unique(r)
         /\ RemoveHole(merged, g)
              = Body(m2, r, end_address, p, end_address - FOOTER, do_add)
  <2>1. PICK idx, end, foot :
          idx = index /\ end = end_address /\ foot = end_address - FOOTER
    OBVIOUS
  <2>2. idx \in Seq(HeaderAddr) /\ Unique(idx) /\ g \in ToSet(idx)
        /\ merged = Body(m2, idx, end, p, foot, do_add)
    BY <1>11, <2>1 DEF merged
  <2>3. PICK r \in Seq(HeaderAddr) :
          /\ ToSet(r) = ToSet(idx) \ {g} /\ Unique(r)
          /\ RemoveHole(Body(m2, idx, end, p, foot, do_add), g)
               = Body(m2, r, end, p, foot, do_add)
    BY <2>2, RemoveHoleItems
  <2> QED BY <2>1, <2>2, <2>3, Zenon
<1>13. UnifyRight(s) = Body(m2, r, end_address, p, end_address - FOOTER, do_add)
  BY <1>9, <1>10, <1>12, Zenon
<1> QED BY <1>12, <1>13, Zenon DEF TakesIn, Holes, m2

(* contract cuts the tail p of e words down to the end of the words it     *)
(* keeps, whichever of the freed pages the processor has forgotten.        *)
CutsDown(s, lost, m, r, e, p, do_add) ==
  \E n \in [Addr -> Word] :
    /\ n[p] = HEAP_MAGIC /\ n[p + 1] = 1
    /\ SizeOf(n, p) = START + HEAP_MIN_SIZE - p
    /\ n[START + HEAP_MIN_SIZE - FOOTER] = HEAP_MAGIC
    /\ n[START + HEAP_MIN_SIZE - FOOTER + 1] = p
    /\ \A a \in Addr : a < p => n[a] = m[a]
    /\ ContractTail(s, lost)
         = Body(n, r, START + HEAP_MIN_SIZE, p, e - FOOTER, do_add)

LEMMA TailContracted ==
  ASSUME NEW e \in Nat, START + HEAP_MIN_SIZE <= e, e <= LIMIT, (e - START) % PAGE = 0,
         NEW p \in Nat, START <= p, p + OVERHEAD <= START + HEAP_MIN_SIZE,
         NEW m \in [Addr -> Word], SizeOf(m, p) = e - p,
         m[p] = HEAP_MAGIC, m[p + 1] = 1,
         \A f : f = START + HEAP_MIN_SIZE - FOOTER => BackedFooter(f),
         NEW r, NEW do_add, NEW lost \in BOOLEAN,
         NEW f, f = e - FOOTER, NEW s, s = Body(m, r, e, p, f, do_add)
  PROVE  CutsDown(s, lost, m, r, e, p, do_add)
<1> DEFINE e2 == START + HEAP_MIN_SIZE
           freed == IF lost THEN FreedPages(e - START, HEAP_MIN_SIZE) ELSE {}
           m1 == [a \in Addr |-> IF PageOf(a) \in freed THEN Unwritten ELSE m[a]]
           m2 == [m1 EXCEPT ![p + 2] = e2 - p]
           n == PutFooter(m2, e2 - FOOTER, p)
<1>1. /\ HEAP_MIN_SIZE \in Nat /\ START \in Nat /\ LIMIT \in Nat /\ LIMIT < WORD
      /\ START > 5 /\ WORD \in Nat
      /\ e2 \in Nat /\ e2 <= e /\ p + 5 <= e2 /\ e2 = START + HEAP_MIN_SIZE
      /\ e - START \in Nat
  BY Geometry, GeometryAssumption
<1>2. /\ s.status = "running" /\ s.footer = e - FOOTER /\ s.end = e /\ s.header = p
      /\ s.mem = m
  BY DEF Body
<1>3. ContractedSize(p - START) = HEAP_MIN_SIZE
  <2>1. p - START \in Nat /\ p - START < HEAP_MIN_SIZE
    BY <1>1
  <2> QED BY <2>1, ContractedToMinimum
<1>4. ASSUME NEW a \in Addr, a < e2 PROVE m1[a] = m[a]
  <2>1. CASE a >= START
    <3>1. a \in Nat
      BY <1>1, <2>1 DEF Addr
    <3>2. PageOf(a) \notin FreedPages(e - START, HEAP_MIN_SIZE)
      BY <1>1, <1>4, <3>1, FreedAbove
    <3> QED BY <3>2
  <2>2. CASE a < START
    <3>1. a \in Nat
      BY <1>1 DEF Addr
    <3>2. PageOf(a) \notin FreedPages(e - START, HEAP_MIN_SIZE)
      BY <1>1, <1>4, <3>1, FreedAbove
    <3> QED BY <3>2
  <2>3. a \in Int
    BY <1>1 DEF Addr
  <2> QED BY <1>1, <2>1, <2>2, <2>3
<1>5. m1 \in [Addr -> Word]
  BY MagicAssumption DEF Word
<1> HIDE DEF m1
<1>6. /\ p \in Addr /\ p + 1 \in Addr /\ p + 2 \in Addr
      /\ e2 - 2 \in Addr /\ e2 - 1 \in Addr
  BY <1>1 DEF Addr
<1>7. /\ m1[p] = HEAP_MAGIC /\ m1[p + 1] = 1 /\ SizeOf(m1, p) = e - p
  BY <1>1, <1>4, <1>6 DEF SizeOf
<1> HIDE DEF e2
<1>8. /\ m2 \in [Addr -> Word]
      /\ m2[p] = HEAP_MAGIC /\ m2[p + 1] = 1 /\ SizeOf(m2, p) = e2 - p
      /\ \A a \in Addr : a < p => m2[a] = m[a]
  <2>1. e2 - p \in Word
    BY <1>1 DEF Word
  <2>2. p # p + 2 /\ p + 1 # p + 2
    BY <1>1
  <2>3. \A a \in Addr : a < p => a # p + 2 /\ a < e2
    BY <1>1 DEF Addr
  <2> QED BY <1>4, <1>5, <1>6, <1>7, <2>1, <2>2, <2>3 DEF SizeOf
<1> HIDE DEF m2
<1>9. /\ n \in [Addr -> Word]
      /\ n[e2 - FOOTER] = HEAP_MAGIC /\ n[e2 - FOOTER + 1] = p
      /\ \A a \in Addr : a \notin e2 - FOOTER .. e2 - FOOTER + 1 => n[a] = m2[a]
  <2>1. /\ e2 - FOOTER \in Nat /\ e2 - FOOTER >= START /\ e2 - FOOTER + 1 < LIMIT
        /\ p \in Word
    BY <1>1 DEF Word
  <2> QED BY <1>8, <2>1, PutFooterWrites
<1> HIDE DEF n
<1>10. /\ n[p] = HEAP_MAGIC /\ n[p + 1] = 1 /\ SizeOf(n, p) = e2 - p
       /\ \A a \in Addr : a < p => n[a] = m[a]
  <2>1. \A a \in Addr : a <= p + 2 => a \notin e2 - FOOTER .. e2 - FOOTER + 1
    BY <1>1 DEF Addr
  <2>2. n[p] = m2[p] /\ n[p + 1] = m2[p + 1] /\ n[p + 2] = m2[p + 2]
    BY <1>1, <1>6, <1>9, <2>1
  <2>3. \A a \in Addr : a < p => a <= p + 2
    BY <1>1 DEF Addr
  <2> QED BY <1>8, <1>9, <2>1, <2>2, <2>3 DEF SizeOf
<1>11. ContractTail(s, lost) = Body(n, r, e2, p, e - FOOTER, do_add)
  <2>1. Sub(SizeOf(m1, p), (e - START) - HEAP_MIN_SIZE) = e2 - p
    <3>1. (e - p) - ((e - START) - HEAP_MIN_SIZE) = e2 - p
      BY <1>1
    <3>2. e2 - p \in Nat /\ e2 - p < WORD
      BY <1>1
    <3> QED BY <1>7, <3>1, <3>2, NoWrap DEF Sub
  <2>2. (p + (e2 - p) - FOOTER) % WORD = e2 - FOOTER
    <3>1. p + (e2 - p) - FOOTER = e2 - FOOTER /\ e2 - FOOTER \in Nat /\ e2 - FOOTER < WORD
      BY <1>1
    <3> QED BY <3>1, NoWrap
  <2>3. e - FOOTER + FOOTER = e /\ e2 - p # 0 /\ e2 = START + HEAP_MIN_SIZE
    BY <1>1
  <2>4. BackedFooter(e2 - FOOTER)
    BY <1>1
  <2> DEFINE old == s.end - START
             new == ContractedSize(s.header - START)
             gone == IF lost THEN FreedPages(old, new) ELSE {}
             M == [a \in Addr |-> IF PageOf(a) \in gone THEN Unwritten ELSE s.mem[a]]
             length == Sub(SizeOf(M, s.header), old - new)
             foot == (s.header + length - FOOTER) % WORD
             shrunk == [s EXCEPT !.mem = M, !.end = START + new]
  <2>5. M = m1 /\ old = e - START /\ new = HEAP_MIN_SIZE
    BY <1>2, <1>3, Zenon DEF m1
  <2>6. ContractTail(s, lost)
          = IF s.status # "running" \/ s.footer + FOOTER # s.end THEN s
            ELSE IF length = 0 THEN shrunk
            ELSE IF ~ BackedFooter(foot) THEN [s EXCEPT !.status = "panic"]
            ELSE [shrunk EXCEPT !.mem = PutFooter([@ EXCEPT ![s.header + 2] = length],
                                                  foot, s.header)]
    BY Zenon DEF ContractTail
  <2> HIDE DEF M, old, new
  <2>7. length = e2 - p /\ foot = e2 - FOOTER
    BY <1>2, <2>1, <2>2, <2>5, Zenon
  <2>8. shrunk = [s EXCEPT !.mem = m1, !.end = e2]
    BY <2>3, <2>5, Zenon
  <2> HIDE DEF length, foot, shrunk
  <2>9. ContractTail(s, lost)
          = [shrunk EXCEPT !.mem = PutFooter([@ EXCEPT ![p + 2] = e2 - p],
                                             e2 - FOOTER, p)]
    BY <1>2, <2>3, <2>4, <2>6, <2>7, Zenon
  <2> DEFINE fo == e - FOOTER
             s0 == Body(m, r, e, p, fo, do_add)
             s1 == Body(m1, r, e, p, fo, do_add)
             s2 == Body(m1, r, e2, p, fo, do_add)
  <2>10. s = s0
    OBVIOUS
  <2> HIDE DEF fo
  <2>11. [s0 EXCEPT !.mem = m1] = s1 /\ [s1 EXCEPT !.end = e2] = s2
    BY DEF Body
  <2>12. s2.mem = m1 /\ [s2 EXCEPT !.mem = n] = Body(n, r, e2, p, fo, do_add)
    BY DEF Body
  <2> HIDE DEF s0, s1, s2
  <2>13. [s EXCEPT !.mem = m1, !.end = e2] = [[s EXCEPT !.mem = m1] EXCEPT !.end = e2]
    BY Zenon
  <2>14. shrunk = s2
    BY <2>8, <2>10, <2>11, <2>13, Zenon
  <2>15. PutFooter([shrunk.mem EXCEPT ![p + 2] = e2 - p], e2 - FOOTER, p) = n
    BY <2>12, <2>14, Zenon DEF n, m2
  <2>16. ContractTail(s, lost) = [s2 EXCEPT !.mem = n]
    BY <2>9, <2>14, <2>15, Zenon
  <2> QED BY <2>12, <2>16 DEF fo
<1>12. /\ n[e2 - FOOTER] = HEAP_MAGIC /\ n[e2 - FOOTER + 1] = p
       /\ n \in [Addr -> Word]
  BY <1>9
<1>13. /\ n[START + HEAP_MIN_SIZE - FOOTER] = HEAP_MAGIC
       /\ n[START + HEAP_MIN_SIZE - FOOTER + 1] = p
       /\ SizeOf(n, p) = START + HEAP_MIN_SIZE - p
  BY <1>1, <1>10, <1>12
<1>14. ContractTail(s, lost)
         = Body(n, r, START + HEAP_MIN_SIZE, p, e - FOOTER, do_add)
  BY <1>11 DEF e2
<1> QED BY <1>10, <1>12, <1>13, <1>14, Zenon DEF CutsDown

(* The step of free: block b is now part of the hole p, which ends at q;   *)
(* words p .. hi - 1 may have changed, and no hole begins where b ended.   *)
Frees(b, p, q, hi) ==
  LET h == Header(b)
  IN /\ UNCHANGED <<present, call, status>> /\ call = Idle /\ live' = live \ {b}
     /\ \/ p = h /\ \A x \in Holes : EndOf(x) # h
        \/ p \in Holes /\ EndOf(p) = h
     /\ mem' \in [Addr -> Word]
     /\ mem'[p] = HEAP_MAGIC /\ mem'[p + 1] = 1 /\ SizeOf(mem', p) = q - p
     /\ mem'[q - FOOTER] = HEAP_MAGIC /\ mem'[q - FOOTER + 1] = p
     /\ \A a \in Addr : a \notin p .. hi - 1 => mem'[a] = mem[a]
     /\ index' \in Seq(HeaderAddr) /\ Unique(index')
     /\ Holes' = (Holes \ {EndOf(h)}) \cup {p}

(* Another block follows b.                                                *)
FreesInner(b, p) ==
  LET g == EndOf(Header(b))
  IN /\ \E c \in live : Header(c) = g
     /\ Frees(b, p, g, g) /\ end_address' = end_address

(* The hole that reaches the end of the heap follows b.                    *)
BeforeTail(b) ==
  LET g == EndOf(Header(b))
  IN /\ g \in Holes /\ EndOf(g) = end_address
     /\ g + OVERHEAD <= START + HEAP_MIN_SIZE
     /\ START + HEAP_MIN_SIZE <= end_address /\ (end_address - START) % PAGE = 0
FreesTail(b, p) ==
  /\ BeforeTail(b)
  /\ Frees(b, p, START + HEAP_MIN_SIZE, LIMIT)
  /\ end_address' = START + HEAP_MIN_SIZE

(* The index behind a call of free.                                        *)
LEMMA FreedIndex ==
  ASSUME NEW r \in Seq(HeaderAddr), Unique(r), NEW p \in HeaderAddr, NEW do_add,
         NEW m, \/ do_add /\ p \notin ToSet(r)
                \/ ~ do_add /\ p \in ToSet(r)
  PROVE  LET r2 == IF do_add THEN InsertHole(m, r, p) ELSE r
         IN r2 \in Seq(HeaderAddr) /\ Unique(r2) /\ ToSet(r2) = ToSet(r) \cup {p}
<1>1. CASE do_add
  <2>1. p \notin ToSet(r)
    BY <1>1
  <2>2. /\ InsertHole(m, r, p) \in Seq(HeaderAddr)
        /\ ToSet(InsertHole(m, r, p)) = ToSet(r) \cup {p}
        /\ Unique(InsertHole(m, r, p))
    BY <2>1, InsertHoleItems
  <2> QED BY <1>1, <2>2, Zenon
<1>2. CASE ~ do_add
  <2>1. p \in ToSet(r)
    BY <1>2
  <2>2. ToSet(r) = ToSet(r) \cup {p}
    BY <2>1
  <2> QED BY <1>2, <2>2, Zenon
<1> QED BY <1>1, <1>2

(* Where a block and the hole that unify left made of it lie.              *)
LEMMA LeftJoinedFacts ==
  ASSUME Base, NEW b \in live, NEW m, NEW do_add, NEW p, LeftJoined(m, do_add, b, p)
  PROVE  LET h == Header(b)
             g == EndOf(h)
         IN /\ h \in Pieces /\ h \notin Holes /\ h \in Nat /\ g \in Nat
            /\ h + OVERHEAD <= g /\ g <= end_address
            /\ p \in Pieces /\ p \in HeaderAddr /\ p \in Nat /\ START <= p /\ p <= h
            /\ p + OVERHEAD <= g
<1> DEFINE h == Header(b)
<1>1. h \in Pieces /\ p \in Pieces
  BY DEF Pieces, LeftJoined
<1>2. h \notin Holes
  BY DEF Base, FreeSpaceIndexed
<1>3. \A x \in Pieces : /\ x \in Nat /\ START <= x /\ EndOf(x) \in Nat
                        /\ x + OVERHEAD <= EndOf(x) /\ EndOf(x) <= end_address
                        /\ x \in HeaderAddr
  BY PieceFacts, Geometry DEF HeaderAddr, EndOf, Word
<1>4. p = h \/ EndOf(p) = h
  BY DEF LeftJoined
<1> HIDE DEF h
<1>5. p <= h /\ p + OVERHEAD <= EndOf(h)
  BY <1>1, <1>3, <1>4
<1> QED BY <1>1, <1>2, <1>3, <1>5 DEF h

LEMMA FreeBeforeBlock ==
  ASSUME Base, NEW b \in live, NEW c \in live, Header(c) = EndOf(Header(b)), free(b)
  PROVE  \E p : FreesInner(b, p)
<1>1. PICK m, do_add, p :
        /\ LeftJoined(m, do_add, b, p)
        /\ UnifyLeft(MakeHole(b))
             = Body(m, index, end_address, p, EndOf(Header(b)) - FOOTER, do_add)
  BY UnifyLeftResult
<1>2. PICK g : g = EndOf(Header(b))
  OBVIOUS
<1>3. PICK lost \in BOOLEAN :
        LET s == ContractTail(UnifyRight(UnifyLeft(MakeHole(b))), lost)
        IN IF s.status # "running"
           THEN /\ status' = s.status
                /\ UNCHANGED <<mem, index, end_address, present, call, live>>
           ELSE /\ mem' = s.mem
                /\ index' = IF s.do_add THEN InsertHole(s.mem, s.index, s.header)
                                        ELSE s.index
                /\ end_address' = s.end
                /\ live' = live \ {b}
                /\ UNCHANGED <<present, call, status>>
  BY DEF free
<1>4. /\ g \in Nat /\ START <= g /\ g + 2 < end_address /\ g \notin Holes
      /\ p \in HeaderAddr /\ p \in Nat /\ p < g
  <2>1. /\ Header(c) \in Nat /\ START <= Header(c) /\ Header(c) + OVERHEAD <= end_address
        /\ Header(c) \notin Holes
    <3>1. Header(c) \in Pieces
      BY DEF Pieces
    <3> QED BY <3>1, PieceFacts, Geometry DEF HeaderAddr, EndOf, Word, Base, FreeSpaceIndexed
  <2>2. end_address \in Nat
    BY PieceFacts
  <2> QED BY <1>1, <1>2, <2>1, <2>2, LeftJoinedFacts
<1>5. m[g + 1] = 0
  <2>1. mem[g + 1] = 0
    BY <1>2 DEF Base, BoundaryTags, BlockTagged
  <2>2. g + 1 \in Addr /\ g + 1 \notin p .. g - 1
    BY <1>4, PieceFacts, Geometry DEF Addr
  <2> QED BY <1>1, <1>2, <2>1, <2>2 DEF LeftJoined
<1> DEFINE s == Body(m, index, end_address, p, g - FOOTER, do_add)
<1>6. ContractTail(UnifyRight(UnifyLeft(MakeHole(b))), lost) = s
  <2>1. ContractTail(UnifyRight(s), lost) = s
    BY <1>4, <1>5, RightOfBlock
  <2>2. UnifyLeft(MakeHole(b)) = s
    BY <1>1, <1>2
  <2> QED BY <2>1, <2>2, Zenon
<1>7. /\ s.status = "running" /\ s.mem = m /\ s.index = index /\ s.header = p
      /\ s.do_add = do_add /\ s.end = end_address
  BY DEF Body
<1> HIDE DEF s
<1>8. /\ mem' = m /\ end_address' = end_address /\ live' = live \ {b}
      /\ UNCHANGED <<present, call, status>>
      /\ index' = IF do_add THEN InsertHole(m, index, p) ELSE index
  BY <1>3, <1>6, <1>7, Zenon
<1>9. /\ index' \in Seq(HeaderAddr) /\ Unique(index')
      /\ Holes' = (Holes \ {g}) \cup {p}
  <2>1. PICK r : r = index
    OBVIOUS
  <2>2. r \in Seq(HeaderAddr) /\ Unique(r) /\ ToSet(r) = Holes
    BY <2>1 DEF Base, HeapTypes, FreeSpaceIndexed, Unique, Holes
  <2>3. \/ do_add /\ p \notin ToSet(r)
        \/ ~ do_add /\ p \in ToSet(r)
    BY <1>1, <2>2, LeftJoinedFacts DEF LeftJoined
  <2>4. index' = IF do_add THEN InsertHole(m, r, p) ELSE r
    BY <1>8, <2>1
  <2>5. Holes' = ToSet(index')
    BY DEF Holes
  <2> QED BY <1>4, <2>2, <2>3, <2>4, <2>5, FreedIndex
<1>10. call = Idle
  BY DEF free
<1>11. Frees(b, p, g, g)
  BY <1>1, <1>2, <1>8, <1>9, <1>10 DEF Frees, LeftJoined
<1> QED BY <1>2, <1>8, <1>11 DEF FreesInner

LEMMA FreeBeforeTail ==
  ASSUME Base, NEW b \in live, BeforeTail(b), free(b)
  PROVE  \E p : FreesTail(b, p)
<1>1. PICK m, do_add, p :
        /\ LeftJoined(m, do_add, b, p)
        /\ UnifyLeft(MakeHole(b))
             = Body(m, index, end_address, p, EndOf(Header(b)) - FOOTER, do_add)
  BY UnifyLeftResult
<1>2. PICK g \in Holes : g = EndOf(Header(b))
  BY DEF BeforeTail
<1>3. PICK e \in Nat : e = end_address
  BY PieceFacts
<1>4. PICK lost \in BOOLEAN :
        LET s == ContractTail(UnifyRight(UnifyLeft(MakeHole(b))), lost)
        IN IF s.status # "running"
           THEN /\ status' = s.status
                /\ UNCHANGED <<mem, index, end_address, present, call, live>>
           ELSE /\ mem' = s.mem
                /\ index' = IF s.do_add THEN InsertHole(s.mem, s.index, s.header)
                                        ELSE s.index
                /\ end_address' = s.end
                /\ live' = live \ {b}
                /\ UNCHANGED <<present, call, status>>
  BY DEF free
<1>5. /\ EndOf(g) = end_address /\ g + OVERHEAD <= START + HEAP_MIN_SIZE
      /\ START + HEAP_MIN_SIZE <= e /\ (e - START) % PAGE = 0 /\ e <= LIMIT
  BY <1>2, <1>3, PieceFacts DEF BeforeTail
<1>6. /\ g \in Nat /\ START <= g /\ p \in HeaderAddr /\ p \in Nat /\ START <= p
      /\ p + OVERHEAD <= g /\ g + OVERHEAD <= e
      /\ p # g
  <2>1. g \in Pieces
    BY DEF Pieces
  <2>2. g + OVERHEAD <= e
    BY <1>3, <2>1, PieceFacts, Geometry DEF HeaderAddr, EndOf, Word
  <2> QED BY <1>1, <1>2, <2>1, <2>2, LeftJoinedFacts, PieceFacts, Geometry DEF HeaderAddr
<1>7. /\ m \in [Addr -> Word] /\ SizeOf(m, p) = g - p
      /\ m[p] = HEAP_MAGIC /\ m[p + 1] = 1
      /\ \A a \in Addr : a \notin p .. g - 1 => m[a] = mem[a]
  BY <1>1, <1>2 DEF LeftJoined
<1> DEFINE m2 == [m EXCEPT ![p + 2] = e - p]
           e2 == START + HEAP_MIN_SIZE
<1>8. PICK r \in Seq(HeaderAddr) :
        /\ ToSet(r) = Holes \ {g} /\ Unique(r)
        /\ UnifyRight(UnifyLeft(MakeHole(b))) = Body(m2, r, e, p, e - FOOTER, do_add)
  <2>6. PICK f : f = g - FOOTER
    OBVIOUS
  <2>1. PICK s : s = Body(m, index, end_address, p, f, do_add)
    OBVIOUS
  <2>2. PICK r \in Seq(HeaderAddr) :
          /\ ToSet(r) = Holes \ {g} /\ Unique(r)
          /\ UnifyRight(s) = Body([m EXCEPT ![p + 2] = end_address - p], r, end_address,
                                  p, end_address - FOOTER, do_add)
    <3>1. TakesIn(s, m, p, g, do_add)
      BY <1>5, <1>6, <1>7, <2>1, <2>6, RightOfHole
    <3> QED BY <3>1, Zenon DEF TakesIn
  <2>3. Body([m EXCEPT ![p + 2] = end_address - p], r, end_address, p,
             end_address - FOOTER, do_add) = Body(m2, r, e, p, e - FOOTER, do_add)
    BY <1>3, Zenon
  <2>4. UnifyLeft(MakeHole(b)) = s
    BY <1>1, <1>2, <2>1, <2>6, Zenon
  <2>5. UnifyRight(UnifyLeft(MakeHole(b))) = Body(m2, r, e, p, e - FOOTER, do_add)
    BY <2>2, <2>3, <2>4, Zenon
  <2> QED BY <2>2, <2>5
<1>9. /\ p \in Addr /\ p + 1 \in Addr /\ p + 2 \in Addr
      /\ e - p \in Word
  BY <1>5, <1>6, Geometry DEF Addr, Word
<1>10. /\ m2 \in [Addr -> Word] /\ SizeOf(m2, p) = e - p
       /\ m2[p] = HEAP_MAGIC /\ m2[p + 1] = 1
       /\ \A a \in Addr : a < p => m2[a] = m[a]
  <2>1. p # p + 2 /\ p + 1 # p + 2
    BY <1>6
  <2>2. \A a \in Addr : a < p => a # p + 2
    BY <1>6
  <2> QED BY <1>7, <1>9, <2>1, <2>2 DEF SizeOf
<1> HIDE DEF m2
<1>11. \A f : f = START + HEAP_MIN_SIZE - FOOTER => BackedFooter(f)
  <2>1. /\ START + HEAP_MIN_SIZE - FOOTER \in Nat
        /\ START <= START + HEAP_MIN_SIZE - FOOTER
        /\ START + HEAP_MIN_SIZE - FOOTER + 1 < end_address
    BY <1>3, <1>5, <1>6, Geometry, GeometryAssumption
  <2> QED BY <2>1, TagsWithin
<1>12. p + OVERHEAD <= START + HEAP_MIN_SIZE
  BY <1>5, <1>6, Geometry, GeometryAssumption
<1>22. PICK f : f = e - FOOTER
  OBVIOUS
<1>21. PICK s0 : s0 = Body(m2, r, e, p, f, do_add)
  OBVIOUS
<1>23. CutsDown(s0, lost, m2, r, e, p, do_add)
  BY <1>5, <1>6, <1>10, <1>11, <1>12, <1>21, <1>22, TailContracted
<1>24. PICK n \in [Addr -> Word] :
         /\ n[p] = HEAP_MAGIC /\ n[p + 1] = 1
         /\ SizeOf(n, p) = START + HEAP_MIN_SIZE - p
         /\ n[START + HEAP_MIN_SIZE - FOOTER] = HEAP_MAGIC
         /\ n[START + HEAP_MIN_SIZE - FOOTER + 1] = p
         /\ \A a \in Addr : a < p => n[a] = m2[a]
         /\ ContractTail(s0, lost)
              = Body(n, r, START + HEAP_MIN_SIZE, p, e - FOOTER, do_add)
  BY <1>23, Zenon DEF CutsDown
<1>13. /\ n[p] = HEAP_MAGIC /\ n[p + 1] = 1
       /\ SizeOf(n, p) = e2 - p
       /\ n[e2 - FOOTER] = HEAP_MAGIC /\ n[e2 - FOOTER + 1] = p
       /\ \A a \in Addr : a < p => n[a] = m2[a]
       /\ ContractTail(s0, lost) = Body(n, r, e2, p, e - FOOTER, do_add)
  <2>1. SizeOf(n, p) = e2 - p
    BY <1>6, <1>24, GeometryAssumption
  <2>2. n[e2 - FOOTER] = HEAP_MAGIC
    BY <1>6, <1>24, GeometryAssumption
  <2>3. n[e2 - FOOTER + 1] = p
    BY <1>6, <1>24, GeometryAssumption
  <2>4. \A a \in Addr : a < p => n[a] = m2[a]
    BY <1>24
  <2>5. ContractTail(s0, lost) = Body(n, r, e2, p, e - FOOTER, do_add)
    BY <1>24, Zenon
  <2> QED BY <1>24, <2>1, <2>2, <2>3, <2>4, <2>5, Zenon
<1> DEFINE s == Body(n, r, e2, p, e - FOOTER, do_add)
<1> HIDE DEF e2
<1>14. ContractTail(UnifyRight(UnifyLeft(MakeHole(b))), lost) = s
  BY <1>8, <1>13, <1>21, <1>22, Zenon
<1>15. /\ s.status = "running" /\ s.mem = n /\ s.index = r /\ s.header = p
       /\ s.do_add = do_add /\ s.end = e2
  BY DEF Body
<1> HIDE DEF s
<1>16. /\ mem' = n /\ end_address' = e2 /\ live' = live \ {b}
       /\ UNCHANGED <<present, call, status>>
       /\ index' = IF do_add THEN InsertHole(n, r, p) ELSE r
  BY <1>4, <1>14, <1>15, Zenon
<1>17. /\ index' \in Seq(HeaderAddr) /\ Unique(index')
       /\ Holes' = (Holes \ {g}) \cup {p}
  <2>1. \/ do_add /\ p \notin ToSet(r)
        \/ ~ do_add /\ p \in ToSet(r)
    BY <1>1, <1>6, <1>8, LeftJoinedFacts DEF LeftJoined
  <2>2. Holes' = ToSet(index')
    BY DEF Holes
  <2> QED BY <1>6, <1>8, <1>16, <2>1, <2>2, FreedIndex
<1>18. call = Idle
  BY DEF free
<1>19. \A a \in Addr : a \notin p .. LIMIT - 1 => mem'[a] = mem[a]
  <2>1. ASSUME NEW a \in Addr, a \notin p .. LIMIT - 1 PROVE mem'[a] = mem[a]
    <3>1. a < p /\ a \notin p .. g - 1
      BY <1>6, <2>1, Geometry DEF Addr
    <3> QED BY <1>7, <1>10, <1>13, <1>16, <3>1
  <2> QED BY <2>1
<1>20. Frees(b, p, e2, LIMIT)
  <2>1. \/ p = Header(b) /\ \A x \in Holes : EndOf(x) # Header(b)
        \/ p \in Holes /\ EndOf(p) = Header(b)
    BY <1>1 DEF LeftJoined
  <2> QED BY <1>2, <1>13, <1>16, <1>17, <1>18, <1>19, <2>1 DEF Frees
<1> QED BY <1>16, <1>20 DEF FreesTail, e2

-----------------------------------------------------------------------------
(* free keeps the invariant.                                               *)

LEMMA FreesFacts ==
  ASSUME Base, NEW b \in live, NEW p, NEW q, NEW hi, Frees(b, p, q, hi)
  PROVE  LET h == Header(b)
             g == EndOf(h)
         IN /\ h \in Pieces /\ h \notin Holes /\ h \in Nat /\ g \in Nat
            /\ h + OVERHEAD <= g /\ g <= end_address
            /\ p \in Pieces /\ p \in HeaderAddr /\ p \in Nat /\ START <= p /\ p <= h
            /\ p + OVERHEAD <= g
            /\ \A c \in live \ {b} : Header(c) # h
            /\ \A x \in Pieces : x \notin {p, h} => EndOf(x) <= p \/ g <= x
            /\ Pieces' = (Pieces \ ({h} \cup ({g} \cap Holes))) \cup {p}
<1> DEFINE h == Header(b)
           g == EndOf(h)
<1>1. h \in Pieces /\ p \in Pieces
  BY DEF Pieces, Frees
<1>2. h \notin Holes
  BY DEF Base, FreeSpaceIndexed
<1>3. \A x \in Pieces : /\ x \in Nat /\ START <= x /\ EndOf(x) \in Nat
                        /\ x + OVERHEAD <= EndOf(x) /\ EndOf(x) <= end_address
                        /\ x \in HeaderAddr
  BY PieceFacts, Geometry DEF HeaderAddr, EndOf, Word
<1>4. /\ p = h \/ (p \in Holes /\ EndOf(p) = h)
      /\ Holes' = (Holes \ {g}) \cup {p} /\ live' = live \ {b}
  BY DEF Frees
<1>5. \A c \in live \ {b} : Header(c) # h
  <2>1. \A c \in live : c.ptr \in Int
    BY Geometry DEF Base, HeapTypes
  <2> QED BY <2>1 DEF Base, FreeSpaceIndexed, Header
<1>6. \A c \in live : Header(c) \notin Holes
  BY DEF Base, FreeSpaceIndexed
<1>7. Pieces' = (Pieces \ ({h} \cup ({g} \cap Holes))) \cup {p}
  <2>1. Pieces' = Holes' \cup {Header(c) : c \in live'}
    BY DEF Pieces, Header
  <2>2. {Header(c) : c \in live'} = {Header(c) : c \in live} \ {h}
    BY <1>4, <1>5
  <2> HIDE DEF h, g
  <2>3. Pieces = Holes \cup {Header(c) : c \in live}
    BY DEF Pieces
  <2>4. {Header(c) : c \in live} \cap Holes = {}
    BY <1>6
  <2> DEFINE B == {Header(c) : c \in live}
  <2> HIDE DEF B
  <2>5. /\ Pieces' = Holes' \cup (B \ {h}) /\ Pieces = Holes \cup B /\ B \cap Holes = {}
    BY <2>1, <2>2, <2>3, <2>4 DEF B
  <2> QED BY <1>2, <1>4, <2>5
<1> HIDE DEF h, g
<1>8. p <= h /\ p + OVERHEAD <= g
  BY <1>1, <1>3, <1>4 DEF g
<1>9. ASSUME NEW x \in Pieces, x \notin {p, h} PROVE EndOf(x) <= p \/ g <= x
  <2>1. EndOf(x) <= h \/ g <= x
    BY <1>1, <1>9, Apart DEF g
  <2>2. EndOf(x) <= p \/ EndOf(p) <= x
    BY <1>1, <1>9, Apart
  <2>3. CASE EndOf(p) <= x /\ EndOf(x) <= h /\ p # h
    <3>1. EndOf(p) = h
      BY <1>4, <2>3
    <3> QED BY <1>1, <1>3, <2>3, <3>1
  <2> QED BY <1>8, <2>1, <2>2, <2>3
<1>10. h + OVERHEAD <= g /\ g <= end_address /\ g \in Nat
  BY <1>1, <1>3 DEF g
<1> QED BY <1>1, <1>2, <1>3, <1>5, <1>7, <1>8, <1>9, <1>10 DEF h, g

(* What a call of free leaves of the pieces beside the hole.               *)
LEMMA FreesKeeps ==
  ASSUME Base, NEW b \in live, NEW p, NEW q, NEW hi \in Nat, Frees(b, p, q, hi),
         NEW x \in Pieces, EndOf(x) <= p \/ hi <= x
  PROVE  /\ SizeOf(mem', x) = SizeOf(mem, x)
         /\ \A c : Header(c) = x /\ BlockTagged(mem, c) => BlockTagged(mem', c)
         /\ \A e : HoleTagged(mem, x, e) => HoleTagged(mem', x, e)
<1>1. p \in Nat
  BY FreesFacts
<1>2. mem' \in [Addr -> Word] /\ \A a \in Addr : a \notin p .. hi - 1 => mem'[a] = mem[a]
  BY DEF Frees
<1> QED BY <1>1, <1>2, TagsKept

LEMMA FreesPreserves ==
  ASSUME Base, NEW b \in live, NEW p, NEW q \in Nat, NEW hi \in Nat, Frees(b, p, q, hi),
         p + OVERHEAD <= q,
         \A x \in Pieces' \ {p} : x \in Pieces /\ (EndOf(x) <= p \/ hi <= x),
         end_address' \in START .. LIMIT, end_address' <= end_address,
         \A x \in Holes' \ {p} : end_address' = end_address \/ EndOf(x) # end_address,
         Tiles(Pieces', mem', end_address')
  PROVE  Base'
<1> DEFINE h == Header(b)
<1>1. /\ p \in Nat /\ START <= p /\ p \in HeaderAddr /\ end_address \in Nat
      /\ end_address' \in Nat
      /\ \A c \in live \ {b} : Header(c) # h
      /\ p <= h /\ p \notin {Header(c) : c \in live \ {b}}
  <2>1. \A c \in live : Header(c) \notin Holes
    BY DEF Base, FreeSpaceIndexed
  <2>2. p = h \/ p \in Holes
    BY DEF Frees
  <2>3. end_address' \in Nat
    BY Geometry
  <2> QED BY <2>1, <2>2, <2>3, FreesFacts, PieceFacts
<1>2. /\ UNCHANGED <<present, call, status>> /\ call = Idle /\ live' = live \ {b}
      /\ mem' \in [Addr -> Word]
      /\ mem'[p] = HEAP_MAGIC /\ mem'[p + 1] = 1 /\ SizeOf(mem', p) = q - p
      /\ mem'[q - FOOTER] = HEAP_MAGIC /\ mem'[q - FOOTER + 1] = p
      /\ \A a \in Addr : a \notin p .. hi - 1 => mem'[a] = mem[a]
      /\ index' \in Seq(HeaderAddr) /\ Unique(index')
      /\ Holes' = (Holes \ {EndOf(h)}) \cup {p}
  BY DEF Frees
<1> HIDE DEF h
<1>3. HeapTypes'
  BY <1>2 DEF Base, HeapTypes
<1>4. FreeSpaceIndexed'
  <2>1. \A c \in live' : Header(c) \notin Holes'
    BY <1>1, <1>2 DEF Base, FreeSpaceIndexed
  <2> QED BY <1>2, <2>1 DEF Base, FreeSpaceIndexed, Unique
<1>5. BoundaryTags'
  <2>1. ASSUME NEW c \in live' PROVE BlockTagged(mem', c)
    <3>1. c \in live /\ Header(c) \in Pieces' \ {p} /\ BlockTagged(mem, c)
      BY <1>1, <1>2 DEF Base, BoundaryTags, Pieces, Header
    <3>2. PICK x \in Pieces : x = Header(c) /\ (EndOf(x) <= p \/ hi <= x)
      BY <3>1
    <3> QED BY <3>1, <3>2, FreesKeeps
  <2> QED BY <2>1 DEF BoundaryTags
<1>6. HoleTags'
  <2>1. HoleTagged(mem', p, end_address')
    <3>1. p + (q - p) - FOOTER = q - FOOTER /\ p + (q - p) - FOOTER + 1 = q - FOOTER + 1
          /\ q - p >= OVERHEAD
      BY <1>1
    <3> QED BY <1>2, <3>1 DEF HoleTagged
  <2>2. ASSUME NEW x \in Holes' \ {p} PROVE HoleTagged(mem', x, end_address')
    <3>1. x \in Holes /\ x \in Pieces' \ {p}
      BY <1>2, <2>2 DEF Pieces
    <3>2. x \in Pieces /\ (EndOf(x) <= p \/ hi <= x)
      BY <3>1
    <3>3. HoleTagged(mem, x, end_address) /\ (\A e : HoleTagged(mem, x, e) => HoleTagged(mem', x, e))
      BY <3>1, <3>2, FreesKeeps DEF Base, HoleTags
    <3>4. HoleTagged(mem, x, end_address')
      <4>1. CASE end_address' = end_address
        BY <3>3, <4>1
      <4>2. CASE x + SizeOf(mem, x) # end_address
        <5>1. x \in Nat /\ SizeOf(mem, x) \in Nat
          BY <3>2, PieceFacts DEF Sized
        <5>2. x + SizeOf(mem, x) - FOOTER + FOOTER # end_address
          BY <4>2, <5>1
        <5> QED BY <3>3, <5>2 DEF HoleTagged
      <4> QED BY <2>2, <4>1, <4>2 DEF EndOf
    <3> QED BY <3>3, <3>4
  <2> QED BY <1>2, <2>1, <2>2 DEF HoleTags
<1>7. NothingBelow'
  <2>1. START - FOOTER \in Addr /\ START - FOOTER \notin p .. hi - 1
    BY <1>1, Geometry DEF Addr
  <2> QED BY <1>2, <2>1 DEF Base, NothingBelow
<1>8. KeepsRunning' /\ CallServed'
  <2>1. call' = Idle /\ status' = "running"
    BY <1>2 DEF Base, KeepsRunning
  <2> QED BY <2>1 DEF KeepsRunning, CallServed
<1>9. AllPresent'
  <2>1. START .. end_address' - 1 \subseteq START .. end_address - 1
    <3>1. /\ START \in Nat /\ end_address \in Nat /\ end_address' \in Nat
          /\ end_address' <= end_address
      BY <1>1, Geometry
    <3> QED BY <3>1, ShorterRange, Zenon
  <2>2. \A a \in START .. end_address - 1 : PageOf(a) \in present
    BY DEF Base, AllPresent
  <2>3. present' = present
    BY <1>2
  <2> QED BY <2>1, <2>2, <2>3 DEF AllPresent, PageOf
<1> QED BY <1>3, <1>4, <1>5, <1>6, <1>7, <1>8, <1>9 DEF Base

LEMMA FreesInnerPreserves ==
  ASSUME Base, NEW b \in live, NEW p, FreesInner(b, p)
  PROVE  Base'
<1> DEFINE h == Header(b)
<1>1. PICK g : g = EndOf(h)
  OBVIOUS
<1>2. Frees(b, p, g, g) /\ end_address' = end_address
  BY <1>1, Zenon DEF FreesInner
<1>3. /\ h \in Pieces /\ h \notin Holes /\ h \in Nat /\ g \in Nat
      /\ h + OVERHEAD <= g /\ g <= end_address
      /\ p \in Pieces /\ p \in Nat /\ START <= p /\ p <= h /\ p + OVERHEAD <= g
      /\ \A x \in Pieces : x \notin {p, h} => EndOf(x) <= p \/ g <= x
      /\ Pieces' = (Pieces \ ({h} \cup ({g} \cap Holes))) \cup {p}
  BY <1>1, <1>2, FreesFacts
<1>4. g \notin Holes
  BY <1>1 DEF FreesInner, Base, FreeSpaceIndexed
<1>5. Pieces' = (Pieces \ {h}) \cup {p}
  BY <1>3, <1>4
<1>6. \A x \in Pieces' \ {p} : x \in Pieces /\ (EndOf(x) <= p \/ g <= x)
  BY <1>3, <1>5
<1>7. /\ \A x \in Pieces \ {p, h} : SizeOf(mem', x) = SizeOf(mem, x)
      /\ SizeOf(mem', p) = g - p
  <2>1. ASSUME NEW x \in Pieces, x \notin {p, h} PROVE SizeOf(mem', x) = SizeOf(mem, x)
    <3>1. EndOf(x) <= p \/ g <= x
      BY <1>3, <2>1
    <3> QED BY <1>2, <1>3, <2>1, <3>1, FreesKeeps
  <2>2. SizeOf(mem', p) = g - p
    BY <1>2 DEF Frees
  <2> QED BY <2>1, <2>2
<1>8. /\ Sized(Pieces, mem) /\ Tiles(Pieces, mem, end_address)
      /\ end_address \in START .. LIMIT /\ end_address \in Nat
  BY PieceFacts, Geometry DEF Base, HeapTypes, FreeSpaceIndexed
<1>9. Tiles(Pieces', mem', end_address)
  <2>1. g = h + SizeOf(mem, h) /\ SizeOf(mem, h) \in Nat
    BY <1>1, <1>3, <1>8 DEF EndOf, Sized
  <2>2. CASE p = h
    <3>1. Pieces' = Pieces
      BY <1>3, <1>5, <2>2
    <3>2. SizeOf(mem', h) = SizeOf(mem, h)
      BY <1>3, <1>7, <2>1, <2>2
    <3>3. \A x \in Pieces : SizeOf(mem', x) = SizeOf(mem, x)
      BY <1>7, <2>2, <3>2
    <3> QED BY <1>8, <3>1, <3>3 DEF Tiles
  <2>3. CASE p # h
    <3>1. p + SizeOf(mem, p) = h /\ SizeOf(mem, p) \in Nat
      BY <1>2, <1>3, <1>8, <2>3 DEF Frees, EndOf, Sized
    <3>2. SizeOf(mem', p) = SizeOf(mem, p) + SizeOf(mem, h)
      BY <1>3, <1>7, <2>1, <3>1
    <3>3. Pieces' = Pieces \ {h}
      BY <1>3, <1>5, <2>3
    <3> HIDE DEF h
    <3>4. PICK P, m, e, h0 : P = Pieces /\ m = mem /\ e = end_address /\ h0 = h
      OBVIOUS
    <3>5. /\ e \in Nat /\ p \in P /\ h0 \in P /\ Sized(P, m) /\ Tiles(P, m, e)
          /\ p + SizeOf(m, p) = h0 /\ SizeOf(mem', p) = SizeOf(m, p) + SizeOf(m, h0)
          /\ \A x \in P \ {p, h0} : SizeOf(mem', x) = SizeOf(m, x)
      BY <1>3, <1>7, <1>8, <3>1, <3>2, <3>4
    <3>6. Tiles(P \ {h0}, mem', e)
      BY <3>5, MergeTiles
    <3> QED BY <3>3, <3>4, <3>6
  <2> QED BY <2>2, <2>3
<1>10. end_address' \in START .. LIMIT /\ end_address' <= end_address
  BY <1>2, <1>8
<1>11. Tiles(Pieces', mem', end_address')
  BY <1>2, <1>9
<1> QED BY <1>2, <1>3, <1>6, <1>10, <1>11, FreesPreserves

(* The pieces up to the one at p, which now ends at e2, the new end.       *)
LEMMA TruncateTiles ==
  ASSUME NEW P, NEW m, NEW m2, NEW e \in Nat, NEW e2 \in Nat, NEW p \in P,
         Sized(P, m), Tiles(P, m, e), p < e2, p < e,
         SizeOf(m2, p) = e2 - p,
         \A x \in P : x < p => SizeOf(m2, x) = SizeOf(m, x)
  PROVE  Tiles({x \in P : x <= p}, m2, e2)
<1> DEFINE Q == {x \in P : x <= p}
<1>1. \A x \in Q : START <= x /\ x + SizeOf(m2, x) <= e2
  BY DEF Tiles, Sized
<1>2. \A x, y \in Q : x < y => x + SizeOf(m2, x) <= y
  BY DEF Tiles, Sized
<1>3. ASSUME NEW w \in START .. e2 - 1
      PROVE  \E x \in Q : x <= w /\ w < x + SizeOf(m2, x)
  <2>1. CASE w < p
    <3>1. PICK x \in P : x <= w /\ w < x + SizeOf(m, x)
      BY <2>1, Geometry DEF Tiles, Sized
    <3>2. x < p /\ x \in Q
      BY <2>1, <3>1, Geometry DEF Sized
    <3> QED BY <3>1, <3>2
  <2>2. CASE w >= p
    <3>1. p \in Q /\ w < p + SizeOf(m2, p)
      BY Geometry DEF Sized
    <3> QED BY <2>2, <3>1
  <2> QED BY <2>1, <2>2, Geometry DEF Sized
<1> QED BY <1>1, <1>2, <1>3 DEF Tiles

LEMMA FreesTailPreserves ==
  ASSUME Base, NEW b \in live, NEW p, FreesTail(b, p)
  PROVE  Base'
<1> DEFINE h == Header(b)
<1>1. PICK g, q : g = EndOf(h) /\ q = START + HEAP_MIN_SIZE
  OBVIOUS
<1>2. Frees(b, p, q, LIMIT) /\ end_address' = q
  BY <1>1, Zenon DEF FreesTail
<1>3. /\ h \in Pieces /\ h \notin Holes /\ h \in Nat /\ g \in Nat
      /\ h + OVERHEAD <= g /\ g <= end_address
      /\ p \in Pieces /\ p \in Nat /\ START <= p /\ p <= h /\ p + OVERHEAD <= g
      /\ \A x \in Pieces : x \notin {p, h} => EndOf(x) <= p \/ g <= x
      /\ Pieces' = (Pieces \ ({h} \cup ({g} \cap Holes))) \cup {p}
  BY <1>1, <1>2, FreesFacts
<1>4. /\ g \in Holes /\ EndOf(g) = end_address /\ g + OVERHEAD <= q
      /\ q <= end_address
  BY <1>1 DEF FreesTail, BeforeTail
<1>5. /\ \A x \in Pieces : /\ x \in Nat /\ START <= x /\ EndOf(x) \in Nat
                          /\ x + OVERHEAD <= EndOf(x) /\ EndOf(x) <= end_address
      /\ end_address \in START .. LIMIT /\ end_address \in Nat
      /\ q \in START .. LIMIT /\ q \in Nat /\ LIMIT \in Nat
      /\ Sized(Pieces, mem) /\ Tiles(Pieces, mem, end_address) /\ g \in Pieces
  <2>1. \A x \in Pieces : /\ x \in Nat /\ START <= x /\ EndOf(x) \in Nat
                          /\ x + OVERHEAD <= EndOf(x) /\ EndOf(x) <= end_address
    BY PieceFacts, Geometry DEF HeaderAddr, EndOf, Word
  <2>2. end_address \in START .. LIMIT /\ end_address \in Nat
    BY PieceFacts, Geometry DEF Base, HeapTypes
  <2>3. q \in START .. LIMIT /\ q \in Nat
    BY <1>1, <1>4, <2>2, Geometry, GeometryAssumption
  <2> QED BY <1>4, <2>1, <2>2, <2>3, PieceFacts, Geometry DEF Base, FreeSpaceIndexed, Pieces
<1> HIDE DEF h
<1>6. \A x \in Pieces : x \notin {p, h, g} => EndOf(x) <= p
  <2>1. ASSUME NEW x \in Pieces, x \notin {p, h, g} PROVE EndOf(x) <= p
    <3>1. EndOf(x) <= p \/ g <= x
      BY <1>3, <2>1
    <3>2. EndOf(x) <= g \/ EndOf(g) <= x
      BY <1>5, <2>1, Apart
    <3> QED BY <1>3, <1>4, <1>5, <2>1, <3>1, <3>2
  <2> QED BY <2>1
<1>7. Pieces' = {x \in Pieces : x <= p}
  <2>1. Pieces' = (Pieces \ {h, g}) \cup {p}
    BY <1>3, <1>4
  <2>2. ASSUME NEW x \in Pieces, x \notin {p, h, g} PROVE x <= p
    BY <1>3, <1>5, <1>6, <2>2
  <2>3. ~ (g <= p) /\ (p # h => ~ (h <= p)) /\ p <= p
    BY <1>3
  <2>4. \A x \in Pieces : x <= p <=> (x = p \/ x \notin {h, g})
    <3>1. ASSUME NEW x \in Pieces PROVE x <= p <=> (x = p \/ x \notin {h, g})
      <4>1. CASE x = p
        BY <2>3, <4>1
      <4>2. CASE x # p /\ x \in {h, g}
        BY <2>3, <4>2
      <4>3. CASE x \notin {p, h, g}
        BY <2>2, <4>3
      <4> QED BY <4>1, <4>2, <4>3
    <3> QED BY <3>1
  <2>5. p \in Pieces
    BY <1>3
  <2> HIDE DEF h
  <2> QED BY <2>1, <2>4, <2>5, Zenon
<1>8. \A x \in Pieces' \ {p} : x \in Pieces /\ EndOf(x) <= p
  BY <1>3, <1>4, <1>6
<1>9. \A x \in Pieces : x < p => SizeOf(mem', x) = SizeOf(mem, x)
  <2>1. ASSUME NEW x \in Pieces, x < p PROVE SizeOf(mem', x) = SizeOf(mem, x)
    <3>1. EndOf(x) <= p
      BY <1>3, <1>5, <1>6, <2>1
    <3> QED BY <1>2, <1>5, <3>1, FreesKeeps
  <2> QED BY <2>1
<1>10. SizeOf(mem', p) = q - p /\ p < q /\ p < end_address /\ p + OVERHEAD <= q
  BY <1>2, <1>3, <1>4, <1>5 DEF Frees
<1>11. Tiles(Pieces', mem', end_address')
  <2>1. PICK P, m, e : P = Pieces /\ m = mem /\ e = end_address
    OBVIOUS
  <2>2. /\ e \in Nat /\ p \in P /\ Sized(P, m) /\ Tiles(P, m, e) /\ p < e
        /\ \A x \in P : x < p => SizeOf(mem', x) = SizeOf(m, x)
    BY <1>3, <1>5, <1>9, <1>10, <2>1
  <2>3. Tiles({x \in P : x <= p}, mem', q)
    BY <1>5, <1>10, <2>2, TruncateTiles
  <2> QED BY <1>2, <1>7, <2>1, <2>3
<1>12. \A x \in Holes' \ {p} : EndOf(x) # end_address
  <2>1. ASSUME NEW x \in Holes' \ {p} PROVE EndOf(x) # end_address
    <3>1. x \in Pieces' \ {p}
      BY DEF Pieces
    <3>2. x \in Pieces /\ EndOf(x) <= p
      BY <1>8, <3>1
    <3>3. EndOf(x) \in Nat
      BY <1>5, <3>2
    <3> QED BY <1>3, <1>5, <1>10, <3>2, <3>3
  <2> QED BY <2>1
<1>13. /\ \A x \in Pieces' \ {p} : x \in Pieces /\ (EndOf(x) <= p \/ LIMIT <= x)
       /\ \A x \in Holes' \ {p} : end_address' = end_address \/ EndOf(x) # end_address
       /\ end_address' \in START .. LIMIT /\ end_address' <= end_address
  BY <1>2, <1>4, <1>5, <1>8, <1>12
<1> QED BY <1>2, <1>5, <1>10, <1>11, <1>13, FreesPreserves


-----------------------------------------------------------------------------
(* Neighbours.                                                             *)

LEMMA PieceNumbers ==
  ASSUME Base, NEW p \in Pieces
  PROVE  /\ p \in Nat /\ START <= p /\ SizeOf(mem, p) \in Nat /\ EndOf(p) \in Nat
         /\ EndOf(p) = p + SizeOf(mem, p) /\ p + OVERHEAD <= EndOf(p)
         /\ EndOf(p) <= end_address
         /\ end_address \in Nat /\ START <= end_address /\ end_address <= LIMIT
  BY PieceFacts, Geometry DEF HeaderAddr, EndOf, Word

LEMMA PieceBelow ==
  ASSUME Base, NEW p \in Pieces, p # START
  PROVE  \E q \in Pieces : EndOf(q) = p
<1>1. p - 1 \in START .. end_address - 1
  BY PieceNumbers, Geometry
<1>2. PICK q \in Pieces : q <= p - 1 /\ p - 1 < EndOf(q)
  BY <1>1 DEF Base, FreeSpaceIndexed, Tiles, EndOf
<1>3. EndOf(q) <= p
  BY <1>2, PieceNumbers, Apart
<1> QED BY <1>2, <1>3, PieceNumbers

LEMMA PieceAbove ==
  ASSUME Base, NEW p \in Pieces, EndOf(p) < end_address
  PROVE  EndOf(p) \in Pieces
<1> DEFINE g == EndOf(p)
<1>1. g \in START .. end_address - 1 /\ g \in Nat /\ p < g
  BY PieceNumbers, Geometry
<1>2. PICK q \in Pieces : q <= g /\ g < EndOf(q)
  BY <1>1 DEF Base, FreeSpaceIndexed, Tiles, EndOf
<1>3. q # p => EndOf(q) <= p \/ g <= q
  BY Apart
<1>4. q = g
  BY <1>1, <1>2, <1>3, PieceNumbers
<1> QED BY <1>4

LEMMA OneEnd ==
  ASSUME Base, NEW p \in Pieces, NEW q \in Pieces, EndOf(p) = EndOf(q)
  PROVE  p = q
<1>1. p # q => EndOf(q) <= p \/ EndOf(p) <= q
  BY Apart
<1> QED BY <1>1, PieceNumbers

LEMMA BoundedMax ==
  ASSUME NEW S, S \subseteq Nat, S # {}, NEW n \in Nat, \A x \in S : x <= n
  PROVE  Max(S) \in S /\ \A x \in S : x <= Max(S)
<1> DEFINE T == {n - x : x \in S}
<1>1. T \subseteq Nat /\ T # {}
  <2>1. ASSUME NEW x \in S PROVE n - x \in Nat
    <3>1. x \in Nat /\ x <= n
      OBVIOUS
    <3> QED BY <3>1
  <2>2. T # {}
    OBVIOUS
  <2>3. T \subseteq Nat
    BY <2>1, Zenon
  <2> QED BY <2>2, <2>3
<1>2. PICK t \in T : \A u \in T : t <= u
  BY <1>1, LeastElement, Zenon
<1>3. PICK x \in S : t = n - x
  BY <1>2
<1>4. \A y \in S : x >= y
  <2>1. ASSUME NEW y \in S PROVE x >= y
    <3>1. n - x <= n - y
      BY <1>2, <1>3
    <3>2. x \in Nat /\ y \in Nat
      OBVIOUS
    <3> QED BY <3>1, <3>2
  <2> QED BY <2>1
<1>5. Max(S) \in S /\ \A y \in S : Max(S) >= y
  BY <1>4 DEF Max
<1>6. \A y \in S : Max(S) >= y => y <= Max(S)
  BY <1>5
<1> QED BY <1>5, <1>6

-----------------------------------------------------------------------------
(* The invariant.                                                          *)

(* Callers that stay within the least heap find a hole at its end that is  *)
(* large enough for their request and for the tags of what is left: expand *)
(* is never called, and contract has one length to cut the heap down to.   *)
Spare ==
  Growth = "none" =>
    /\ end_address \in {START + INITIAL_SIZE, START + HEAP_MIN_SIZE}
    /\ \E t \in Holes :
         /\ EndOf(t) = end_address
         /\ t + OVERHEAD <= START + HEAP_MIN_SIZE
         /\ call # Idle => t + call.size + 2 * OVERHEAD <= START + HEAP_MIN_SIZE

Sound == Base /\ Coalesced /\ Spare

(* What is held and what is being served has been asked for.               *)
Asked ==
  /\ call \in [size : Sizes, align : Aligns] \cup {Idle}
  /\ \A b \in live : b.size \in Sizes

IInv == Sound /\ Asked

(* The callers of the theorems.                                            *)
Disciplined ==
  /\ Aligns = {0}
  /\ \/ Growth = "tail" /\ FreeOrder \in {"never", "inner"}
     \/ Growth = "none" /\ FreeOrder \in {"never", "inner", "forward"}

LEMMA AskedPlain ==
  ASSUME Disciplined, Asked, call # Idle
  PROVE  call.align = 0
BY DEF Disciplined, Asked

LEMMA HoleIsPiece == \A h \in Holes : h \in Pieces
  BY DEF Pieces

LEMMA InitSpare ==
  ASSUME Init
  PROVE  Sound
<1>1. Base
  BY InitEstablishes
<1>2. index = <<START>> /\ end_address = START + INITIAL_SIZE /\ call = Idle
  BY DEF Init
<1>3. Holes = {START}
  <2>1. index \in Seq({START}) /\ Len(index) = 1 /\ index[1] = START
    BY <1>2
  <2> QED BY <2>1, ToSetIsRange DEF Holes
<1>4. START \in Holes /\ \A x \in Holes : x = START
  BY <1>3
<1>5. SizeOf(mem, START) \in Nat /\ SizeOf(mem, START) >= OVERHEAD /\ START \in Nat
  BY <1>1, <1>4, HoleIsPiece, PieceNumbers, Geometry
<1>6. Coalesced
  BY <1>4, <1>5 DEF Coalesced, EndOf
<1>7. EndOf(START) = end_address
  <2>1. EndOf(START) <= end_address
    BY <1>1, <1>4, HoleIsPiece, PieceNumbers
  <2>2. end_address - 1 \in START .. end_address - 1 /\ end_address \in Nat
    BY <1>2, Geometry
  <2>3. PICK p \in Pieces : p <= end_address - 1 /\ end_address - 1 < EndOf(p)
    BY <1>1, <2>2 DEF Base, FreeSpaceIndexed, Tiles, EndOf
  <2>4. p = START
    BY <1>4 DEF Init, Pieces
  <2>5. EndOf(START) \in Nat
    BY <1>1, <1>4, HoleIsPiece, PieceNumbers
  <2> QED BY <2>1, <2>2, <2>3, <2>4, <2>5
<1>8. START + OVERHEAD <= START + HEAP_MIN_SIZE
  <2>1. ASSUME NEW n \in Nat, n > 0, n < PAGE PROVE n % PAGE # 0
    BY <2>1, GeometryAssumption
  <2>2. HEAP_MIN_SIZE >= PAGE
    BY <2>1, GeometryAssumption
  <2> QED BY <2>2, GeometryAssumption
<1>9. Spare
  BY <1>2, <1>4, <1>7, <1>8 DEF Spare
<1> QED BY <1>1, <1>6, <1>9 DEF Sound

(* The end hole begins no higher than the callers' blocks end.             *)
LEMMA EndHoleBelowTop ==
  ASSUME Base, Coalesced, NEW t \in Holes
  PROVE  t <= Top /\ Top \in Nat
<1> DEFINE S == {START} \cup {EndOf(Header(b)) : b \in live}
<1>1. \A b \in live : Header(b) \in Pieces
  BY DEF Pieces
<1>2. S \subseteq Nat /\ S # {} /\ \A x \in S : x <= end_address
  BY <1>1, PieceFacts, PieceNumbers, Geometry
<1>3. Max(S) \in S /\ \A x \in S : x <= Max(S)
  <2>1. PICK e \in Nat : e = end_address
    BY PieceFacts
  <2>2. PICK R : R = S
    OBVIOUS
  <2>3. R \subseteq Nat /\ R # {} /\ \A x \in R : x <= e
    BY <1>2, <2>1, <2>2
  <2>4. Max(R) \in R /\ \A x \in R : x <= Max(R)
    BY <2>3, BoundedMax
  <2> QED BY <2>2, <2>4, Zenon
<1>4. Top = Max(S)
  BY Zenon DEF Top
<1>5. t \in S
  <2>1. CASE t = START
    BY <2>1
  <2>2. CASE t # START
    <3>1. PICK q \in Pieces : EndOf(q) = t
      BY <2>2, HoleIsPiece, PieceBelow
    <3>2. q \notin Holes
      BY <3>1 DEF Coalesced
    <3>3. PICK b \in live : q = Header(b)
      BY <3>2 DEF Pieces
    <3> QED BY <3>1, <3>3
  <2> QED BY <2>1, <2>2
<1> HIDE DEF S
<1> QED BY <1>2, <1>3, <1>4, <1>5

LEMMA CallKeeps ==
  ASSUME Sound, Disciplined, NEW size \in Sizes, NEW align \in Aligns, Call(size, align)
  PROVE  Sound'
<1>1. /\ call' = [size |-> size, align |-> align] /\ call'.size = size
      /\ UNCHANGED <<mem, index, end_address, present, live, status>>
  BY DEF Call
<1>2. Holes' = Holes /\ Pieces' = Pieces /\ \A x : EndOf(x)' = EndOf(x)
  BY <1>1 DEF Holes, Pieces, EndOf
<1>3. Coalesced'
  BY <1>2 DEF Sound, Coalesced
<1>4. CASE Growth = "tail"
  <2>1. Base'
    BY <1>4, CallPreserves DEF Sound
  <2> QED BY <1>3, <1>4, <2>1 DEF Sound, Spare
<1>5. CASE Growth = "none"
  <2>1. PICK t \in Holes : /\ EndOf(t) = end_address
                           /\ t + OVERHEAD <= START + HEAP_MIN_SIZE
    BY <1>5 DEF Sound, Spare
  <2>2. t + size + 2 * OVERHEAD <= START + HEAP_MIN_SIZE
    <3>1. Top + size + 2 * OVERHEAD <= START + HEAP_MIN_SIZE
      BY <1>5 DEF Call, MayRequest
    <3>2. t <= Top /\ Top \in Nat
      BY EndHoleBelowTop DEF Sound
    <3>3. t \in Nat /\ size \in Nat
      BY HoleIsPiece, PieceNumbers, SizesPositive DEF Sound
    <3> QED BY <3>1, <3>2, <3>3, GeometryAssumption
  <2>3. Spare'
    BY <1>1, <1>2, <1>5, <2>1, <2>2 DEF Sound, Spare
  <2>4. CallServed'
    BY <1>1, <1>2, <2>1 DEF CallServed
  <2>5. HeapTypes'
    BY <1>1, SizesPositive, CallerAssumption DEF Sound, Base, HeapTypes, Calls
  <2>6. /\ FreeSpaceIndexed' /\ BoundaryTags' /\ HoleTags' /\ NothingBelow'
        /\ AllPresent' /\ KeepsRunning'
    BY <1>1, <1>2 DEF Sound, Base, FreeSpaceIndexed, BoundaryTags, HoleTags, NothingBelow,
                      AllPresent, KeepsRunning
  <2> QED BY <1>3, <2>3, <2>4, <2>5, <2>6 DEF Sound, Base
<1> QED BY <1>4, <1>5 DEF Disciplined


LEMMA AllocFromHoleKeeps ==
  ASSUME Sound, call.align = 0, AllocFromHole
  PROVE  Sound'
<1>1. Base' /\ \E h, n, b : CarvesOut(h, n, b)
  BY AllocFromHolePreserves DEF Sound
<1>2. PICK h, n, b : CarvesOut(h, n, b)
  BY <1>1
<1> DEFINE S == SizeOf(mem, h)
<1>3. /\ h \in Holes /\ n \in Nat /\ n <= S
      /\ call.size + OVERHEAD <= n
      /\ S >= call.size + 2 * OVERHEAD => n = call.size + OVERHEAD
      /\ call # Idle /\ call' = Idle /\ end_address' = end_address
      /\ n = S => Holes' = Holes \ {h}
      /\ n < S => /\ Holes' = (Holes \ {h}) \cup {h + n}
                  /\ n + OVERHEAD <= S /\ SizeOf(mem', h + n) = S - n
      /\ \A q \in Pieces \ {h} : SizeOf(mem', q) = SizeOf(mem, q)
  BY <1>2 DEF CarvesOut
<1>4. /\ h \in Pieces /\ h \in Nat /\ S \in Nat /\ EndOf(h) = h + S
      /\ EndOf(h) \in Nat /\ end_address \in Nat
  BY <1>3, HoleIsPiece, PieceNumbers DEF Sound
<1>5. call.size \in Nat /\ call.size > 0
  BY <1>3, CallFacts DEF Sound
<1> HIDE DEF S
<1>6. n > 0
  BY <1>3, <1>5
<1>7. \A x \in Holes \ {h} : /\ x \in Pieces /\ EndOf(x)' = EndOf(x) /\ EndOf(x) \in Nat
                             /\ x \in Nat /\ x < EndOf(x)
                             /\ EndOf(x) <= h \/ EndOf(h) <= x
  <2>1. ASSUME NEW x \in Holes \ {h}
        PROVE  /\ x \in Pieces /\ EndOf(x)' = EndOf(x) /\ EndOf(x) \in Nat
               /\ x \in Nat /\ x < EndOf(x) /\ (EndOf(x) <= h \/ EndOf(h) <= x)
    <3>1. x \in Pieces
      BY HoleIsPiece
    <3>2. /\ EndOf(x) \in Nat /\ x \in Nat /\ x < EndOf(x)
      BY <3>1, PieceNumbers DEF Sound
    <3>3. EndOf(x) <= h \/ EndOf(h) <= x
      BY <1>4, <3>1, Apart DEF Sound
    <3>4. EndOf(x)' = EndOf(x)
      BY <1>3, <3>1 DEF EndOf
    <3> QED BY <3>1, <3>2, <3>3, <3>4
  <2> QED BY <2>1
<1>8. n < S => EndOf(h + n)' = EndOf(h)
  <2>1. ASSUME n < S PROVE (h + n) + (S - n) = h + S
    BY <1>3, <1>4
  <2> QED BY <1>3, <1>4, <2>1 DEF EndOf
<1>9. Coalesced'
  <2>1. ASSUME NEW x \in Holes \ {h}, NEW y \in Holes \ {h} PROVE EndOf(x)' # y
    BY <1>7 DEF Sound, Coalesced
  <2>2. ASSUME n < S, NEW x \in Holes \ {h} PROVE EndOf(x)' # h + n
    BY <1>3, <1>4, <1>6, <1>7, <2>2
  <2>3. ASSUME n < S, NEW y \in Holes \ {h} PROVE EndOf(h + n)' # y
    BY <1>3, <1>8, <2>3 DEF Sound, Coalesced
  <2>4. ASSUME n < S PROVE EndOf(h + n)' # h + n
    BY <1>3, <1>4, <1>8, <2>4
  <2>5. CASE n = S
    BY <1>3, <2>1, <2>5 DEF Coalesced
  <2>6. CASE n < S
    <3>1. Holes' = (Holes \ {h}) \cup {h + n}
      BY <1>3, <2>6
    <3>2. \A x \in Holes', y \in Holes' : EndOf(x)' # y
      BY <2>1, <2>2, <2>3, <2>4, <2>6, <3>1
    <3> QED BY <3>2 DEF Coalesced
  <2> QED BY <1>3, <1>4, <2>5, <2>6
<1>10. Spare'
  <2>1. SUFFICES ASSUME Growth = "none" PROVE Spare'
    BY DEF Spare
  <2>2. PICK t \in Holes :
          /\ EndOf(t) = end_address
          /\ call # Idle => t + call.size + 2 * OVERHEAD <= START + HEAP_MIN_SIZE
    BY <2>1 DEF Sound, Spare
  <2>3. /\ end_address \in {START + INITIAL_SIZE, START + HEAP_MIN_SIZE}
        /\ t + call.size + 2 * OVERHEAD <= START + HEAP_MIN_SIZE
        /\ START + HEAP_MIN_SIZE <= end_address
        /\ START \in Nat /\ HEAP_MIN_SIZE \in Nat /\ t \in Nat
    BY <1>3, <2>1, <2>2, GeometryAssumption, HoleIsPiece, PieceNumbers DEF Sound, Spare
  <2>4. \E x \in Holes' : /\ EndOf(x)' = end_address
                          /\ x + OVERHEAD <= START + HEAP_MIN_SIZE
    <3>1. CASE t # h
      <4>1. t \in Holes'
        BY <1>3, <1>4, <3>1
      <4>2. EndOf(t)' = end_address
        BY <1>7, <2>2, <3>1
      <4>3. t + OVERHEAD <= START + HEAP_MIN_SIZE
        BY <1>5, <2>3
      <4> QED BY <4>1, <4>2, <4>3
    <3>2. CASE t = h
      <4>1. S >= call.size + 2 * OVERHEAD
        BY <1>4, <1>5, <2>2, <2>3, <3>2
      <4>2. n = call.size + OVERHEAD
        BY <1>3, <4>1
      <4>3. n < S
        BY <1>4, <1>5, <4>1, <4>2
      <4>4. h + n \in Holes' /\ EndOf(h + n)' = end_address
        BY <1>3, <1>8, <2>2, <3>2, <4>3
      <4>5. h + n + OVERHEAD <= START + HEAP_MIN_SIZE
        BY <1>4, <1>5, <2>3, <3>2, <4>2
      <4> QED BY <4>4, <4>5
    <3> QED BY <3>1, <3>2
  <2> QED BY <1>3, <2>3, <2>4 DEF Spare
<1> QED BY <1>1, <1>9, <1>10 DEF Sound

HolesSized == \A h \in Holes : SizeOf(mem, h) \in Nat /\ SizeOf(mem, h) >= OVERHEAD

LEMMA HolesAreSized ==
  Base => HolesSized
  BY HoleIsPiece, PieceNumbers, PieceFacts DEF HolesSized

LEMMA AllocGrowsKeeps ==
  ASSUME Sound, Disciplined, call.align = 0, AllocGrows
  PROVE  Sound'
<1>1. Base' /\ \E t : GrowsAt(t)
  BY AllocGrowsPreserves DEF Sound
<1>2. CASE Growth = "none"
  <2>1. PICK t \in Holes :
          /\ EndOf(t) = end_address
          /\ call # Idle => t + call.size + 2 * OVERHEAD <= START + HEAP_MIN_SIZE
    BY <1>2 DEF Sound, Spare
  <2>2. /\ call # Idle /\ call.align = 0 /\ call.size \in Nat
        /\ find_smallest_hole(call.size + OVERHEAD, 0) = 0
    <3>1. call # Idle /\ find_smallest_hole(call.size + OVERHEAD, call.align) = 0
      BY DEF AllocGrows
    <3>2. call.align = 0 /\ call.size \in Nat
      BY <3>1, CallFacts DEF Sound, Disciplined
    <3> QED BY <3>1, <3>2
  <2>3. /\ SizeOf(mem, t) \in Nat /\ t \in Nat /\ end_address = t + SizeOf(mem, t)
        /\ START + HEAP_MIN_SIZE <= end_address
    BY <1>2, <2>1, GeometryAssumption, HoleIsPiece, PieceNumbers DEF Sound, Spare
  <2>4. SizeOf(mem, t) >= call.size + OVERHEAD
    BY <2>1, <2>2, <2>3, GeometryAssumption
  <2>5. index \in Seq(HeaderAddr)
    BY DEF Sound, Base, HeapTypes
  <2>6. PICK j \in 1 .. Len(index) : t = index[j]
    BY <2>5, ToSetIsRange DEF Holes
  <2>7. PICK n : n = call.size + OVERHEAD
    OBVIOUS
  <2>8. ~ (SizeOf(mem, index[j]) >= n)
    <3>1. find_smallest_hole(n, 0) = 0
      BY <2>2, <2>7
    <3> QED BY <2>5, <3>1, SearchFinds
  <2> QED BY <2>4, <2>6, <2>7, <2>8
<1>3. CASE Growth = "tail"
  <2>1. PICK t : GrowsAt(t)
    BY <1>1
  <2>2. /\ end_address' \in Nat /\ end_address <= end_address'
        /\ t \in Nat /\ Holes' = Holes \cup {t}
        /\ t \in Holes \/ Holes = {}
        /\ t + SizeOf(mem', t) = end_address'
        /\ \A q \in Pieces \ {t} : SizeOf(mem', q) = SizeOf(mem, q) /\ EndOf(q) <= t
    BY <2>1 DEF GrowsAt
  <2>3. EndOf(t)' = end_address'
    BY <2>2 DEF EndOf
  <2>4. \A x \in Holes \ {t} : EndOf(x)' = EndOf(x) /\ EndOf(x) <= t
    BY <2>2, HoleIsPiece DEF EndOf
  <2>5. SizeOf(mem', t) \in Nat /\ SizeOf(mem', t) >= OVERHEAD
    <3>1. Base' => HolesSized'
      BY HolesAreSized, PTL
    <3> QED BY <1>1, <2>2, <3>1 DEF HolesSized
  <2>6. t < end_address'
    BY <2>2, <2>5
  <2>7. \A x \in Holes : x \in Nat /\ x < EndOf(x) /\ EndOf(x) \in Nat
    BY HoleIsPiece, PieceNumbers DEF Sound
  <2>8. Coalesced'
    <3>1. ASSUME NEW x \in Holes', NEW y \in Holes' PROVE EndOf(x)' # y
      <4>1. CASE x = t /\ y = t
        BY <2>2, <2>3, <2>6, <4>1
      <4>2. CASE x = t /\ y # t
        <5>1. y < EndOf(y) /\ EndOf(y) <= t
          BY <2>2, <2>4, <2>7, <4>2
        <5> QED BY <2>2, <2>3, <2>6, <2>7, <4>2, <5>1
      <4>3. CASE x # t
        <5>1. x \in Holes /\ y \in Holes /\ EndOf(x)' = EndOf(x)
          BY <2>2, <2>4, <4>3
        <5> QED BY <5>1 DEF Sound, Coalesced
      <4> QED BY <4>1, <4>2, <4>3
    <3> QED BY <3>1 DEF Coalesced
  <2> QED BY <1>1, <1>3, <2>8 DEF Sound, Spare
<1> QED BY <1>2, <1>3 DEF Disciplined

LEMMA UserStoresKeeps ==
  ASSUME Sound, NEW b \in live, NEW w \in UserWords, UserStores(b, w)
  PROVE  Sound'
<1>1. Base' /\ \A q \in Pieces : SizeOf(mem', q) = SizeOf(mem, q)
  BY UserStoresPreserves DEF Sound
<1>2. UNCHANGED <<index, end_address, call>> /\ Holes' = Holes
  BY DEF UserStores, Holes
<1>3. \A h \in Holes : EndOf(h)' = EndOf(h)
  BY <1>1, HoleIsPiece DEF EndOf
<1>4. Coalesced'
  BY <1>2, <1>3 DEF Sound, Coalesced
<1>5. Spare'
  BY <1>2, <1>3 DEF Sound, Spare
<1> QED BY <1>1, <1>4, <1>5 DEF Sound

(* What free may do to a block, under the disciplines of the theorems.     *)
LEMMA FreeCases ==
  ASSUME Sound, Disciplined, NEW b \in live, free(b)
  PROVE  \/ \E p : FreesInner(b, p)
         \/ Growth = "none" /\ \E p : FreesTail(b, p)
<1> DEFINE h == Header(b)
           g == EndOf(h)
<1>1. MayFree(b)
  BY DEF free
<1>2. CASE \E c \in live : Header(c) = g
  BY <1>2, FreeBeforeBlock DEF Sound
<1>3. CASE ~ (\E c \in live : Header(c) = g)
  <2>1. Growth = "none" /\ (g \in Holes => EndOf(g) = end_address)
    BY <1>1, <1>3 DEF MayFree, Disciplined
  <2>2. PICK t \in Holes : /\ EndOf(t) = end_address
                           /\ t + OVERHEAD <= START + HEAP_MIN_SIZE
    BY <2>1 DEF Sound, Spare
  <2>3. h \in Pieces /\ h \notin Holes /\ t \in Pieces
    BY DEF Sound, Base, FreeSpaceIndexed, Pieces
  <2> HIDE DEF h
  <2>4. g < end_address
    <3>1. g # end_address
      BY <2>2, <2>3, OneEnd DEF Sound
    <3> QED BY <2>3, <3>1, PieceNumbers DEF Sound
  <2>5. g \in Holes
    <3>1. g \in Pieces
      BY <2>3, <2>4, PieceAbove DEF Sound
    <3> QED BY <1>3, <3>1 DEF Pieces
  <2>6. g = t
    BY <2>1, <2>2, <2>3, <2>5, HoleIsPiece, OneEnd DEF Sound
  <2>7. /\ START + HEAP_MIN_SIZE <= end_address /\ (end_address - START) % PAGE = 0
    <3>1. end_address \in {START + INITIAL_SIZE, START + HEAP_MIN_SIZE}
      BY <2>1 DEF Sound, Spare
    <3>2. \A n \in Nat : (START + n) - START = n
      BY GeometryAssumption
    <3> QED BY <3>1, <3>2, GeometryAssumption
  <2>8. BeforeTail(b)
    BY <2>1, <2>2, <2>5, <2>6, <2>7 DEF BeforeTail, h
  <2> QED BY <2>1, <2>8, FreeBeforeTail DEF Sound
<1> QED BY <1>2, <1>3

(* The other holes and blocks lie outside the words that free changed.     *)
LEMMA InnerBeside ==
  ASSUME Base, NEW b \in live, NEW p, FreesInner(b, p), NEW x \in Pieces,
         x \notin {p, Header(b)}
  PROVE  EndOf(x) <= p \/ EndOf(Header(b)) <= x
<1>1. PICK g : g = EndOf(Header(b))
  OBVIOUS
<1>2. Frees(b, p, g, g)
  BY <1>1, Zenon DEF FreesInner
<1> QED BY <1>2, FreesFacts

LEMMA TailBeside ==
  ASSUME Base, NEW b \in live, NEW p, FreesTail(b, p), NEW x \in Pieces,
         x \notin {p, Header(b), EndOf(Header(b))}
  PROVE  EndOf(x) <= p
<1>1. PICK g, q : g = EndOf(Header(b)) /\ q = START + HEAP_MIN_SIZE
  OBVIOUS
<1>2. Frees(b, p, q, LIMIT) /\ g \in Holes /\ EndOf(g) = end_address
  BY <1>1, Zenon DEF FreesTail, BeforeTail
<1>3. EndOf(x) <= p \/ g <= x
  BY <1>1, <1>2, FreesFacts
<1>4. EndOf(x) <= g \/ EndOf(g) <= x
  BY <1>1, <1>2, HoleIsPiece, Apart
<1> QED BY <1>2, <1>3, <1>4, PieceNumbers, HoleIsPiece

LEMMA FreesInnerKeeps ==
  ASSUME Sound, NEW b \in live, NEW p, FreesInner(b, p)
  PROVE  Sound'
<1>1. PICK g, h : g = EndOf(h) /\ h = Header(b)
  OBVIOUS
<1>2. /\ Frees(b, p, g, g) /\ end_address' = end_address
      /\ \E c \in live : Header(c) = g
  BY <1>1, Zenon DEF FreesInner
<1>3. Base'
  BY FreesInnerPreserves DEF Sound
<1>4. /\ h \in Pieces /\ h \notin Holes /\ h \in Nat /\ g \in Nat /\ h < g
      /\ p \in Pieces /\ p \in Nat /\ p + OVERHEAD <= g
  BY <1>1, <1>2, FreesFacts DEF Sound
<1>5. g \notin Holes /\ g \in Pieces
  BY <1>2 DEF Sound, Base, FreeSpaceIndexed, Pieces
<1>6. /\ call' = Idle /\ Holes' = Holes \cup {p} /\ SizeOf(mem', p) = g - p
      /\ \/ p = h /\ \A x \in Holes : EndOf(x) # h
         \/ p \in Holes /\ EndOf(p) = h
  BY <1>1, <1>2, <1>5 DEF Frees
<1>7. EndOf(p)' = g
  <2>1. p + (g - p) = g
    BY <1>4
  <2> QED BY <1>6, <2>1 DEF EndOf
<1>8. \A x \in Holes \ {p} : EndOf(x)' = EndOf(x)
  <2>1. ASSUME NEW x \in Holes \ {p} PROVE SizeOf(mem', x) = SizeOf(mem, x)
    <3>1. x \in Pieces /\ x \notin {p, Header(b)}
      BY <1>1, <1>4, HoleIsPiece
    <3>2. EndOf(x) <= p \/ g <= x
      BY <1>1, <3>1, InnerBeside DEF Sound
    <3> QED BY <1>2, <1>4, <3>1, <3>2, FreesKeeps DEF Sound
  <2> QED BY <2>1 DEF EndOf
<1>9. Coalesced'
  <2>1. ASSUME NEW x \in Holes', NEW y \in Holes' PROVE EndOf(x)' # y
    <3>1. CASE x = p
      BY <1>4, <1>5, <1>6, <1>7, <3>1
    <3>2. CASE x # p /\ y \in Holes
      BY <1>6, <1>8, <3>2 DEF Sound, Coalesced
    <3>3. CASE x # p /\ y \notin Holes
      <4>1. y = p /\ p = h /\ x \in Holes
        BY <1>6, <3>3 DEF Sound, Coalesced
      <4> QED BY <1>6, <1>8, <3>3, <4>1
    <3> QED BY <3>1, <3>2, <3>3
  <2> QED BY <2>1 DEF Coalesced
<1>10. Spare'
  <2>1. SUFFICES ASSUME Growth = "none" PROVE Spare'
    BY DEF Spare
  <2>2. PICK t \in Holes : /\ EndOf(t) = end_address
                           /\ t + OVERHEAD <= START + HEAP_MIN_SIZE
    BY <2>1 DEF Sound, Spare
  <2>3. g < end_address
    BY <1>5, PieceNumbers DEF Sound
  <2>4. t # p
    BY <1>1, <1>4, <1>6, <2>2, <2>3, PieceNumbers DEF Sound
  <2>5. t \in Holes' /\ EndOf(t)' = end_address'
    BY <1>2, <1>6, <1>8, <2>2, <2>4
  <2>6. end_address' \in {START + INITIAL_SIZE, START + HEAP_MIN_SIZE}
    BY <1>2, <2>1 DEF Sound, Spare
  <2> QED BY <1>6, <2>2, <2>5, <2>6 DEF Spare
<1> QED BY <1>3, <1>9, <1>10 DEF Sound

LEMMA FreesTailKeeps ==
  ASSUME Sound, NEW b \in live, NEW p, FreesTail(b, p)
  PROVE  Sound'
<1>1. PICK g, h, q : g = EndOf(h) /\ h = Header(b) /\ q = START + HEAP_MIN_SIZE
  OBVIOUS
<1>2. /\ Frees(b, p, q, LIMIT) /\ end_address' = q
      /\ g \in Holes /\ g + OVERHEAD <= q
  BY <1>1, Zenon DEF FreesTail, BeforeTail
<1>3. Base'
  BY FreesTailPreserves DEF Sound
<1>4. /\ h \in Pieces /\ h \notin Holes /\ h \in Nat /\ g \in Nat /\ h < g
      /\ p \in Pieces /\ p \in Nat /\ p + OVERHEAD <= g
  BY <1>1, <1>2, FreesFacts DEF Sound
<1>5. q \in Nat /\ LIMIT \in Nat
  BY <1>1, GeometryAssumption
<1>6. /\ call' = Idle /\ Holes' = (Holes \ {g}) \cup {p} /\ SizeOf(mem', p) = q - p
      /\ \/ p = h /\ \A x \in Holes : EndOf(x) # h
         \/ p \in Holes /\ EndOf(p) = h
  BY <1>1, <1>2 DEF Frees
<1>7. EndOf(p)' = q
  <2>1. p + (q - p) = q
    BY <1>4, <1>5
  <2> QED BY <1>6, <2>1 DEF EndOf
<1>8. \A x \in Holes \ {p, g} : EndOf(x)' = EndOf(x) /\ EndOf(x) <= p
  <2>1. ASSUME NEW x \in Holes \ {p, g}
        PROVE  SizeOf(mem', x) = SizeOf(mem, x) /\ EndOf(x) <= p
    <3>1. x \in Pieces /\ x \notin {p, Header(b), EndOf(Header(b))}
      BY <1>1, <1>4, HoleIsPiece
    <3>2. EndOf(x) <= p
      BY <3>1, TailBeside DEF Sound
    <3> QED BY <1>2, <1>5, <3>1, <3>2, FreesKeeps DEF Sound
  <2> QED BY <2>1 DEF EndOf
<1>9. Coalesced'
  <2>1. ASSUME NEW x \in Holes', NEW y \in Holes' PROVE EndOf(x)' # y
    <3>1. CASE x = p /\ y = p
      BY <1>2, <1>4, <1>5, <1>7, <3>1
    <3>2. CASE x = p /\ y # p
      <4>1. y \in Holes \ {p, g}
        BY <1>6, <3>2
      <4>2. y \in Nat /\ EndOf(y) \in Nat /\ y < EndOf(y) /\ EndOf(y) <= p
        BY <1>8, <4>1, HoleIsPiece, PieceNumbers DEF Sound
      <4> QED BY <1>2, <1>4, <1>5, <1>7, <3>2, <4>2
    <3>3. CASE x # p /\ y \in Holes
      BY <1>6, <1>8, <3>3 DEF Sound, Coalesced
    <3>4. CASE x # p /\ y \notin Holes
      <4>1. y = p /\ p = h /\ x \in Holes \ {p, g}
        BY <1>6, <3>4 DEF Sound, Coalesced
      <4> QED BY <1>6, <1>8, <3>4, <4>1
    <3> QED BY <3>1, <3>2, <3>3, <3>4
  <2> QED BY <2>1 DEF Coalesced
<1>10. Spare'
  <2>1. p \in Holes' /\ EndOf(p)' = end_address' /\ end_address' = START + HEAP_MIN_SIZE
    BY <1>1, <1>2, <1>6, <1>7
  <2>2. p + OVERHEAD <= START + HEAP_MIN_SIZE
    BY <1>1, <1>2, <1>4, <1>5
  <2> QED BY <1>6, <2>1, <2>2 DEF Spare
<1> QED BY <1>3, <1>9, <1>10 DEF Sound

LEMMA StutterKeeps ==
  ASSUME Sound, UNCHANGED vars
  PROVE  Sound'
<1>1. Holes' = Holes /\ Pieces' = Pieces /\ \A x : EndOf(x)' = EndOf(x)
  BY DEF vars, Holes, Pieces, EndOf
<1>2. Coalesced' /\ Spare'
  BY <1>1 DEF vars, Sound, Coalesced, Spare
<1>3. HeapTypes' /\ CallServed'
  BY <1>1 DEF vars, Sound, Base, HeapTypes, CallServed
<1>4. /\ FreeSpaceIndexed' /\ BoundaryTags' /\ HoleTags' /\ NothingBelow'
      /\ AllPresent' /\ KeepsRunning'
  BY <1>1 DEF vars, Sound, Base, FreeSpaceIndexed, BoundaryTags, HoleTags, NothingBelow,
              AllPresent, KeepsRunning
<1> QED BY <1>2, <1>3, <1>4 DEF Sound, Base

LEMMA StepPreserves ==
  ASSUME Disciplined, Sound, Asked, [Next]_vars
  PROVE  Sound'
<1>1. ASSUME NEW size \in Sizes, NEW align \in Aligns, Call(size, align)
      PROVE  Sound'
  BY <1>1, CallKeeps
<1>2. CASE AllocFromHole
  BY <1>2, AskedPlain, AllocFromHoleKeeps DEF AllocFromHole
<1>3. CASE AllocGrows
  BY <1>3, AskedPlain, AllocGrowsKeeps DEF AllocGrows
<1>4. ASSUME NEW b \in live, NEW w \in UserWords, UserStores(b, w)
      PROVE  Sound'
  BY <1>4, UserStoresKeeps
<1>5. ASSUME NEW b \in live, free(b)
      PROVE  Sound'
  <2>1. CASE \E p : FreesInner(b, p)
    BY <2>1, FreesInnerKeeps
  <2>2. CASE \E p : FreesTail(b, p)
    BY <2>2, FreesTailKeeps
  <2> QED BY <1>5, <2>1, <2>2, FreeCases
<1>6. CASE UNCHANGED vars
  BY <1>6, StutterKeeps
<1> QED BY <1>1, <1>2, <1>3, <1>4, <1>5, <1>6 DEF Next

LEMMA StepAsked ==
  ASSUME Disciplined, Sound, Asked, [Next]_vars
  PROVE  Asked'
<1>1. ASSUME NEW size \in Sizes, NEW align \in Aligns, Call(size, align)
      PROVE  Asked'
  BY <1>1 DEF Call, Asked
<1>2. CASE AllocFromHole
  <2>1. PICK h, n, b : CarvesOut(h, n, b)
    BY <1>2, AskedPlain, AllocFromHolePreserves DEF Sound, AllocFromHole
  <2>2. /\ call' = Idle /\ call # Idle /\ live' = live \cup {b}
        /\ b = [ptr |-> h + HEADER, size |-> call.size]
    BY <2>1 DEF CarvesOut
  <2>3. b.size = call.size
    BY <2>2
  <2> HIDE DEF HEADER
  <2> QED BY <2>2, <2>3 DEF Asked
<1>3. CASE AllocGrows
  BY <1>3 DEF AllocGrows, Asked
<1>4. ASSUME NEW b \in live, NEW w \in UserWords, UserStores(b, w)
      PROVE  Asked'
  BY <1>4 DEF UserStores, Asked
<1>5. ASSUME NEW b \in live, free(b)
      PROVE  Asked'
  <2>1. PICK p, q, hi : Frees(b, p, q, hi)
    BY <1>5, FreeCases, Zenon DEF FreesInner, FreesTail
  <2>2. UNCHANGED call /\ live' = live \ {b}
    BY <2>1 DEF Frees
  <2> QED BY <2>2 DEF Asked
<1>6. CASE UNCHANGED vars
  BY <1>6 DEF vars, Asked
<1> QED BY <1>1, <1>2, <1>3, <1>4, <1>5, <1>6 DEF Next

-----------------------------------------------------------------------------
(* The theorems.                                                           *)

(* The invariant holds from create_heap on.                                *)
THEOREM Invariance ==
  ASSUME Disciplined
  PROVE  Spec => []IInv
<1>1. Init => IInv
  BY InitSpare DEF Init, Asked, IInv
<1>2. IInv /\ [Next]_vars => IInv'
  BY StepPreserves, StepAsked DEF IInv
<1> QED BY <1>1, <1>2, PTL DEF Spec

(* Every variable of the heap keeps its type: no call writes outside the   *)
(* address range, and no header leaves it.                                 *)
THEOREM TypeCorrect ==
  ASSUME Disciplined
  PROVE  Spec => []TypeOK
<1>1. IInv => TypeOK
  BY DEF IInv, Sound, Asked, Base, HeapTypes, TypeOK
<1> QED BY <1>1, Invariance, PTL

(* Live blocks and holes tile the heap: no word leaks, none is owned twice.*)
THEOREM NoLeak ==
  ASSUME Disciplined
  PROVE  Spec => []FreeSpaceIndexed
<1>1. IInv => FreeSpaceIndexed
  BY DEF IInv, Sound, Base
<1> QED BY <1>1, Invariance, PTL

(* The tags around every live block stay as alloc wrote them.              *)
THEOREM TagsSurvive ==
  ASSUME Disciplined
  PROVE  Spec => []BoundaryTags
<1>1. IInv => BoundaryTags
  BY DEF IInv, Sound, Base
<1> QED BY <1>1, Invariance, PTL

(* Every hole of the index has a whole header, and below a block a footer  *)
(* that leads unify left to it.                                            *)
THEOREM HolesTagged ==
  ASSUME Disciplined
  PROVE  Spec => []HoleTags
<1>1. IInv => HoleTags
  BY DEF IInv, Sound, Base
<1> QED BY <1>1, Invariance, PTL

(* free leaves no two holes side by side.                                  *)
THEOREM HolesApart ==
  ASSUME Disciplined
  PROVE  Spec => []Coalesced
<1>1. IInv => Coalesced
  BY DEF IInv, Sound
<1> QED BY <1>1, Invariance, PTL

(* No call touches a page that is not present, or removes an item from an  *)
(* empty index.                                                            *)
THEOREM NeverStops ==
  ASSUME Disciplined
  PROVE  Spec => []KeepsRunning
<1>1. IInv => KeepsRunning
  BY DEF IInv, Sound, Base
<1> QED BY <1>1, Invariance, PTL

LEMMA BlockNumbers ==
  ASSUME Base, NEW b \in live
  PROVE  /\ Header(b) \in Pieces /\ Header(b) \in Nat /\ Header(b) >= START
         /\ b.ptr = Header(b) + HEADER /\ b.size \in Nat /\ b.size > 0
         /\ BlockSize(b) \in Nat /\ BlockSize(b) >= b.size + OVERHEAD
         /\ EndOf(Header(b)) = Header(b) + BlockSize(b)
         /\ EndOf(Header(b)) <= end_address
         /\ end_address \in Nat /\ end_address <= LIMIT
<1>1. Header(b) \in Pieces
  BY DEF Pieces
<1>2. b.ptr \in START + HEADER .. LIMIT - FOOTER /\ b.size \in Positive
  BY DEF Base, HeapTypes
<1>3. b.size \in Nat /\ b.size > 0
  BY <1>2, SizesPositive
<1>4. b.ptr = Header(b) + HEADER
  BY <1>2, Geometry DEF Header
<1>5. BlockSize(b) >= b.size + OVERHEAD
  BY DEF Base, BoundaryTags, BlockTagged, BlockSize
<1>6. /\ Header(b) \in Nat /\ Header(b) >= START /\ end_address \in Nat
      /\ end_address <= LIMIT /\ EndOf(Header(b)) <= end_address
      /\ BlockSize(b) \in Nat /\ EndOf(Header(b)) = Header(b) + BlockSize(b)
  BY <1>1, PieceNumbers, Geometry DEF BlockSize
<1> QED BY <1>1, <1>3, <1>4, <1>5, <1>6

(* Two live blocks have headers of their own, and lie apart.               *)
LEMMA BlocksApart ==
  ASSUME Base, NEW b \in live, NEW c \in live, b # c
  PROVE  /\ Header(b) # Header(c)
         /\ EndOf(Header(b)) <= Header(c) \/ EndOf(Header(c)) <= Header(b)
<1>1. b.ptr \in Int /\ c.ptr \in Int
  BY Geometry DEF Base, HeapTypes
<1>2. Header(b) # Header(c)
  BY <1>1 DEF Base, FreeSpaceIndexed, Header
<1> QED BY <1>2, BlockNumbers, Apart

(* alloc never hands out a word that another block owns.                   *)
THEOREM BlocksDisjoint ==
  ASSUME Disciplined
  PROVE  Spec => []LiveBlocksDisjoint
<1>1. ASSUME IInv PROVE LiveBlocksDisjoint
  <2>1. ASSUME NEW b \in live
        PROVE  BlockWords(b) \subseteq START .. end_address - 1
    BY <1>1, BlockNumbers, Geometry DEF BlockWords, IInv, Sound
  <2>2. ASSUME NEW b \in live, NEW c \in live \ {b}
        PROVE  BlockWords(b) \cap BlockWords(c) = {}
    BY <1>1, BlockNumbers, BlocksApart DEF BlockWords, IInv, Sound
  <2> QED BY <2>1, <2>2 DEF LiveBlocksDisjoint
<1> QED BY <1>1, Invariance, PTL

-----------------------------------------------------------------------------
(* What a step may do to the words of a block.                             *)

PayloadKept(b) == \A a \in Payload(b) : mem'[a] = mem[a]

LEMMA PayloadWords ==
  ASSUME Base, NEW b \in live, NEW a \in Payload(b)
  PROVE  /\ a \in Nat /\ a \in Addr
         /\ Header(b) + HEADER <= a /\ a < EndOf(Header(b))
         /\ START <= a /\ a < LIMIT
<1>1. /\ Header(b) \in Nat /\ b.ptr = Header(b) + HEADER /\ b.size \in Nat
      /\ b.ptr + b.size <= EndOf(Header(b)) /\ EndOf(Header(b)) \in Nat
      /\ Header(b) >= START /\ EndOf(Header(b)) <= LIMIT /\ LIMIT \in Nat
  BY BlockNumbers, Geometry
<1>2. a \in b.ptr .. b.ptr + b.size - 1
  BY DEF Payload
<1>3. /\ a \in Nat /\ Header(b) + HEADER <= a /\ a < EndOf(Header(b))
      /\ START <= a /\ a < LIMIT
  BY <1>1, <1>2, Geometry
<1> QED BY <1>3, Geometry DEF Addr

LEMMA PayloadOutside ==
  ASSUME Base, NEW b \in live, NEW lo \in Nat, NEW hi \in Nat,
         EndOf(Header(b)) <= lo \/ hi <= Header(b),
         \A a \in Addr : a \notin lo .. hi - 1 => mem'[a] = mem[a]
  PROVE  PayloadKept(b)
<1>1. ASSUME NEW a \in Payload(b) PROVE mem'[a] = mem[a]
  <2>1. a \in Addr /\ a \in Nat /\ Header(b) + HEADER <= a /\ a < EndOf(Header(b))
    BY PayloadWords
  <2>2. Header(b) \in Nat /\ EndOf(Header(b)) \in Nat
    BY BlockNumbers
  <2>3. a \notin lo .. hi - 1
    BY <2>1, <2>2
  <2> QED BY <2>1, <2>3
<1> QED BY <1>1 DEF PayloadKept

(* A call that changes the words of one hole, of the heap as it grows, or   *)
(* of a block and the holes beside it.                                     *)
LEMMA HoleChangesKeepPayload ==
  ASSUME Base, NEW b \in live, NEW h \in Holes,
         \A a \in Addr : a \notin h .. h + SizeOf(mem, h) - 1 => mem'[a] = mem[a]
  PROVE  PayloadKept(b)
<1>1. Header(b) \in Pieces /\ Header(b) \notin Holes
  BY DEF Base, FreeSpaceIndexed, Pieces
<1>2. PICK lo \in Nat, hi \in Nat : lo = h /\ hi = h + SizeOf(mem, h)
  BY HoleIsPiece, PieceNumbers
<1>3. EndOf(h) = hi /\ h \in Pieces /\ h # Header(b)
  BY <1>1, <1>2, HoleIsPiece, PieceNumbers
<1>4. EndOf(Header(b)) <= lo \/ hi <= Header(b)
  BY <1>1, <1>2, <1>3, Apart
<1>5. \A a \in Addr : a \notin lo .. hi - 1 => mem'[a] = mem[a]
  <2>1. SizeOf(mem, h) \in Nat /\ h \in Nat
    BY <1>3, PieceNumbers
  <2>2. hi - 1 = h + SizeOf(mem, h) - 1
    BY <1>2, <2>1
  <2>3. lo .. hi - 1 = h .. h + SizeOf(mem, h) - 1
    BY <1>2, <2>2, Zenon
  <2> QED BY <2>3, Zenon
<1> QED BY <1>4, <1>5, PayloadOutside

LEMMA CarvingKeepsPayload ==
  ASSUME Base, NEW b \in live, NEW h, NEW n, NEW c, CarvesOut(h, n, c)
  PROVE  PayloadKept(b)
<1>1. Header(b) \in Pieces /\ Header(b) \notin Holes
  BY DEF Base, FreeSpaceIndexed, Pieces
<1>2. h \in Holes /\ \A a \in Addr : a \notin h .. h + SizeOf(mem, h) - 1 => mem'[a] = mem[a]
  BY DEF CarvesOut
<1> QED BY <1>1, <1>2, HoleChangesKeepPayload

LEMMA GrowthKeepsPayload ==
  ASSUME Base, Base', NEW b \in live, NEW t, GrowsAt(t)
  PROVE  PayloadKept(b)
<1>1. /\ t \in Nat /\ Holes' = Holes \cup {t} /\ live' = live
      /\ end_address' \in Nat
      /\ \A q \in Pieces \ {t} : EndOf(q) <= t
      /\ \A a \in Addr : a \notin t .. end_address' - 1 => mem'[a] = mem[a]
  BY DEF GrowsAt
<1>2. Header(b) # t /\ Header(b) \in Pieces
  <2>1. \A c \in live' : Header(c) \notin Holes'
    BY DEF Base, FreeSpaceIndexed, Header
  <2> QED BY <1>1, <2>1 DEF Pieces
<1>3. EndOf(Header(b)) <= t
  BY <1>1, <1>2
<1>4. PICK hi \in Nat : hi = end_address'
  BY <1>1
<1> QED BY <1>1, <1>3, <1>4, PayloadOutside

LEMMA FreeingKeepsPayload ==
  ASSUME Base, NEW b \in live, b \in live', NEW c \in live, NEW p, FreesInner(c, p)
  PROVE  PayloadKept(b)
<1>1. Header(b) \in Pieces /\ Header(b) \notin Holes
  BY DEF Base, FreeSpaceIndexed, Pieces
<1>2. PICK g, h : h = Header(c) /\ g = EndOf(h)
  OBVIOUS
<1>3. Frees(c, p, g, g)
  BY <1>2, Zenon DEF FreesInner
<1>4. p \in Nat /\ g \in Nat
  BY <1>2, <1>3, FreesFacts
<1>5. /\ b # c /\ (p = h \/ p \in Holes)
      /\ \A a \in Addr : a \notin p .. g - 1 => mem'[a] = mem[a]
  BY <1>2, <1>3 DEF Frees
<1>6. Header(b) \notin {p, Header(c)}
  BY <1>1, <1>2, <1>5, BlocksApart
<1>7. EndOf(Header(b)) <= p \/ g <= Header(b)
  BY <1>1, <1>2, <1>6, InnerBeside
<1> QED BY <1>4, <1>5, <1>7, PayloadOutside

LEMMA StepKeepsPayloads ==
  ASSUME Disciplined, Sound, Asked, [Next]_vars, NEW b \in live \cap live'
  PROVE  PayloadKept(b) \/ \E w \in UserWords : UserStores(b, w)
<1>1. b \in live /\ b \in live' /\ Header(b) \in Pieces /\ Header(b) \notin Holes
  BY DEF Sound, Base, FreeSpaceIndexed, Pieces
<1>2. ASSUME NEW size \in Sizes, NEW align \in Aligns, Call(size, align)
      PROVE  PayloadKept(b)
  BY <1>2 DEF Call, PayloadKept
<1>3. ASSUME AllocFromHole PROVE PayloadKept(b)
  <2>1. \E h, n, c : CarvesOut(h, n, c)
    BY <1>3, AskedPlain, AllocFromHolePreserves DEF Sound, AllocFromHole
  <2> QED BY <1>1, <2>1, CarvingKeepsPayload DEF Sound
<1>4. ASSUME AllocGrows PROVE PayloadKept(b)
  <2>1. Base' /\ \E t : GrowsAt(t)
    BY <1>4, AskedPlain, AllocGrowsPreserves DEF Sound, AllocGrows
  <2> QED BY <1>1, <2>1, GrowthKeepsPayload DEF Sound
<1>5. ASSUME NEW c \in live, NEW w \in UserWords, UserStores(c, w), b # c
      PROVE  PayloadKept(b)
  <2>1. mem' = [a \in Addr |-> IF a \in Payload(c) THEN w ELSE mem[a]]
    BY <1>5 DEF UserStores
  <2>2. ASSUME NEW a \in Payload(b) PROVE a \in Addr /\ a \notin Payload(c)
    <3>1. SUFFICES ASSUME a \in Payload(c) PROVE FALSE
      BY PayloadWords DEF Sound
    <3>2. /\ a \in Nat /\ Header(b) + HEADER <= a /\ a < EndOf(Header(b))
          /\ Header(c) + HEADER <= a /\ a < EndOf(Header(c))
      BY <3>1, PayloadWords DEF Sound
    <3>3. /\ Header(b) \in Nat /\ Header(c) \in Nat
          /\ EndOf(Header(b)) \in Nat /\ EndOf(Header(c)) \in Nat
      BY BlockNumbers DEF Sound
    <3>4. EndOf(Header(b)) <= Header(c) \/ EndOf(Header(c)) <= Header(b)
      BY <1>5, BlocksApart DEF Sound
    <3> QED BY <3>2, <3>3, <3>4
  <2> QED BY <2>1, <2>2 DEF PayloadKept
<1>6. ASSUME NEW c \in live, free(c) PROVE PayloadKept(b)
  <2>1. PICK p : FreesInner(c, p) \/ FreesTail(c, p)
    BY <1>6, FreeCases
  <2>2. PICK q, g, h : q = START + HEAP_MIN_SIZE /\ h = Header(c) /\ g = EndOf(h)
    OBVIOUS
  <2>3. CASE FreesInner(c, p)
    BY <1>1, <2>3, FreeingKeepsPayload DEF Sound
  <2>4. CASE FreesTail(c, p)
    <3>1. Frees(c, p, q, LIMIT) /\ g \in Holes
      BY <2>2, <2>4, Zenon DEF FreesTail, BeforeTail
    <3>2. p \in Nat /\ q \in Nat /\ LIMIT \in Nat
      BY <2>2, <3>1, GeometryAssumption, FreesFacts DEF Sound
    <3>3. /\ b # c /\ (p = h \/ p \in Holes)
          /\ \A a \in Addr : a \notin p .. LIMIT - 1 => mem'[a] = mem[a]
      BY <1>1, <2>2, <3>1 DEF Frees
    <3>4. Header(b) \notin {p, Header(c), EndOf(Header(c))}
      BY <1>1, <2>2, <3>1, <3>3, BlocksApart DEF Sound
    <3>5. EndOf(Header(b)) <= p
      BY <1>1, <2>4, <3>4, TailBeside DEF Sound
    <3> QED BY <1>1, <3>2, <3>3, <3>5, PayloadOutside DEF Sound
  <2> QED BY <2>1, <2>3, <2>4
<1>7. ASSUME UNCHANGED vars PROVE PayloadKept(b)
  BY <1>7 DEF vars, PayloadKept
<1>8. ASSUME NEW c \in live, NEW w \in UserWords, UserStores(c, w)
      PROVE  PayloadKept(b) \/ \E v \in UserWords : UserStores(b, v)
  BY <1>5, <1>8
<1> QED BY <1>2, <1>3, <1>4, <1>6, <1>7, <1>8 DEF Next

(* No call of alloc or free writes into a block that is live before and    *)
(* after it: only its owner stores change its words.                       *)
THEOREM PayloadsSurvive ==
  ASSUME Disciplined
  PROVE  Spec => PayloadIntact
<1>1. IInv /\ [Next]_vars =>
        [\A b \in live \cap live' :
           \/ \A a \in Payload(b) : mem'[a] = mem[a]
           \/ \E w \in UserWords : UserStores(b, w)]_vars
  BY StepKeepsPayloads DEF IInv, PayloadKept
<1> QED BY <1>1, Invariance, PTL DEF Spec, PayloadIntact

-----------------------------------------------------------------------------
(* The heap implements what kheap.h promises, step by step: a call is a    *)
(* request, the last level of its recursion grants a region, free releases *)
(* one, and growth and stores do not show.                                 *)

LEMMA GrantsRegion ==
  ASSUME Sound, call.align = 0, AllocFromHole
  PROVE  \E p \in START .. LIMIT - 1 : Promise!Grant(p)
<1>1. Base' /\ \E h, n, b : CarvesOut(h, n, b)
  BY AllocFromHolePreserves DEF Sound
<1>2. PICK h, n, b : CarvesOut(h, n, b)
  BY <1>1
<1>3. /\ h \in Holes /\ n \in Nat /\ n <= SizeOf(mem, h) /\ call # Idle
      /\ b = [ptr |-> h + HEADER, size |-> call.size] /\ call.size + OVERHEAD <= n
      /\ live' = live \cup {b} /\ call' = Idle
  BY <1>2 DEF CarvesOut
<1>4. call.size \in Nat /\ call.align = 0
  BY <1>3, CallFacts DEF Sound
<1>5. /\ h \in Pieces /\ h \in Nat /\ START <= h /\ EndOf(h) \in Nat
      /\ h + n <= EndOf(h) /\ EndOf(h) <= LIMIT
      /\ START \in Nat /\ LIMIT \in Nat
  BY <1>3, HoleIsPiece, PieceNumbers, Geometry DEF Sound
<1>6. PICK p : p = h + HEADER
  OBVIOUS
<1>7. b.ptr = p /\ b.size = call.size /\ p \in Nat
  BY <1>3, <1>5, <1>6
<1>8. p \in START .. LIMIT - 1
  BY <1>3, <1>4, <1>5, <1>6
<1>9. \A a \in Promise!Region(b) : a \in Nat /\ h + HEADER <= a /\ a < EndOf(h)
  BY <1>3, <1>4, <1>5, <1>6, <1>7 DEF Promise!Region
<1>10. Promise!Region(b) \subseteq START .. LIMIT - 1
  BY <1>5, <1>9
<1>11. ASSUME NEW c \in live PROVE Promise!Region(b) \cap Promise!Region(c) = {}
  <2>1. ASSUME NEW a \in Promise!Region(b), a \in Promise!Region(c) PROVE FALSE
    <3>1. a \in Payload(c)
      BY <2>1 DEF Promise!Region, Payload
    <3>2. Header(c) + HEADER <= a /\ a < EndOf(Header(c)) /\ a \in Nat
      BY <3>1, PayloadWords DEF Sound
    <3>3. Header(c) \in Pieces /\ Header(c) # h
      BY <1>3 DEF Sound, Base, FreeSpaceIndexed, Pieces
    <3>4. EndOf(Header(c)) <= h \/ EndOf(h) <= Header(c)
      BY <1>5, <3>3, Apart DEF Sound
    <3>5. Header(c) \in Nat /\ EndOf(Header(c)) \in Nat
      BY <3>3, PieceNumbers DEF Sound
    <3> QED BY <1>5, <1>9, <2>1, <3>2, <3>4, <3>5
  <2> QED BY <2>1
<1>12. b = [ptr |-> p, size |-> call.size]
  BY <1>3, <1>6
<1>13. ~ (call.align > 0)
  BY <1>4
<1>14. Promise!Grant(p)
  BY <1>3, <1>10, <1>11, <1>12, <1>13, Zenon DEF Promise!Grant
<1> QED BY <1>8, <1>14

LEMMA StepKeepsPromise ==
  ASSUME Disciplined, Sound, Asked, [Next]_vars
  PROVE  [Promise!Next]_(Promise!vars)
<1>1. ASSUME NEW size \in Sizes, NEW align \in Aligns, Call(size, align)
      PROVE  Promise!Next
  BY <1>1 DEF Call, Promise!Next, Promise!Request
<1>2. ASSUME AllocFromHole PROVE Promise!Next
  BY <1>2, AskedPlain, GrantsRegion DEF AllocFromHole, Promise!Next
<1>3. ASSUME AllocGrows PROVE UNCHANGED Promise!vars
  BY <1>3 DEF AllocGrows, Promise!vars
<1>4. ASSUME NEW b \in live, NEW w \in UserWords, UserStores(b, w)
      PROVE  UNCHANGED Promise!vars
  BY <1>4 DEF UserStores, Promise!vars
<1>5. ASSUME NEW b \in live, free(b) PROVE Promise!Next
  <2>1. PICK p, q, hi : Frees(b, p, q, hi)
    BY <1>5, FreeCases, Zenon DEF FreesInner, FreesTail
  <2>2. call = Idle /\ live' = live \ {b} /\ UNCHANGED call
    BY <2>1 DEF Frees
  <2> QED BY <2>2 DEF Promise!Next, Promise!Release
<1>6. ASSUME UNCHANGED vars PROVE UNCHANGED Promise!vars
  BY <1>6 DEF vars, Promise!vars
<1> QED BY <1>1, <1>2, <1>3, <1>4, <1>5, <1>6 DEF Next

(* The safety part of KeepsPromise: every behaviour of the heap is, for    *)
(* its callers, one of the abstract allocator.                             *)
THEOREM ImplementsAllocator ==
  ASSUME Disciplined
  PROVE  Spec => Promise!Init /\ [][Promise!Next]_(Promise!vars)
<1>1. Init => Promise!Init
  BY DEF Init, Promise!Init
<1>2. IInv /\ [Next]_vars => [Promise!Next]_(Promise!vars)
  BY StepKeepsPromise DEF IInv
<1> QED BY <1>1, <1>2, Invariance, PTL DEF Spec

=============================================================================
