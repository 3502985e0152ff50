------------------------- MODULE OrderedArrayProofs -------------------------
(***************************************************************************)
(* The loops of kernel/mm/ordered_array.c keep the array sorted and inside *)
(* its memory, for every capacity, every set of items and every key.       *)
(***************************************************************************)
EXTENDS OrderedArrayLoops, TLAPS

(* The first n cells hold items.                                           *)
Filled(n) == \A j \in 0 .. n - 1 : array[j] \in Items

(* What each loop relies on: the cells scan has passed are below the item; *)
(* shift holds an item that belongs between the cells on either side of    *)
(* the counter; close has left the last cell as a duplicate, then as junk. *)
LoopInv ==
  /\ pc = "idle" => Filled(size) /\ Ascending(size)
  /\ pc = "scan" =>
       /\ iterator <= size /\ size < MaxSize /\ tmp \in Items
       /\ Filled(size) /\ Ascending(size)
       /\ \A j \in 0 .. iterator - 1 : KeyOf[array[j]] < KeyOf[tmp]
  /\ pc = "shift" =>
       /\ iterator <= size /\ size < MaxSize
       /\ iterator < size => Filled(size) /\ tmp \in Items
       /\ iterator = size => Filled(size + 1)
       /\ \A j, k \in 0 .. iterator :
            j < k => KeyOf[array[j]] <= KeyOf[array[k]]
       /\ iterator < size =>
            /\ \A j \in 0 .. iterator : KeyOf[array[j]] <= KeyOf[tmp]
            /\ \A k \in iterator + 1 .. size - 1 : KeyOf[tmp] <= KeyOf[array[k]]
            /\ \A j, k \in iterator + 1 .. size - 1 :
                 j < k => KeyOf[array[j]] <= KeyOf[array[k]]
  /\ pc = "close" =>
       /\ iterator <= size /\ size > 0
       /\ iterator < size => Filled(size) /\ Ascending(size)
       /\ iterator = size => Filled(size - 1) /\ Ascending(size - 1)

IInv == TypeOK /\ StaysInside /\ LoopInv

USE ItemsAssumption, MaxSizeAssumption, ForeignAssumption

(* The empty array place_ordered_array returns is in order.                *)
LEMMA InitEstablishes == Init => IInv
  BY DEF Init, IInv, TypeOK, StaysInside, LoopInv, Filled, Ascending, Cells, Values

(* An iteration of the loops of insert_ordered_array keeps the invariant.  *)
LEMMA InsertPreserves ==
  ASSUME IInv,
         \/ \E item \in Items : insert_ordered_array(item)
         \/ Scan \/ AddAtEnd \/ PutInPlace \/ ShiftUp \/ ShiftedUp
  PROVE  IInv'
<1> USE DEF IInv, TypeOK, StaysInside, LoopInv, Filled, Ascending, Cells, Values, less_than, history
<1>1. CASE \E item \in Items : insert_ordered_array(item)
  BY <1>1 DEF insert_ordered_array
<1>2. CASE Scan
  BY <1>2 DEF Scan
<1>3. CASE AddAtEnd
  BY <1>3 DEF AddAtEnd
<1>4. CASE PutInPlace
  BY <1>4 DEF PutInPlace
<1>5. CASE ShiftUp
  BY <1>5 DEF ShiftUp
<1>6. CASE ShiftedUp
  BY <1>6 DEF ShiftedUp
<1> QED BY <1>1, <1>2, <1>3, <1>4, <1>5, <1>6

(* So does one of the loop of remove_ordered_array.                        *)
LEMMA RemovePreserves ==
  ASSUME IInv,
         \/ \E i \in Cells : remove_ordered_array(i)
         \/ CloseGap \/ Closed
  PROVE  IInv'
<1> USE DEF IInv, TypeOK, StaysInside, LoopInv, Filled, Ascending, Cells, Values, history
<1>1. CASE \E i \in Cells : remove_ordered_array(i)
  BY <1>1 DEF remove_ordered_array
<1>2. CASE CloseGap
  BY <1>2 DEF CloseGap
<1>3. CASE Closed
  BY <1>3 DEF Closed
<1> QED BY <1>1, <1>2, <1>3

LEMMA StepPreserves == IInv /\ [Next]_vars => IInv'
<1> SUFFICES ASSUME IInv, [Next]_vars PROVE IInv'
  OBVIOUS
<1>1. CASE UNCHANGED vars
  BY <1>1 DEF vars, history, IInv, TypeOK, StaysInside, LoopInv, Filled, Ascending
<1>2. CASE Next
  BY <1>2, InsertPreserves, RemovePreserves DEF Next, Loop
<1> QED BY <1>1, <1>2

LEMMA Invariance == Spec => []IInv
<1>1. Init => IInv
  BY InitEstablishes
<1>2. IInv /\ [Next]_vars => IInv'
  BY StepPreserves
<1> QED BY <1>1, <1>2, PTL DEF Spec

(* Every variable keeps its type: the counters never leave the array.      *)
THEOREM TypeCorrect == Spec => []TypeOK
<1>1. IInv => TypeOK
  BY DEF IInv
<1> QED BY <1>1, Invariance, PTL

(* The word behind the array survives every sequence of calls.             *)
THEOREM NoWriteOutside == Spec => []StaysInside
<1>1. IInv => StaysInside
  BY DEF IInv
<1> QED BY <1>1, Invariance, PTL

(* Between calls the array is sorted, whatever was inserted and removed.   *)
THEOREM AlwaysSorted == Spec => []SortedBetweenCalls
<1>1. IInv => SortedBetweenCalls
  BY DEF IInv, LoopInv, SortedBetweenCalls
<1> QED BY <1>1, Invariance, PTL
-----------------------------------------------------------------------------
(* The loops compute the operators of OrderedArray.                        *)
Lemmas == INSTANCE OrderedArrayTheorems


(* The call in progress, and how far the loops have come with it: before   *)
(* the cell p the item goes into and behind the counter the array is still *)
(* what it was when the call began, and in between it has moved by one.    *)
Placed(p) ==
  /\ p <= iterator /\ p < size
  /\ \A j \in 0 .. p - 1 : array[j] = before[j + 1] /\ KeyOf[before[j + 1]] < KeyOf[request[2]]
  /\ ~ (KeyOf[before[p + 1]] < KeyOf[request[2]])
  /\ array[p] = request[2]
  /\ \A j \in p + 1 .. iterator : array[j] = before[j]
  /\ \A j \in iterator + 1 .. size - 1 : array[j] = before[j + 1]
  /\ iterator < size => tmp = before[iterator + 1]

Closing(i) ==
  /\ i <= iterator /\ request = <<"remove", i + 1>>
  /\ \A j \in 0 .. i - 1 : array[j] = before[j + 1]
  /\ \A j \in i .. iterator - 1 : j < size - 1 => array[j] = before[j + 2]
  /\ \A j \in iterator .. size - 1 : array[j] = before[j + 1]

CallInv ==
  /\ pc = "idle" => request = <<>>
  /\ pc # "idle" => before \in Seq(Items) /\ Len(before) = size
  /\ pc = "scan" => request = <<"insert", tmp>> /\ before = Contents
  /\ pc = "shift" => /\ request = <<"insert", request[2]>> /\ request[2] \in Items
                     /\ \E p \in Cells : Placed(p)
  /\ pc = "close" => \E i \in Cells : Closing(i)

(* The variables of the abstract array.                                    *)
seen == <<IF pc = "idle" THEN Contents ELSE before, request>>

LEMMA ContentsIs ==
  ASSUME TypeOK, NEW n \in 0 .. MaxSize, Filled(n), size = n
  PROVE  Contents \in Seq(Items) /\ Len(Contents) = n
<1>1. \A k \in 1 .. n : array[k - 1] \in Items
  BY DEF Filled
<1>2. Contents \in [1 .. n -> Items]
  BY <1>1 DEF Contents
<1> QED BY <1>2

LEMMA InitCalls == Init => CallInv
BY DEF Init, CallInv

LEMMA InsertCalls ==
  ASSUME IInv, CallInv, NEW item \in Items, insert_ordered_array(item)
  PROVE  CallInv' /\ Abstract!AskInsert(item)
<1>1. /\ Filled(size) /\ size \in 0 .. MaxSize /\ TypeOK
      /\ pc = "idle" /\ request = <<>> /\ size < MaxSize
  BY DEF IInv, TypeOK, LoopInv, CallInv, insert_ordered_array
<1>2. Contents \in Seq(Items) /\ Len(Contents) = size
  BY <1>1, ContentsIs
<1>3. /\ pc' = "scan" /\ tmp' = item /\ before' = Contents /\ request' = <<"insert", item>>
      /\ array' = array /\ size' = size /\ Contents' = Contents
  BY DEF insert_ordered_array, Contents
<1>4. CallInv'
  BY <1>2, <1>3 DEF CallInv
<1> QED BY <1>1, <1>2, <1>3, <1>4 DEF Abstract!AskInsert

LEMMA RemoveCalls ==
  ASSUME IInv, CallInv, NEW i \in Cells, remove_ordered_array(i)
  PROVE  CallInv' /\ Abstract!AskRemove(i + 1)
<1>1. /\ Filled(size) /\ size \in 0 .. MaxSize /\ TypeOK /\ pc = "idle" /\ request = <<>>
      /\ size > 0 /\ i <= size /\ i \in 0 .. MaxSize
  BY DEF IInv, TypeOK, LoopInv, CallInv, remove_ordered_array, Cells
<1>2. Contents \in Seq(Items) /\ Len(Contents) = size
  BY <1>1, ContentsIs
<1>3. /\ pc' = "close" /\ iterator' = i /\ before' = Contents /\ request' = <<"remove", i + 1>>
      /\ array' = array /\ size' = size /\ Contents' = Contents
  BY DEF remove_ordered_array, Contents
<1>4. \A j \in 0 .. size - 1 : array[j] = Contents[j + 1]
  BY <1>1 DEF Contents
<1>5. Closing(i)'
  BY <1>1, <1>3, <1>4 DEF Closing
<1>6. CallInv'
  BY <1>2, <1>3, <1>5 DEF CallInv
<1>7. i + 1 \in 1 .. Len(Contents) + 1 /\ Contents # <<>>
  BY <1>1, <1>2
<1> QED BY <1>1, <1>3, <1>6, <1>7 DEF Abstract!AskRemove

(* An iteration within a call leaves the abstract array as it was.         *)
LEMMA ScanCalls ==
  ASSUME IInv, CallInv, Scan PROVE CallInv' /\ pc # "idle" /\ pc' # "idle"
BY DEF Scan, CallInv, Contents, history

LEMMA PutCalls ==
  ASSUME IInv, CallInv, PutInPlace PROVE CallInv' /\ pc # "idle" /\ pc' # "idle"
<1>1. /\ pc = "scan" /\ iterator < size /\ ~ (KeyOf[array[iterator]] < KeyOf[tmp])
      /\ array' = [array EXCEPT ![iterator] = tmp]
      /\ tmp' = array[iterator] /\ pc' = "shift"
      /\ UNCHANGED <<size, iterator, before, request>>
  BY DEF PutInPlace, less_than, history
<1>2. /\ tmp \in Items /\ size \in 0 .. MaxSize /\ iterator \in 0 .. MaxSize
      /\ array \in [Cells -> Values]
      /\ \A j \in 0 .. iterator - 1 : KeyOf[array[j]] < KeyOf[tmp]
  BY <1>1 DEF IInv, TypeOK, LoopInv
<1>3. /\ before \in Seq(Items) /\ Len(before) = size /\ request = <<"insert", tmp>>
      /\ \A j \in 0 .. size - 1 : before[j + 1] = array[j]
  BY <1>1, <1>2 DEF CallInv, Contents
<1>4. PICK p \in Cells : p = iterator
  BY <1>2 DEF Cells
<1>5. Placed(p)'
  BY <1>1, <1>2, <1>3, <1>4 DEF Placed, Cells
<1> QED BY <1>1, <1>2, <1>3, <1>5 DEF CallInv

LEMMA ShiftCalls ==
  ASSUME IInv, CallInv, ShiftUp PROVE CallInv' /\ pc # "idle" /\ pc' # "idle"
<1>1. /\ pc = "shift" /\ pc' = "shift" /\ iterator < size
      /\ array' = [array EXCEPT ![iterator + 1] = tmp]
      /\ tmp' = array[iterator + 1] /\ iterator' = iterator + 1
      /\ UNCHANGED <<size, before, request>>
  BY DEF ShiftUp, history
<1>2. size \in 0 .. MaxSize /\ iterator \in 0 .. MaxSize /\ array \in [Cells -> Values]
  BY DEF IInv, TypeOK
<1>3. PICK p \in Cells : Placed(p)
  BY <1>1 DEF CallInv
<1>4. p \in Nat /\ p <= iterator /\ p < size
  BY <1>3 DEF Placed, Cells
<1>5. /\ \A j \in 0 .. p : array'[j] = array[j]
      /\ \A j \in p + 1 .. iterator : array'[j] = array[j]
      /\ array'[iterator + 1] = before[iterator + 1]
      /\ \A j \in iterator + 2 .. size - 1 : array'[j] = array[j]
  BY <1>1, <1>2, <1>3, <1>4 DEF Placed, Cells
<1>6. \A j \in 0 .. p - 1 : array'[j] = before[j + 1] /\ KeyOf[before[j + 1]] < KeyOf[request[2]]
  BY <1>3, <1>4, <1>5 DEF Placed
<1>7. array'[p] = request[2]
  BY <1>3, <1>4, <1>5 DEF Placed
<1>8. \A j \in p + 1 .. iterator + 1 : array'[j] = before[j]
  BY <1>2, <1>3, <1>4, <1>5 DEF Placed
<1>9. \A j \in iterator + 2 .. size - 1 : array'[j] = before[j + 1]
  BY <1>2, <1>3, <1>5 DEF Placed
<1>10. iterator + 1 < size => tmp' = before[iterator + 2]
  BY <1>1, <1>2, <1>3, <1>4 DEF Placed
<1>11. Placed(p)'
  BY <1>1, <1>2, <1>3, <1>4, <1>6, <1>7, <1>8, <1>9, <1>10 DEF Placed
<1> QED BY <1>1, <1>11 DEF CallInv

LEMMA CloseCalls ==
  ASSUME IInv, CallInv, CloseGap PROVE CallInv' /\ pc # "idle" /\ pc' # "idle"
<1>1. /\ pc = "close" /\ pc' = "close" /\ iterator < size
      /\ array' = [array EXCEPT ![iterator] = array[iterator + 1]]
      /\ iterator' = iterator + 1
      /\ UNCHANGED <<size, before, request>>
  BY DEF CloseGap, history
<1>2. size \in 0 .. MaxSize /\ iterator \in 0 .. MaxSize /\ array \in [Cells -> Values]
  BY DEF IInv, TypeOK
<1>3. PICK i \in Cells : Closing(i)
  BY <1>1 DEF CallInv
<1>4. i \in Nat /\ i <= iterator
  BY <1>3 DEF Closing, Cells
<1>5. \A j \in 0 .. size - 1 : j # iterator => array'[j] = array[j]
  BY <1>1, <1>2 DEF Cells
<1>6. iterator < size - 1 => array'[iterator] = before[iterator + 2]
  BY <1>1, <1>2, <1>3 DEF Closing, Cells
<1>7. \A j \in 0 .. i - 1 : array'[j] = before[j + 1]
  BY <1>1, <1>2, <1>3, <1>4, <1>5 DEF Closing
<1>8. \A j \in i .. iterator : j < size - 1 => array'[j] = before[j + 2]
  <2>1. ASSUME NEW j \in i .. iterator, j < size - 1 PROVE array'[j] = before[j + 2]
    <3>1. CASE j = iterator
      BY <1>6, <2>1, <3>1
    <3>2. CASE j # iterator
      <4>1. j \in i .. iterator - 1 /\ j \in 0 .. size - 1
        BY <1>1, <1>2, <1>4, <3>2
      <4> QED BY <1>3, <1>5, <2>1, <3>2, <4>1 DEF Closing
    <3> QED BY <3>1, <3>2
  <2> QED BY <2>1
<1>9. \A j \in iterator + 1 .. size - 1 : array'[j] = before[j + 1]
  BY <1>2, <1>3, <1>5 DEF Closing
<1>10. Closing(i)'
  BY <1>1, <1>2, <1>3, <1>4, <1>7, <1>8, <1>9 DEF Closing
<1> QED BY <1>1, <1>10 DEF CallInv

(* The scan stops at the one position that insert_ordered_array means.     *)
LEMMA PointIs ==
  ASSUME NEW s \in Seq(Items), NEW e \in Items, NEW k \in 1 .. Len(s) + 1,
         \A j \in 1 .. k - 1 : KeyOf[s[j]] < KeyOf[e],
         k <= Len(s) => ~ (KeyOf[s[k]] < KeyOf[e])
  PROVE  Abstract!insert_ordered_array(e, s, Abstract!less_than) = Lemmas!InsertAt(s, k, e)
<1> DEFINE Stops(m) == /\ \A j \in 1 .. m - 1 : KeyOf[s[j]] < KeyOf[e]
                       /\ m <= Len(s) => ~ (KeyOf[s[m]] < KeyOf[e])
<1>1. ASSUME NEW m \in 1 .. Len(s) + 1, Stops(m) PROVE m = k
  BY <1>1
<1>2. (CHOOSE m \in 1 .. Len(s) + 1 : Stops(m)) = k
  BY <1>1
<1>3. Abstract!InsertionPoint(s, e, Abstract!less_than) = k
  BY <1>2 DEF Abstract!InsertionPoint, Abstract!less_than
<1> QED BY <1>3 DEF Abstract!insert_ordered_array, Abstract!InsertAt, Lemmas!InsertAt

LEMMA AddReturns ==
  ASSUME IInv, CallInv, AddAtEnd PROVE CallInv' /\ Abstract!Return
<1>1. /\ pc = "scan" /\ pc' = "idle" /\ iterator = size
      /\ array' = [array EXCEPT ![size] = tmp] /\ size' = size + 1 /\ request' = <<>>
  BY DEF AddAtEnd
<1>2. /\ tmp \in Items /\ size \in 0 .. MaxSize /\ array \in [Cells -> Values]
      /\ \A j \in 0 .. size - 1 : KeyOf[array[j]] < KeyOf[tmp]
  BY <1>1 DEF IInv, TypeOK, LoopInv
<1>3. /\ before \in Seq(Items) /\ Len(before) = size /\ request = <<"insert", tmp>>
      /\ \A j \in 0 .. size - 1 : before[j + 1] = array[j]
  BY <1>1, <1>2 DEF CallInv, Contents
<1>4. PICK e \in Items : e = tmp
  BY <1>2
<1>5. PICK s \in Seq(Items) : s = before
  BY <1>3
<1> DEFINE t == Abstract!insert_ordered_array(e, s, Abstract!less_than)
<1>6. \A j \in 1 .. Len(s) : KeyOf[s[j]] < KeyOf[e]
  <2>1. ASSUME NEW j \in 1 .. Len(s) PROVE KeyOf[s[j]] < KeyOf[e]
    <3>1. j - 1 \in 0 .. size - 1 /\ s[j] = array[j - 1]
      BY <1>2, <1>3, <1>5
    <3> QED BY <1>2, <1>4, <3>1
  <2> QED BY <2>1
<1>7. t \in Seq(Items) /\ Len(t) = Len(s) + 1 /\ Lemmas!MakesRoom(t, s, Len(s) + 1, e)
  <2>1. PICK k \in 1 .. Len(s) + 1 : k = Len(s) + 1
    OBVIOUS
  <2>2. t = Lemmas!InsertAt(s, k, e)
    BY <1>6, <2>1, PointIs
  <2> HIDE DEF t
  <2>3. /\ Lemmas!InsertAt(s, k, e) \in Seq(Items) /\ Len(Lemmas!InsertAt(s, k, e)) = Len(s) + 1
        /\ Lemmas!MakesRoom(Lemmas!InsertAt(s, k, e), s, k, e)
    BY Lemmas!InsertAtProperties
  <2> QED BY <2>1, <2>2, <2>3
<1>8. ASSUME NEW j \in 1 .. size + 1 PROVE t[j] = array'[j - 1]
  BY <1>1, <1>2, <1>3, <1>4, <1>5, <1>7 DEF Lemmas!MakesRoom, Cells
<1>9. Contents' = [j \in 1 .. size + 1 |-> array'[j - 1]]
  BY <1>1 DEF Contents
<1>10. t = Contents'
  <2>1. Len(t) = size + 1
    BY <1>3, <1>5, <1>7
  <2>2. t = [j \in 1 .. Len(t) |-> t[j]]
    BY <1>7
  <2>3. t = [j \in 1 .. size + 1 |-> t[j]]
    BY <2>1, <2>2
  <2>4. [j \in 1 .. size + 1 |-> t[j]] = [j \in 1 .. size + 1 |-> array'[j - 1]]
    BY <1>8, Zenon
  <2> QED BY <1>9, <2>3, <2>4
<1>11. request # <<>> /\ request[1] = "insert" /\ request[2] = e
  <2>1. request = <<"insert", e>>
    BY <1>3, <1>4
  <2> QED BY <2>1
<1>12. Abstract!Return
  BY <1>1, <1>5, <1>10, <1>11 DEF Abstract!Return
<1> QED BY <1>1, <1>12 DEF CallInv

LEMMA ShiftReturns ==
  ASSUME IInv, CallInv, ShiftedUp PROVE CallInv' /\ Abstract!Return
<1>1. /\ pc = "shift" /\ pc' = "idle" /\ iterator = size
      /\ array' = array /\ size' = size + 1 /\ request' = <<>>
  BY DEF ShiftedUp
<1>2. size \in 0 .. MaxSize
  BY DEF IInv, TypeOK
<1>3. /\ before \in Seq(Items) /\ Len(before) = size
      /\ request = <<"insert", request[2]>> /\ request[2] \in Items
  BY <1>1 DEF CallInv
<1>4. PICK e \in Items : e = request[2]
  BY <1>3
<1>5. PICK s \in Seq(Items) : s = before
  BY <1>3
<1>6. PICK p \in Cells : Placed(p)
  BY <1>1 DEF CallInv
<1> DEFINE t == Abstract!insert_ordered_array(e, s, Abstract!less_than)
<1>7. p + 1 \in 1 .. Len(s) + 1 /\ p + 1 <= Len(s)
  BY <1>2, <1>3, <1>5, <1>6 DEF Placed, Cells
<1>8. ASSUME NEW j \in 1 .. (p + 1) - 1 PROVE KeyOf[s[j]] < KeyOf[e]
  <2>1. j - 1 \in 0 .. p - 1 /\ (j - 1) + 1 = j
    BY <1>6 DEF Cells
  <2> QED BY <1>4, <1>5, <1>6, <2>1 DEF Placed
<1>9. ~ (KeyOf[s[p + 1]] < KeyOf[e])
  BY <1>4, <1>5, <1>6 DEF Placed
<1>10. t \in Seq(Items) /\ Len(t) = Len(s) + 1 /\ Lemmas!MakesRoom(t, s, p + 1, e)
  <2>1. p + 1 \in 1 .. Len(s) + 1
    BY <1>7
  <2>2. t = Lemmas!InsertAt(s, p + 1, e)
    BY <1>7, <1>8, <1>9, PointIs, <2>1
  <2> HIDE DEF t
  <2>3. /\ Lemmas!InsertAt(s, p + 1, e) \in Seq(Items)
        /\ Len(Lemmas!InsertAt(s, p + 1, e)) = Len(s) + 1
        /\ Lemmas!MakesRoom(Lemmas!InsertAt(s, p + 1, e), s, p + 1, e)
    BY <2>1, Lemmas!InsertAtProperties
  <2> QED BY <2>2, <2>3
<1>11. ASSUME NEW j \in 1 .. size + 1 PROVE t[j] = array[j - 1]
  <2>1. CASE j < p + 1
    <3>1. j - 1 \in 0 .. p - 1 /\ (j - 1) + 1 = j
      BY <1>6, <2>1 DEF Cells
    <3> QED BY <1>2, <1>3, <1>5, <1>6, <1>10, <2>1, <3>1 DEF Placed, Lemmas!MakesRoom
  <2>2. CASE j = p + 1
    <3>1. t[j] = e
      BY <1>2, <1>3, <1>5, <1>10, <2>2 DEF Lemmas!MakesRoom
    <3>2. j - 1 = p /\ array[p] = e
      BY <1>4, <1>6, <2>2 DEF Placed, Cells
    <3> QED BY <3>1, <3>2
  <2>3. CASE j > p + 1
    <3>1. j - 1 \in p + 1 .. iterator
      BY <1>1, <1>2, <1>6, <2>3 DEF Cells
    <3>2. array[j - 1] = s[j - 1]
      BY <1>5, <1>6, <3>1 DEF Placed
    <3>3. j \in 1 .. Len(s) + 1 /\ ~ (j < p + 1) /\ j # p + 1
      BY <1>2, <1>3, <1>5, <1>6, <2>3 DEF Cells
    <3>4. t[j] = s[j - 1]
      BY <1>10, <3>3 DEF Lemmas!MakesRoom
    <3> QED BY <3>2, <3>4
  <2> QED BY <2>1, <2>2, <2>3, <1>6 DEF Cells
<1>12. Contents' = [j \in 1 .. size + 1 |-> array[j - 1]]
  BY <1>1 DEF Contents
<1>13. t = Contents'
  <2>1. Len(t) = size + 1
    BY <1>3, <1>5, <1>10
  <2>2. t = [j \in 1 .. Len(t) |-> t[j]]
    BY <1>10
  <2>3. t = [j \in 1 .. size + 1 |-> t[j]]
    BY <2>1, <2>2
  <2>4. [j \in 1 .. size + 1 |-> t[j]] = [j \in 1 .. size + 1 |-> array[j - 1]]
    BY <1>11, Zenon
  <2> QED BY <1>12, <2>3, <2>4
<1>14. request # <<>> /\ request[1] = "insert" /\ request[2] = e
  <2>1. request = <<"insert", e>>
    BY <1>3, <1>4
  <2> QED BY <2>1
<1>15. Abstract!Return
  BY <1>1, <1>5, <1>13, <1>14 DEF Abstract!Return
<1> QED BY <1>1, <1>15 DEF CallInv

(* A position one past the end, and the last item goes.                    *)
LEMMA CloseReturns ==
  ASSUME IInv, CallInv, Closed PROVE CallInv' /\ Abstract!Return
<1>1. /\ pc = "close" /\ pc' = "idle" /\ iterator = size
      /\ array' = array /\ size' = size - 1 /\ request' = <<>>
  BY DEF Closed
<1>2. size \in 1 .. MaxSize
  BY <1>1 DEF IInv, TypeOK, LoopInv
<1>3. before \in Seq(Items) /\ Len(before) = size
  BY <1>1 DEF CallInv
<1>4. PICK s \in Seq(Items) : s = before
  BY <1>3
<1>5. PICK i \in Cells : Closing(i)
  BY <1>1 DEF CallInv
<1>6. i \in 0 .. Len(s) /\ Len(s) \in Nat \ {0} /\ Len(s) = size
  BY <1>1, <1>2, <1>3, <1>4, <1>5 DEF Closing, Cells
<1> DEFINE t == Abstract!remove_ordered_array(i + 1, s)
<1>7. /\ t \in Seq(Items) /\ Len(t) = Len(s) - 1
      /\ \A j \in 1 .. Len(s) - 1 : t[j] = IF j < i + 1 THEN s[j] ELSE s[j + 1]
  <2>1. CASE i < Len(s)
    <3>1. PICK k \in 1 .. Len(s) : k = i + 1
      BY <1>6, <2>1
    <3>2. t = Lemmas!RemoveAt(s, k)
      <4>1. k <= Len(s)
        OBVIOUS
      <4>2. Abstract!remove_ordered_array(k, s) = Lemmas!RemoveAt(s, k)
        BY <4>1, Zenon DEF Abstract!remove_ordered_array, Abstract!RemoveAt, Lemmas!RemoveAt
      <4> QED BY <3>1, <4>2
    <3> HIDE DEF t
    <3>3. /\ Lemmas!RemoveAt(s, k) \in Seq(Items) /\ Len(Lemmas!RemoveAt(s, k)) = Len(s) - 1
          /\ \A j \in 1 .. Len(s) - 1 :
               Lemmas!RemoveAt(s, k)[j] = IF j < k THEN s[j] ELSE s[j + 1]
      BY Lemmas!RemoveAtProperties
    <3> QED BY <3>1, <3>2, <3>3
  <2>2. CASE i = Len(s)
    <3>1. t = SubSeq(s, 1, Len(s) - 1)
      BY <1>6, <2>2 DEF Abstract!remove_ordered_array, Abstract!Front
    <3> HIDE DEF t
    <3> QED BY <1>6, <2>2, <3>1
  <2> QED BY <1>6, <2>1, <2>2
<1> HIDE DEF t
<1>8. ASSUME NEW j \in 1 .. size - 1 PROVE t[j] = array[j - 1]
  <2>1. CASE j < i + 1
    <3>1. j - 1 \in 0 .. i - 1 /\ (j - 1) + 1 = j
      BY <1>2, <1>6, <2>1
    <3> QED BY <1>2, <1>4, <1>5, <1>6, <1>7, <2>1, <3>1 DEF Closing
  <2>2. CASE ~ (j < i + 1)
    <3>1. j - 1 \in i .. iterator - 1 /\ j - 1 < size - 1 /\ (j - 1) + 2 = j + 1
      BY <1>1, <1>2, <1>6, <2>2
    <3>2. array[j - 1] = before[j + 1]
      BY <1>5, <3>1 DEF Closing
    <3> QED BY <1>2, <1>4, <1>6, <1>7, <2>2, <3>2
  <2> QED BY <2>1, <2>2
<1>9. Contents' = [j \in 1 .. size - 1 |-> array[j - 1]]
  BY <1>1 DEF Contents
<1>10. t = Contents'
  <2>1. Len(t) = size - 1
    BY <1>6, <1>7
  <2>2. t = [j \in 1 .. Len(t) |-> t[j]]
    BY <1>7
  <2>3. t = [j \in 1 .. size - 1 |-> t[j]]
    BY <2>1, <2>2
  <2>4. [j \in 1 .. size - 1 |-> t[j]] = [j \in 1 .. size - 1 |-> array[j - 1]]
    BY <1>8, Zenon
  <2> QED BY <1>9, <2>3, <2>4
<1>11. request # <<>> /\ request[1] = "remove" /\ request[2] = i + 1
  <2>1. request = <<"remove", i + 1>>
    BY <1>5 DEF Closing
  <2> QED BY <2>1
<1>12. Abstract!Return
  BY <1>1, <1>4, <1>10, <1>11 DEF Abstract!Return, t
<1> QED BY <1>1, <1>12 DEF CallInv

LEMMA StepCalls ==
  IInv /\ CallInv /\ [Next]_vars => CallInv' /\ [Abstract!Next]_seen
<1> SUFFICES ASSUME IInv, CallInv, [Next]_vars
             PROVE  CallInv' /\ [Abstract!Next]_seen
  OBVIOUS
<1>1. CASE \E item \in Items : insert_ordered_array(item)
  BY <1>1, InsertCalls DEF Abstract!Next, seen
<1>2. ASSUME NEW i \in Cells, remove_ordered_array(i)
      PROVE  CallInv' /\ Abstract!Next
  <2>1. i + 1 \in 1 .. MaxSize + 1
    BY DEF Cells
  <2> QED BY <1>2, <2>1, RemoveCalls DEF Abstract!Next
<1>3. CASE Scan \/ PutInPlace \/ ShiftUp \/ CloseGap
  <2>1. CallInv' /\ pc # "idle" /\ pc' # "idle"
    BY <1>3, ScanCalls, PutCalls, ShiftCalls, CloseCalls
  <2>2. before' = before /\ request' = request
    BY <1>3 DEF Scan, PutInPlace, ShiftUp, CloseGap, history
  <2> QED BY <2>1, <2>2 DEF seen
<1>4. CASE AddAtEnd \/ ShiftedUp \/ Closed
  BY <1>4, AddReturns, ShiftReturns, CloseReturns DEF Abstract!Next
<1>5. CASE UNCHANGED vars
  BY <1>5 DEF vars, history, CallInv, Contents, Placed, Closing, seen
<1> QED BY <1>1, <1>2, <1>3, <1>4, <1>5 DEF Next, Loop

LEMMA InitArray == Init => Abstract!Init
<1> SUFFICES ASSUME Init PROVE Abstract!Init
  OBVIOUS
<1>1. pc = "idle" /\ size = 0 /\ request = <<>>
  BY DEF Init
<1>2. Contents = <<>>
  BY <1>1 DEF Contents
<1> QED BY <1>1, <1>2 DEF Abstract!Init

(* A call of insert or remove, however many iterations it takes, changes   *)
(* the array once, and into what the operator with which the heap is       *)
(* modelled makes of it: the safety part of ImplementsArray.               *)
THEOREM LoopsCompute ==
  Spec => Abstract!Init /\ [][Abstract!Next]_seen
<1>1. Init => CallInv /\ Abstract!Init
  BY InitCalls, InitArray
<1> QED BY <1>1, StepCalls, Invariance, PTL DEF Spec
=============================================================================
