------------------------ MODULE OrderedArrayTheorems ------------------------
(***************************************************************************)
(* What inserting an item into a sequence and removing a position from it  *)
(* do to the items it holds: the facts about the index of holes on which   *)
(* the proofs about the heap rest.                                         *)
(***************************************************************************)
EXTENDS OrderedArray, SequenceTheorems, WellFoundedInduction, TLAPS

(* No item stands at two positions.                                        *)
Unique(s) == \A i, j \in 1 .. Len(s) : s[i] = s[j] => i = j

(* A set of naturals that is not empty has a least element.                *)
LEMMA LeastElement ==
  ASSUME NEW T, T \subseteq Nat, T # {}
  PROVE  \E x \in T : \A y \in T : x <= y
<1> DEFINE Below == {ss \in Nat \X Nat : ss[1] < ss[2]}
<1>1. Below = OpToRel(<, Nat)
  BY Zenon DEF OpToRel
<1>2. IsWellFoundedOn(Below, Nat)
  BY <1>1, NatLessThanWellFounded, Zenon
<1> HIDE DEF Below
<1>3. PICK x \in T : \A y \in T : <<y, x>> \notin Below
  BY <1>2, WFMin, Zenon
<1>4. ASSUME NEW y \in T PROVE x <= y
  <2>1. y \in Nat /\ x \in Nat
    OBVIOUS
  <2>2. <<y, x>> \in Nat \X Nat /\ <<y, x>>[1] = y /\ <<y, x>>[2] = x
    BY <2>1
  <2>3. ~ (y < x)
    BY <1>3, <2>2, Zenon DEF Below
  <2> QED BY <2>1, <2>3
<1> QED BY <1>4

(* Loops.  What holds at 0 and passes from k to k + 1 holds up to n.       *)
LEMMA UpTo ==
  ASSUME NEW n \in Nat, NEW I, 0 \in I, \A k \in 0 .. n - 1 : k \in I => k + 1 \in I
  PROVE  \A k \in 0 .. n : k \in I
<1> DEFINE T == {k \in 0 .. n : k \notin I}
<1> SUFFICES ASSUME T # {} PROVE FALSE
  OBVIOUS
<1>1. PICK k \in T : \A m \in T : k <= m
  <2>1. T \subseteq Nat
    OBVIOUS
  <2> HIDE DEF T
  <2> QED BY <2>1, LeastElement
<1>2. k # 0 /\ k - 1 \in 0 .. n - 1
  OBVIOUS
<1>3. k - 1 \notin T
  BY <1>1, <1>2
<1>4. k - 1 \in I
  BY <1>2, <1>3
<1>5. (k - 1) + 1 \in I
  BY <1>2, <1>4
<1> QED BY <1>2, <1>5

(* What a sequence t has at each position when e went into s at position k. *)
MakesRoom(t, s, k, e) ==
  \A i \in 1 .. Len(s) + 1 :
    t[i] = IF i < k THEN s[i] ELSE IF i = k THEN e ELSE s[i - 1]

(* InsertAt moves the items from position k on by one.                     *)
LEMMA InsertAtProperties ==
  ASSUME NEW S, NEW s \in Seq(S), NEW k \in 1 .. Len(s) + 1, NEW e \in S
  PROVE  /\ InsertAt(s, k, e) \in Seq(S)
         /\ Len(InsertAt(s, k, e)) = Len(s) + 1
         /\ MakesRoom(InsertAt(s, k, e), s, k, e)
<1> DEFINE low == SubSeq(s, 1, k - 1)
           high == SubSeq(s, k, Len(s))
           begin == low \o <<e>>
<1>1. /\ low \in Seq(S) /\ Len(low) = k - 1
      /\ \A i \in 1 .. k - 1 : low[i] = s[i]
  BY SubSeqProperties
<1>2. /\ high \in Seq(S) /\ Len(high) = Len(s) - k + 1
      /\ \A i \in 1 .. Len(s) - k + 1 : high[i] = s[k + i - 1]
  BY SubSeqProperties
<1>3. <<e>> \in Seq(S) /\ Len(<<e>>) = 1 /\ <<e>>[1] = e
  OBVIOUS
<1> HIDE DEF low, high
<1>4. /\ begin \in Seq(S) /\ Len(begin) = k
      /\ \A i \in 1 .. k : begin[i] = IF i < k THEN s[i] ELSE e
  BY <1>1, <1>3, ConcatProperties
<1> HIDE DEF begin
<1>5. /\ begin \o high \in Seq(S)
      /\ Len(begin \o high) = Len(begin) + Len(high)
      /\ \A i \in 1 .. Len(begin) + Len(high) :
           (begin \o high)[i] = IF i <= Len(begin) THEN begin[i]
                                 ELSE high[i - Len(begin)]
  BY <1>2, <1>4, ConcatProperties
<1>6. InsertAt(s, k, e) = begin \o high
  BY DEF InsertAt, begin, low, high
<1> QED BY <1>2, <1>4, <1>5, <1>6 DEF MakesRoom

(* RemoveAt moves the items behind position k back by one.                 *)
LEMMA RemoveAtProperties ==
  ASSUME NEW S, NEW s \in Seq(S), NEW k \in 1 .. Len(s)
  PROVE  /\ RemoveAt(s, k) \in Seq(S)
         /\ Len(RemoveAt(s, k)) = Len(s) - 1
         /\ \A i \in 1 .. Len(s) - 1 :
              RemoveAt(s, k)[i] = IF i < k THEN s[i] ELSE s[i + 1]
<1> DEFINE low == SubSeq(s, 1, k - 1)
           high == SubSeq(s, k + 1, Len(s))
<1>1. /\ low \in Seq(S) /\ Len(low) = k - 1
      /\ \A i \in 1 .. k - 1 : low[i] = s[i]
  BY SubSeqProperties
<1>2. /\ high \in Seq(S) /\ Len(high) = Len(s) - k
      /\ \A i \in 1 .. Len(s) - k : high[i] = s[k + i]
  BY SubSeqProperties
<1> HIDE DEF low, high
<1>3. /\ low \o high \in Seq(S)
      /\ Len(low \o high) = Len(low) + Len(high)
      /\ \A i \in 1 .. Len(low) + Len(high) :
           (low \o high)[i] = IF i <= Len(low) THEN low[i] ELSE high[i - Len(low)]
  BY <1>1, <1>2, ConcatProperties
<1>4. RemoveAt(s, k) = low \o high
  BY DEF RemoveAt, low, high
<1>5. ASSUME NEW i \in 1 .. Len(s) - 1
      PROVE  (low \o high)[i] = IF i < k THEN s[i] ELSE s[i + 1]
  <2>1. ASSUME i < k PROVE (low \o high)[i] = s[i]
    BY <1>1, <1>2, <1>3, <2>1
  <2>2. ASSUME ~ (i < k) PROVE (low \o high)[i] = s[i + 1]
    <3> DEFINE n == i - Len(low)
    <3>1. n \in 1 .. Len(s) - k /\ k + n = i + 1
      BY <1>1, <2>2
    <3>2. (low \o high)[i] = high[n]
      BY <1>1, <1>2, <1>3, <2>2
    <3> QED BY <1>2, <2>2, <3>1, <3>2
  <2> QED BY <2>1, <2>2, Zenon
<1> QED BY <1>1, <1>2, <1>3, <1>4, <1>5

(* ToSet over the positions of a sequence.                                 *)
LEMMA ToSetIsRange ==
  ASSUME NEW S, NEW s \in Seq(S)
  PROVE  /\ \A i \in 1 .. Len(s) : s[i] \in ToSet(s)
         /\ \A x \in ToSet(s) : \E i \in 1 .. Len(s) : x = s[i]
<1>1. DOMAIN s = 1 .. Len(s)
  OBVIOUS
<1> QED BY <1>1, Zenon DEF ToSet

(* Insertion adds its item to the set of items, once if it is new.         *)
LEMMA InsertAtItems ==
  ASSUME NEW S, NEW s \in Seq(S), NEW k \in 1 .. Len(s) + 1, NEW e \in S
  PROVE  /\ ToSet(InsertAt(s, k, e)) = ToSet(s) \cup {e}
         /\ Unique(s) /\ e \notin ToSet(s) => Unique(InsertAt(s, k, e))
<1> DEFINE t == InsertAt(s, k, e)
<1>1. /\ t \in Seq(S) /\ Len(t) = Len(s) + 1
      /\ \A i \in 1 .. Len(s) + 1 :
           t[i] = IF i < k THEN s[i] ELSE IF i = k THEN e ELSE s[i - 1]
  <2>1. /\ t \in Seq(S) /\ Len(t) = Len(s) + 1 /\ MakesRoom(t, s, k, e)
    BY InsertAtProperties, Zenon
  <2> QED BY <2>1, Zenon DEF MakesRoom
<1> HIDE DEF t
<1>2. /\ \A i \in 1 .. Len(t) : t[i] \in ToSet(t)
      /\ \A x \in ToSet(t) : \E i \in 1 .. Len(t) : x = t[i]
  BY <1>1, ToSetIsRange
<1>3. /\ \A i \in 1 .. Len(s) : s[i] \in ToSet(s)
      /\ \A x \in ToSet(s) : \E i \in 1 .. Len(s) : x = s[i]
  BY ToSetIsRange
<1>4. ASSUME NEW x \in ToSet(t) PROVE x \in ToSet(s) \cup {e}
  <2>1. PICK i \in 1 .. Len(s) + 1 : x = t[i]
    BY <1>1, <1>2
  <2>2. CASE i < k
    BY <1>1, <1>3, <2>1, <2>2
  <2>3. CASE i = k
    BY <1>1, <2>1, <2>3
  <2>4. CASE i > k
    <3>1. i - 1 \in 1 .. Len(s) /\ x = s[i - 1]
      BY <1>1, <2>1, <2>4
    <3> QED BY <3>1, <1>3
  <2> QED BY <2>2, <2>3, <2>4
<1>5. ASSUME NEW x \in ToSet(s) PROVE x \in ToSet(t)
  <2>1. PICK j \in 1 .. Len(s) : x = s[j]
    BY <1>3
  <2>2. CASE j < k
    <3>1. j \in 1 .. Len(t) /\ t[j] = x
      BY <1>1, <2>1, <2>2
    <3> QED BY <3>1, <1>2
  <2>3. CASE j >= k
    <3>1. j + 1 \in 1 .. Len(t) /\ t[j + 1] = x
      BY <1>1, <2>1, <2>3
    <3> QED BY <3>1, <1>2
  <2> QED BY <2>2, <2>3
<1>6. e \in ToSet(t)
  BY <1>1, <1>2
<1>7. ASSUME Unique(s), e \notin ToSet(s),
             NEW i \in 1 .. Len(t), NEW j \in 1 .. Len(t), t[i] = t[j]
      PROVE  i = j
  <2>1. \A n \in 1 .. Len(s) : s[n] # e
    BY <1>3, <1>7
  <2>2. i = k <=> j = k
    <3>1. ASSUME NEW n \in 1 .. Len(t), n # k PROVE t[n] # e
      <4>1. CASE n < k
        <5>1. n \in 1 .. Len(s) /\ t[n] = s[n]
          BY <1>1, <4>1
        <5> QED BY <5>1, <2>1
      <4>2. CASE n > k
        <5>1. n - 1 \in 1 .. Len(s) /\ t[n] = s[n - 1]
          BY <1>1, <4>2
        <5> QED BY <5>1, <2>1
      <4> QED BY <3>1, <4>1, <4>2, <1>1
    <3>2. k \in 1 .. Len(t) /\ t[k] = e
      BY <1>1
    <3> QED BY <3>1, <3>2, <1>7
  <2>3. CASE i # k
    <3> DEFINE Old(n) == IF n < k THEN n ELSE n - 1
    <3>1. /\ Old(i) \in 1 .. Len(s) /\ t[i] = s[Old(i)]
          /\ Old(j) \in 1 .. Len(s) /\ t[j] = s[Old(j)]
      BY <1>1, <2>2, <2>3
    <3>2. Old(i) = Old(j)
      BY <3>1, <1>7 DEF Unique
    <3> QED BY <3>2, <2>2, <2>3, <1>1
  <2> QED BY <2>2, <2>3
<1>8. Unique(s) /\ e \notin ToSet(s) => Unique(t)
  BY <1>7 DEF Unique
<1>9. ToSet(t) = ToSet(s) \cup {e}
  BY <1>4, <1>5, <1>6
<1> QED BY <1>8, <1>9 DEF t

(* Removal takes out the item of its position and no other.                *)
LEMMA RemoveAtItems ==
  ASSUME NEW S, NEW s \in Seq(S), NEW k \in 1 .. Len(s), Unique(s)
  PROVE  /\ ToSet(RemoveAt(s, k)) = ToSet(s) \ {s[k]}
         /\ Unique(RemoveAt(s, k))
<1> DEFINE t == RemoveAt(s, k)
           Old(n) == IF n < k THEN n ELSE n + 1
<1>1. /\ t \in Seq(S) /\ Len(t) = Len(s) - 1
      /\ \A i \in 1 .. Len(t) : Old(i) \in 1 .. Len(s) /\ t[i] = s[Old(i)]
  <2>1. /\ t \in Seq(S) /\ Len(t) = Len(s) - 1
        /\ \A i \in 1 .. Len(s) - 1 : t[i] = IF i < k THEN s[i] ELSE s[i + 1]
    BY RemoveAtProperties
  <2> HIDE DEF t
  <2> QED BY <2>1
<1> HIDE DEF t
<1>2. /\ \A i \in 1 .. Len(t) : t[i] \in ToSet(t)
      /\ \A x \in ToSet(t) : \E i \in 1 .. Len(t) : x = t[i]
  BY <1>1, ToSetIsRange
<1>3. /\ \A i \in 1 .. Len(s) : s[i] \in ToSet(s)
      /\ \A x \in ToSet(s) : \E i \in 1 .. Len(s) : x = s[i]
  BY ToSetIsRange
<1>4. ASSUME NEW x \in ToSet(t) PROVE x \in ToSet(s) \ {s[k]}
  <2>1. PICK i \in 1 .. Len(t) : x = t[i]
    BY <1>2
  <2>2. Old(i) # k /\ Old(i) \in 1 .. Len(s) /\ x = s[Old(i)]
    BY <2>1, <1>1
  <2> HIDE DEF Old
  <2>3. x # s[k]
    BY <2>2 DEF Unique
  <2> QED BY <2>2, <2>3, <1>3
<1>5. ASSUME NEW x \in ToSet(s) \ {s[k]} PROVE x \in ToSet(t)
  <2>1. PICK j \in 1 .. Len(s) : x = s[j] /\ j # k
    BY <1>3
  <2>2. CASE j < k
    <3>1. j \in 1 .. Len(t) /\ t[j] = x
      BY <1>1, <2>1, <2>2
    <3> QED BY <3>1, <1>2
  <2>3. CASE j > k
    <3>1. j - 1 \in 1 .. Len(t) /\ t[j - 1] = x
      BY <1>1, <2>1, <2>3
    <3> QED BY <3>1, <1>2
  <2> QED BY <2>1, <2>2, <2>3
<1>6. ASSUME NEW i \in 1 .. Len(t), NEW j \in 1 .. Len(t), t[i] = t[j]
      PROVE  i = j
  <2>1. Old(i) = Old(j)
    BY <1>1, <1>6 DEF Unique
  <2> QED BY <2>1, <1>1
<1>7. Unique(t)
  BY <1>6 DEF Unique
<1>8. ToSet(t) = ToSet(s) \ {s[k]}
  BY <1>4, <1>5
<1> QED BY <1>7, <1>8 DEF t
=============================================================================
