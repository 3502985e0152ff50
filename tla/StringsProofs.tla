--------------------------- MODULE StringsProofs ---------------------------
(***************************************************************************)
(* The functions of lib/string.c compute what their callers ask for:       *)
(* whatever the width of a word and of printf's buf, the messages, the     *)
(* strings and the memory.                                                 *)
(***************************************************************************)
EXTENDS Strings, OrderedArrayTheorems

-----------------------------------------------------------------------------
(* Recursion.  A definition by recursion on a smaller number has a         *)
(* solution, so that the function it defines does what it says.            *)
Recurses(h, stop, down, base, F) ==
  \A k \in Nat : h[k] = IF k \in stop THEN base[k] ELSE F[k][h[down[k]]]

LEMMA RecursionSolved ==
  ASSUME NEW Y, NEW stop \in SUBSET Nat, NEW down \in [Nat -> Nat],
         \A k \in Nat \ stop : down[k] < k,
         NEW base \in [Nat -> Y], NEW F \in [Nat -> [Y -> Y]]
  PROVE  \E h \in [Nat -> Y] : Recurses(h, stop, down, base, F)
<1> DEFINE Right(g, k) == g[k] = IF k \in stop THEN base[k] ELSE F[k][g[down[k]]]
           Solutions(n) == {g \in [0 .. n -> Y] : \A k \in 0 .. n : Right(g, k)}
           First(k) == CHOOSE g : g \in Solutions(k)
           h == [k \in Nat |-> First(k)[k]]
<1>1. Solutions(0) # {}
  <2> DEFINE g == [k \in 0 .. 0 |-> base[0]]
  <2>1. 0 \in stop
    <3>1. 0 \notin stop => down[0] \in Nat /\ down[0] < 0
      OBVIOUS
    <3> QED BY <3>1
  <2>2. g \in [0 .. 0 -> Y]
    OBVIOUS
  <2>3. \A k \in 0 .. 0 : Right(g, k)
    BY <2>1
  <2> QED BY <2>2, <2>3
<1>2. ASSUME NEW n \in Nat, Solutions(n) # {} PROVE Solutions(n + 1) # {}
  <2>1. PICK g \in [0 .. n -> Y] : \A k \in 0 .. n : Right(g, k)
    BY <1>2
  <2> DEFINE new == IF n + 1 \in stop THEN base[n + 1] ELSE F[n + 1][g[down[n + 1]]]
             g1 == [k \in 0 .. n + 1 |-> IF k = n + 1 THEN new ELSE g[k]]
  <2>2. n + 1 \notin stop => down[n + 1] \in 0 .. n
    OBVIOUS
  <2>3. new \in Y
    BY <2>2
  <2>4. g1 \in [0 .. n + 1 -> Y]
    <3> HIDE DEF new
    <3> QED BY <2>3
  <2>5. ASSUME NEW k \in 0 .. n + 1 PROVE Right(g1, k)
    <3>1. CASE k = n + 1
      <4>1. g1[k] = new
        BY <3>1
      <4>2. k \notin stop => g1[down[k]] = g[down[k]]
        BY <2>2, <3>1
      <4> QED BY <3>1, <4>1, <4>2
    <3>2. CASE k # n + 1
      <4>1. k \in 0 .. n
        BY <3>2
      <4>2. k \notin stop => down[k] \in 0 .. n
        BY <4>1
      <4>3. g1[k] = g[k] /\ (k \notin stop => g1[down[k]] = g[down[k]])
        BY <4>1, <4>2
      <4> QED BY <2>1, <4>1, <4>3
    <3> QED BY <3>1, <3>2
  <2> HIDE DEF g1, Right
  <2> QED BY <2>4, <2>5
<1>3. ASSUME NEW n \in Nat PROVE Solutions(n) # {}
  <2> HIDE DEF Solutions
  <2> DEFINE T == {k \in Nat : Solutions(k) # {}}
  <2>1. 0 \in T /\ \A k \in 0 .. n - 1 : k \in T => k + 1 \in T
    BY <1>1, <1>2
  <2>2. \A k \in 0 .. n : k \in T
    <3> HIDE DEF T
    <3> QED BY <2>1, UpTo
  <2>3. n \in T
    <3> HIDE DEF T
    <3> QED BY <2>2
  <2> QED BY <2>3
<1>4. ASSUME NEW n \in Nat, NEW m \in Nat, n <= m,
             NEW f \in Solutions(n), NEW g \in Solutions(m)
      PROVE  f[n] = g[n]
  <2> DEFINE T == {k \in 0 .. n : f[k] # g[k]}
  <2>1. ASSUME T # {} PROVE FALSE
    <3>1. PICK k \in T : \A j \in T : k <= j
      <4>1. T \subseteq Nat
        OBVIOUS
      <4> HIDE DEF T
      <4> QED BY <2>1, <4>1, LeastElement
    <3>2. Right(f, k) /\ Right(g, k)
      BY <1>4
    <3>3. k \notin stop
      BY <3>2
    <3>4. down[k] \in 0 .. n /\ down[k] < k
      BY <3>3
    <3>5. f[down[k]] = g[down[k]]
      BY <3>1, <3>4
    <3>6. f[k] = F[k][f[down[k]]] /\ g[k] = F[k][g[down[k]]]
      BY <3>2, <3>3
    <3>7. f[k] # g[k]
      OBVIOUS
    <3> HIDE DEF T
    <3> QED BY <3>5, <3>6, <3>7, Zenon
  <2>2. T = {}
    <3> HIDE DEF T
    <3> QED BY <2>1
  <2>3. n \in 0 .. n
    OBVIOUS
  <2> QED BY <2>2, <2>3
<1>5. \A k \in Nat : First(k) \in Solutions(k)
  BY <1>3
<1>6. ASSUME NEW k \in Nat
      PROVE  /\ First(k) \in [0 .. k -> Y] /\ First(k)[k] \in Y
             /\ Right(First(k), k)
  <2>1. First(k) \in Solutions(k) /\ k \in 0 .. k
    <3> HIDE DEF First, Solutions
    <3> QED BY <1>5
  <2> HIDE DEF First, Right
  <2> QED BY <2>1
<1>7. h \in [Nat -> Y]
  <2> HIDE DEF First
  <2> QED BY <1>6
<1>8. ASSUME NEW k \in Nat PROVE Right(h, k)
  <2>1. k \notin stop => First(k)[down[k]] = First(down[k])[down[k]]
    <3>1. ASSUME k \notin stop PROVE down[k] \in Nat /\ down[k] <= k
      BY <3>1
    <3>2. First(k) \in Solutions(k)
      BY <1>5
    <3>3. k \notin stop => First(down[k]) \in Solutions(down[k])
      BY <1>5, <3>1
    <3> HIDE DEF First, Solutions
    <3> QED BY <1>4, <3>1, <3>2, <3>3
  <2>2. h[k] = First(k)[k] /\ (k \notin stop => h[down[k]] = First(down[k])[down[k]])
    <3> HIDE DEF First
    <3> QED OBVIOUS
  <2>3. Right(First(k), k)
    BY <1>6
  <2> HIDE DEF First, h
  <2> QED BY <2>1, <2>2, <2>3
<1> HIDE DEF h
<1> QED BY <1>7, <1>8 DEF Recurses

-----------------------------------------------------------------------------
(* Powers and numerals.                                                    *)
Powers(radix) == CHOOSE power : power = [k \in Nat |-> IF k = 0 THEN 1 ELSE radix * power[k - 1]]

LEMMA PowerIs ==
  ASSUME NEW radix \in Nat
  PROVE  /\ Power(radix, 0) = 1
         /\ \A k \in Nat : /\ Power(radix, k) \in Nat
                           /\ Power(radix, k + 1) = radix * Power(radix, k)
<1> DEFINE down == [k \in Nat |-> IF k = 0 THEN 0 ELSE k - 1]
           base == [k \in Nat |-> 1]
           F == [k \in Nat |-> [y \in Nat |-> radix * y]]
<1> DEFINE stop == {0}
<1>1. /\ stop \in SUBSET Nat /\ down \in [Nat -> Nat]
      /\ \A k \in Nat \ stop : down[k] < k
      /\ base \in [Nat -> Nat] /\ F \in [Nat -> [Nat -> Nat]]
  OBVIOUS
<1>2. PICK h \in [Nat -> Nat] : Recurses(h, stop, down, base, F)
  <2> HIDE DEF stop, down, base, F
  <2> QED BY <1>1, RecursionSolved
<1>3. ASSUME NEW k \in Nat PROVE h[k] = IF k = 0 THEN 1 ELSE radix * h[k - 1]
  <2>1. k # 0 => k - 1 \in Nat /\ h[k - 1] \in Nat
    OBVIOUS
  <2> QED BY <1>2, <2>1 DEF Recurses
<1>4. h = [k \in Nat |-> IF k = 0 THEN 1 ELSE radix * h[k - 1]]
  BY <1>3
<1> DEFINE p == Powers(radix)
<1>5. p = [k \in Nat |-> IF k = 0 THEN 1 ELSE radix * p[k - 1]]
  BY <1>4, Zenon DEF Powers
<1>6. \A k : Power(radix, k) = p[k]
  BY Zenon DEF Power, Powers
<1> HIDE DEF p
<1>7. p[0] = 1 /\ \A k \in Nat : p[k + 1] = radix * p[k]
  <2>1. \A k \in Nat : k + 1 \in Nat /\ k + 1 # 0 /\ (k + 1) - 1 = k
    OBVIOUS
  <2> QED BY <1>5, <2>1
<1>8. ASSUME NEW k \in Nat PROVE p[k] \in Nat
  <2> DEFINE T == {j \in 0 .. k : p[j] \in Nat}
  <2>1. 0 \in T /\ \A j \in 0 .. k - 1 : j \in T => j + 1 \in T
    BY <1>7
  <2>2. \A j \in 0 .. k : j \in T
    <3> HIDE DEF T
    <3> QED BY <2>1, UpTo
  <2> QED BY <2>2
<1> QED BY <1>6, <1>7, <1>8

Numerals(radix) ==
  CHOOSE digits : digits = [k \in Nat |->
    IF k < radix THEN <<Digit(k)>> ELSE Append(digits[k \div radix], Digit(k % radix))]

(* A radix, and what division by it does to a number.                      *)
LEMMA Division ==
  ASSUME NEW radix \in {10, 16}, NEW n \in Nat
  PROVE  /\ n \div radix \in Nat /\ n % radix \in 0 .. radix - 1
         /\ n >= radix => n \div radix < n
         /\ n < radix <=> n \div radix = 0
         /\ n < radix => n % radix = n
         /\ Quotient(n, radix) = n \div radix
         /\ Remainder(n, radix) = n % radix
         /\ \A p \in Nat : n < radix * p => n \div radix < p
  BY DEF Quotient, Remainder

LEMMA NumeralIs ==
  ASSUME NEW radix \in {10, 16}, NEW n \in Nat
  PROVE  /\ Numeral(n, radix) \in Seq(Int)
         /\ Numeral(n, radix) = IF n < radix THEN <<Digit(n)>>
                                ELSE Append(Numeral(n \div radix, radix), Digit(n % radix))
<1> DEFINE down == [k \in Nat |-> IF k < radix THEN 0 ELSE k \div radix]
           base == [k \in Nat |-> <<Digit(k)>>]
           F == [k \in Nat |-> [y \in Seq(Int) |-> Append(y, Digit(k % radix))]]
           stop == 0 .. radix - 1
<1>1. stop \in SUBSET Nat /\ \A k \in Nat : k < radix <=> k \in stop
  OBVIOUS
<1>2. \A k \in Nat : k \div radix \in Nat /\ (k >= radix => k \div radix < k)
  BY Division
<1>3. down \in [Nat -> Nat] /\ \A k \in Nat \ stop : down[k] < k
  BY <1>2
<1>4. \A k \in Nat : Digit(k) \in Int /\ Digit(k % radix) \in Int
  BY Division DEF Digit, Zero, Lower
<1>5. base \in [Nat -> Seq(Int)] /\ F \in [Nat -> [Seq(Int) -> Seq(Int)]]
  BY <1>4
<1>6. PICK h \in [Nat -> Seq(Int)] : Recurses(h, stop, down, base, F)
  <2> HIDE DEF stop, down, base, F
  <2> QED BY <1>1, <1>3, <1>5, RecursionSolved
<1>7. ASSUME NEW k \in Nat
      PROVE  h[k] = IF k < radix THEN <<Digit(k)>>
                    ELSE Append(h[k \div radix], Digit(k % radix))
  <2>1. CASE k < radix
    BY <1>1, <1>6, <2>1 DEF Recurses
  <2>2. CASE k >= radix
    <3>1. k \notin stop /\ ~ (k < radix) /\ down[k] = k \div radix
      BY <2>2
    <3>2. h[down[k]] \in Seq(Int)
      BY <1>3
    <3>3. F[k][h[down[k]]] = Append(h[down[k]], Digit(k % radix))
      BY <3>2
    <3>4. h[k] = F[k][h[down[k]]]
      BY <1>6, <3>1 DEF Recurses
    <3> HIDE DEF down, F, stop
    <3> QED BY <3>1, <3>3, <3>4, Zenon
  <2> QED BY <2>1, <2>2
<1>8. h = [k \in Nat |-> IF k < radix THEN <<Digit(k)>>
                         ELSE Append(h[k \div radix], Digit(k % radix))]
  BY <1>7
<1> DEFINE p == Numerals(radix)
<1>9. p = [k \in Nat |-> IF k < radix THEN <<Digit(k)>>
                         ELSE Append(p[k \div radix], Digit(k % radix))]
  BY <1>8, Zenon DEF Numerals
<1>10. \A k : Numeral(k, radix) = p[k]
  BY Zenon DEF Numeral, Numerals
<1> HIDE DEF p
<1>11. \A k \in Nat : p[k] = IF k < radix THEN <<Digit(k)>>
                             ELSE Append(p[k \div radix], Digit(k % radix))
  BY <1>9, Zenon
<1>12. ASSUME NEW k \in Nat PROVE p[k] \in Seq(Int)
  <2> DEFINE T == {j \in Nat : p[j] \notin Seq(Int)}
  <2>1. T = {}
    <3> SUFFICES ASSUME T # {} PROVE FALSE
      OBVIOUS
    <3>1. PICK j \in T : \A m \in T : j <= m
      <4>1. T \subseteq Nat
        OBVIOUS
      <4> HIDE DEF T
      <4> QED BY <4>1, LeastElement
    <3>2. j \in Nat /\ p[j] \notin Seq(Int)
      OBVIOUS
    <3>3. ~ (j < radix)
      <4>1. <<Digit(j)>> \in Seq(Int)
        BY <1>4, <3>2
      <4> HIDE DEF T
      <4> QED BY <1>11, <3>2, <4>1, Zenon
    <3>4. j \div radix \in Nat /\ j \div radix < j
      BY <1>2, <3>2, <3>3
    <3>5. p[j \div radix] \in Seq(Int)
      BY <3>1, <3>2, <3>4
    <3>6. p[j] = Append(p[j \div radix], Digit(j % radix))
      BY <1>11, <3>2, <3>3, Zenon
    <3> QED BY <1>4, <3>2, <3>5, <3>6
  <2> QED BY <2>1
<1> QED BY <1>2, <1>10, <1>11, <1>12

(* The last digit of a numeral, and the digits before it.                  *)
LEMMA NumeralDigits ==
  ASSUME NEW radix \in {10, 16}, NEW n \in Nat
  PROVE  /\ Len(Numeral(n, radix)) \in Nat \ {0}
         /\ Numeral(n, radix)[Len(Numeral(n, radix))] = Digit(n % radix)
         /\ n < radix => Len(Numeral(n, radix)) = 1
         /\ n >= radix =>
              /\ Len(Numeral(n, radix)) = Len(Numeral(n \div radix, radix)) + 1
              /\ \A k \in 1 .. Len(Numeral(n \div radix, radix)) :
                   Numeral(n, radix)[k] = Numeral(n \div radix, radix)[k]
<1> DEFINE N == Numeral(n, radix)
           M == Numeral(n \div radix, radix)
<1>1. n \div radix \in Nat /\ (n < radix => n % radix = n)
  BY Division
<1>2. N \in Seq(Int) /\ M \in Seq(Int)
  BY <1>1, NumeralIs
<1>3. N = IF n < radix THEN <<Digit(n)>> ELSE Append(M, Digit(n % radix))
  BY NumeralIs
<1>4. Digit(n % radix) \in Int
  BY Division DEF Digit, Zero, Lower
<1> HIDE DEF N, M
<1>5. CASE n < radix
  BY <1>1, <1>3, <1>5 DEF N, M
<1>6. CASE n >= radix
  <2>1. /\ N = Append(M, Digit(n % radix)) /\ Len(M) \in Nat
    BY <1>2, <1>3, <1>6
  <2>2. /\ Len(N) = Len(M) + 1 /\ N[Len(M) + 1] = Digit(n % radix)
        /\ \A k \in 1 .. Len(M) : N[k] = M[k]
    BY <1>2, <1>4, <2>1
  <2> QED BY <1>6, <2>1, <2>2 DEF N, M
<1> QED BY <1>5, <1>6

(* A number below a power of the radix has as many digits at most.         *)
LEMMA NumeralLength ==
  ASSUME NEW radix \in {10, 16}, NEW m \in Nat \ {0}, NEW n \in Nat, n < Power(radix, m)
  PROVE  Len(Numeral(n, radix)) <= m
<1> DEFINE T == {k \in 0 .. m - 1 :
                  \A j \in Nat : j < Power(radix, k + 1) => Len(Numeral(j, radix)) <= k + 1}
<1>1. \A k \in Nat : Power(radix, k) \in Nat /\ Power(radix, k + 1) = radix * Power(radix, k)
  <2>1. radix \in Nat
    OBVIOUS
  <2> QED BY <2>1, PowerIs
<1>2. 0 \in T
  <2>1. Power(radix, 0 + 1) = radix
    <3>1. 0 \in Nat /\ radix \in Nat /\ radix * 1 = radix
      OBVIOUS
    <3>2. Power(radix, 0) = 1
      BY <3>1, PowerIs
    <3> QED BY <1>1, <3>1, <3>2, Zenon
  <2>2. ASSUME NEW j \in Nat PROVE j < radix => Len(Numeral(j, radix)) = 1
    BY NumeralDigits
  <2>3. \A j \in Nat : j < Power(radix, 0 + 1) => Len(Numeral(j, radix)) <= 0 + 1
    <3> SUFFICES ASSUME NEW j \in Nat, j < radix PROVE Len(Numeral(j, radix)) <= 0 + 1
      BY <2>1
    <3> DEFINE l == Len(Numeral(j, radix))
    <3>1. l = 1
      BY <2>2
    <3> HIDE DEF l
    <3>2. l <= 0 + 1
      BY <3>1
    <3> QED BY <3>2 DEF l
  <2>4. 0 \in 0 .. m - 1
    OBVIOUS
  <2> QED BY <2>3, <2>4
<1>3. ASSUME NEW k \in 0 .. (m - 1) - 1, k \in T PROVE k + 1 \in T
  <2>1. k + 1 \in 0 .. m - 1 /\ k + 1 \in Nat
    OBVIOUS
  <2>2. ASSUME NEW j \in Nat, j < Power(radix, (k + 1) + 1)
        PROVE  Len(Numeral(j, radix)) <= (k + 1) + 1
    <3>1. j \div radix \in Nat /\ j \div radix < Power(radix, k + 1)
      <4>1. Power(radix, k + 1) \in Nat /\ j < radix * Power(radix, k + 1)
        BY <1>1, <2>1, <2>2
      <4> QED BY <4>1, Division
    <3>2. Len(Numeral(j \div radix, radix)) <= k + 1
      BY <1>3, <3>1
    <3>3. /\ j < radix => Len(Numeral(j, radix)) = 1
          /\ j >= radix => Len(Numeral(j, radix)) = Len(Numeral(j \div radix, radix)) + 1
          /\ Len(Numeral(j \div radix, radix)) \in Nat
      <4> DEFINE q == j \div radix
      <4>1. Len(Numeral(q, radix)) \in Nat
        <5> HIDE DEF q
        <5> QED BY <3>1, NumeralDigits DEF q
      <4> QED BY <4>1, NumeralDigits
    <3>4. k \in Nat /\ (j < radix \/ j >= radix)
      OBVIOUS
    <3>5. CASE j < radix
      <4> DEFINE l == Len(Numeral(j, radix))
      <4>1. l = 1
        BY <3>3, <3>5
      <4> HIDE DEF l
      <4>2. l <= (k + 1) + 1
        BY <3>4, <4>1
      <4> QED BY <4>2 DEF l
    <3>6. CASE j >= radix
      <4> DEFINE l == Len(Numeral(j, radix))
                 q == Len(Numeral(j \div radix, radix))
      <4>1. l = q + 1 /\ q <= k + 1 /\ q \in Nat
        BY <3>2, <3>3, <3>6
      <4> HIDE DEF l, q
      <4>2. l <= (k + 1) + 1
        BY <3>4, <4>1
      <4> QED BY <4>2 DEF l
    <3> QED BY <3>4, <3>5, <3>6
  <2> QED BY <2>1, <2>2
<1> HIDE DEF T
<1>4. \A k \in 0 .. m - 1 : k \in T
  BY <1>2, <1>3, UpTo
<1>5. m - 1 \in T
  BY <1>4
<1>6. \A j \in Nat : j < Power(radix, (m - 1) + 1) => Len(Numeral(j, radix)) <= (m - 1) + 1
  BY <1>5 DEF T
<1>7. (m - 1) + 1 = m
  OBVIOUS
<1> QED BY <1>6, <1>7

-----------------------------------------------------------------------------
(* Sequences joined one behind the other.                                  *)
Upto(parts) ==
  CHOOSE upto : upto = [n \in 0 .. Len(parts) |->
                          IF n = 0 THEN <<>> ELSE upto[n - 1] \o parts[n]]

LEMMA UptoIs ==
  ASSUME NEW Y, NEW parts \in Seq(Seq(Y))
  PROVE  /\ Joined(parts) = Upto(parts)[Len(parts)]
         /\ Upto(parts)[0] = <<>>
         /\ \A n \in 0 .. Len(parts) : Upto(parts)[n] \in Seq(Y)
         /\ \A n \in 0 .. Len(parts) - 1 :
              Upto(parts)[n + 1] = Upto(parts)[n] \o parts[n + 1]
<1> DEFINE L == Len(parts)
           stop == {0}
           down == [k \in Nat |-> IF k = 0 THEN 0 ELSE k - 1]
           base == [k \in Nat |-> <<>>]
           F == [k \in Nat |-> [y \in Seq(Y) |-> IF k \in 1 .. L THEN y \o parts[k] ELSE y]]
<1>1. L \in Nat /\ \A k \in 1 .. L : parts[k] \in Seq(Y)
  OBVIOUS
<1> HIDE DEF L
<1>2. /\ stop \in SUBSET Nat /\ down \in [Nat -> Nat]
      /\ \A k \in Nat \ stop : down[k] < k
      /\ base \in [Nat -> Seq(Y)]
  OBVIOUS
<1>3. F \in [Nat -> [Seq(Y) -> Seq(Y)]]
  <2>1. ASSUME NEW k \in Nat, NEW y \in Seq(Y)
        PROVE  (IF k \in 1 .. L THEN y \o parts[k] ELSE y) \in Seq(Y)
    <3>1. k \in 1 .. L => y \o parts[k] \in Seq(Y)
      BY <1>1, ConcatProperties
    <3> QED BY <3>1
  <2> QED BY <2>1
<1>4. PICK h \in [Nat -> Seq(Y)] : Recurses(h, stop, down, base, F)
  <2> HIDE DEF stop, down, base, F
  <2> QED BY <1>2, <1>3, RecursionSolved
<1> DEFINE g == [n \in 0 .. L |-> h[n]]
<1>5. ASSUME NEW n \in 0 .. L PROVE g[n] = IF n = 0 THEN <<>> ELSE g[n - 1] \o parts[n]
  <2>1. CASE n = 0
    BY <1>1, <1>4, <2>1 DEF Recurses
  <2>2. CASE n # 0
    <3>1. n \in Nat /\ n \notin stop /\ n \in 1 .. L /\ n - 1 \in Nat /\ n - 1 \in 0 .. L
      BY <1>1, <2>2
    <3>2. h[n] = F[n][h[down[n]]] /\ down[n] = n - 1 /\ h[n - 1] \in Seq(Y)
      BY <1>4, <3>1 DEF Recurses
    <3>3. F[n][h[n - 1]] = h[n - 1] \o parts[n]
      BY <3>1, <3>2
    <3> HIDE DEF F, down
    <3>4. h[n] = h[n - 1] \o parts[n]
      BY <3>2, <3>3
    <3> QED BY <2>2, <3>1, <3>4
  <2> QED BY <2>1, <2>2
<1>6. g = [n \in 0 .. L |-> IF n = 0 THEN <<>> ELSE g[n - 1] \o parts[n]]
  <2> HIDE DEF g
  <2> DEFINE f == [n \in 0 .. L |-> IF n = 0 THEN <<>> ELSE g[n - 1] \o parts[n]]
  <2>1. g = [n \in 0 .. L |-> g[n]]
    BY DEF g
  <2>2. \A n \in 0 .. L : f[n] = g[n]
    BY <1>5
  <2> QED BY <2>1, <2>2
<1> HIDE DEF g
<1> DEFINE u == Upto(parts)
<1>7. u = [n \in 0 .. L |-> IF n = 0 THEN <<>> ELSE u[n - 1] \o parts[n]]
  BY <1>6, Zenon DEF Upto, L
<1>8. Joined(parts) = u[L]
  BY Zenon DEF Joined, Upto, L
<1> HIDE DEF u
<1>9. u[0] = <<>> /\ \A n \in 0 .. L - 1 : u[n + 1] = u[n] \o parts[n + 1]
  <2>1. 0 \in 0 .. L
    BY <1>1
  <2>2. \A n \in 0 .. L - 1 : n + 1 \in 0 .. L /\ n + 1 # 0 /\ (n + 1) - 1 = n
    BY <1>1
  <2> QED BY <1>7, <2>1, <2>2
<1>10. \A n \in 0 .. L : u[n] \in Seq(Y)
  <2> DEFINE T == {n \in 0 .. L : u[n] \in Seq(Y)}
  <2>1. 0 \in T
    <3>1. 0 \in 0 .. L /\ <<>> \in Seq(Y)
      BY <1>1
    <3> QED BY <1>9, <3>1
  <2>2. ASSUME NEW n \in 0 .. L - 1, n \in T PROVE n + 1 \in T
    <3>1. n + 1 \in 1 .. L
      BY <1>1
    <3>2. u[n] \in Seq(Y) /\ parts[n + 1] \in Seq(Y)
      BY <1>1, <2>2, <3>1
    <3>3. u[n + 1] = u[n] \o parts[n + 1]
      BY <1>9
    <3>4. u[n] \o parts[n + 1] \in Seq(Y)
      BY <3>2, ConcatProperties
    <3>5. n + 1 \in 0 .. L
      BY <1>1, <3>1
    <3>6. u[n + 1] \in Seq(Y)
      BY <3>3, <3>4
    <3> QED BY <3>5, <3>6
  <2> HIDE DEF T
  <2>3. \A n \in 0 .. L : n \in T
    BY <1>1, <2>1, <2>2, UpTo
  <2> QED BY <2>3 DEF T
<1> QED BY <1>8, <1>9, <1>10 DEF u, L

LEMMA Concat ==
  ASSUME NEW Y, NEW a \in Seq(Y), NEW b \in Seq(Y)
  PROVE  /\ a \o b \in Seq(Y) /\ Len(a) \in Nat /\ Len(b) \in Nat
         /\ Len(a \o b) = Len(a) + Len(b)
         /\ \A j \in 1 .. Len(a) : (a \o b)[j] = a[j]
         /\ \A j \in 1 .. Len(b) : (a \o b)[Len(a) + j] = b[j]
<1>1. Len(a) \in Nat /\ Len(b) \in Nat
  OBVIOUS
<1>2. /\ a \o b \in Seq(Y) /\ Len(a \o b) = Len(a) + Len(b)
      /\ \A j \in 1 .. Len(a) + Len(b) :
           (a \o b)[j] = IF j <= Len(a) THEN a[j] ELSE b[j - Len(a)]
  BY ConcatProperties
<1>3. \A j \in 1 .. Len(a) : (a \o b)[j] = a[j]
  BY <1>1, <1>2
<1>4. ASSUME NEW j \in 1 .. Len(b) PROVE (a \o b)[Len(a) + j] = b[j]
  <2>1. /\ Len(a) + j \in 1 .. Len(a) + Len(b) /\ ~ (Len(a) + j <= Len(a))
        /\ (Len(a) + j) - Len(a) = j
    BY <1>1
  <2> QED BY <1>2, <2>1
<1> QED BY <1>1, <1>2, <1>3, <1>4

LEMMA SeqIsFunction ==
  ASSUME NEW Y, NEW s \in Seq(Y)
  PROVE  s = [k \in 1 .. Len(s) |-> s[k]]
<1>1. PICK n \in Nat : s \in [1 .. n -> Y]
  BY SeqDef
<1>2. Len(s) = n
  BY <1>1
<1> QED BY <1>1, <1>2

LEMMA Widened ==
  ASSUME NEW Y, NEW Z, Y \subseteq Z, NEW s \in Seq(Y)
  PROVE  s \in Seq(Z)
<1>1. PICK n \in Nat : s \in [1 .. n -> Y]
  BY SeqDef
<1>2. s \in [1 .. n -> Z]
  BY <1>1
<1> QED BY <1>2, SeqDef

(* Where a part stands in the whole.                                       *)
LEMMA JoinedParts ==
  ASSUME NEW Y, NEW parts \in Seq(Seq(Y)), NEW n \in 1 .. Len(parts)
  PROVE  /\ parts[n] \in Seq(Y) /\ Len(parts[n]) \in Nat
         /\ Len(Upto(parts)[n - 1]) \in Nat
         /\ Len(Upto(parts)[n]) = Len(Upto(parts)[n - 1]) + Len(parts[n])
         /\ Joined(parts) \in Seq(Y) /\ Len(Upto(parts)[n]) <= Len(Joined(parts))
         /\ \A k \in 1 .. Len(parts[n]) :
              Joined(parts)[Len(Upto(parts)[n - 1]) + k] = parts[n][k]
<1> DEFINE L == Len(parts)
           u == Upto(parts)
<1>1. L \in Nat /\ \A k \in 1 .. L : parts[k] \in Seq(Y)
  OBVIOUS
<1>2. /\ Joined(parts) = u[L] /\ \A k \in 0 .. L : u[k] \in Seq(Y)
      /\ \A k \in 0 .. L - 1 : u[k + 1] = u[k] \o parts[k + 1]
  BY UptoIs
<1>3. n \in 1 .. L
  OBVIOUS
<1> HIDE DEF L, u
<1>4. ASSUME NEW k \in 1 .. L
      PROVE  /\ u[k] \in Seq(Y) /\ u[k - 1] \in Seq(Y) /\ parts[k] \in Seq(Y)
             /\ Len(u[k]) = Len(u[k - 1]) + Len(parts[k])
             /\ \A j \in 1 .. Len(u[k - 1]) : u[k][j] = u[k - 1][j]
             /\ \A j \in 1 .. Len(parts[k]) : u[k][Len(u[k - 1]) + j] = parts[k][j]
  <2>1. k - 1 \in 0 .. L - 1 /\ k - 1 \in 0 .. L /\ k \in 0 .. L /\ (k - 1) + 1 = k
    BY <1>1
  <2>2. u[k] = u[k - 1] \o parts[k] /\ u[k - 1] \in Seq(Y) /\ parts[k] \in Seq(Y)
    BY <1>1, <1>2, <2>1
  <2> DEFINE a == u[k - 1]
             b == parts[k]
  <2>3. a \in Seq(Y) /\ b \in Seq(Y)
    BY <2>2
  <2>4. u[k] = a \o b
    BY <2>2
  <2> HIDE DEF a, b
  <2>5. /\ a \o b \in Seq(Y) /\ Len(a \o b) = Len(a) + Len(b)
        /\ \A j \in 1 .. Len(a) : (a \o b)[j] = a[j]
        /\ \A j \in 1 .. Len(b) : (a \o b)[Len(a) + j] = b[j]
    BY <2>3, Concat
  <2> QED BY <2>3, <2>4, <2>5, Zenon DEF a, b
<1>5. \A j \in n .. L :
        /\ u[j] \in Seq(Y) /\ Len(u[n]) <= Len(u[j])
        /\ \A k \in 1 .. Len(u[n]) : u[j][k] = u[n][k]
  <2> DEFINE T == {j \in 0 .. L - n :
                     /\ Len(u[n]) <= Len(u[n + j])
                     /\ \A k \in 1 .. Len(u[n]) : u[n + j][k] = u[n][k]}
  <2>1. \A j \in n .. L : u[j] \in Seq(Y) /\ Len(u[j]) \in Nat
    BY <1>1, <1>2, <1>3
  <2>2. 0 \in T
    <3>1. n + 0 = n /\ n \in n .. L /\ 0 \in 0 .. L - n
      BY <1>1, <1>3
    <3> QED BY <2>1, <3>1
  <2>3. ASSUME NEW j \in 0 .. (L - n) - 1, j \in T PROVE j + 1 \in T
    <3> DEFINE p == n + j
               q == n + (j + 1)
    <3>1. /\ q \in 1 .. L /\ q - 1 = p /\ j + 1 \in 0 .. L - n
          /\ p \in n .. L /\ n \in n .. L /\ q \in n .. L
      BY <1>1, <1>3
    <3>2. /\ Len(u[n]) <= Len(u[p])
          /\ \A k \in 1 .. Len(u[n]) : u[p][k] = u[n][k]
      BY <2>3
    <3> HIDE DEF p, q
    <3>3. Len(u[q]) = Len(u[p]) + Len(parts[q]) /\ parts[q] \in Seq(Y)
      BY <1>4, <3>1
    <3>4. \A k \in 1 .. Len(u[p]) : u[q][k] = u[p][k]
      BY <1>4, <3>1
    <3>5. Len(u[p]) \in Nat /\ Len(u[n]) \in Nat /\ Len(parts[q]) \in Nat
      BY <2>1, <3>1, <3>3
    <3>6. Len(u[n]) <= Len(u[q])
      <4> DEFINE ln == Len(u[n])
                 lp == Len(u[p])
                 lq == Len(u[q])
                 lx == Len(parts[q])
      <4>1. ln \in Nat /\ lp \in Nat /\ lx \in Nat /\ ln <= lp /\ lq = lp + lx
        BY <3>2, <3>3, <3>5
      <4> HIDE DEF ln, lp, lq, lx
      <4>2. ln <= lq
        BY <4>1
      <4> QED BY <4>2 DEF ln, lq
    <3>7. \A k \in 1 .. Len(u[n]) : k \in 1 .. Len(u[p])
      BY <3>2, <3>5
    <3>8. \A k \in 1 .. Len(u[n]) : u[q][k] = u[n][k]
      BY <3>2, <3>4, <3>7
    <3> QED BY <3>1, <3>6, <3>8 DEF q
  <2> HIDE DEF T
  <2>4. \A j \in 0 .. L - n : j \in T
    <3>1. L - n \in Nat
      BY <1>1, <1>3
    <3> QED BY <2>2, <2>3, <3>1, UpTo
  <2>5. ASSUME NEW j \in n .. L
        PROVE  Len(u[n]) <= Len(u[j]) /\ \A k \in 1 .. Len(u[n]) : u[j][k] = u[n][k]
    <3>1. j - n \in 0 .. L - n /\ n + (j - n) = j
      BY <1>1, <1>3
    <3>2. j - n \in T
      BY <2>4, <3>1
    <3> QED BY <3>1, <3>2 DEF T
  <2> QED BY <2>1, <2>5
<1>6. L \in n .. L /\ Joined(parts) = u[L]
  BY <1>1, <1>2, <1>3
<1>7. /\ Joined(parts) \in Seq(Y) /\ Len(u[n]) <= Len(Joined(parts))
      /\ \A k \in 1 .. Len(u[n]) : Joined(parts)[k] = u[n][k]
  BY <1>5, <1>6
<1>8. /\ Len(parts[n]) \in Nat /\ Len(u[n - 1]) \in Nat /\ Len(u[n]) \in Nat
      /\ Len(u[n]) = Len(u[n - 1]) + Len(parts[n])
  <2>1. /\ u[n] \in Seq(Y) /\ u[n - 1] \in Seq(Y) /\ parts[n] \in Seq(Y)
        /\ Len(u[n]) = Len(u[n - 1]) + Len(parts[n])
    BY <1>3, <1>4
  <2>2. Len(parts[n]) \in Nat /\ Len(u[n - 1]) \in Nat /\ Len(u[n]) \in Nat
    BY <2>1, LenProperties, Zenon
  <2> QED BY <2>1, <2>2, Zenon
<1>9. ASSUME NEW k \in 1 .. Len(parts[n])
      PROVE  Joined(parts)[Len(u[n - 1]) + k] = parts[n][k]
  <2>1. Len(u[n - 1]) + k \in 1 .. Len(u[n])
    <3> DEFINE la == Len(u[n - 1])
               lb == Len(parts[n])
               lc == Len(u[n])
    <3>1. la \in Nat /\ lb \in Nat /\ lc = la + lb /\ k \in 1 .. lb
      BY <1>8
    <3> HIDE DEF la, lb, lc
    <3>2. la + k \in 1 .. lc
      BY <3>1
    <3> QED BY <3>2 DEF la, lc
  <2>2. u[n][Len(u[n - 1]) + k] = parts[n][k]
    BY <1>3, <1>4
  <2> QED BY <1>7, <2>1, <2>2
<1> QED BY <1>1, <1>3, <1>7, <1>8, <1>9 DEF u

-----------------------------------------------------------------------------
(* What the pieces of a message are in the format, among the arguments and *)
(* on the screen.                                                          *)
Arg(piece) == IF Takes(piece) THEN <<piece.value>> ELSE <<>>
Format(message) == [k \in DOMAIN message |-> Spelled(message[k])]
Arguments(message) == [k \in DOMAIN message |-> Arg(message[k])]
Showing(message) == [k \in DOMAIN message |-> Shown(message[k])]

LEMMA PrintfIs ==
  ASSUME NEW message
  PROVE  printf(message) = [fn |-> "printf", message |-> message,
                            format |-> Joined(Format(message)),
                            args |-> Joined(Arguments(message))]
  BY Zenon DEF printf, Format, Arguments, Arg

(* A conversion is a percent sign, spaces and a letter.                    *)
LEMMA SpelledIs ==
  ASSUME NEW piece, WellFormed(piece)
  PROVE  LET text == Spelled(piece)
             n    == piece.spaces
         IN /\ text \in Seq(Int)
            /\ piece.letter = NUL => /\ Len(text) = 1 /\ text[1] = piece.value
                                     /\ piece.value \in Int /\ piece.value # PERCENT
            /\ piece.letter # NUL => /\ n \in Nat /\ Len(text) = n + 2
                                     /\ text[1] = PERCENT /\ text[n + 2] = piece.letter
                                     /\ \A k \in 2 .. n + 1 : text[k] = SPACE
                                     /\ piece.letter \in Int /\ piece.letter # SPACE
<1> DEFINE n == piece.spaces
<1>1. n \in Nat
  BY DEF WellFormed
<1>2. CASE piece.letter = NUL
  <2>1. piece.value \in Int /\ piece.value # PERCENT
    BY <1>2 DEF WellFormed, Char, NUL, C, D, X, I, S
  <2>2. Spelled(piece) = <<piece.value>>
    BY <1>2 DEF Spelled
  <2>3. <<piece.value>> \in Seq(Int)
    BY <2>1
  <2> QED BY <1>2, <2>1, <2>2, <2>3
<1>3. CASE piece.letter # NUL
  <2>1. piece.letter \in Int /\ piece.letter # SPACE
    <3>1. piece.letter \in {C, D, X, I, S} \/ piece.letter \in Char \ {SPACE, C, D, I, S, X}
      BY <1>3, Zenon DEF WellFormed
    <3> QED BY <3>1 DEF Char, C, D, X, I, S, SPACE
  <2> DEFINE gap == [k \in 1 .. n |-> SPACE]
             text == <<PERCENT>> \o gap \o <<piece.letter>>
  <2>2. gap \in Seq(Int) /\ Len(gap) = n /\ \A k \in 1 .. n : gap[k] = SPACE
    BY <1>1 DEF SPACE
  <2>3. <<PERCENT>> \in Seq(Int) /\ <<piece.letter>> \in Seq(Int)
    BY <2>1 DEF PERCENT
  <2>4. Spelled(piece) = text
    BY <1>3 DEF Spelled
  <2> HIDE DEF gap
  <2>5. /\ <<PERCENT>> \o gap \in Seq(Int) /\ Len(<<PERCENT>> \o gap) = n + 1
        /\ (<<PERCENT>> \o gap)[1] = PERCENT
        /\ \A k \in 2 .. n + 1 : (<<PERCENT>> \o gap)[k] = SPACE
    BY <1>1, <2>2, <2>3
  <2> DEFINE head == <<PERCENT>> \o gap
  <2> HIDE DEF head
  <2> DEFINE tail == <<piece.letter>>
             all == head \o tail
  <2>6. /\ all \in Seq(Int) /\ Len(all) = n + 2
        /\ all[1] = PERCENT /\ all[n + 2] = piece.letter
        /\ \A k \in 2 .. n + 1 : all[k] = SPACE
    <3>1. /\ head \in Seq(Int) /\ Len(head) = n + 1 /\ head[1] = PERCENT
          /\ \A k \in 2 .. n + 1 : head[k] = SPACE
      BY <2>5 DEF head
    <3>2. tail \in Seq(Int) /\ Len(tail) = 1 /\ tail[1] = piece.letter
      BY <2>3
    <3> HIDE DEF tail
    <3> HIDE DEF head
    <3>3. /\ all \in Seq(Int) /\ Len(all) = Len(head) + Len(tail)
          /\ \A j \in 1 .. Len(head) : all[j] = head[j]
          /\ \A j \in 1 .. Len(tail) : all[Len(head) + j] = tail[j]
      <4> DEFINE Y == Int
      <4>1. head \in Seq(Y) /\ tail \in Seq(Y)
        BY <3>1, <3>2
      <4> HIDE DEF Y
      <4>2. /\ all \in Seq(Y) /\ Len(all) = Len(head) + Len(tail)
            /\ \A j \in 1 .. Len(head) : all[j] = head[j]
            /\ \A j \in 1 .. Len(tail) : all[Len(head) + j] = tail[j]
        BY <4>1, Concat
      <4> QED BY <4>2 DEF Y
    <3> HIDE DEF all
    <3>4. Len(all) = n + 2 /\ all[1] = PERCENT
      <4>1. Len(head) + Len(tail) = n + 2 /\ 1 \in 1 .. Len(head)
        BY <1>1, <3>1, <3>2
      <4> QED BY <3>1, <3>3, <4>1
    <3>5. all[n + 2] = piece.letter
      <4>1. 1 \in 1 .. Len(tail) /\ Len(head) + 1 = n + 2
        BY <1>1, <3>1, <3>2
      <4> QED BY <3>2, <3>3, <4>1
    <3>6. \A k \in 2 .. n + 1 : all[k] = SPACE
      <4>1. \A k \in 2 .. n + 1 : k \in 1 .. Len(head)
        BY <1>1, <3>1
      <4> QED BY <3>1, <3>3, <4>1
    <3> QED BY <3>3, <3>4, <3>5, <3>6
  <2>7. text = all
    BY DEF head
  <2> HIDE DEF all, text
  <2> QED BY <1>1, <1>3, <2>1, <2>4, <2>6, <2>7
<1> QED BY <1>2, <1>3

(* A numeral stands for a word, never a negative one.                      *)
LEMMA WordPiece ==
  ASSUME NEW piece, WellFormed(piece), piece.letter \in {D, I, X}
  PROVE  /\ piece.value \in Word /\ piece.value \in Nat
         /\ piece.letter = I => Signed(piece.value) = piece.value
<1>1. piece.value \in Word /\ (piece.letter = I => Signed(piece.value) >= 0)
  BY DEF WellFormed, Char, NUL, C, D, X, I, S
<1>2. WORD \in Nat
  BY WidthAssumption
<1> QED BY <1>1, <1>2 DEF Word, Signed

LEMMA ShownType ==
  ASSUME NEW piece, WellFormed(piece) PROVE Shown(piece) \in Seq(Int)
<1>1. CASE piece.letter = X
  <2>1. Numeral(piece.value, 16) \in Seq(Int)
    BY <1>1, WordPiece, NumeralIs
  <2>2. <<Zero, X>> \in Seq(Int)
    BY DEF Zero, X
  <2>3. <<Zero, X>> \o Numeral(piece.value, 16) \in Seq(Int)
    BY <2>1, <2>2, ConcatProperties
  <2> QED BY <1>1, <2>3 DEF Shown, X, D, I, S, C, NUL
<1>2. CASE piece.letter \in {D, I}
  <2>1. Numeral(piece.value, 10) \in Seq(Int)
    BY <1>2, WordPiece, NumeralIs
  <2> QED BY <1>2, <2>1 DEF Shown, X, D, I, S, C, NUL
<1>3. CASE piece.letter = S
  <2>1. piece.value \in Seq(Char)
    BY <1>3 DEF WellFormed, Char, NUL, C, D, X, I, S
  <2>2. piece.value \in Seq(Int)
    <3>1. Char \subseteq Int
      BY DEF Char
    <3> QED BY <2>1, <3>1, Widened
  <2> QED BY <1>3, <2>2 DEF Shown, X, D, I, S, C, NUL
<1>4. CASE piece.letter = C
  <2>1. piece.value \in Word
    BY <1>4 DEF WellFormed, Char, NUL, C, D, X, I, S
  <2>2. <<piece.value % 256>> \in Seq(Int)
    <3>1. piece.value \in Int /\ piece.value % 256 \in Int
      BY <2>1, WidthAssumption DEF Word
    <3> QED BY <3>1
  <2> QED BY <1>4, <2>2 DEF Shown, X, D, I, S, C, NUL
<1>5. CASE piece.letter = NUL
  <2>1. piece.value \in Char
    BY <1>5 DEF WellFormed, Char, NUL, C, D, X, I, S
  <2>2. <<piece.value>> \in Seq(Int)
    BY <2>1 DEF Char
  <2> QED BY <1>5, <2>2 DEF Shown, X, D, I, S, C, NUL
<1>6. CASE piece.letter \notin {X, D, I, S, C, NUL}
  <2>1. piece.letter \in Char
    BY <1>6 DEF WellFormed
  <2>2. <<piece.letter>> \in Seq(Int)
    BY <2>1 DEF Char
  <2> QED BY <1>6, <2>2 DEF Shown
<1> QED BY <1>1, <1>2, <1>3, <1>4, <1>5, <1>6

LEMMA MessageIs ==
  ASSUME NEW message \in Messages
  PROVE  /\ Len(message) \in Nat /\ DOMAIN message = 1 .. Len(message)
         /\ \A k \in 1 .. Len(message) : WellFormed(message[k])
         /\ Format(message) \in Seq(Seq(Int)) /\ Len(Format(message)) = Len(message)
         /\ Arguments(message) \in Seq(Seq({message[k].value : k \in 1 .. Len(message)}))
         /\ Len(Arguments(message)) = Len(message)
         /\ Showing(message) \in Seq(Seq(Int)) /\ Len(Showing(message)) = Len(message)
<1> DEFINE L == Len(message)
           Y == {message[k].value : k \in 1 .. L}
<1>1. message \in Seq({message[k] : k \in DOMAIN message})
  BY StringsAssumption
<1>2. L \in Nat /\ DOMAIN message = 1 .. L
  BY <1>1
<1>3. \A k \in 1 .. L : WellFormed(message[k])
  BY <1>2, StringsAssumption
<1> HIDE DEF L
<1>4. \A k \in 1 .. L : Spelled(message[k]) \in Seq(Int)
  BY <1>3, SpelledIs
<1>5. \A k \in 1 .. L : Shown(message[k]) \in Seq(Int)
  BY <1>3, ShownType
<1>6. ASSUME NEW k \in 1 .. L PROVE Arg(message[k]) \in Seq(Y)
  <2>1. message[k].value \in Y
    OBVIOUS
  <2> HIDE DEF Y
  <2>2. <<message[k].value>> \in Seq(Y) /\ <<>> \in Seq(Y)
    BY <2>1
  <2> QED BY <2>2, Zenon DEF Arg
<1> HIDE DEF Y
<1>7. Format(message) = [k \in 1 .. L |-> Spelled(message[k])]
  BY <1>2 DEF Format
<1>8. Showing(message) = [k \in 1 .. L |-> Shown(message[k])]
  BY <1>2 DEF Showing
<1>9. Arguments(message) = [k \in 1 .. L |-> Arg(message[k])]
  BY <1>2 DEF Arguments
<1>10. Format(message) \in Seq(Seq(Int)) /\ Len(Format(message)) = L
  BY <1>2, <1>4, <1>7
<1>11. Showing(message) \in Seq(Seq(Int)) /\ Len(Showing(message)) = L
  BY <1>2, <1>5, <1>8
<1>12. Arguments(message) \in Seq(Seq(Y)) /\ Len(Arguments(message)) = L
  BY <1>2, <1>6, <1>9
<1> QED BY <1>2, <1>3, <1>10, <1>11, <1>12 DEF L, Y

(* How far the first n pieces of a message reach.                          *)
FormatEnd(message, n) == Len(Upto(Format(message))[n])
ArgsEnd(message, n) == Len(Upto(Arguments(message))[n])
Screen(message, n) == Upto(Showing(message))[n]

LEMMA NothingPrinted ==
  ASSUME NEW message \in Messages
  PROVE  FormatEnd(message, 0) = 0 /\ ArgsEnd(message, 0) = 0 /\ Screen(message, 0) = <<>>
<1> DEFINE Y == Seq(Int)
           Z == Seq({message[k].value : k \in 1 .. Len(message)})
<1>1. Upto(Format(message))[0] = <<>> /\ Upto(Showing(message))[0] = <<>>
  BY MessageIs, UptoIs
<1>2. Upto(Arguments(message))[0] = <<>>
  <2> DEFINE V == {message[k].value : k \in 1 .. Len(message)}
  <2>1. Arguments(message) \in Seq(Seq(V))
    BY MessageIs
  <2> HIDE DEF V
  <2> QED BY <2>1, UptoIs
<1> QED BY <1>1, <1>2 DEF FormatEnd, ArgsEnd, Screen

LEMMA AllPrinted ==
  ASSUME NEW message \in Messages
  PROVE  /\ FormatEnd(message, Len(message)) = Len(Joined(Format(message)))
         /\ ArgsEnd(message, Len(message)) = Len(Joined(Arguments(message)))
         /\ Screen(message, Len(message)) = Joined(Showing(message))
<1>1. /\ Joined(Format(message)) = Upto(Format(message))[Len(message)]
      /\ Joined(Showing(message)) = Upto(Showing(message))[Len(message)]
  BY MessageIs, UptoIs
<1>2. Joined(Arguments(message)) = Upto(Arguments(message))[Len(message)]
  <2> DEFINE V == {message[k].value : k \in 1 .. Len(message)}
  <2>1. Arguments(message) \in Seq(Seq(V)) /\ Len(Arguments(message)) = Len(message)
    BY MessageIs
  <2> HIDE DEF V
  <2> QED BY <2>1, UptoIs
<1> QED BY <1>1, <1>2 DEF FormatEnd, ArgsEnd, Screen

LEMMA AtPiece ==
  ASSUME NEW message \in Messages, NEW n \in 1 .. Len(message)
  PROVE  /\ FormatEnd(message, n - 1) \in Nat /\ Len(Spelled(message[n])) \in Nat
         /\ FormatEnd(message, n) = FormatEnd(message, n - 1) + Len(Spelled(message[n]))
         /\ FormatEnd(message, n) <= Len(Joined(Format(message)))
         /\ Len(Joined(Format(message))) \in Nat
         /\ \A k \in 1 .. Len(Spelled(message[n])) :
              At(Joined(Format(message)), FormatEnd(message, n - 1) + (k - 1))
                = Spelled(message[n])[k]
<1> DEFINE parts == Format(message)
           text == parts[n]
           at == FormatEnd(message, n - 1)
           f == Joined(parts)
           L == Len(message)
<1>1. parts \in Seq(Seq(Int)) /\ n \in 1 .. Len(parts) /\ text = Spelled(message[n])
  BY MessageIs DEF Format
<1> HIDE DEF parts
<1>2. /\ text \in Seq(Int) /\ Len(text) \in Nat /\ at \in Nat
      /\ Len(Upto(parts)[n]) = at + Len(text)
      /\ f \in Seq(Int) /\ Len(Upto(parts)[n]) <= Len(f)
      /\ \A k \in 1 .. Len(text) : f[at + k] = text[k]
  <2> DEFINE Y == Int
  <2>1. parts \in Seq(Seq(Y))
    BY <1>1
  <2> HIDE DEF Y
  <2>2. /\ text \in Seq(Y) /\ Len(text) \in Nat
        /\ Len(Upto(parts)[n - 1]) \in Nat
        /\ Len(Upto(parts)[n]) = Len(Upto(parts)[n - 1]) + Len(text)
        /\ f \in Seq(Y) /\ Len(Upto(parts)[n]) <= Len(f)
        /\ \A k \in 1 .. Len(text) : f[Len(Upto(parts)[n - 1]) + k] = text[k]
    BY <1>1, <2>1, JoinedParts
  <2> QED BY <2>2, Zenon DEF Y, FormatEnd, parts
<1>3. FormatEnd(message, n) = Len(Upto(parts)[n])
  BY DEF FormatEnd, parts
<1>4. Len(f) \in Nat
  BY <1>2
<1> HIDE DEF text, at, f
<1>5. ASSUME NEW k \in 1 .. Len(text) PROVE At(f, at + (k - 1)) = text[k]
  <2>1. ~ (at + (k - 1) >= Len(f)) /\ (at + (k - 1)) + 1 = at + k
    <3> DEFINE lt == Len(text)
               lf == Len(f)
               lu == Len(Upto(parts)[n])
    <3>1. at \in Nat /\ lt \in Nat /\ lf \in Nat /\ lu = at + lt /\ lu <= lf /\ k \in 1 .. lt
      BY <1>2, <1>4
    <3> HIDE DEF lt, lf, lu
    <3>2. ~ (at + (k - 1) >= lf) /\ (at + (k - 1)) + 1 = at + k
      BY <3>1
    <3> QED BY <3>2 DEF lf
  <2>2. At(f, at + (k - 1)) = f[(at + (k - 1)) + 1]
    BY <2>1, Zenon DEF At
  <2> QED BY <1>2, <2>1, <2>2
<1> QED BY <1>1, <1>2, <1>3, <1>4, <1>5, Zenon DEF text, at, f, parts

(* The letter of a conversion is where printf looks for it.                *)
LEMMA LetterFound ==
  ASSUME NEW message \in Messages, NEW n \in 1 .. Len(message),
         message[n].letter # NUL,
         call.format = Joined(Format(message)), i = FormatEnd(message, n - 1)
  PROVE  /\ i < Len(call.format) /\ At(call.format, i) = PERCENT
         /\ At(call.format, LetterAt) = message[n].letter
         /\ LetterAt \in Nat /\ LetterAt + 1 = FormatEnd(message, n)
<1> DEFINE f == call.format
           text == Spelled(message[n])
           sp == message[n].spaces
           L == Len(f)
<1>1. WellFormed(message[n])
  BY MessageIs
<1>2. /\ sp \in Nat /\ Len(text) = sp + 2 /\ text[1] = PERCENT
      /\ text[sp + 2] = message[n].letter /\ message[n].letter # SPACE
      /\ \A k \in 2 .. sp + 1 : text[k] = SPACE
  BY <1>1, SpelledIs
<1>3. /\ i \in Nat /\ L \in Nat /\ FormatEnd(message, n) = i + (sp + 2) /\ i + (sp + 2) <= L
      /\ \A k \in 1 .. sp + 2 : At(f, i + (k - 1)) = text[k]
  BY <1>2, AtPiece
<1> HIDE DEF f, text, sp, L
<1>4. i < L
  BY <1>2, <1>3
<1>5. At(f, i) = PERCENT
  <2>1. 1 \in 1 .. sp + 2 /\ i + (1 - 1) = i
    BY <1>2, <1>3
  <2>2. At(f, i + (1 - 1)) = text[1]
    BY <1>3, <2>1
  <2> QED BY <1>2, <2>1, <2>2
<1> DEFINE z == i + (sp + 1)
<1>6. At(f, z) = message[n].letter
  <2>1. sp + 2 \in 1 .. sp + 2 /\ i + ((sp + 2) - 1) = z
    BY <1>2, <1>3
  <2>2. At(f, i + ((sp + 2) - 1)) = text[sp + 2]
    BY <1>3, <2>1
  <2> QED BY <1>2, <2>1, <2>2
<1>7. ASSUME NEW j \in i + 1 .. z - 1 PROVE At(f, j) = SPACE
  <2>1. /\ (j - i) + 1 \in 2 .. sp + 1 /\ (j - i) + 1 \in 1 .. sp + 2
        /\ i + (((j - i) + 1) - 1) = j
    <3>1. i \in Int /\ sp \in Int /\ j \in Int /\ i + 1 <= j /\ j <= i + sp
      BY <1>2, <1>3
    <3> HIDE DEF z
    <3> QED BY <3>1
  <2>2. At(f, i + (((j - i) + 1) - 1)) = text[(j - i) + 1]
    BY <1>3, <2>1
  <2> QED BY <1>2, <2>1, <2>2
<1>8. z \in i + 1 .. L /\ z \in Nat /\ z + 1 = i + (sp + 2)
  BY <1>2, <1>3
<1> HIDE DEF z
<1> DEFINE Is(k) == At(f, k) # SPACE /\ \A j \in i + 1 .. k - 1 : At(f, j) = SPACE
<1>9. Is(z)
  BY <1>2, <1>6, <1>7
<1>10. ASSUME NEW k \in i + 1 .. L, Is(k) PROVE k = z
  <2>1. ASSUME k < z PROVE FALSE
    <3>1. k \in i + 1 .. z - 1
      BY <1>3, <1>8, <2>1
    <3> QED BY <1>7, <1>10, <3>1
  <2>2. ASSUME k > z PROVE FALSE
    <3>1. z \in i + 1 .. k - 1
      BY <1>3, <1>8, <2>2
    <3> QED BY <1>2, <1>6, <1>10, <3>1
  <2> QED BY <1>3, <1>8, <2>1, <2>2
<1>11. LetterAt = z
  <2>1. LetterAt = CHOOSE k \in i + 1 .. L : Is(k)
    BY Zenon DEF LetterAt, f, L
  <2> HIDE DEF Is
  <2> QED BY <1>8, <1>9, <1>10, <2>1
<1> QED BY <1>3, <1>4, <1>5, <1>6, <1>8, <1>11 DEF f, L

(* A character of its own stands for itself.                               *)
LEMMA PlainFound ==
  ASSUME NEW message \in Messages, NEW n \in 1 .. Len(message),
         message[n].letter = NUL,
         call.format = Joined(Format(message)), i = FormatEnd(message, n - 1)
  PROVE  /\ i < Len(call.format) /\ At(call.format, i) = message[n].value
         /\ At(call.format, i) # PERCENT
         /\ i \in Nat /\ i + 1 = FormatEnd(message, n)
<1> DEFINE f == call.format
           text == Spelled(message[n])
           L == Len(f)
<1>1. WellFormed(message[n])
  BY MessageIs
<1>2. /\ Len(text) = 1 /\ text[1] = message[n].value /\ message[n].value # PERCENT
  BY <1>1, SpelledIs
<1>3. /\ i \in Nat /\ L \in Nat /\ FormatEnd(message, n) = i + 1 /\ i + 1 <= L
      /\ \A k \in 1 .. 1 : At(f, i + (k - 1)) = text[k]
  BY <1>2, AtPiece
<1> HIDE DEF f, text, L
<1>4. At(f, i) = text[1]
  <2>1. 1 \in 1 .. 1 /\ i + (1 - 1) = i
    BY <1>3
  <2>2. At(f, i + (1 - 1)) = text[1]
    BY <1>3, <2>1
  <2> QED BY <2>1, <2>2
<1> QED BY <1>2, <1>3, <1>4 DEF f, L

(* A conversion that takes an argument finds the one it was given.         *)
LEMMA ArgumentFound ==
  ASSUME NEW message \in Messages, NEW n \in 1 .. Len(message),
         call.args = Joined(Arguments(message)), taken = ArgsEnd(message, n - 1)
  PROVE  /\ taken \in Nat
         /\ Takes(message[n]) => /\ At(call.args, taken) = message[n].value
                                 /\ taken + 1 = ArgsEnd(message, n)
         /\ ~ Takes(message[n]) => taken = ArgsEnd(message, n)
<1> DEFINE parts == Arguments(message)
           V == {message[k].value : k \in 1 .. Len(message)}
           a == call.args
<1>1. parts \in Seq(Seq(V)) /\ n \in 1 .. Len(parts) /\ parts[n] = Arg(message[n])
  BY MessageIs DEF Arguments
<1> HIDE DEF parts, V, a
<1>2. /\ parts[n] \in Seq(V) /\ Len(parts[n]) \in Nat
      /\ taken \in Nat /\ ArgsEnd(message, n) = taken + Len(parts[n])
      /\ a \in Seq(V) /\ ArgsEnd(message, n) <= Len(a)
      /\ \A k \in 1 .. Len(parts[n]) : a[taken + k] = parts[n][k]
  <2>1. /\ parts[n] \in Seq(V) /\ Len(parts[n]) \in Nat
        /\ Len(Upto(parts)[n - 1]) \in Nat
        /\ Len(Upto(parts)[n]) = Len(Upto(parts)[n - 1]) + Len(parts[n])
        /\ Joined(parts) \in Seq(V) /\ Len(Upto(parts)[n]) <= Len(Joined(parts))
        /\ \A k \in 1 .. Len(parts[n]) :
             Joined(parts)[Len(Upto(parts)[n - 1]) + k] = parts[n][k]
    BY <1>1, JoinedParts
  <2>2. a = Joined(parts) /\ taken = Len(Upto(parts)[n - 1])
        /\ ArgsEnd(message, n) = Len(Upto(parts)[n])
    BY DEF a, parts, ArgsEnd
  <2> QED BY <2>1, <2>2, Zenon
<1>3. CASE Takes(message[n])
  <2>1. parts[n] = <<message[n].value>>
    BY <1>1, <1>3 DEF Arg
  <2>2. Len(parts[n]) = 1 /\ parts[n][1] = message[n].value
    BY <2>1
  <2>3. a[taken + 1] = message[n].value
    BY <1>2, <2>2
  <2>4. Len(a) \in Nat
    BY <1>2
  <2>5. taken + 1 = ArgsEnd(message, n) /\ ~ (taken >= Len(a))
    BY <1>2, <2>2, <2>4
  <2>6. At(a, taken) = a[taken + 1]
    BY <2>5, Zenon DEF At
  <2> QED BY <1>2, <1>3, <2>3, <2>5, <2>6 DEF a
<1>4. CASE ~ Takes(message[n])
  <2>1. Len(parts[n]) = 0
    BY <1>1, <1>4 DEF Arg
  <2> QED BY <1>2, <1>4, <2>1
<1> QED BY <1>3, <1>4

(* What a piece adds to the screen.                                        *)
LEMMA ScreenGrows ==
  ASSUME NEW message \in Messages, NEW n \in 1 .. Len(message)
  PROVE  /\ Screen(message, n) = Screen(message, n - 1) \o Shown(message[n])
         /\ Screen(message, n - 1) \in Seq(Int) /\ Shown(message[n]) \in Seq(Int)
<1> DEFINE parts == Showing(message)
           Y == Int
<1>1. parts \in Seq(Seq(Y)) /\ n \in 1 .. Len(parts) /\ parts[n] = Shown(message[n])
  BY MessageIs DEF Showing
<1>2. Shown(message[n]) \in Seq(Int)
  BY MessageIs, ShownType
<1> HIDE DEF parts, Y
<1>3. n - 1 \in 0 .. Len(parts) - 1 /\ n - 1 \in 0 .. Len(parts) /\ (n - 1) + 1 = n
  BY <1>1
<1>4. /\ Upto(parts)[n - 1] \in Seq(Y)
      /\ Upto(parts)[n] = Upto(parts)[n - 1] \o parts[n]
  <2>1. /\ \A k \in 0 .. Len(parts) : Upto(parts)[k] \in Seq(Y)
        /\ \A k \in 0 .. Len(parts) - 1 : Upto(parts)[k + 1] = Upto(parts)[k] \o parts[k + 1]
    BY <1>1, UptoIs
  <2> QED BY <1>3, <2>1
<1> QED BY <1>1, <1>2, <1>4, Zenon DEF Screen, parts, Y

-----------------------------------------------------------------------------
(* The inductive invariant.                                                *)

(* How the number of a piece is built: the radix, the cell in which its    *)
(* digits begin, and its numeral.                                          *)
Radix(piece) == IF piece.letter = X THEN 16 ELSE 10
Begin(piece) == IF piece.letter = X THEN 2 ELSE 0
NumeralOf(piece) == Numeral(piece.value, Radix(piece))

Builds(piece) ==
  /\ piece.letter \in {D, I, X} /\ number.radix = Radix(piece)
  /\ piece.letter = X => buf[0] = Zero /\ buf[1] = X

(* The digits of the number that is left stand for the first digits of the *)
(* numeral; those already taken stand in buf, the last one first.          *)
Collects(piece) ==
  LET N == NumeralOf(piece)
      M == Numeral(number.x, number.radix)
  IN /\ number.s = Begin(piece) /\ Begin(piece) <= number.i
     /\ (number.i - Begin(piece)) + Len(M) = Len(N)
     /\ \A k \in 1 .. Len(M) : N[k] = M[k]
     /\ \A k \in Begin(piece) .. number.i - 1 : buf[k] = N[Len(N) - (k - Begin(piece))]

(* The digits outside s .. e stand where they belong, those from s to e in *)
(* the mirror of where they belong.                                        *)
Reverses(piece) ==
  LET N == NumeralOf(piece)
  IN /\ number.i = Begin(piece) + Len(N)
     /\ Begin(piece) <= number.s /\ number.s <= number.e + 1
     /\ number.s - Begin(piece) = (number.i - 1) - number.e
     /\ \A k \in Begin(piece) .. number.i - 1 :
          buf[k] = IF k < number.s \/ k > number.e THEN N[(k - Begin(piece)) + 1]
                   ELSE N[number.i - k]

Between(message, n) ==
  i = FormatEnd(message, n) /\ taken = ArgsEnd(message, n) /\ out = Screen(message, n)

Within(message, n) ==
  /\ i + 1 = FormatEnd(message, n) /\ taken = ArgsEnd(message, n)
  /\ out = Screen(message, n - 1)
  /\ Builds(message[n])
  /\ pc = "digits" => Collects(message[n])
  /\ pc = "reverse" => Reverses(message[n])

PrintInv ==
  call.fn = "printf" =>
    /\ pc \in {"printf", "digits", "reverse", "done"}
    /\ pc = "printf" => \E n \in 0 .. Len(call.message) : Between(call.message, n)
    /\ pc \in {"digits", "reverse"} => \E n \in 1 .. Len(call.message) : Within(call.message, n)
    /\ pc = "done" => /\ out = Screen(call.message, Len(call.message))
                      /\ taken = ArgsEnd(call.message, Len(call.message))

CompareInv ==
  call.fn = "strcmp" =>
    /\ pc \in {"strcmp", "done"}
    /\ i <= Len(call.s1) /\ i <= Len(call.s2)
    /\ \A k \in 0 .. i - 1 : At(call.s1, k) = At(call.s2, k)
    /\ pc = "done" => /\ ~ Alike(call.s1, call.s2)
                      /\ ret = At(call.s1, i) - At(call.s2, i)

CopyInv ==
  call.fn \in {"memmove", "memset"} =>
    /\ pc \in {call.fn, "done"}
    /\ i <= call.len /\ (pc = "done" => i = call.len)
    /\ \A a \in DOMAIN mem :
         mem[a] = IF a - 1 \notin call.dst .. call.dst + i - 1 THEN Memory[a]
                  ELSE IF call.fn = "memset" THEN NUL
                  ELSE Memory[a - call.dst + call.src]

Numbers == [x : Nat, radix : {10, 16},
            i : 0 .. BUF - 1, s : 0 .. BUF - 1, e : 0 .. BUF - 1]

IInv == TypeOK /\ number \in Numbers /\ PrintInv /\ CompareInv /\ CopyInv

-----------------------------------------------------------------------------
(* strcmp, memmove and memset.                                             *)

LEMMA CallIs ==
  ASSUME call \in Calls
  PROVE  \/ /\ call.fn = "printf" /\ call.message \in Messages
            /\ call.format = Joined(Format(call.message))
            /\ call.args = Joined(Arguments(call.message))
         \/ call.fn = "strcmp" /\ call.s1 \in Strings /\ call.s2 \in Strings
         \/ /\ call.fn = "memmove" /\ call.dst \in Nat /\ call.src \in Nat /\ call.len \in Nat
            /\ call.dst <= call.src \/ call.dst >= call.src + call.len
            /\ call.dst + call.len <= Len(Memory) /\ call.src + call.len <= Len(Memory)
         \/ /\ call.fn = "memset" /\ call.dst \in Nat /\ call.len \in Nat
            /\ call.byte = NUL /\ call.dst + call.len <= Len(Memory)
<1>1. CASE \E message \in Messages : call = printf(message)
  <2>1. PICK message \in Messages : call = printf(message)
    BY <1>1
  <2>2. call = [fn |-> "printf", message |-> message,
                format |-> Joined(Format(message)), args |-> Joined(Arguments(message))]
    BY <2>1, PrintfIs, Zenon
  <2> QED BY <2>1, <2>2
<1>2. CASE \E s1, s2 \in Strings : call = [fn |-> "strcmp", s1 |-> s1, s2 |-> s2]
  BY <1>2
<1>3. CASE \E c \in Copies :
             call = [fn |-> "memmove", dst |-> c.dst, src |-> c.src, len |-> c.len]
  BY <1>3, StringsAssumption
<1>4. CASE \E c \in Copies :
             call = [fn |-> "memset", dst |-> c.dst, byte |-> NUL, len |-> c.len]
  BY <1>4, StringsAssumption
<1> QED BY <1>1, <1>2, <1>3, <1>4 DEF Calls

LEMMA AtIs ==
  ASSUME NEW text \in Seq(Char), NEW k \in 0 .. Len(text)
  PROVE  /\ Len(text) \in Nat /\ At(text, k) \in 0 .. 255
         /\ k < Len(text) => At(text, k) = text[k + 1] /\ At(text, k) # NUL
         /\ k = Len(text) => At(text, k) = NUL
<1>1. Len(text) \in Nat
  OBVIOUS
<1>2. CASE k = Len(text)
  BY <1>1, <1>2 DEF At, NUL
<1>3. CASE k < Len(text)
  <2>1. k + 1 \in 1 .. Len(text) /\ ~ (k >= Len(text))
    BY <1>1, <1>3
  <2>2. text[k + 1] \in Char
    BY <2>1
  <2>3. At(text, k) = text[k + 1]
    BY <2>1, Zenon DEF At
  <2> DEFINE c == text[k + 1]
  <2>4. c \in 1 .. 255 /\ At(text, k) = c
    BY <2>2, <2>3 DEF Char
  <2> HIDE DEF c
  <2>5. At(text, k) \in 0 .. 255 /\ At(text, k) # NUL
    BY <2>4 DEF NUL
  <2> QED BY <1>1, <1>3, <2>3, <2>5
<1> QED BY <1>1, <1>2, <1>3

LEMMA CompareStep ==
  ASSUME IInv, strcmp PROVE IInv'
<1>1. pc = "strcmp" /\ call' = call
  BY DEF strcmp
<1>2. call.fn = "strcmp" /\ call.s1 \in Seq(Char) /\ call.s2 \in Seq(Char)
  <2>1. call \in Calls
    BY DEF IInv, TypeOK
  <2>2. call.fn # "printf" /\ call.fn # "memmove" /\ call.fn # "memset"
    BY <1>1 DEF IInv, PrintInv, CopyInv
  <2> QED BY <2>1, <2>2, CallIs, StringsAssumption
<1> DEFINE s1 == call.s1
           s2 == call.s2
<1>3. /\ i \in 0 .. Len(s1) /\ i \in 0 .. Len(s2) /\ Len(s1) \in Nat /\ Len(s2) \in Nat
      /\ \A k \in 0 .. i - 1 : At(s1, k) = At(s2, k)
  BY <1>2 DEF IInv, TypeOK, CompareInv
<1>4. CASE Alike(s1, s2)
  <2>1. i < Len(s1) /\ i < Len(s2)
    BY <1>2, <1>3, <1>4, AtIs DEF Alike
  <2>2. i' = i + 1 /\ UNCHANGED <<call, pc, ret, taken, number, buf, mem, out>>
    BY <1>4 DEF strcmp
  <2>3. \A k \in 0 .. i : At(s1, k) = At(s2, k)
    BY <1>3, <1>4 DEF Alike
  <2>4. TypeOK' /\ (number \in Numbers)'
    BY <1>3, <2>2 DEF IInv, TypeOK
  <2>5. CompareInv'
    BY <1>1, <1>3, <2>1, <2>2, <2>3 DEF CompareInv
  <2>6. PrintInv' /\ CopyInv'
    BY <1>1, <1>2 DEF PrintInv, CopyInv
  <2> QED BY <2>4, <2>5, <2>6 DEF IInv
<1>5. CASE ~ Alike(s1, s2)
  <2>1. /\ i' = i /\ pc' = "done" /\ ret' = At(s1, i) - At(s2, i)
        /\ UNCHANGED <<call, taken, number, buf, mem, out>>
    BY <1>5 DEF strcmp
  <2>2. At(s1, i) \in 0 .. 255 /\ At(s2, i) \in 0 .. 255
    BY <1>2, <1>3, AtIs
  <2>3. ret' \in -255 .. 255
    <3>1. \A u, v \in 0 .. 255 : u - v \in -255 .. 255
      OBVIOUS
    <3> QED BY <2>1, <2>2, <3>1, Zenon
  <2>4. TypeOK' /\ (number \in Numbers)'
    BY <2>1, <2>3 DEF IInv, TypeOK
  <2>5. CompareInv'
    BY <1>3, <1>5, <2>1 DEF CompareInv, Alike
  <2>6. PrintInv' /\ CopyInv'
    BY <1>1, <1>2 DEF PrintInv, CopyInv
  <2> QED BY <2>4, <2>5, <2>6 DEF IInv
<1> QED BY <1>4, <1>5

LEMMA CopyStep ==
  ASSUME IInv, memstep PROVE IInv'
<1>1. pc \in {"memmove", "memset"} /\ call' = call
  BY DEF memstep
<1> DEFINE d == call.dst
           l == call.len
<1>2. /\ call.fn = pc /\ d \in Nat /\ l \in Nat /\ d + l <= Len(Memory)
      /\ pc = "memmove" => /\ call.src \in Nat
                           /\ d <= call.src \/ d >= call.src + l
                           /\ call.src + l <= Len(Memory)
      /\ pc = "memset" => call.byte = NUL
  <2>1. call \in Calls
    BY DEF IInv, TypeOK
  <2>2. call.fn # "printf" /\ call.fn # "strcmp"
    BY <1>1 DEF IInv, PrintInv, CompareInv
  <2>3. call.fn \in {"memmove", "memset"}
    BY <2>1, <2>2, CallIs
  <2>4. call.fn = pc
    BY <1>1, <2>3 DEF IInv, CopyInv
  <2> QED BY <2>1, <2>3, <2>4, CallIs
<1>3. /\ i \in Nat /\ i <= l /\ DOMAIN mem = 1 .. Len(Memory) /\ Len(Memory) \in Nat
      /\ \A a \in DOMAIN mem :
           mem[a] = IF a - 1 \notin d .. d + i - 1 THEN Memory[a]
                    ELSE IF call.fn = "memset" THEN NUL ELSE Memory[a - d + call.src]
  <2>1. DOMAIN Memory = 1 .. Len(Memory) /\ Len(Memory) \in Nat
    BY StringsAssumption
  <2> QED BY <1>1, <1>2, <2>1 DEF IInv, TypeOK, CopyInv
<1>4. PrintInv' /\ CompareInv'
  BY <1>1, <1>2 DEF PrintInv, CompareInv
<1>5. CASE i < l
  <2>1. /\ i' = i + 1 /\ pc' = pc /\ mem' = [mem EXCEPT ![d + i + 1] = Stored(call)]
        /\ UNCHANGED <<call, taken, number, buf, out, ret>>
    BY <1>2, <1>3, <1>5 DEF memstep
  <2>2. d + i + 1 \in DOMAIN mem
    BY <1>2, <1>3, <1>5
  <2>3. TypeOK' /\ (number \in Numbers)'
    BY <1>3, <2>1 DEF IInv, TypeOK
  <2>4. Stored(call) = IF call.fn = "memset" THEN NUL ELSE Memory[call.src + i + 1]
    <3>1. CASE pc = "memset"
      BY <1>2, <3>1 DEF Stored
    <3>2. CASE pc = "memmove"
      <4>1. /\ call.src + i + 1 \in DOMAIN mem
            /\ (call.src + i + 1) - 1 \notin d .. d + i - 1
        <5> DEFINE r == call.src
                   M == Len(Memory)
        <5>1. /\ i \in Nat /\ r \in Nat /\ d \in Nat /\ l \in Nat /\ M \in Nat
              /\ i < l /\ r + l <= M /\ (d <= r \/ d >= r + l)
          BY <1>2, <1>3, <1>5, <3>2
        <5> HIDE DEF d, l, r, M
        <5>2. r + i + 1 \in 1 .. M /\ (r + i + 1) - 1 \notin d .. d + i - 1
          BY <5>1
        <5> QED BY <1>3, <5>2 DEF r, d, M
      <4> QED BY <1>2, <1>3, <3>2, <4>1 DEF Stored
    <3> QED BY <1>1, <3>1, <3>2
  <2>5. ASSUME NEW a \in DOMAIN mem
        PROVE  mem'[a] = IF a - 1 \notin d .. d + (i + 1) - 1 THEN Memory[a]
                         ELSE IF call.fn = "memset" THEN NUL ELSE Memory[a - d + call.src]
    <3>1. CASE a = d + i + 1
      <4>1. a - 1 \in d .. d + (i + 1) - 1 /\ mem'[a] = Stored(call)
        BY <1>2, <1>3, <2>1, <2>2, <3>1
      <4>2. call.fn # "memset" => a - d + call.src = call.src + i + 1
        <5>1. i \in Nat /\ d \in Nat /\ (call.fn # "memset" => call.src \in Nat)
          BY <1>1, <1>2, <1>3
        <5> HIDE DEF d
        <5> QED BY <3>1, <5>1
      <4> QED BY <2>4, <4>1, <4>2
    <3>2. CASE a # d + i + 1
      <4>1. a - 1 \in d .. d + (i + 1) - 1 <=> a - 1 \in d .. d + i - 1
        <5>1. i \in Nat /\ d \in Nat /\ a \in Int
          BY <1>2, <1>3
        <5> HIDE DEF d
        <5> QED BY <3>2, <5>1
      <4>2. mem'[a] = mem[a]
        BY <2>1, <3>2
      <4> QED BY <1>3, <4>1, <4>2
    <3> QED BY <3>1, <3>2
  <2>6. CopyInv'
    <3>1. DOMAIN mem' = DOMAIN mem
      BY <2>1
    <3>2. (i + 1 <= l) /\ pc # "done"
      BY <1>1, <1>2, <1>3, <1>5
    <3> QED BY <1>2, <2>1, <2>5, <3>1, <3>2 DEF CopyInv
  <2> QED BY <1>4, <2>3, <2>6 DEF IInv
<1>6. CASE ~ (i < l)
  <2>1. pc' = "done" /\ UNCHANGED <<i, mem, call, taken, number, buf, out, ret>>
    BY <1>2, <1>3, <1>6 DEF memstep
  <2>2. i = l
    BY <1>2, <1>3, <1>6
  <2>3. TypeOK' /\ (number \in Numbers)'
    BY <2>1 DEF IInv, TypeOK
  <2>4. CopyInv'
    BY <1>2, <1>3, <2>1, <2>2 DEF CopyInv
  <2> QED BY <1>4, <2>3, <2>4 DEF IInv
<1> QED BY <1>5, <1>6

-----------------------------------------------------------------------------
(* The digits of a number.                                                 *)

LEMMA RadixIs ==
  ASSUME NEW piece
  PROVE  Radix(piece) \in {10, 16} /\ Begin(piece) \in {0, 2}
         /\ (piece.letter = X <=> Radix(piece) = 16)
         /\ (piece.letter = X <=> Begin(piece) = 2)
  BY DEF Radix, Begin

(* The numeral, behind its prefix, leaves a cell of buf for the 0.         *)
LEMMA RoomInBuf ==
  ASSUME NEW piece, WellFormed(piece), piece.letter \in {D, I, X}
  PROVE  /\ NumeralOf(piece) \in Seq(Int) /\ Len(NumeralOf(piece)) \in Nat \ {0}
         /\ Begin(piece) + Len(NumeralOf(piece)) <= BUF - 1
<1>1. piece.value \in Nat /\ piece.value < WORD
  BY WordPiece, WidthAssumption DEF Word
<1>2. /\ BUF - 1 \in Nat \ {0} /\ BUF - 3 \in Nat \ {0} /\ BUF \in Nat /\ WORD \in Nat
      /\ WORD <= Power(10, BUF - 1) /\ WORD <= Power(16, BUF - 3)
      /\ Power(10, BUF - 1) \in Nat /\ Power(16, BUF - 3) \in Nat
  <2>1. /\ BUF - 1 \in Nat \ {0} /\ BUF - 3 \in Nat \ {0} /\ BUF \in Nat /\ WORD \in Nat
        /\ WORD <= Power(10, BUF - 1) /\ WORD <= Power(16, BUF - 3)
    BY WidthAssumption
  <2>2. 10 \in Nat /\ 16 \in Nat
    OBVIOUS
  <2> QED BY <2>1, <2>2, PowerIs
<1>3. NumeralOf(piece) \in Seq(Int) /\ Len(NumeralOf(piece)) \in Nat \ {0}
  BY <1>1, RadixIs, NumeralIs, NumeralDigits DEF NumeralOf
<1>4. CASE piece.letter = X
  <2>1. piece.value < Power(16, BUF - 3)
    BY <1>1, <1>2
  <2>2. Len(Numeral(piece.value, 16)) <= BUF - 3
    BY <1>1, <1>2, <2>1, NumeralLength
  <2>3. NumeralOf(piece) = Numeral(piece.value, 16) /\ Begin(piece) = 2
    BY <1>4 DEF NumeralOf, Radix, Begin
  <2> DEFINE ll == Len(NumeralOf(piece))
  <2>4. ll \in Nat /\ ll <= BUF - 3
    BY <1>3, <2>2, <2>3
  <2> HIDE DEF ll
  <2>5. 2 + ll <= BUF - 1
    BY <1>2, <2>4
  <2> QED BY <1>3, <2>3, <2>5 DEF ll
<1>5. CASE piece.letter # X
  <2>1. piece.value < Power(10, BUF - 1)
    BY <1>1, <1>2
  <2>2. Len(Numeral(piece.value, 10)) <= BUF - 1
    BY <1>1, <1>2, <2>1, NumeralLength
  <2>3. NumeralOf(piece) = Numeral(piece.value, 10) /\ Begin(piece) = 0
    BY <1>5 DEF NumeralOf, Radix, Begin
  <2> DEFINE ll == Len(NumeralOf(piece))
  <2>4. ll \in Nat /\ ll <= BUF - 1
    BY <1>3, <2>2, <2>3
  <2> HIDE DEF ll
  <2>5. 0 + ll <= BUF - 1
    BY <1>2, <2>4
  <2> QED BY <1>3, <2>3, <2>5 DEF ll
<1> QED BY <1>4, <1>5

LEMMA Printing ==
  ASSUME IInv, pc \in {"printf", "digits", "reverse"}
  PROVE  /\ call.fn = "printf" /\ call.message \in Messages
         /\ call.format = Joined(Format(call.message))
         /\ call.args = Joined(Arguments(call.message))
<1>1. call \in Calls
  BY DEF IInv, TypeOK
<1>2. call.fn \notin {"strcmp", "memmove", "memset"}
  BY DEF IInv, CompareInv, CopyInv
<1> QED BY <1>1, <1>2, CallIs

(* A step of printf disturbs nothing the other functions rely on.          *)
LEMMA OthersKeep ==
  ASSUME IInv, call.fn = "printf", call' = call
  PROVE  CompareInv' /\ CopyInv'
  BY DEF CompareInv, CopyInv

LEMMA PutDigitStep ==
  ASSUME IInv, PutDigit PROVE IInv'
<1>1. /\ pc = "digits" /\ UNCHANGED <<call, i, taken, mem, out, ret>>
      /\ buf' = [buf EXCEPT ![number.i] = Digit(Remainder(number.x, number.radix))]
      /\ number' = [number EXCEPT !.x = Quotient(number.x, number.radix),
                                  !.i = number.i + 1, !.e = number.i]
      /\ pc' = IF More(number.x, number.radix) THEN "digits" ELSE "reverse"
  BY DEF PutDigit
<1>2. PICK message \in Messages : call.fn = "printf" /\ call.message = message
  BY <1>1, Printing
<1>3. PICK n \in 1 .. Len(message) : Within(message, n)
  BY <1>1, <1>2 DEF IInv, PrintInv
<1> DEFINE piece == message[n]
           N == NumeralOf(piece)
           b == Begin(piece)
           r == number.radix
           x == number.x
           j == number.i
           M == Numeral(x, r)
           M1 == Numeral(x \div r, r)
<1>4. /\ WellFormed(piece) /\ piece.letter \in {D, I, X} /\ r = Radix(piece)
      /\ (piece.letter = X => buf[0] = Zero /\ buf[1] = X)
      /\ Collects(piece)
  BY <1>1, <1>2, <1>3, MessageIs DEF Within, Builds
<1>5. /\ r \in {10, 16} /\ x \in Nat /\ j \in Nat /\ b \in {0, 2} /\ BUF \in Nat
      /\ (piece.letter = X => b = 2)
  BY <1>4, RadixIs, WidthAssumption DEF IInv, Numbers
<1>6. /\ Quotient(x, r) = x \div r /\ Remainder(x, r) = x % r
      /\ x \div r \in Nat /\ (x < r <=> x \div r = 0)
  BY <1>5, Division
<1>7. /\ Len(M) \in Nat \ {0} /\ Len(M1) \in Nat /\ M[Len(M)] = Digit(x % r)
      /\ (x < r => Len(M) = 1)
      /\ (x >= r => Len(M) = Len(M1) + 1 /\ \A k \in 1 .. Len(M1) : M[k] = M1[k])
  BY <1>5, <1>6, NumeralDigits
<1>8. Len(N) \in Nat /\ b + Len(N) <= BUF - 1
  BY <1>4, RoomInBuf
<1>9. /\ number.s = b /\ b <= j /\ (j - b) + Len(M) = Len(N)
      /\ \A k \in 1 .. Len(M) : N[k] = M[k]
      /\ \A k \in b .. j - 1 : buf[k] = N[Len(N) - (k - b)]
  BY <1>4, Zenon DEF Collects
<1> HIDE DEF N, M, M1, b
<1>10. j \in 0 .. BUF - 2 /\ j \in DOMAIN buf /\ DOMAIN buf = 0 .. BUF - 1
  <2>1. j \in 0 .. BUF - 2
    <3> DEFINE ll == Len(N)
               lm == Len(M)
    <3>1. /\ ll \in Nat /\ lm \in Nat \ {0} /\ (j - b) + lm = ll /\ b + ll <= BUF - 1
          /\ b \in {0, 2} /\ b <= j /\ BUF \in Nat /\ j \in Nat
      BY <1>5, <1>7, <1>8, <1>9
    <3> HIDE DEF ll, lm, j
    <3> QED BY <3>1
  <2>2. DOMAIN buf = 0 .. BUF - 1
    BY DEF IInv, TypeOK
  <2> QED BY <1>5, <2>1, <2>2
<1>11. /\ DOMAIN buf' = 0 .. BUF - 1
       /\ \A k \in 0 .. BUF - 1 : buf'[k] = IF k = j THEN Digit(x % r) ELSE buf[k]
  BY <1>1, <1>6, <1>10
<1>12. /\ number' \in Numbers /\ number'.x = x \div r /\ number'.radix = r
       /\ number'.i = j + 1 /\ number'.s = b /\ number'.e = j
  <2>1. number' = [number EXCEPT !.x = x \div r, !.i = j + 1, !.e = j]
    BY <1>1, <1>6
  <2>2. number \in Numbers /\ j + 1 \in 0 .. BUF - 1 /\ j \in 0 .. BUF - 1
    BY <1>5, <1>10 DEF IInv
  <2> QED BY <1>6, <1>9, <2>1, <2>2 DEF Numbers
<1>13. TypeOK'
  <2>1. pc' \in {"digits", "reverse"}
    BY <1>1
  <2>2. number'.i \in 0 .. BUF - 1 /\ number'.s \in 0 .. BUF - 1 /\ number'.e \in 0 .. BUF - 1
    BY <1>12 DEF Numbers
  <2> QED BY <1>1, <1>11, <2>1, <2>2 DEF IInv, TypeOK
<1>14. Builds(piece)'
  <2>1. piece.letter = X => buf'[0] = buf[0] /\ buf'[1] = buf[1]
    BY <1>5, <1>9, <1>10, <1>11
  <2>2. number'.radix = Radix(piece)
    BY <1>4, <1>12
  <2> QED BY <1>1, <1>4, <2>1, <2>2 DEF Builds, X
<1>15. \A k \in b .. j : buf'[k] = N[Len(N) - (k - b)]
  <2> SUFFICES ASSUME NEW k \in b .. j PROVE buf'[k] = N[Len(N) - (k - b)]
    OBVIOUS
  <2>1. k \in 0 .. BUF - 1
    BY <1>5, <1>10
  <2>2. CASE k = j
    <3>1. Len(N) - (k - b) = Len(M) /\ Len(M) \in 1 .. Len(M)
      <4> DEFINE ll == Len(N)
                 lm == Len(M)
      <4>1. ll \in Nat /\ lm \in Nat \ {0} /\ (k - b) + lm = ll /\ b \in Nat /\ k \in Int
        BY <1>5, <1>7, <1>8, <1>9, <2>2
      <4> HIDE DEF ll, lm
      <4>2. ll - (k - b) = lm /\ lm \in 1 .. lm
        BY <4>1
      <4> QED BY <4>2 DEF ll, lm
    <3> QED BY <1>7, <1>9, <1>11, <2>1, <2>2, <3>1
  <2>3. CASE k # j
    <3>1. k \in b .. j - 1
      BY <1>5, <2>3
    <3> QED BY <1>9, <1>11, <2>1, <2>3, <3>1
  <2> QED BY <2>2, <2>3
<1>16. CASE x >= r
  <2>1. pc' = "digits"
    BY <1>1, <1>5, <1>6, <1>16 DEF More
  <2>2. \A k \in 1 .. Len(M1) : N[k] = M1[k]
    <3>1. \A k \in 1 .. Len(M1) : k \in 1 .. Len(M)
      BY <1>7, <1>16
    <3> QED BY <1>7, <1>9, <1>16, <3>1
  <2>3. ((j + 1) - b) + Len(M1) = Len(N)
    <3> DEFINE ll == Len(N)
               lm == Len(M)
               l1 == Len(M1)
    <3>1. ll \in Nat /\ lm \in Nat /\ l1 \in Nat /\ lm = l1 + 1 /\ (j - b) + lm = ll
          /\ b \in Nat /\ j \in Nat
      BY <1>5, <1>7, <1>8, <1>9, <1>16
    <3> HIDE DEF ll, lm, l1
    <3>2. ((j + 1) - b) + l1 = ll
      BY <3>1
    <3> QED BY <3>2 DEF l1, ll
  <2>4. b <= j + 1 /\ (j + 1) - 1 = j
    BY <1>5, <1>9
  <2>5. /\ M1 = Numeral(number'.x, number'.radix)
        /\ number'.s = b /\ b <= number'.i
        /\ (number'.i - b) + Len(M1) = Len(N)
        /\ \A k \in 1 .. Len(M1) : N[k] = M1[k]
        /\ \A k \in b .. number'.i - 1 : buf'[k] = N[Len(N) - (k - b)]
    BY <1>12, <1>15, <2>2, <2>3, <2>4 DEF M1
  <2>6. Collects(piece)'
    BY <2>5, Zenon DEF Collects, N, b
  <2>7. Within(message, n)'
    BY <1>1, <1>3, <1>14, <2>1, <2>6 DEF Within
  <2>8. PrintInv'
    BY <1>1, <1>2, <1>3, <2>1, <2>7 DEF PrintInv
  <2> QED BY <1>1, <1>2, <1>12, <1>13, <2>8, OthersKeep DEF IInv
<1>17. CASE x < r
  <2>1. pc' = "reverse"
    BY <1>1, <1>5, <1>6, <1>17 DEF More
  <2>2. j + 1 = b + Len(N)
    <3> DEFINE ll == Len(N)
    <3>1. ll \in Nat /\ (j - b) + 1 = ll /\ b \in Nat /\ j \in Nat
      <4>1. Len(M) = 1
        BY <1>7, <1>17
      <4> QED BY <1>5, <1>8, <1>9, <4>1
    <3> HIDE DEF ll
    <3>2. j + 1 = b + ll
      BY <3>1
    <3> QED BY <3>2 DEF ll
  <2>3. \A k \in b .. (j + 1) - 1 :
          buf'[k] = IF k < b \/ k > j THEN N[(k - b) + 1] ELSE N[(j + 1) - k]
    <3> SUFFICES ASSUME NEW k \in b .. (j + 1) - 1
                 PROVE  buf'[k] = IF k < b \/ k > j THEN N[(k - b) + 1] ELSE N[(j + 1) - k]
      OBVIOUS
    <3>1. k \in b .. j /\ ~ (k < b \/ k > j)
      BY <1>5
    <3>2. (j + 1) - k = Len(N) - (k - b)
      <4> DEFINE ll == Len(N)
      <4>1. ll \in Nat /\ j + 1 = b + ll /\ b \in Nat /\ j \in Nat /\ k \in Int
        BY <1>5, <1>8, <2>2, <3>1
      <4> HIDE DEF ll
      <4>2. (j + 1) - k = ll - (k - b)
        BY <4>1
      <4> QED BY <4>2 DEF ll
    <3> QED BY <1>15, <3>1, <3>2
  <2>4. b <= b /\ b <= j + 1 /\ b - b = ((j + 1) - 1) - j
    BY <1>5, <1>9
  <2>5. /\ number'.i = b + Len(N)
        /\ b <= number'.s /\ number'.s <= number'.e + 1
        /\ number'.s - b = (number'.i - 1) - number'.e
        /\ \A k \in b .. number'.i - 1 :
             buf'[k] = IF k < number'.s \/ k > number'.e THEN N[(k - b) + 1]
                       ELSE N[number'.i - k]
    BY <1>12, <2>2, <2>3, <2>4
  <2>6. Reverses(piece)'
    BY <2>5, Zenon DEF Reverses, N, b
  <2>7. Within(message, n)'
    BY <1>1, <1>3, <1>14, <2>1, <2>6 DEF Within
  <2>8. PrintInv'
    BY <1>1, <1>2, <1>3, <2>1, <2>7 DEF PrintInv
  <2> QED BY <1>1, <1>2, <1>12, <1>13, <2>8, OthersKeep DEF IInv
<1> QED BY <1>5, <1>16, <1>17

LEMMA SwapStep ==
  ASSUME IInv, SwapDigits PROVE IInv'
<1>1. /\ pc = "reverse" /\ UNCHANGED <<call, pc, i, taken, mem, out, ret>>
      /\ number.s < number.e
      /\ buf' = [buf EXCEPT ![number.s] = buf[number.e], ![number.e] = buf[number.s]]
      /\ number' = [number EXCEPT !.s = number.s + 1, !.e = number.e - 1]
  BY DEF SwapDigits, Swaps
<1>2. PICK message \in Messages : call.fn = "printf" /\ call.message = message
  BY <1>1, Printing
<1>3. PICK n \in 1 .. Len(message) : Within(message, n)
  BY <1>1, <1>2 DEF IInv, PrintInv
<1> DEFINE piece == message[n]
           N == NumeralOf(piece)
           b == Begin(piece)
           j == number.i
           s == number.s
           e == number.e
<1>4. /\ piece.letter \in {D, I, X} /\ Reverses(piece)
      /\ (piece.letter = X => b = 2 /\ buf[0] = Zero /\ buf[1] = X)
      /\ number.radix = Radix(piece) /\ b \in {0, 2}
  BY <1>1, <1>3, RadixIs DEF Within, Builds
<1>5. /\ b <= s /\ s <= e + 1 /\ s - b = (j - 1) - e /\ j = b + Len(N)
      /\ \A k \in b .. j - 1 :
           buf[k] = IF k < s \/ k > e THEN N[(k - b) + 1] ELSE N[j - k]
  BY <1>4, Zenon DEF Reverses
<1>6. j \in 0 .. BUF - 1 /\ s \in 0 .. BUF - 1 /\ e \in 0 .. BUF - 1 /\ BUF \in Nat
  BY WidthAssumption DEF IInv, Numbers
<1> HIDE DEF N, b
<1>7. s \in b .. e - 1 /\ e \in s + 1 .. j - 1 /\ s + 1 \in 0 .. BUF - 1 /\ e - 1 \in 0 .. BUF - 1
  <2>1. /\ b \in Nat /\ j \in 0 .. BUF - 1 /\ s \in 0 .. BUF - 1 /\ e \in 0 .. BUF - 1
        /\ BUF \in Nat /\ b <= s /\ s < e /\ s - b = (j - 1) - e
    BY <1>1, <1>4, <1>5, <1>6
  <2> HIDE DEF j, s, e
  <2> QED BY <2>1
<1>8. DOMAIN buf = 0 .. BUF - 1
  BY DEF IInv, TypeOK
<1>9. /\ DOMAIN buf' = 0 .. BUF - 1
      /\ \A k \in 0 .. BUF - 1 :
           buf'[k] = IF k = e THEN buf[s] ELSE IF k = s THEN buf[e] ELSE buf[k]
  BY <1>1, <1>6, <1>7, <1>8
<1>10. /\ number' \in Numbers /\ number'.radix = number.radix /\ number'.i = j
       /\ number'.s = s + 1 /\ number'.e = e - 1
  <2>1. number \in Numbers
    BY DEF IInv
  <2> QED BY <1>1, <1>6, <1>7, <2>1 DEF Numbers
<1>11. TypeOK'
  <2>1. number'.i \in 0 .. BUF - 1 /\ number'.s \in 0 .. BUF - 1 /\ number'.e \in 0 .. BUF - 1
    BY <1>10 DEF Numbers
  <2> QED BY <1>1, <1>9, <2>1 DEF IInv, TypeOK
<1>12. Builds(piece)'
  <2>1. piece.letter = X => buf'[0] = buf[0] /\ buf'[1] = buf[1]
    BY <1>4, <1>6, <1>7, <1>9
  <2> QED BY <1>4, <1>10, <2>1 DEF Builds, X
<1>13. ASSUME NEW k \in b .. j - 1
       PROVE  buf'[k] = IF k < s + 1 \/ k > e - 1 THEN N[(k - b) + 1] ELSE N[j - k]
  <2>1. k \in 0 .. BUF - 1 /\ k \in Int /\ s \in Int /\ e \in Int /\ b \in Int /\ j \in Int
    BY <1>4, <1>6
  <2>2. buf[k] = IF k < s \/ k > e THEN N[(k - b) + 1] ELSE N[j - k]
    BY <1>5
  <2>3. CASE k = s
    <3>1. e \in b .. j - 1 /\ ~ (e < s \/ e > e) /\ j - e = (s - b) + 1
      <4>1. /\ b \in Nat /\ j \in Nat /\ s \in Nat /\ e \in Nat /\ s < e
            /\ b <= s /\ s - b = (j - 1) - e
        BY <1>1, <1>4, <1>5, <1>6
      <4> HIDE DEF j, s, e
      <4> QED BY <4>1
    <3>2. buf[e] = N[j - e]
      BY <1>5, <3>1
    <3>3. buf'[k] = buf[e] /\ k < s + 1
      BY <1>7, <1>9, <2>1, <2>3
    <3> QED BY <2>3, <3>1, <3>2, <3>3
  <2>4. CASE k = e
    <3>1. s \in b .. j - 1 /\ ~ (s < s \/ s > e) /\ j - s = (e - b) + 1
      <4>1. /\ b \in Nat /\ j \in Nat /\ s \in Nat /\ e \in Nat /\ s < e
            /\ b <= s /\ s - b = (j - 1) - e
        BY <1>1, <1>4, <1>5, <1>6
      <4> HIDE DEF j, s, e
      <4> QED BY <4>1
    <3>2. buf[s] = N[j - s]
      BY <1>5, <3>1
    <3>3. buf'[k] = buf[s] /\ k > e - 1
      BY <1>9, <2>1, <2>4
    <3> QED BY <2>4, <3>1, <3>2, <3>3
  <2>5. CASE k # s /\ k # e
    <3>1. buf'[k] = buf[k]
      BY <1>9, <2>1, <2>5
    <3>2. k < s + 1 \/ k > e - 1 <=> k < s \/ k > e
      BY <2>1, <2>5
    <3> QED BY <2>2, <3>1, <3>2
  <2> QED BY <2>3, <2>4, <2>5
<1>14. Reverses(piece)'
  <2>1. /\ number'.i = b + Len(N)
        /\ b <= number'.s /\ number'.s <= number'.e + 1
        /\ number'.s - b = (number'.i - 1) - number'.e
        /\ \A k \in b .. number'.i - 1 :
             buf'[k] = IF k < number'.s \/ k > number'.e THEN N[(k - b) + 1]
                       ELSE N[number'.i - k]
    <3>1. /\ b <= s + 1 /\ s + 1 <= (e - 1) + 1 /\ (s + 1) - b = (j - 1) - (e - 1)
      <4>1. /\ b \in Nat /\ j \in Nat /\ s \in Nat /\ e \in Nat /\ s < e
            /\ b <= s /\ s - b = (j - 1) - e
        BY <1>1, <1>4, <1>5, <1>6
      <4> HIDE DEF j, s, e
      <4> QED BY <4>1
    <3> QED BY <1>5, <1>10, <1>13, <3>1, Zenon
  <2> QED BY <2>1, Zenon DEF Reverses, N, b
<1>15. Within(message, n)'
  BY <1>1, <1>3, <1>12, <1>14 DEF Within
<1>16. PrintInv'
  BY <1>1, <1>2, <1>3, <1>15 DEF PrintInv
<1> QED BY <1>1, <1>2, <1>10, <1>11, <1>16, OthersKeep DEF IInv

LEMMA EndNumberStep ==
  ASSUME IInv, EndNumber PROVE IInv'
<1>1. /\ pc = "reverse" /\ UNCHANGED <<call, taken, number, mem, ret>>
      /\ ~ (number.s < number.e)
      /\ buf' = [buf EXCEPT ![number.i] = NUL]
      /\ out' = out \o [k \in 1 .. number.i |-> buf[k - 1]]
      /\ i' = i + 1 /\ pc' = "printf"
  BY DEF EndNumber, Swaps
<1>2. PICK message \in Messages : call.fn = "printf" /\ call.message = message
  BY <1>1, Printing
<1>3. PICK n \in 1 .. Len(message) : Within(message, n)
  BY <1>1, <1>2 DEF IInv, PrintInv
<1> DEFINE piece == message[n]
           N == NumeralOf(piece)
           b == Begin(piece)
           j == number.i
           s == number.s
           e == number.e
           text == [k \in 1 .. j |-> buf[k - 1]]
<1>4. /\ WellFormed(piece) /\ piece.letter \in {D, I, X} /\ Reverses(piece)
      /\ (piece.letter = X => b = 2 /\ buf[0] = Zero /\ buf[1] = X)
      /\ (piece.letter # X => b = 0)
  BY <1>1, <1>3, RadixIs, MessageIs DEF Within, Builds
<1>5. /\ b <= s /\ s <= e + 1 /\ s - b = (j - 1) - e /\ j = b + Len(N)
      /\ \A k \in b .. j - 1 :
           buf[k] = IF k < s \/ k > e THEN N[(k - b) + 1] ELSE N[j - k]
  BY <1>4, Zenon DEF Reverses
<1>6. j \in 0 .. BUF - 1 /\ s \in Nat /\ e \in Nat /\ b \in {0, 2} /\ BUF \in Nat
  BY WidthAssumption, RadixIs DEF IInv, Numbers
<1>7. N \in Seq(Int) /\ Len(N) \in Nat
  BY <1>4, RoomInBuf
<1> HIDE DEF N, b
<1>8. ASSUME NEW k \in b .. j - 1 PROVE buf[k] = N[(k - b) + 1]
  <2>1. k \in Int /\ s \in Int /\ e \in Int /\ b \in Int /\ j \in Int
    BY <1>6
  <2>2. buf[k] = IF k < s \/ k > e THEN N[(k - b) + 1] ELSE N[j - k]
    BY <1>5
  <2>3. ~ (k < s \/ k > e) => j - k = (k - b) + 1
    <3>1. ~ (s < e) /\ s <= e + 1 /\ s - b = (j - 1) - e
      BY <1>1, <1>5
    <3> HIDE DEF j, s, e
    <3> QED BY <2>1, <3>1
  <2> QED BY <2>2, <2>3
<1>9. text = Shown(piece)
  <2>1. CASE piece.letter = X
    <3> DEFINE pre == <<Zero, X>>
               Y == Int
    <3>1. Shown(piece) = pre \o N
      <4>1. N = Numeral(piece.value, 16)
        BY <2>1 DEF N, NumeralOf, Radix
      <4>2. Shown(piece) = <<Zero, X>> \o Numeral(piece.value, 16)
        BY <2>1 DEF Shown, X, D, I, S, C, NUL
      <4> QED BY <4>1, <4>2
    <3>2. pre \in Seq(Y) /\ Len(pre) = 2 /\ pre[1] = Zero /\ pre[2] = X /\ N \in Seq(Y)
      BY <1>7 DEF Zero, X
    <3> HIDE DEF pre, Y
    <3>3. /\ pre \o N \in Seq(Y) /\ Len(pre \o N) = Len(pre) + Len(N)
          /\ \A k \in 1 .. Len(pre) : (pre \o N)[k] = pre[k]
          /\ \A k \in 1 .. Len(N) : (pre \o N)[Len(pre) + k] = N[k]
      BY <3>2, Concat
    <3>4. b = 2 /\ j = 2 + Len(N) /\ buf[0] = Zero /\ buf[1] = X
      BY <1>4, <1>5, <2>1
    <3>5. ASSUME NEW k \in 1 .. j PROVE text[k] = (pre \o N)[k]
      <4>1. text[k] = buf[k - 1]
        OBVIOUS
      <4>2. CASE k = 1
        <5>1. 1 \in 1 .. Len(pre) /\ k - 1 = 0
          BY <3>2, <4>2
        <5> QED BY <3>2, <3>3, <3>4, <4>1, <4>2, <5>1
      <4>3. CASE k = 2
        <5>1. 2 \in 1 .. Len(pre) /\ k - 1 = 1
          BY <3>2, <4>3
        <5> QED BY <3>2, <3>3, <3>4, <4>1, <4>3, <5>1
      <4>4. CASE k > 2
        <5> DEFINE q == k - 2
        <5>1. k - 1 \in b .. j - 1 /\ ((k - 1) - b) + 1 = q /\ 2 + q = k
          BY <1>6, <3>4, <4>4
        <5>2. q \in 1 .. Len(N)
          <6> DEFINE ll == Len(N)
          <6>1. ll \in Nat /\ j = 2 + ll /\ k \in 1 .. j /\ k > 2
            BY <1>7, <3>4, <4>4
          <6> HIDE DEF ll
          <6>2. k - 2 \in 1 .. ll
            BY <6>1
          <6> QED BY <6>2 DEF ll
        <5>3. buf[k - 1] = N[q]
          BY <1>8, <5>1
        <5>4. (pre \o N)[Len(pre) + q] = N[q]
          BY <3>3, <5>2
        <5>5. Len(pre) + q = k
          BY <3>2, <5>1
        <5> QED BY <4>1, <5>3, <5>4, <5>5
      <4>5. k \in Nat /\ (k = 1 \/ k = 2 \/ k > 2)
        OBVIOUS
      <4> QED BY <4>2, <4>3, <4>4, <4>5
    <3>6. Len(pre \o N) = j /\ pre \o N = [k \in 1 .. j |-> (pre \o N)[k]]
      <4>1. pre \o N = [k \in 1 .. Len(pre \o N) |-> (pre \o N)[k]]
        BY <3>3, SeqIsFunction
      <4>2. Len(pre \o N) = j
        BY <3>2, <3>3, <3>4
      <4> QED BY <4>1, <4>2
    <3> HIDE DEF j
    <3> QED BY <3>1, <3>5, <3>6
  <2>2. CASE piece.letter # X
    <3>1. Shown(piece) = N
      <4>1. N = Numeral(piece.value, 10)
        BY <2>2 DEF N, NumeralOf, Radix
      <4>2. Shown(piece) = Numeral(piece.value, 10)
        BY <1>4, <2>2 DEF Shown, X, D, I, S, C, NUL
      <4> QED BY <4>1, <4>2
    <3>2. b = 0 /\ j = Len(N)
      BY <1>4, <1>5, <1>7, <2>2
    <3>3. ASSUME NEW k \in 1 .. j PROVE text[k] = N[k]
      <4>1. k - 1 \in b .. j - 1 /\ ((k - 1) - b) + 1 = k
        BY <1>6, <3>2
      <4>2. buf[k - 1] = N[k]
        BY <1>8, <4>1
      <4> QED BY <4>2
    <3>4. N = [k \in 1 .. j |-> N[k]]
      BY <1>7, <3>2
    <3> HIDE DEF j
    <3> QED BY <3>1, <3>3, <3>4
  <2> QED BY <2>1, <2>2
<1>10. /\ i + 1 = FormatEnd(message, n) /\ taken = ArgsEnd(message, n)
       /\ out = Screen(message, n - 1)
  BY <1>3 DEF Within
<1>11. out' = Screen(message, n)
  <2>1. out' = out \o text
    BY <1>1
  <2> HIDE DEF text
  <2> QED BY <1>9, <1>10, <2>1, ScreenGrows
<1>12. Between(message, n)' /\ n \in 0 .. Len(message)
  <2>1. i' = FormatEnd(message, n) /\ taken' = ArgsEnd(message, n)
    BY <1>1, <1>10
  <2>2. n \in 0 .. Len(message)
    OBVIOUS
  <2> QED BY <1>11, <2>1, <2>2, Zenon DEF Between
<1>13. PrintInv'
  BY <1>1, <1>2, <1>12 DEF PrintInv
<1>14. TypeOK'
  <2>1. i \in Nat /\ DOMAIN buf = 0 .. BUF - 1
    BY DEF IInv, TypeOK
  <2>2. DOMAIN buf' = 0 .. BUF - 1 /\ i' \in Nat
    BY <1>1, <2>1
  <2> QED BY <1>1, <2>2 DEF IInv, TypeOK
<1> QED BY <1>1, <1>2, <1>13, <1>14, OthersKeep DEF IInv

-----------------------------------------------------------------------------
(* The characters of the format.                                           *)

LEMMA StartNumberIs ==
  ASSUME IInv, NEW piece, WellFormed(piece), piece.letter \in {D, I, X},
         StartNumber(piece.value, Radix(piece))
  PROVE  /\ pc' = "digits" /\ DOMAIN buf' = 0 .. BUF - 1 /\ number' \in Numbers
         /\ Builds(piece)' /\ Collects(piece)'
<1> DEFINE v == piece.value
           r == Radix(piece)
           b == Begin(piece)
           N == NumeralOf(piece)
<1>1. v \in Nat /\ r \in {10, 16} /\ b \in {0, 2} /\ BUF \in Nat /\ BUF > 3
      /\ (r = 16 <=> piece.letter = X) /\ (b = 2 <=> piece.letter = X)
  BY WordPiece, RadixIs, WidthAssumption
<1>2. Prefix(v, r) = IF r = 16 THEN <<Zero, X>> ELSE <<>>
  BY <1>1 DEF Prefix
<1>3. Len(Prefix(v, r)) = b
  BY <1>1, <1>2
<1>4. /\ buf' = [k \in DOMAIN buf |-> IF k < b THEN Prefix(v, r)[k + 1] ELSE buf[k]]
      /\ number' = [x |-> v, radix |-> r, i |-> b, s |-> b, e |-> b]
      /\ pc' = "digits"
  BY <1>3 DEF StartNumber
<1>5. DOMAIN buf = 0 .. BUF - 1
  BY DEF IInv, TypeOK
<1>6. b \in 0 .. BUF - 1
  BY <1>1
<1>7. DOMAIN buf' = 0 .. BUF - 1 /\ number' \in Numbers
  <2> HIDE DEF v, r, b
  <2> QED BY <1>1, <1>4, <1>5, <1>6 DEF Numbers
<1>8. Builds(piece)'
  <2>1. ASSUME piece.letter = X PROVE buf'[0] = Zero /\ buf'[1] = X
    <3>1. 0 \in DOMAIN buf /\ 1 \in DOMAIN buf /\ 0 < b /\ 1 < b
      BY <1>1, <1>5, <2>1
    <3>2. Prefix(v, r)[0 + 1] = Zero /\ Prefix(v, r)[1 + 1] = X
      BY <1>1, <1>2, <2>1
    <3> HIDE DEF v, r, b
    <3> QED BY <1>4, <3>1, <3>2
  <2>2. number'.radix = r
    BY <1>4
  <2> QED BY <2>1, <2>2 DEF Builds
<1>9. Len(N) \in Nat
  BY RoomInBuf
<1>10. Collects(piece)'
  <2>1. N = Numeral(number'.x, number'.radix) /\ number'.s = b /\ number'.i = b
    BY <1>4 DEF NumeralOf
  <2>2. /\ b <= b /\ (b - b) + Len(N) = Len(N)
        /\ \A k \in b .. b - 1 : buf'[k] = N[Len(N) - (k - b)]
    <3> DEFINE ll == Len(N)
    <3>1. ll \in Nat /\ b \in Nat
      BY <1>1, <1>9
    <3> HIDE DEF ll, b
    <3>2. b <= b /\ (b - b) + ll = ll /\ b .. b - 1 = {}
      BY <3>1
    <3> QED BY <3>2 DEF ll
  <2> HIDE DEF N, b
  <2>3. /\ number'.s = b /\ b <= number'.i
        /\ (number'.i - b) + Len(Numeral(number'.x, number'.radix)) = Len(N)
        /\ \A k \in 1 .. Len(Numeral(number'.x, number'.radix)) :
             N[k] = Numeral(number'.x, number'.radix)[k]
        /\ \A k \in b .. number'.i - 1 : buf'[k] = N[Len(N) - (k - b)]
    BY <2>1, <2>2
  <2> QED BY <2>3, Zenon DEF Collects, N, b
<1> QED BY <1>4, <1>7, <1>8, <1>10

(* Where printf stands when it looks at the format.                        *)
LEMMA NextPiece ==
  ASSUME IInv, pc = "printf", i < Len(call.format)
  PROVE  \E message \in Messages :
           /\ call.fn = "printf" /\ call.message = message
           /\ call.format = Joined(Format(message)) /\ call.args = Joined(Arguments(message))
           /\ \E n \in 1 .. Len(message) : WellFormed(message[n]) /\ Between(message, n - 1)
<1>1. PICK message \in Messages :
        /\ call.fn = "printf" /\ call.message = message
        /\ call.format = Joined(Format(message)) /\ call.args = Joined(Arguments(message))
  BY Printing
<1>2. PICK m \in 0 .. Len(message) : Between(message, m)
  BY <1>1 DEF IInv, PrintInv
<1>3. Len(message) \in Nat /\ \A k \in 1 .. Len(message) : WellFormed(message[k])
  BY MessageIs
<1>4. m # Len(message)
  <2>1. SUFFICES ASSUME m = Len(message) PROVE FALSE
    OBVIOUS
  <2>2. i = Len(call.format)
    BY <1>1, <1>2, <2>1, AllPrinted DEF Between
  <2>3. i \in Nat
    BY DEF IInv, TypeOK
  <2> QED BY <2>2, <2>3
<1>5. m + 1 \in 1 .. Len(message) /\ (m + 1) - 1 = m
  BY <1>3, <1>4
<1>6. WellFormed(message[m + 1]) /\ Between(message, (m + 1) - 1)
  BY <1>2, <1>3, <1>5
<1> QED BY <1>1, <1>5, <1>6

LEMMA LiteralStep ==
  ASSUME IInv, Literal PROVE IInv'
<1>1. /\ pc = "printf" /\ i < Len(call.format) /\ At(call.format, i) # PERCENT
      /\ out' = Append(out, At(call.format, i)) /\ i' = i + 1
      /\ UNCHANGED <<call, pc, taken, number, buf, mem, ret>>
  BY DEF Literal
<1>2. PICK message \in Messages :
        /\ call.fn = "printf" /\ call.message = message
        /\ call.format = Joined(Format(message)) /\ call.args = Joined(Arguments(message))
        /\ \E n \in 1 .. Len(message) : WellFormed(message[n]) /\ Between(message, n - 1)
  BY <1>1, NextPiece
<1>3. PICK n \in 1 .. Len(message) : WellFormed(message[n]) /\ Between(message, n - 1)
  BY <1>2
<1>4. /\ i = FormatEnd(message, n - 1) /\ taken = ArgsEnd(message, n - 1)
      /\ out = Screen(message, n - 1)
  BY <1>3 DEF Between
<1> DEFINE piece == message[n]
<1>5. piece.letter = NUL
  BY <1>1, <1>2, <1>4, LetterFound
<1>6. /\ At(call.format, i) = piece.value /\ i \in Nat /\ i + 1 = FormatEnd(message, n)
  BY <1>2, <1>4, <1>5, PlainFound
<1>7. taken = ArgsEnd(message, n)
  <2>1. ~ Takes(piece)
    BY <1>5 DEF Takes, NUL, C, D, I, S, X
  <2> QED BY <1>2, <1>4, <2>1, ArgumentFound
<1>8. out' = Screen(message, n)
  <2>1. Shown(piece) = <<piece.value>>
    BY <1>5 DEF Shown, X, D, I, S, C, NUL
  <2>2. piece.value \in Int
    BY <1>3, <1>5, SpelledIs
  <2>3. /\ Screen(message, n) = Screen(message, n - 1) \o Shown(piece)
        /\ Screen(message, n - 1) \in Seq(Int)
    BY ScreenGrows
  <2>4. Append(out, piece.value) = out \o <<piece.value>>
    BY <1>4, <2>2, <2>3, AppendIsConcat
  <2> QED BY <1>1, <1>4, <1>6, <2>1, <2>3, <2>4
<1>9. Between(message, n)'
  BY <1>1, <1>6, <1>7, <1>8 DEF Between
<1>10. PrintInv'
  <2>1. n \in 0 .. Len(message)
    OBVIOUS
  <2> QED BY <1>1, <1>2, <1>9, <2>1 DEF PrintInv
<1>11. TypeOK'
  BY <1>1, <1>6 DEF IInv, TypeOK
<1> QED BY <1>1, <1>2, <1>10, <1>11, OthersKeep DEF IInv

LEMMA ConversionStep ==
  ASSUME IInv, Conversion PROVE IInv'
<1>1. /\ pc = "printf" /\ i < Len(call.format) /\ At(call.format, i) = PERCENT
      /\ Convert(At(call.format, LetterAt), At(call.args, taken))
      /\ UNCHANGED <<call, mem, ret>>
  BY DEF Conversion
<1>2. PICK message \in Messages :
        /\ call.fn = "printf" /\ call.message = message
        /\ call.format = Joined(Format(message)) /\ call.args = Joined(Arguments(message))
        /\ \E n \in 1 .. Len(message) : WellFormed(message[n]) /\ Between(message, n - 1)
  BY <1>1, NextPiece
<1>3. PICK n \in 1 .. Len(message) : WellFormed(message[n]) /\ Between(message, n - 1)
  BY <1>2
<1>4. /\ i = FormatEnd(message, n - 1) /\ taken = ArgsEnd(message, n - 1)
      /\ out = Screen(message, n - 1)
  BY <1>3 DEF Between
<1> DEFINE piece == message[n]
           value == At(call.args, taken)
<1>5. piece.letter # NUL
  BY <1>1, <1>2, <1>4, PlainFound
<1>6. /\ At(call.format, LetterAt) = piece.letter
      /\ LetterAt \in Nat /\ LetterAt + 1 = FormatEnd(message, n)
  BY <1>2, <1>4, <1>5, LetterFound
<1>7. /\ taken \in Nat
      /\ Takes(piece) => value = piece.value /\ taken + 1 = ArgsEnd(message, n)
      /\ ~ Takes(piece) => taken = ArgsEnd(message, n)
  BY <1>2, <1>4, ArgumentFound
<1>8. Convert(piece.letter, value)
  BY <1>1, <1>6
<1>9. n \in 0 .. Len(message)
  OBVIOUS
<1>10. CASE piece.letter \in {D, I, X}
  <2>1. Takes(piece) /\ piece.letter \notin {C, S}
    BY <1>10 DEF Takes, C, D, I, S, X
  <2>2. /\ StartNumber(piece.value, Radix(piece))
        /\ i' = LetterAt /\ taken' = taken + 1 /\ out' = out
    <3>1. CASE piece.letter = I
      <4>1. Signed(piece.value) = piece.value /\ Radix(piece) = 10
        BY <1>3, <3>1, WordPiece DEF Radix, I, X
      <4> QED BY <1>7, <1>8, <2>1, <3>1, <4>1 DEF Convert, I, D, X
    <3>2. CASE piece.letter \in {D, X}
      <4>1. Radix(piece) = IF piece.letter = X THEN 16 ELSE 10
        BY DEF Radix
      <4>2. piece.letter # I
        BY <3>2 DEF I, D, X
      <4> QED BY <1>7, <1>8, <2>1, <3>2, <4>1, <4>2 DEF Convert
    <3> QED BY <1>10, <3>1, <3>2
  <2>3. /\ pc' = "digits" /\ DOMAIN buf' = 0 .. BUF - 1 /\ number' \in Numbers
        /\ Builds(piece)' /\ Collects(piece)'
    BY <1>3, <1>10, <2>2, StartNumberIs
  <2>4. Within(message, n)'
    BY <1>4, <1>6, <1>7, <2>1, <2>2, <2>3 DEF Within
  <2>5. PrintInv'
    BY <1>1, <1>2, <1>3, <2>3, <2>4 DEF PrintInv
  <2>6. TypeOK'
    <3>1. number'.i \in 0 .. BUF - 1 /\ number'.s \in 0 .. BUF - 1 /\ number'.e \in 0 .. BUF - 1
      BY <2>3 DEF Numbers
    <3> QED BY <1>1, <1>6, <1>7, <2>2, <2>3, <3>1 DEF IInv, TypeOK
  <2> QED BY <1>1, <1>2, <2>3, <2>5, <2>6, OthersKeep DEF IInv
<1>11. CASE piece.letter \notin {D, I, X}
  <2>1. /\ i' = LetterAt + 1 /\ UNCHANGED <<pc, buf, number>>
        /\ taken' = IF Takes(piece) THEN taken + 1 ELSE taken
        /\ out' = out \o Shown(piece)
    <3>1. /\ Screen(message, n - 1) \in Seq(Int) /\ Shown(piece) \in Seq(Int)
      BY ScreenGrows
    <3>2. CASE piece.letter = C
      <4>1. Takes(piece) /\ Shown(piece) = <<piece.value % 256>>
        BY <3>2 DEF Takes, Shown, X, D, I, S, C, NUL
      <4> QED BY <1>7, <1>8, <1>11, <3>2, <4>1 DEF Convert, C, S
    <3>3. CASE piece.letter = S
      <4>1. Takes(piece) /\ Shown(piece) = piece.value
        BY <3>3 DEF Takes, Shown, X, D, I, S, C, NUL
      <4> QED BY <1>7, <1>8, <1>11, <3>3, <4>1 DEF Convert, C, S
    <3>4. CASE piece.letter \notin {C, S}
      <4>1. ~ Takes(piece)
        BY <1>11, <3>4 DEF Takes
      <4>2. Shown(piece) = <<piece.letter>>
        BY <1>5, <1>11, <3>4 DEF Shown
      <4>3. piece.letter \in Int
        BY <1>3, <1>5, SpelledIs
      <4>4. Append(out, piece.letter) = out \o <<piece.letter>>
        BY <1>4, <3>1, <4>3, AppendIsConcat
      <4> QED BY <1>8, <1>11, <3>4, <4>1, <4>2, <4>4 DEF Convert
    <3> QED BY <3>2, <3>3, <3>4
  <2>2. out' = Screen(message, n)
    BY <1>4, <2>1, ScreenGrows
  <2>3. Between(message, n)'
    BY <1>6, <1>7, <2>1, <2>2 DEF Between
  <2>4. PrintInv'
    BY <1>1, <1>2, <1>9, <2>1, <2>3 DEF PrintInv
  <2>5. TypeOK'
    BY <1>1, <1>6, <1>7, <2>1 DEF IInv, TypeOK
  <2> QED BY <1>1, <1>2, <2>1, <2>4, <2>5, OthersKeep DEF IInv
<1> QED BY <1>10, <1>11

LEMMA EndPrintfStep ==
  ASSUME IInv, EndPrintf PROVE IInv'
<1>1. /\ pc = "printf" /\ i >= Len(call.format) /\ pc' = "done"
      /\ UNCHANGED <<call, i, taken, number, buf, mem, out, ret>>
  BY DEF EndPrintf
<1>2. PICK message \in Messages :
        call.fn = "printf" /\ call.message = message /\ call.format = Joined(Format(message))
  BY <1>1, Printing
<1>3. PICK n \in 0 .. Len(message) : Between(message, n)
  BY <1>1, <1>2 DEF IInv, PrintInv
<1>4. Len(message) \in Nat
  BY MessageIs
<1>5. n = Len(message)
  <2> SUFFICES ASSUME n # Len(message) PROVE FALSE
    OBVIOUS
  <2> DEFINE m == n + 1
  <2>1. m \in 1 .. Len(message) /\ m - 1 = n
    BY <1>4
  <2> HIDE DEF m
  <2>2. WellFormed(message[m]) /\ i = FormatEnd(message, m - 1)
    BY <1>3, <2>1, MessageIs DEF Between
  <2>3. i < Len(call.format)
    <3>1. CASE message[m].letter = NUL
      BY <1>2, <2>1, <2>2, <3>1, PlainFound
    <3>2. CASE message[m].letter # NUL
      BY <1>2, <2>1, <2>2, <3>2, LetterFound
    <3> QED BY <3>1, <3>2
  <2>4. i \in Nat /\ Len(call.format) \in Nat
    BY <1>2, <2>1, AtPiece DEF IInv, TypeOK
  <2> QED BY <1>1, <2>3, <2>4
<1>6. PrintInv'
  BY <1>1, <1>2, <1>3, <1>5 DEF PrintInv, Between
<1>7. TypeOK'
  BY <1>1 DEF IInv, TypeOK
<1> QED BY <1>1, <1>2, <1>6, <1>7, OthersKeep DEF IInv

-----------------------------------------------------------------------------
(* The theorems.                                                           *)

LEMMA InitHolds ==
  ASSUME Init PROVE IInv
<1>1. /\ call \in Calls /\ pc = call.fn /\ i = 0 /\ taken = 0 /\ out = <<>> /\ ret = 0
      /\ number = [x |-> 0, radix |-> 10, i |-> 0, s |-> 0, e |-> 0] /\ mem = Memory
  BY DEF Init
<1>2. DOMAIN buf = 0 .. BUF - 1
  <2>1. PICK garbage : buf = [k \in 0 .. BUF - 1 |-> garbage]
    BY DEF Init
  <2> QED BY <2>1
<1>3. number \in Numbers
  <2>1. 0 \in 0 .. BUF - 1
    BY WidthAssumption
  <2> QED BY <1>1, <2>1 DEF Numbers
<1>4. call.fn \in {"printf", "strcmp", "memmove", "memset"}
  BY <1>1, CallIs
<1>5. TypeOK
  <2>1. number.i \in 0 .. BUF - 1 /\ number.s \in 0 .. BUF - 1 /\ number.e \in 0 .. BUF - 1
    BY <1>3 DEF Numbers
  <2> QED BY <1>1, <1>2, <1>4, <2>1 DEF TypeOK
<1>6. PrintInv
  <2>1. ASSUME call.fn = "printf"
        PROVE  \E n \in 0 .. Len(call.message) : Between(call.message, n)
    <3>1. call.message \in Messages
      BY <1>1, <2>1, CallIs
    <3>2. 0 \in 0 .. Len(call.message)
      BY <3>1, MessageIs
    <3>3. Between(call.message, 0)
      BY <1>1, <3>1, NothingPrinted DEF Between
    <3> QED BY <3>2, <3>3
  <2> QED BY <1>1, <2>1 DEF PrintInv
<1>7. CompareInv
  <2>1. ASSUME call.fn = "strcmp" PROVE Len(call.s1) \in Nat /\ Len(call.s2) \in Nat
    <3>1. call.s1 \in Seq(Char) /\ call.s2 \in Seq(Char)
      BY <1>1, <2>1, CallIs, StringsAssumption
    <3> QED BY <3>1
  <2> QED BY <1>1, <2>1 DEF CompareInv
<1>8. CopyInv
  <2>1. ASSUME call.fn \in {"memmove", "memset"} PROVE call.dst \in Nat /\ call.len \in Nat
    BY <1>1, <2>1, CallIs
  <2>2. ASSUME call.fn \in {"memmove", "memset"}
        PROVE  call.dst .. call.dst + 0 - 1 = {}
    BY <2>1, <2>2
  <2> QED BY <1>1, <2>1, <2>2 DEF CopyInv
<1> QED BY <1>3, <1>5, <1>6, <1>7, <1>8 DEF IInv

LEMMA StepHolds ==
  ASSUME IInv, [Next]_vars PROVE IInv'
<1>1. CASE Next
  BY <1>1, PutDigitStep, SwapStep, EndNumberStep, LiteralStep, ConversionStep,
     EndPrintfStep, CompareStep, CopyStep DEF Next
<1>2. CASE UNCHANGED vars
  <2>1. /\ call' = call /\ pc' = pc /\ i' = i /\ taken' = taken /\ number' = number
        /\ buf' = buf /\ mem' = mem /\ out' = out /\ ret' = ret
    BY <1>2 DEF vars
  <2>2. TypeOK' /\ (number \in Numbers)'
    BY <2>1 DEF IInv, TypeOK
  <2>3. CompareInv' /\ CopyInv'
    BY <2>1 DEF IInv, CompareInv, CopyInv, Alike
  <2>4. PrintInv'
    BY <2>1 DEF IInv, PrintInv, Between, Within, Builds, Collects, Reverses
  <2> QED BY <2>2, <2>3, <2>4 DEF IInv
<1> QED BY <1>1, <1>2

THEOREM StringsInvariant == Spec => []IInv
<1>1. Init => IInv
  BY InitHolds
<1>2. IInv /\ [Next]_vars => IInv'
  BY StepHolds
<1> QED BY <1>1, <1>2, PTL DEF Spec

(* Whatever the number, its prefix, its digits and the 0 behind them stand *)
(* inside printf's buf (string.c:15-81, string.c:123).                     *)
THEOREM NumbersFit == Spec => []TypeOK
<1>1. IInv => TypeOK
  BY DEF IInv
<1> QED BY <1>1, StringsInvariant, PTL

LEMMA PrintfComputes ==
  ASSUME IInv, pc = "done", call.fn = "printf"
  PROVE  /\ out = Joined([k \in DOMAIN call.message |-> Shown(call.message[k])])
         /\ taken = Len(call.args)
<1>1. call.message \in Messages /\ call.args = Joined(Arguments(call.message))
  BY CallIs DEF IInv, TypeOK
<1>2. /\ out = Screen(call.message, Len(call.message))
      /\ taken = ArgsEnd(call.message, Len(call.message))
  BY DEF IInv, PrintInv
<1> QED BY <1>1, <1>2, AllPrinted, Zenon DEF Showing

LEMMA StrcmpComputes ==
  ASSUME IInv, pc = "done", call.fn = "strcmp"
  PROVE  /\ ret = 0 <=> call.s1 = call.s2
         /\ ret < 0 <=> Precedes(call.s1, call.s2)
<1> DEFINE s1 == call.s1
           s2 == call.s2
<1>1. s1 \in Seq(Char) /\ s2 \in Seq(Char)
  BY CallIs, StringsAssumption DEF IInv, TypeOK
<1>2. /\ i \in 0 .. Len(s1) /\ i \in 0 .. Len(s2) /\ Len(s1) \in Nat /\ Len(s2) \in Nat
      /\ \A k \in 0 .. i - 1 : At(s1, k) = At(s2, k)
      /\ ~ Alike(s1, s2) /\ ret = At(s1, i) - At(s2, i)
  BY <1>1 DEF IInv, TypeOK, CompareInv
<1>3. At(s1, i) \in 0 .. 255 /\ At(s2, i) \in 0 .. 255
  BY <1>1, <1>2, AtIs
<1> HIDE DEF s1, s2
<1>4. At(s1, i) = At(s2, i) => i = Len(s1) /\ i = Len(s2)
  <2>1. At(s1, i) = At(s2, i) => At(s1, i) = NUL /\ At(s2, i) = NUL
    BY <1>2 DEF Alike
  <2> QED BY <1>1, <1>2, <2>1, AtIs
<1>5. ASSUME At(s1, i) = At(s2, i) PROVE s1 = s2
  <2>1. ASSUME NEW k \in 1 .. Len(s1) PROVE s1[k] = s2[k]
    <3> DEFINE m == k - 1
    <3>1. m \in 0 .. i - 1 /\ m \in 0 .. Len(s1) /\ m \in 0 .. Len(s2)
          /\ m < Len(s1) /\ m < Len(s2) /\ m + 1 = k
      BY <1>2, <1>4, <1>5
    <3> HIDE DEF m
    <3>2. At(s1, m) = s1[k] /\ At(s2, m) = s2[k]
      BY <1>1, <3>1, AtIs
    <3> QED BY <1>2, <3>1, <3>2
  <2>2. Len(s1) = Len(s2)
    BY <1>4, <1>5
  <2> QED BY <1>1, <2>1, <2>2, SeqEqual
<1> DEFINE a == At(s1, i)
           b == At(s2, i)
<1>6. a \in 0 .. 255 /\ b \in 0 .. 255 /\ ret = a - b
  BY <1>2, <1>3
<1>7. (s1 = s2 => a = b) /\ (a = b => s1 = s2)
  BY <1>5
<1>8. ASSUME a < b PROVE Precedes(s1, s2)
  BY <1>2, <1>8 DEF Precedes
<1>9. ASSUME Precedes(s1, s2) PROVE a < b
  <2>1. PICK k \in 0 .. Len(s1) : /\ At(s1, k) < At(s2, k)
                                  /\ \A j \in 0 .. k - 1 : At(s1, j) = At(s2, j)
    BY <1>9 DEF Precedes
  <2>2. CASE k < i
    <3> DEFINE c == At(s1, k)
    <3>1. k \in 0 .. i - 1
      BY <1>2, <2>2
    <3>2. c \in 0 .. 255
      BY <1>1, <2>1, AtIs
    <3>3. c < c
      BY <1>2, <2>1, <3>1
    <3> HIDE DEF c
    <3> QED BY <3>2, <3>3
  <2>3. CASE k = i
    BY <2>1, <2>3
  <2>4. CASE k > i
    <3>1. i \in 0 .. k - 1
      BY <1>2, <2>4
    <3>2. At(s1, i) = At(s2, i)
      BY <2>1, <3>1
    <3> QED BY <1>2, <1>4, <2>4, <3>2
  <2> QED BY <1>2, <2>2, <2>3, <2>4
<1> HIDE DEF a, b
<1>10. (ret = 0 <=> a = b) /\ (ret < 0 <=> a < b)
  BY <1>6
<1> QED BY <1>7, <1>8, <1>9, <1>10 DEF s1, s2

LEMMA CopyComputes ==
  ASSUME IInv, pc = "done", call.fn \in {"memmove", "memset"}, NEW a \in DOMAIN mem
  PROVE  mem[a] = IF a - 1 \notin call.dst .. call.dst + call.len - 1 THEN Memory[a]
                  ELSE IF call.fn = "memset" THEN NUL
                  ELSE Memory[a - call.dst + call.src]
  BY DEF IInv, CopyInv

(* What a call returns is what its caller asked for: printf has written    *)
(* the message and taken the arguments that were given, strcmp has told    *)
(* the order of its strings, memmove and memset have written their         *)
(* destination and nothing else (string.c:7-13, 86-105, 122-171).          *)
THEOREM Correct == Spec => []Computes
<1>1. IInv => Computes
  <2> SUFFICES ASSUME IInv, pc = "done"
               PROVE  CASE call.fn = "printf" ->
                             /\ out = Joined([k \in DOMAIN call.message |-> Shown(call.message[k])])
                             /\ taken = Len(call.args)
                        [] call.fn = "strcmp" ->
                             /\ ret = 0 <=> call.s1 = call.s2
                             /\ ret < 0 <=> Precedes(call.s1, call.s2)
                        [] call.fn \in {"memmove", "memset"} ->
                             \A a \in DOMAIN mem :
                               mem[a] = IF a - 1 \notin call.dst .. call.dst + call.len - 1
                                        THEN Memory[a]
                                        ELSE IF call.fn = "memset" THEN NUL
                                        ELSE Memory[a - call.dst + call.src]
    BY Zenon DEF Computes
  <2>1. call.fn \in {"printf", "strcmp", "memmove", "memset"}
    BY CallIs DEF IInv, TypeOK
  <2>2. CASE call.fn = "printf"
    BY <2>2, PrintfComputes
  <2>3. CASE call.fn = "strcmp"
    BY <2>3, StrcmpComputes
  <2>4. CASE call.fn \in {"memmove", "memset"}
    BY <2>4, CopyComputes
  <2> QED BY <2>1, <2>2, <2>3, <2>4
<1> QED BY <1>1, StringsInvariant, PTL
=============================================================================
