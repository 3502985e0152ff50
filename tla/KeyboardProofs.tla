--------------------------- MODULE KeyboardProofs ---------------------------
(***************************************************************************)
(* The command buffer and the screen, for every set of characters, every   *)
(* screen and every size of the buffer.  Whatever main is doing when the   *)
(* handler runs, what is behind the line is zero, and the string that      *)
(* strcmp reads ends within the buffer; the hardware cursor follows; where *)
(* no key came in between, main has printed its text; nothing is written   *)
(* beside the screen; and a plain line is shown behind its prompt.         *)
(***************************************************************************)
EXTENDS Keyboard, OrderedArrayTheorems, FiniteSetTheorems, TLAPS

-----------------------------------------------------------------------------
(* First what the operators of lib/shell.c do to a screen, for every size  *)
(* of the screen and every text.                                           *)

(* The largest element, which the fold of write takes out first.           *)
LEMMA MaxOfInterval ==
  ASSUME NEW m \in Nat, NEW ss, ss \subseteq 1 .. m, m \in ss PROVE Max(ss) = m
<1>1. \A y \in ss : m >= y
  OBVIOUS
<1>2. ASSUME NEW x \in ss, \A y \in ss : x >= y PROVE x = m
  BY <1>2
<1> QED BY <1>1, <1>2 DEF Max

LEMMA MaxIn ==
  ASSUME NEW n \in Nat, NEW ss \in SUBSET (1 .. n), ss # {}
  PROVE  Max(ss) \in ss /\ ss \ {Max(ss)} \in SUBSET (1 .. n)
<1> DEFINE T == {n - y : y \in ss}
<1>1. T \subseteq Nat /\ T # {}
  <2>1. \A y \in ss : y \in 1 .. n /\ n - y \in Nat
    OBVIOUS
  <2>2. PICK y \in ss : TRUE
    OBVIOUS
  <2>3. n - y \in T
    OBVIOUS
  <2> QED BY <2>1, <2>3
<1>2. PICK t \in T : \A u \in T : t <= u
  <2> HIDE DEF T
  <2> QED BY <1>1, LeastElement
<1>3. PICK x \in ss : t = n - x
  BY <1>2
<1>4. ASSUME NEW y \in ss PROVE x >= y
  <2>1. x \in 1 .. n /\ y \in 1 .. n
    OBVIOUS
  <2>2. n - y \in T
    OBVIOUS
  <2>3. n - x <= n - y
    BY <1>2, <1>3, <2>2
  <2> QED BY <2>1, <2>3
<1>5. Max(ss) \in ss
  BY <1>4 DEF Max
<1> QED BY <1>5

LEMMA MaxOfFirst ==
  ASSUME NEW n \in Nat, NEW k \in 1 .. n
  PROVE  /\ 1 .. k \in SUBSET (1 .. n) /\ 1 .. k # {}
         /\ Max(1 .. k) = k /\ (1 .. k) \ {k} = 1 .. k - 1
<1>1. k \in Nat /\ k \in 1 .. k /\ k <= n
  OBVIOUS
<1>2. \A j : j \in 1 .. k => j \in 1 .. n
  BY <1>1
<1>3. \A j : j \in (1 .. k) \ {k} <=> j \in 1 .. k - 1
  BY <1>1
<1>4. Max(1 .. k) = k
  BY <1>1, MaxOfInterval
<1> QED BY <1>1, <1>2, <1>3, <1>4

(* The recursion by which a fold is defined has a solution.                *)
Solves(h, m, base, F) ==
  \A ss \in SUBSET (1 .. m) :
    h[ss] = IF ss = {} THEN base ELSE F[Max(ss)][h[ss \ {Max(ss)}]]

LEMMA FoldExists ==
  ASSUME NEW X, NEW base \in X, NEW n \in Nat, NEW F \in [1 .. n -> [X -> X]]
  PROVE  \E h \in [SUBSET (1 .. n) -> X] : Solves(h, n, base, F)
<1> DEFINE I == {m \in 0 .. n : \E h \in [SUBSET (1 .. m) -> X] : Solves(h, m, base, F)}
<1>1. 0 \in I
  <2> DEFINE h == [ss \in SUBSET (1 .. 0) |-> base]
  <2>1. h \in [SUBSET (1 .. 0) -> X]
    OBVIOUS
  <2>2. \A ss \in SUBSET (1 .. 0) : ss = {}
    OBVIOUS
  <2>3. Solves(h, 0, base, F)
    BY <2>2 DEF Solves
  <2> QED BY <2>1, <2>3
<1>2. ASSUME NEW m \in 0 .. n - 1, m \in I PROVE m + 1 \in I
  <2>1. PICK g \in [SUBSET (1 .. m) -> X] : Solves(g, m, base, F)
    BY <1>2
  <2> DEFINE h == [ss \in SUBSET (1 .. m + 1) |->
                     IF m + 1 \in ss THEN F[m + 1][g[ss \ {m + 1}]] ELSE g[ss]]
  <2>2. ASSUME NEW ss \in SUBSET (1 .. m + 1) PROVE ss \ {m + 1} \in SUBSET (1 .. m)
    OBVIOUS
  <2>3. h \in [SUBSET (1 .. m + 1) -> X]
    <3>1. ASSUME NEW ss \in SUBSET (1 .. m + 1)
          PROVE  (IF m + 1 \in ss THEN F[m + 1][g[ss \ {m + 1}]] ELSE g[ss]) \in X
      <4>1. CASE m + 1 \in ss
        <5>1. g[ss \ {m + 1}] \in X /\ m + 1 \in 1 .. n
          BY <2>2
        <5> QED BY <4>1, <5>1
      <4>2. CASE m + 1 \notin ss
        <5>1. ss \in SUBSET (1 .. m)
          BY <2>2, <4>2
        <5> QED BY <4>2, <5>1
      <4> QED BY <4>1, <4>2
    <3> QED BY <3>1
  <2>4. Solves(h, m + 1, base, F)
    <3> SUFFICES ASSUME NEW ss \in SUBSET (1 .. m + 1)
                 PROVE  h[ss] = IF ss = {} THEN base ELSE F[Max(ss)][h[ss \ {Max(ss)}]]
      BY DEF Solves
    <3>1. CASE m + 1 \in ss
      <4>1. Max(ss) = m + 1
        <5>1. m + 1 \in Nat
          OBVIOUS
        <5> QED BY <3>1, <5>1, MaxOfInterval
      <4>2. h[ss] = F[m + 1][g[ss \ {m + 1}]]
        BY <3>1
      <4>3. h[ss \ {m + 1}] = g[ss \ {m + 1}]
        OBVIOUS
      <4> QED BY <3>1, <4>1, <4>2, <4>3
    <3>2. CASE m + 1 \notin ss
      <4>1. ss \in SUBSET (1 .. m)
        BY <2>2, <3>2
      <4>2. ss \ {Max(ss)} \in SUBSET (1 .. m + 1) /\ m + 1 \notin ss \ {Max(ss)}
        BY <3>2
      <4>3. h[ss] = g[ss] /\ h[ss \ {Max(ss)}] = g[ss \ {Max(ss)}]
        BY <3>2, <4>2
      <4>4. g[ss] = IF ss = {} THEN base ELSE F[Max(ss)][g[ss \ {Max(ss)}]]
        BY <2>1, <4>1 DEF Solves
      <4> QED BY <4>3, <4>4
    <3> QED BY <3>1, <3>2
  <2> HIDE DEF h
  <2> QED BY <2>3, <2>4
<1> HIDE DEF I
<1>3. \A m \in 0 .. n - 1 : m \in I => m + 1 \in I
  BY <1>2
<1>4. \A m \in 0 .. n : m \in I
  BY <1>1, <1>3, UpTo
<1>5. n \in I
  BY <1>4
<1> QED BY <1>5 DEF I

-----------------------------------------------------------------------------
(* write.                                                                  *)
Writing(s, text) ==
  CHOOSE it : it = [ss \in SUBSET DOMAIN text |->
                      IF ss = {} THEN s ELSE Put(it[ss \ {Max(ss)}], text[Max(ss)])]

(* The screens h[k] that write goes through when it begins with s.         *)
Goes(h, s, text) ==
  h[0] = s /\ \A k \in 1 .. Len(text) : h[k] = Put(h[k - 1], text[k])

(* No character of G leads out of the screens X.                           *)
Closed(X, G) == \A x \in X, c \in G : Put(x, c) \in X

LEMMA WriteGoes ==
  ASSUME NEW G, NEW X, Closed(X, G),
         NEW s \in X, NEW text \in Seq(G)
  PROVE  \E h \in [0 .. Len(text) -> X] : Goes(h, s, text) /\ write(s, text) = h[Len(text)]
<1> DEFINE n == Len(text)
           F == [k \in 1 .. n |-> [x \in X |-> Put(x, text[k])]]
           Body(it, ss) == IF ss = {} THEN s ELSE Put(it[ss \ {Max(ss)}], text[Max(ss)])
<1>1. n \in Nat /\ DOMAIN text = 1 .. n /\ \A k \in 1 .. n : text[k] \in G
  OBVIOUS
<1> HIDE DEF n
<1>2. F \in [1 .. n -> [X -> X]]
  BY <1>1 DEF Closed
<1> HIDE DEF F
<1>3. PICK g \in [SUBSET (1 .. n) -> X] : Solves(g, n, s, F)
  BY <1>1, <1>2, FoldExists
<1>4. \A ss \in SUBSET (1 .. n) : ss # {} => Max(ss) \in ss /\ ss \ {Max(ss)} \in SUBSET (1 .. n)
  BY <1>1, MaxIn
<1>5. g = [ss \in SUBSET (1 .. n) |-> Body(g, ss)]
  <2>1. ASSUME NEW ss \in SUBSET (1 .. n) PROVE g[ss] = Body(g, ss)
    <3>1. CASE ss = {}
      BY <1>3, <3>1 DEF Solves
    <3>2. CASE ss # {}
      <4>1. Max(ss) \in 1 .. n /\ g[ss \ {Max(ss)}] \in X
        BY <1>4, <3>2
      <4>2. F[Max(ss)][g[ss \ {Max(ss)}]] = Put(g[ss \ {Max(ss)}], text[Max(ss)])
        BY <4>1 DEF F
      <4>3. g[ss] = F[Max(ss)][g[ss \ {Max(ss)}]]
        BY <1>3, <3>2 DEF Solves
      <4> QED BY <3>2, <4>2, <4>3
    <3> QED BY <3>1, <3>2
  <2> QED BY <2>1
<1> DEFINE it == Writing(s, text)
<1>6. it = [ss \in SUBSET (1 .. n) |-> Body(it, ss)]
  <2>1. it = [ss \in SUBSET DOMAIN text |-> Body(it, ss)]
    BY <1>1, <1>5, Zenon DEF Writing
  <2> QED BY <1>1, <2>1
<1>7. write(s, text) = it[1 .. n]
  <2>1. write(s, text) = it[DOMAIN text]
    BY Zenon DEF write, FoldLeft, MapThenFoldSet, Writing
  <2> QED BY <1>1, <2>1
<1> HIDE DEF it
<1> DEFINE h == [k \in 0 .. n |-> it[1 .. k]]
<1>8. it[1 .. 0] = s
  <2>1. 1 .. 0 = {} /\ {} \in SUBSET (1 .. n)
    OBVIOUS
  <2> QED BY <1>6, <2>1
<1>9. ASSUME NEW k \in 1 .. n PROVE it[1 .. k] = Put(it[1 .. k - 1], text[k])
  <2>1. /\ 1 .. k \in SUBSET (1 .. n) /\ 1 .. k # {}
        /\ Max(1 .. k) = k /\ (1 .. k) \ {k} = 1 .. k - 1
    BY <1>1, MaxOfFirst
  <2>2. it[1 .. k] = Body(it, 1 .. k)
    BY <1>6, <2>1
  <2> QED BY <2>1, <2>2
<1>10. \A k \in 0 .. n : it[1 .. k] \in X
  <2> DEFINE I == {k \in 0 .. n : it[1 .. k] \in X}
  <2>1. 0 \in I
    BY <1>1, <1>8
  <2>2. ASSUME NEW k \in 0 .. n - 1, k \in I PROVE k + 1 \in I
    <3>1. k + 1 \in 1 .. n /\ (k + 1) - 1 = k
      BY <1>1
    <3>2. it[1 .. k + 1] = Put(it[1 .. k], text[k + 1])
      BY <1>9, <3>1
    <3> QED BY <1>1, <2>2, <3>1, <3>2 DEF Closed
  <2> HIDE DEF I
  <2>3. \A k \in 0 .. n : k \in I
    BY <1>1, <2>1, <2>2, UpTo
  <2> QED BY <2>3 DEF I
<1>11. h \in [0 .. n -> X]
  BY <1>10
<1>12. Goes(h, s, text)
  <2>1. h[0] = s
    BY <1>1, <1>8
  <2>2. ASSUME NEW k \in 1 .. n PROVE h[k] = Put(h[k - 1], text[k])
    <3>1. k \in 0 .. n /\ k - 1 \in 0 .. n
      BY <1>1
    <3> QED BY <1>9, <3>1
  <2> QED BY <2>1, <2>2 DEF Goes, n
<1>13. write(s, text) = h[n]
  BY <1>1, <1>7
<1> QED BY <1>11, <1>12, <1>13 DEF n

(* A set of screens that no character leads out of is one that no text     *)
(* leads out of: the form in which invariants pass through write.          *)
LEMMA WriteInto ==
  ASSUME NEW G, NEW X, Closed(X, G),
         NEW s \in X, NEW text \in Seq(G)
  PROVE  write(s, text) \in X
<1>1. PICK h \in [0 .. Len(text) -> X] : Goes(h, s, text) /\ write(s, text) = h[Len(text)]
  BY WriteGoes
<1> QED BY <1>1

LEMMA WriteNothing ==
  ASSUME NEW s PROVE write(s, <<>>) = s
<1>1. Closed({s}, {})
  BY DEF Closed
<1>2. <<>> \in Seq({})
  OBVIOUS
<1>3. write(s, <<>>) \in {s}
  BY <1>1, <1>2, WriteInto
<1> QED BY <1>3

(* One character more.                                                     *)
LEMMA WriteOneMore ==
  ASSUME NEW G, NEW X, Closed(X, G),
         NEW s \in X, NEW text \in Seq(G), NEW c \in G
  PROVE  write(s, Append(text, c)) = Put(write(s, text), c)
<1> DEFINE n == Len(text)
           more == Append(text, c)
<1>1. n \in Nat /\ more \in Seq(G) /\ Len(more) = n + 1 /\ more[n + 1] = c
      /\ \A k \in 1 .. n : more[k] = text[k]
  OBVIOUS
<1>2. PICK g \in [0 .. n -> X] : Goes(g, s, text) /\ write(s, text) = g[n]
  BY WriteGoes
<1> HIDE DEF more
<1>3. PICK h \in [0 .. Len(more) -> X] : Goes(h, s, more) /\ write(s, more) = h[Len(more)]
  BY <1>1, WriteGoes
<1> DEFINE I == {k \in 0 .. n : g[k] = h[k]}
<1>4. 0 \in I
  BY <1>1, <1>2, <1>3 DEF Goes
<1>5. ASSUME NEW k \in 0 .. n - 1, k \in I PROVE k + 1 \in I
  <2>1. k + 1 \in 1 .. n /\ k + 1 \in 1 .. Len(more) /\ (k + 1) - 1 = k
    BY <1>1
  <2>2. g[k + 1] = Put(g[k], text[k + 1])
    BY <1>2, <2>1 DEF Goes
  <2>3. h[k + 1] = Put(h[k], more[k + 1])
    BY <1>3, <2>1 DEF Goes
  <2> QED BY <1>1, <1>5, <2>1, <2>2, <2>3
<1> HIDE DEF I
<1>6. \A k \in 0 .. n : k \in I
  BY <1>1, <1>4, <1>5, UpTo
<1>7. g[n] = h[n]
  BY <1>1, <1>6 DEF I
<1>8. h[n + 1] = Put(h[n], c)
  <2>1. n + 1 \in 1 .. Len(more) /\ (n + 1) - 1 = n
    BY <1>1
  <2> QED BY <1>1, <1>3, <2>1 DEF Goes
<1> QED BY <1>1, <1>2, <1>3, <1>7, <1>8 DEF more

-----------------------------------------------------------------------------
(* Screens, and the characters in them.                                    *)
Ports == [index : {"high", "low"}, high : 0 .. BYTE - 1, low : 0 .. BYTE - 1]
Glyph == STRING \cup {Blank}
Screen == [fb : [1 .. Memory -> Glyph], fb_col : 0 .. WORD - 1, fb_row : 0 .. WORD - 1,
           stray : BOOLEAN, cursor : Ports]

LEMMA Widths ==
  /\ FB_WIDTH \in Nat /\ FB_WIDTH > 0 /\ FB_HEIGHT \in Nat /\ FB_HEIGHT > 1
  /\ BYTE \in Nat /\ BYTE > 1 /\ WORD \in Nat /\ WORD > 1
  /\ FB_WIDTH * FB_HEIGHT \in Nat /\ Memory = 2 * (FB_WIDTH * FB_HEIGHT)
  /\ 4 * (FB_WIDTH * FB_HEIGHT) < WORD
<1>1. /\ FB_WIDTH \in Nat /\ FB_WIDTH > 0 /\ FB_HEIGHT \in Nat /\ FB_HEIGHT > 1
      /\ BYTE \in Nat /\ 4 * FB_WIDTH * FB_HEIGHT < BYTE * BYTE
  BY ConsoleAssumption
<1>2. FB_WIDTH * FB_HEIGHT \in Nat /\ FB_WIDTH * FB_HEIGHT > 0
  BY <1>1
<1>3. 4 * FB_WIDTH * FB_HEIGHT = 4 * (FB_WIDTH * FB_HEIGHT)
      /\ 2 * FB_WIDTH * FB_HEIGHT = 2 * (FB_WIDTH * FB_HEIGHT)
  BY <1>1
<1>4. BYTE * BYTE \in Nat
  BY <1>1
<1>5. BYTE # 0 /\ BYTE # 1
  BY <1>1, <1>2, <1>3
<1> QED BY <1>1, <1>2, <1>3, <1>4, <1>5 DEF WORD, Memory

(* Arithmetic of unsigned words.                                           *)
LEMMA WordIs ==
  ASSUME NEW n \in Int
  PROVE  /\ n % WORD \in 0 .. WORD - 1
         /\ n \in 0 .. WORD - 1 => n % WORD = n
         /\ n \in WORD .. 2 * WORD - 1 => n % WORD = n - WORD
         /\ n \in -WORD .. -1 => n % WORD = n + WORD
BY Widths, Z3

LEMMA ByteIs ==
  ASSUME NEW n \in 0 .. WORD - 1
  PROVE  n \div BYTE \in 0 .. BYTE - 1 /\ n % BYTE \in 0 .. BYTE - 1
         /\ (n \div BYTE) * BYTE + (n % BYTE) = n
<1> DEFINE q == n \div BYTE
           r == n % BYTE
<1>1. BYTE \in Nat /\ BYTE > 0 /\ n \in Nat /\ n < BYTE * BYTE
  BY Widths DEF WORD
<1>2. q \in Int /\ r \in 0 .. BYTE - 1 /\ n = BYTE * q + r
  BY <1>1, Z3
<1> HIDE DEF q, r
<1>3. BYTE * q = q * BYTE
  BY <1>1, <1>2
<1>4. q >= 0
  <2>1. q <= -1 => BYTE * q <= -BYTE
    BY <1>1, <1>2, Z3
  <2> QED BY <1>1, <1>2, <2>1
<1>5. q < BYTE
  <2>1. q >= BYTE => BYTE * q >= BYTE * BYTE
    BY <1>1, <1>2, Z3
  <2> QED BY <1>1, <1>2, <2>1
<1>6. q \in 0 .. BYTE - 1
  BY <1>1, <1>2, <1>4, <1>5
<1>7. q * BYTE + r = n
  BY <1>2, <1>3
<1> QED BY <1>2, <1>6, <1>7 DEF q, r

LEMMA PositionType ==
  ASSUME NEW s \in Screen PROVE position(s) \in 0 .. WORD - 1
<1>1. s.fb_row \in Nat /\ s.fb_col \in Nat
  BY Widths DEF Screen
<1>2. s.fb_row * FB_WIDTH \in Nat
  BY <1>1, Widths
<1> QED BY <1>1, <1>2, WordIs DEF position

-----------------------------------------------------------------------------
(* move_cursor: after its four port writes the cursor stands at the        *)
(* position, and nothing else has changed.                                 *)
At(s) == [index |-> "low", high |-> position(s) \div BYTE, low |-> position(s) % BYTE]

Driving(s) ==
  CHOOSE it : it = [ss \in SUBSET DOMAIN PortWrites(position(s)) |->
                      IF ss = {} THEN s
                      ELSE outb(it[ss \ {Max(ss)}], PortWrites(position(s))[Max(ss)])]

Outs == { <<"index", "high">>, <<"index", "low">> } \cup ({"data"} \X (0 .. BYTE - 1))

LEMMA OutbType ==
  ASSUME NEW s \in Screen, NEW out \in Outs PROVE outb(s, out) \in Screen
<1>1. CASE out[1] = "index"
  <2>1. out[2] \in {"high", "low"}
    BY <1>1 DEF Outs
  <2> QED BY <1>1, <2>1 DEF outb, Screen, Ports
<1>2. CASE out[1] # "index"
  <2>1. out[2] \in 0 .. BYTE - 1
    BY <1>2 DEF Outs
  <2>2. s.cursor.index \in {"high", "low"}
    BY DEF Screen, Ports
  <2> QED BY <1>2, <2>1, <2>2 DEF outb, Screen, Ports
<1> QED BY <1>1, <1>2

(* The screen s with another cursor.                                       *)
With(s, x, h, l) == [s EXCEPT !.cursor = [index |-> x, high |-> h, low |-> l]]

LEMMA OutbOf ==
  ASSUME NEW s \in Screen, NEW h \in 0 .. BYTE - 1, NEW l \in 0 .. BYTE - 1
  PROVE  /\ \A x, y \in {"high", "low"} : outb(With(s, x, h, l), <<"index", y>>) = With(s, y, h, l)
         /\ \A v : outb(With(s, "high", h, l), <<"data", v>>) = With(s, "high", v, l)
         /\ \A v : outb(With(s, "low", h, l), <<"data", v>>) = With(s, "low", h, v)
<1>1. ASSUME NEW x PROVE With(s, x, h, l).cursor = [index |-> x, high |-> h, low |-> l]
  BY DEF With, Screen
<1>2. ASSUME NEW x, NEW c PROVE [With(s, x, h, l) EXCEPT !.cursor = c] = [s EXCEPT !.cursor = c]
  BY DEF With, Screen
<1>3. ASSUME NEW x, NEW y PROVE outb(With(s, x, h, l), <<"index", y>>) = With(s, y, h, l)
  <2> DEFINE W == With(s, x, h, l)
  <2>1. outb(W, <<"index", y>>) = [W EXCEPT !.cursor = [W.cursor EXCEPT !.index = y]]
    BY <1>1 DEF outb, With, Screen
  <2>2. W.cursor = [index |-> x, high |-> h, low |-> l]
    BY <1>1
  <2> HIDE DEF W
  <2>3. [W.cursor EXCEPT !.index = y] = [index |-> y, high |-> h, low |-> l]
    BY <2>2
  <2>4. outb(W, <<"index", y>>) = [W EXCEPT !.cursor = [index |-> y, high |-> h, low |-> l]]
    BY <2>1, <2>3
  <2> QED BY <1>2, <2>4, Zenon DEF With, W
<1>4. ASSUME NEW v PROVE outb(With(s, "high", h, l), <<"data", v>>) = With(s, "high", v, l)
  <2> DEFINE W == With(s, "high", h, l)
  <2>1. outb(W, <<"data", v>>) = [W EXCEPT !.cursor = [W.cursor EXCEPT !.high = v]]
    BY <1>1 DEF outb, With, Screen
  <2>2. W.cursor = [index |-> "high", high |-> h, low |-> l]
    BY <1>1
  <2> HIDE DEF W
  <2>3. [W.cursor EXCEPT !.high = v] = [index |-> "high", high |-> v, low |-> l]
    BY <2>2
  <2>4. outb(W, <<"data", v>>) = [W EXCEPT !.cursor = [index |-> "high", high |-> v, low |-> l]]
    BY <2>1, <2>3
  <2> QED BY <1>2, <2>4, Zenon DEF With, W
<1>5. ASSUME NEW v PROVE outb(With(s, "low", h, l), <<"data", v>>) = With(s, "low", h, v)
  <2> DEFINE W == With(s, "low", h, l)
  <2>1. outb(W, <<"data", v>>) = [W EXCEPT !.cursor = [W.cursor EXCEPT !.low = v]]
    BY <1>1 DEF outb, With, Screen
  <2>2. W.cursor = [index |-> "low", high |-> h, low |-> l]
    BY <1>1
  <2> HIDE DEF W
  <2>3. [W.cursor EXCEPT !.low = v] = [index |-> "low", high |-> h, low |-> v]
    BY <2>2
  <2>4. outb(W, <<"data", v>>) = [W EXCEPT !.cursor = [index |-> "low", high |-> h, low |-> v]]
    BY <2>1, <2>3
  <2> QED BY <1>2, <2>4, Zenon DEF With, W
<1> QED BY <1>3, <1>4, <1>5

LEMMA PortWritesAre ==
  ASSUME NEW p \in 0 .. WORD - 1
  PROVE  /\ PortWrites(p) \in Seq(Outs) /\ Len(PortWrites(p)) = 4
         /\ PortWrites(p)[1] = <<"index", "high">> /\ PortWrites(p)[2] = <<"data", p \div BYTE>>
         /\ PortWrites(p)[3] = <<"index", "low">> /\ PortWrites(p)[4] = <<"data", p % BYTE>>
<1>1. p \div BYTE \in 0 .. BYTE - 1 /\ p % BYTE \in 0 .. BYTE - 1
  BY ByteIs
<1>2. /\ <<"data", p \div BYTE>> \in Outs /\ <<"data", p % BYTE>> \in Outs
      /\ <<"index", "high">> \in Outs /\ <<"index", "low">> \in Outs
  BY <1>1 DEF Outs
<1> QED BY <1>2 DEF PortWrites

LEMMA MoveCursorIs ==
  ASSUME NEW s \in Screen PROVE move_cursor(s) = [s EXCEPT !.cursor = At(s)]
<1> DEFINE p == position(s)
           text == PortWrites(p)
           F == [k \in 1 .. 4 |-> [x \in Screen |-> outb(x, text[k])]]
           Body(it, ss) == IF ss = {} THEN s ELSE outb(it[ss \ {Max(ss)}], text[Max(ss)])
<1>1. /\ p \in 0 .. WORD - 1 /\ text \in Seq(Outs) /\ Len(text) = 4 /\ DOMAIN text = 1 .. 4
      /\ text[1] = <<"index", "high">> /\ text[2] = <<"data", p \div BYTE>>
      /\ text[3] = <<"index", "low">> /\ text[4] = <<"data", p % BYTE>>
  BY PositionType, PortWritesAre
<1> HIDE DEF text
<1>2. F \in [1 .. 4 -> [Screen -> Screen]]
  <2>1. \A k \in 1 .. Len(text) : text[k] \in Outs
    BY <1>1, ElementOfSeq
  <2>2. \A k \in 1 .. 4 : text[k] \in Outs
    BY <1>1, <2>1
  <2> QED BY <2>2, OutbType
<1> HIDE DEF F
<1>3. PICK g \in [SUBSET (1 .. 4) -> Screen] : Solves(g, 4, s, F)
  BY <1>2, FoldExists
<1>4. \A ss \in SUBSET (1 .. 4) : ss # {} => Max(ss) \in ss /\ ss \ {Max(ss)} \in SUBSET (1 .. 4)
  BY MaxIn
<1>5. g = [ss \in SUBSET (1 .. 4) |-> Body(g, ss)]
  <2>1. ASSUME NEW ss \in SUBSET (1 .. 4) PROVE g[ss] = Body(g, ss)
    <3>1. CASE ss = {}
      BY <1>3, <3>1 DEF Solves
    <3>2. CASE ss # {}
      <4>1. Max(ss) \in 1 .. 4 /\ g[ss \ {Max(ss)}] \in Screen
        BY <1>4, <3>2
      <4>2. F[Max(ss)][g[ss \ {Max(ss)}]] = outb(g[ss \ {Max(ss)}], text[Max(ss)])
        BY <4>1 DEF F
      <4>3. g[ss] = F[Max(ss)][g[ss \ {Max(ss)}]]
        BY <1>3, <3>2 DEF Solves
      <4> QED BY <3>2, <4>2, <4>3
    <3> QED BY <3>1, <3>2
  <2> QED BY <2>1
<1> DEFINE it == Driving(s)
<1>6. it = [ss \in SUBSET (1 .. 4) |-> Body(it, ss)]
  <2>1. it = [ss \in SUBSET DOMAIN text |-> Body(it, ss)]
    BY <1>1, <1>5, Zenon DEF Driving, text
  <2> QED BY <1>1, <2>1
<1>7. move_cursor(s) = it[1 .. 4]
  <2>1. move_cursor(s) = it[DOMAIN text]
    BY Zenon DEF move_cursor, FoldLeft, MapThenFoldSet, Driving, text
  <2> QED BY <1>1, <2>1
<1> HIDE DEF it, p
<1>8. it[1 .. 0] = s
  <2>1. 1 .. 0 = {} /\ {} \in SUBSET (1 .. 4)
    OBVIOUS
  <2> QED BY <1>6, <2>1
<1>9. ASSUME NEW k \in 1 .. 4 PROVE it[1 .. k] = outb(it[1 .. k - 1], text[k])
  <2>1. /\ 1 .. k \in SUBSET (1 .. 4) /\ 1 .. k # {}
        /\ Max(1 .. k) = k /\ (1 .. k) \ {k} = 1 .. k - 1
    BY MaxOfFirst
  <2>2. it[1 .. k] = Body(it, 1 .. k)
    BY <1>6, <2>1
  <2> QED BY <2>1, <2>2
<1>10. /\ it[1 .. 1] = outb(s, text[1]) /\ it[1 .. 2] = outb(it[1 .. 1], text[2])
       /\ it[1 .. 3] = outb(it[1 .. 2], text[3]) /\ it[1 .. 4] = outb(it[1 .. 3], text[4])
  BY <1>8, <1>9
<1> DEFINE hi == p \div BYTE
           lo == p % BYTE
<1>11. hi \in 0 .. BYTE - 1 /\ lo \in 0 .. BYTE - 1
  BY <1>1, ByteIs
<1> HIDE DEF hi, lo
<1>12. PICK a, b \in 0 .. BYTE - 1 : s.cursor.high = a /\ s.cursor.low = b
  BY DEF Screen, Ports
<1>13. PICK x \in {"high", "low"} : s = With(s, x, a, b)
  BY <1>12 DEF With, Screen, Ports
<1>14. it[1 .. 1] = With(s, "high", a, b)
  BY <1>1, <1>10, <1>13, OutbOf
<1>15. it[1 .. 2] = With(s, "high", hi, b)
  BY <1>1, <1>10, <1>14, OutbOf DEF hi
<1>16. it[1 .. 3] = With(s, "low", hi, b)
  BY <1>1, <1>10, <1>11, <1>15, OutbOf
<1>17. it[1 .. 4] = With(s, "low", hi, lo)
  BY <1>1, <1>10, <1>11, <1>16, OutbOf DEF lo
<1> QED BY <1>7, <1>17 DEF At, p, With, hi, lo

LEMMA MoveCursorKeeps ==
  ASSUME NEW s \in Screen
  PROVE  /\ move_cursor(s) \in Screen
         /\ move_cursor(s).fb = s.fb /\ move_cursor(s).stray = s.stray
         /\ move_cursor(s).fb_col = s.fb_col /\ move_cursor(s).fb_row = s.fb_row
         /\ move_cursor(s).cursor = At(move_cursor(s))
<1>1. position(s) \in 0 .. WORD - 1
  BY PositionType
<1>2. At(s) \in Ports
  BY <1>1, ByteIs DEF At, Ports
<1>3. move_cursor(s) = [s EXCEPT !.cursor = At(s)]
  BY MoveCursorIs
<1>4. /\ move_cursor(s) \in Screen /\ move_cursor(s).cursor = At(s)
      /\ move_cursor(s).fb = s.fb /\ move_cursor(s).stray = s.stray
      /\ move_cursor(s).fb_col = s.fb_col /\ move_cursor(s).fb_row = s.fb_row
  BY <1>2, <1>3 DEF Screen
<1>5. position(move_cursor(s)) = position(s)
  BY <1>4 DEF position
<1> QED BY <1>4, <1>5 DEF At

-----------------------------------------------------------------------------
(* The other operators, each with what it leaves alone.                    *)
LEMMA WriteCellKeeps ==
  ASSUME NEW s \in Screen, NEW pos \in 0 .. WORD - 1, NEW c \in Glyph
  PROVE  LET t == write_cell(s, pos, c) IN
         /\ t \in Screen
         /\ t.fb_col = s.fb_col /\ t.fb_row = s.fb_row /\ t.cursor = s.cursor
         /\ t.stray = (s.stray \/ pos \notin Cell)
         /\ pos \in Cell => t.fb = [s.fb EXCEPT ![pos + 1] = c]
<1> DEFINE cell == IF pos < WORD \div 2 THEN pos ELSE pos - WORD
           t == write_cell(s, pos, c)
<1>1. cell \in Int /\ (cell \in Cell <=> pos \in Cell) /\ (pos \in Cell => cell = pos)
  BY Widths DEF Cell
<1> HIDE DEF cell
<1>2. t = [s EXCEPT !.fb = IF cell + 1 \in DOMAIN s.fb THEN [s.fb EXCEPT ![cell + 1] = c] ELSE s.fb,
                    !.stray = s.stray \/ cell \notin Cell]
  BY DEF write_cell, cell, Screen
<1> HIDE DEF t
<1>3. DOMAIN s.fb = 1 .. Memory /\ s.fb \in [1 .. Memory -> Glyph]
  BY DEF Screen
<1>4. (IF cell + 1 \in DOMAIN s.fb THEN [s.fb EXCEPT ![cell + 1] = c] ELSE s.fb)
        \in [1 .. Memory -> Glyph]
  BY <1>3
<1>5. (s.stray \/ cell \notin Cell) \in BOOLEAN
  BY DEF Screen
<1>6. pos \in Cell => cell + 1 \in 1 .. Memory
  BY <1>1, Widths DEF Cell
<1>7. t \in Screen
  BY <1>2, <1>4, <1>5 DEF Screen
<1>8. t.fb_col = s.fb_col /\ t.fb_row = s.fb_row /\ t.cursor = s.cursor
  BY <1>2 DEF Screen
<1>9. t.stray = (s.stray \/ pos \notin Cell)
  BY <1>1, <1>2 DEF Screen
<1>10. pos \in Cell => t.fb = [s.fb EXCEPT ![pos + 1] = c]
  BY <1>1, <1>2, <1>3, <1>6 DEF Screen
<1> QED BY <1>7, <1>8, <1>9, <1>10 DEF t

(* The two statements of scroll_down, on the cells.                        *)
Moved(f, w) == SubSeq(f, w + 1, Len(f)) \o SubSeq(f, Len(f) - w + 1, Len(f))
WithBlankRow(f, w, a) == SubSeq(f, 1, a) \o Blanks(w) \o SubSeq(f, a + w + 1, Len(f))

LEMMA MovedIs ==
  ASSUME NEW f \in Seq(Glyph), NEW w \in Nat, NEW a \in Nat, Len(f) = 2 * (a + w)
  PROVE  /\ Moved(f, w) \in Seq(Glyph) /\ Len(Moved(f, w)) = Len(f)
         /\ \A i \in 1 .. a : Moved(f, w)[i] = f[i + w]
<1> DEFINE m == Len(f)
           g1 == SubSeq(f, w + 1, m)
           g2 == SubSeq(f, (m - w) + 1, m)
<1>1. g1 \in Seq(Glyph) /\ Len(g1) = m - w /\ \A i \in 1 .. m - w : g1[i] = f[i + w]
  BY SubSeqProperties
<1>2. g2 \in Seq(Glyph) /\ Len(g2) = w
  BY SubSeqProperties
<1>3. Moved(f, w) = g1 \o g2
  BY DEF Moved
<1> HIDE DEF g1, g2
<1>4. g1 \o g2 \in Seq(Glyph) /\ Len(g1 \o g2) = (m - w) + w
  BY <1>1, <1>2, ConcatProperties
<1>5. \A i \in 1 .. m - w : (g1 \o g2)[i] = g1[i]
  <2>1. \A i \in 1 .. Len(g1) + Len(g2) :
          (g1 \o g2)[i] = IF i <= Len(g1) THEN g1[i] ELSE g2[i - Len(g1)]
    BY <1>1, <1>2, ConcatProperties
  <2>2. ASSUME NEW i \in 1 .. m - w PROVE (g1 \o g2)[i] = g1[i]
    <3>1. i \in 1 .. Len(g1) + Len(g2) /\ i <= Len(g1)
      BY <1>1, <1>2
    <3> QED BY <2>1, <3>1
  <2> QED BY <2>2
<1>6. ASSUME NEW i \in 1 .. a PROVE (g1 \o g2)[i] = f[i + w]
  <2>1. i \in 1 .. m - w
    OBVIOUS
  <2> QED BY <1>1, <1>5, <2>1
<1>7. m \in Nat /\ (m - w) + w = m
  OBVIOUS
<1> HIDE DEF m
<1> QED BY <1>3, <1>4, <1>6, <1>7 DEF m

LEMMA BlankRowIs ==
  ASSUME NEW f \in Seq(Glyph), NEW w \in Nat, NEW a \in Nat, Len(f) = 2 * (a + w)
  PROVE  /\ WithBlankRow(f, w, a) \in Seq(Glyph) /\ Len(WithBlankRow(f, w, a)) = Len(f)
         /\ \A i \in 1 .. a + w : WithBlankRow(f, w, a)[i] = IF i <= a THEN f[i] ELSE Blank
<1> DEFINE h1 == SubSeq(f, 1, a)
           h2 == Blanks(w)
           h3 == SubSeq(f, (a + w) + 1, Len(f))
<1>1. h1 \in Seq(Glyph) /\ Len(h1) = a /\ \A i \in 1 .. a : h1[i] = f[i]
  BY SubSeqProperties
<1>2. h2 \in Seq(Glyph) /\ Len(h2) = w /\ \A i \in 1 .. w : h2[i] = Blank
  <2>1. h2 = [k \in 1 .. w |-> Blank]
    BY DEF Blanks
  <2>2. Blank \in Glyph
    BY DEF Glyph
  <2> HIDE DEF h2
  <2>3. h2 \in [1 .. w -> Glyph]
    BY <2>1, <2>2
  <2>4. h2 \in Seq(Glyph) /\ Len(h2) = w
    BY <2>3
  <2> QED BY <2>1, <2>4
<1>3. h3 \in Seq(Glyph) /\ Len(h3) = a + w
  BY SubSeqProperties
<1>4. WithBlankRow(f, w, a) = (h1 \o h2) \o h3
  BY DEF WithBlankRow
<1> HIDE DEF h1, h2, h3
<1> DEFINE g == h1 \o h2
<1>5. g \in Seq(Glyph) /\ Len(g) = a + w
  BY <1>1, <1>2, ConcatProperties
<1>6. \A i \in 1 .. a + w : g[i] = IF i <= a THEN h1[i] ELSE h2[i - a]
  BY <1>1, <1>2, ConcatProperties
<1>7. WithBlankRow(f, w, a) = g \o h3
  BY <1>4
<1> HIDE DEF g
<1>8. /\ g \o h3 \in Seq(Glyph) /\ Len(g \o h3) = (a + w) + (a + w)
      /\ \A i \in 1 .. a + w : (g \o h3)[i] = g[i]
  <2>1. /\ g \o h3 \in Seq(Glyph) /\ Len(g \o h3) = Len(g) + Len(h3)
        /\ \A i \in 1 .. Len(g) + Len(h3) :
             (g \o h3)[i] = IF i <= Len(g) THEN g[i] ELSE h3[i - Len(g)]
    BY <1>3, <1>5, ConcatProperties
  <2>2. ASSUME NEW i \in 1 .. a + w PROVE (g \o h3)[i] = g[i]
    <3>1. i \in 1 .. Len(g) + Len(h3) /\ i <= Len(g)
      BY <1>3, <1>5
    <3> QED BY <2>1, <3>1
  <2> QED BY <1>3, <1>5, <2>1, <2>2
<1>9. ASSUME NEW i \in 1 .. a + w PROVE g[i] = IF i <= a THEN f[i] ELSE Blank
  <2>1. CASE i <= a
    <3>1. i \in 1 .. a
      BY <2>1
    <3> QED BY <1>1, <1>6, <2>1, <3>1
  <2>2. CASE ~ (i <= a)
    <3>1. i - a \in 1 .. w
      BY <2>2
    <3> QED BY <1>2, <1>6, <2>2, <3>1
  <2> QED BY <2>1, <2>2
<1> QED BY <1>8, <1>9, <1>7

LEMMA ScrollKeeps ==
  ASSUME NEW s \in Screen
  PROVE  LET t == scroll_down(s) IN
         /\ t \in Screen
         /\ t.fb_col = s.fb_col /\ t.fb_row = s.fb_row /\ t.cursor = s.cursor /\ t.stray = s.stray
         /\ \A i \in 1 .. FB_WIDTH * FB_HEIGHT :
              t.fb[i] = IF i <= FB_WIDTH * (FB_HEIGHT - 1) THEN s.fb[i + FB_WIDTH] ELSE Blank
<1> DEFINE t == scroll_down(s)
           a == (FB_HEIGHT - 1) * FB_WIDTH
           g == Moved(s.fb, FB_WIDTH)
           f == WithBlankRow(g, FB_WIDTH, a)
           mid == [s EXCEPT !.fb = g]
<1>1. /\ a \in Nat /\ FB_WIDTH \in Nat /\ Memory = 2 * (a + FB_WIDTH)
      /\ FB_WIDTH * FB_HEIGHT = a + FB_WIDTH
      /\ FB_WIDTH * (FB_HEIGHT - 1) = a /\ ((FB_HEIGHT - 1) + 1) * FB_WIDTH = a + FB_WIDTH
  BY Widths
<1>2. s.fb \in Seq(Glyph) /\ Len(s.fb) = 2 * (a + FB_WIDTH)
  <2> HIDE DEF a
  <2> QED BY <1>1 DEF Screen
<1>3. t = clear_row(mid, FB_HEIGHT - 1)
  BY Zenon DEF scroll_down, Moved
<1>4. mid.fb = g
  BY DEF Screen
<1>5. t = [mid EXCEPT !.fb = f]
  <2>1. clear_row(mid, FB_HEIGHT - 1)
          = [mid EXCEPT !.fb = SubSeq(mid.fb, 1, a) \o Blanks(FB_WIDTH)
                \o SubSeq(mid.fb, ((FB_HEIGHT - 1) + 1) * FB_WIDTH + 1, Len(mid.fb))]
    BY Zenon DEF clear_row
  <2> HIDE DEF t, mid, a, g
  <2> QED BY <1>1, <1>3, <1>4, <2>1 DEF WithBlankRow
<1> HIDE DEF t, a, f
<1>6. t = [s EXCEPT !.fb = f]
  BY <1>5 DEF Screen
<1> HIDE DEF g, mid
<1>7. g \in Seq(Glyph) /\ Len(g) = 2 * (a + FB_WIDTH) /\ \A i \in 1 .. a : g[i] = s.fb[i + FB_WIDTH]
  <2>1. PICK x \in Seq(Glyph) : x = s.fb
    BY <1>2
  <2> QED BY <1>1, <1>2, <2>1, MovedIs DEF g
<1>8. /\ f \in Seq(Glyph) /\ Len(f) = Memory
      /\ \A i \in 1 .. a + FB_WIDTH : f[i] = IF i <= a THEN g[i] ELSE Blank
  BY <1>1, <1>7, BlankRowIs DEF f
<1>9. f \in [1 .. Memory -> Glyph]
  BY <1>1, <1>8
<1>10. ASSUME NEW i \in 1 .. a + FB_WIDTH
       PROVE  f[i] = IF i <= a THEN s.fb[i + FB_WIDTH] ELSE Blank
  BY <1>1, <1>7, <1>8
<1>11. t \in Screen /\ t.fb = f /\ t.fb_col = s.fb_col /\ t.fb_row = s.fb_row
       /\ t.cursor = s.cursor /\ t.stray = s.stray
  BY <1>6, <1>9 DEF Screen
<1> QED BY <1>1, <1>10, <1>11 DEF t

(* Where writing goes on.                                                  *)
NextRow(s) == IF RoomBelow(s.fb_row) THEN s.fb_row + 1 ELSE s.fb_row

LEMMA SetColumn ==
  ASSUME NEW s \in Screen, NEW k \in 0 .. WORD - 1
  PROVE  LET t == [s EXCEPT !.fb_col = k] IN
         /\ t \in Screen
         /\ t.fb_col = k /\ t.fb_row = s.fb_row /\ t.fb = s.fb /\ t.stray = s.stray
         /\ t.cursor = s.cursor
BY DEF Screen

LEMMA SetRow ==
  ASSUME NEW s \in Screen, NEW k \in 0 .. WORD - 1
  PROVE  LET t == [s EXCEPT !.fb_row = k] IN
         /\ t \in Screen
         /\ t.fb_row = k /\ t.fb_col = s.fb_col /\ t.fb = s.fb /\ t.stray = s.stray
         /\ t.cursor = s.cursor
BY DEF Screen

LEMMA NewlineKeeps ==
  ASSUME NEW s \in Screen
  PROVE  LET t == newline(s) IN
         /\ t \in Screen /\ t.stray = s.stray /\ t.cursor = At(t)
         /\ t.fb_col = 0 /\ t.fb_row = NextRow(s)
<1> DEFINE down == IF RoomBelow(s.fb_row) THEN [s EXCEPT !.fb_row = (s.fb_row + 1) % WORD]
                                          ELSE scroll_down(s)
           first == FirstColumn(down)
           t == newline(s)
<1>1. down \in Screen /\ down.stray = s.stray /\ down.fb_row = NextRow(s)
  <2>1. CASE RoomBelow(s.fb_row)
    <3>1. s.fb_row \in Int /\ s.fb_row + 1 \in 0 .. WORD - 1
      <4>1. FB_HEIGHT <= FB_WIDTH * FB_HEIGHT
        BY Widths
      <4>2. s.fb_row + 1 < FB_HEIGHT /\ s.fb_row \in Nat
        BY <2>1, Widths DEF RoomBelow, Screen
      <4> QED BY <4>1, <4>2, Widths
    <3>2. (s.fb_row + 1) % WORD = s.fb_row + 1
      BY <3>1, WordIs
    <3> QED BY <2>1, <3>1, <3>2, SetRow DEF NextRow
  <2>2. CASE ~ RoomBelow(s.fb_row)
    BY <2>2, ScrollKeeps DEF NextRow
  <2> QED BY <2>1, <2>2
<1>2. t = move_cursor(first)
  BY DEF newline, Screen
<1> HIDE DEF down, t
<1>3. first \in Screen /\ first.stray = s.stray /\ first.fb_row = NextRow(s) /\ first.fb_col = 0
  <2>1. 0 \in 0 .. WORD - 1
    BY Widths
  <2> QED BY <1>1, <2>1, SetColumn DEF FirstColumn
<1> HIDE DEF first
<1> QED BY <1>2, <1>3, MoveCursorKeeps DEF t

LEMMA AdvanceKeeps ==
  ASSUME NEW s \in Screen
  PROVE  LET t == advance_pos(s) IN
         /\ t \in Screen /\ t.stray = s.stray /\ t.cursor = At(t)
         /\ t.fb_col = IF RoomBehind(s.fb_col) THEN s.fb_col + 1 ELSE 0
         /\ t.fb_row = IF RoomBehind(s.fb_col) THEN s.fb_row ELSE NextRow(s)
<1> DEFINE t == advance_pos(s)
<1>1. CASE RoomBehind(s.fb_col)
  <2> DEFINE next == [s EXCEPT !.fb_col = (s.fb_col + 1) % WORD]
  <2>1. s.fb_col \in Int /\ s.fb_col + 1 \in 0 .. WORD - 1
    <3>1. FB_WIDTH <= FB_WIDTH * FB_HEIGHT
      BY Widths
    <3>2. s.fb_col + 1 < FB_WIDTH /\ s.fb_col \in Nat
      BY <1>1, Widths DEF RoomBehind, Screen
    <3> QED BY <3>1, <3>2, Widths
  <2>2. (s.fb_col + 1) % WORD = s.fb_col + 1
    BY <2>1, WordIs
  <2>3. next \in Screen /\ next.stray = s.stray /\ next.fb_col = s.fb_col + 1
        /\ next.fb_row = s.fb_row
    BY <2>1, <2>2, SetColumn
  <2>4. t = move_cursor(next)
    BY <1>1 DEF advance_pos, Screen
  <2> HIDE DEF next, t
  <2> QED BY <1>1, <2>3, <2>4, MoveCursorKeeps DEF t
<1>2. CASE ~ RoomBehind(s.fb_col)
  <2>1. t = move_cursor(newline(s))
    BY <1>2 DEF advance_pos
  <2> HIDE DEF t
  <2> QED BY <1>2, <2>1, NewlineKeeps, MoveCursorKeeps DEF t
<1> QED BY <1>1, <1>2

LEMMA PutKeeps ==
  ASSUME NEW s \in Screen, NEW c \in Glyph
  PROVE  LET t == Put(s, c)
             stays == c # NL /\ RoomBehind(s.fb_col) IN
         /\ t \in Screen /\ t.cursor = At(t)
         /\ t.stray = (s.stray \/ (c # NL /\ position(s) \notin Cell))
         /\ t.fb_col = IF stays THEN s.fb_col + 1 ELSE 0
         /\ t.fb_row = IF stays THEN s.fb_row ELSE NextRow(s)
<1> DEFINE t == Put(s, c)
<1>1. CASE c = NL
  <2>1. t = newline(s)
    BY <1>1 DEF Put
  <2>2. s.stray \in BOOLEAN
    BY DEF Screen
  <2> HIDE DEF t
  <2> QED BY <1>1, <2>1, <2>2, NewlineKeeps DEF t
<1>2. CASE c # NL
  <2> DEFINE x == write_cell(s, position(s), c)
  <2>1. t = advance_pos(x)
    BY <1>2 DEF Put
  <2>2. /\ x \in Screen /\ x.fb_col = s.fb_col /\ x.fb_row = s.fb_row
        /\ x.stray = (s.stray \/ position(s) \notin Cell)
    BY PositionType, WriteCellKeeps
  <2> HIDE DEF t, x
  <2>3. NextRow(x) = NextRow(s)
    BY <2>2 DEF NextRow
  <2> QED BY <1>2, <2>1, <2>2, <2>3, AdvanceKeeps DEF t
<1> QED BY <1>1, <1>2

LEMMA BackSpaceKeeps ==
  ASSUME NEW s \in Screen
  PROVE  LET t == back_space(s) IN
         /\ t \in Screen /\ t.cursor = At(t)
         /\ t.stray = (s.stray \/ position(t) \notin Cell)
         /\ t.fb_col = (s.fb_col - 1) % WORD /\ t.fb_row = s.fb_row
<1> DEFINE t == back_space(s)
           back == StepBack(s)
           x == write_cell(back, position(back), Blank)
<1>1. (s.fb_col - 1) % WORD \in 0 .. WORD - 1
  <2>1. s.fb_col - 1 \in Int
    BY Widths DEF Screen
  <2> QED BY <2>1, WordIs
<1>2. back = [s EXCEPT !.fb_col = (s.fb_col - 1) % WORD]
  BY DEF StepBack, Screen
<1>3. t = move_cursor(x)
  BY DEF back_space
<1> HIDE DEF t, back
<1>4. back \in Screen /\ back.fb_col = (s.fb_col - 1) % WORD /\ back.fb_row = s.fb_row
      /\ back.stray = s.stray
  BY <1>1, <1>2, SetColumn
<1>5. /\ x \in Screen /\ x.fb_col = back.fb_col /\ x.fb_row = back.fb_row
      /\ x.stray = (back.stray \/ position(back) \notin Cell)
  <2>1. Blank \in Glyph
    BY DEF Glyph
  <2> QED BY <1>4, <2>1, PositionType, WriteCellKeeps
<1> HIDE DEF x
<1>6. t \in Screen /\ t.fb_col = back.fb_col /\ t.fb_row = back.fb_row /\ t.stray = x.stray
      /\ t.cursor = At(t)
  BY <1>3, <1>5, MoveCursorKeeps
<1>7. position(t) = position(back)
  BY <1>6 DEF position
<1> QED BY <1>4, <1>5, <1>6, <1>7 DEF t

(* No character leads out of the screens, and neither does a text.         *)
LEMMA WriteKeeps ==
  ASSUME NEW s \in Screen, NEW text \in Seq(Glyph) PROVE write(s, text) \in Screen
<1>1. Closed(Screen, Glyph)
  BY PutKeeps DEF Closed
<1> QED BY <1>1, WriteInto

(* The screens on which the hardware cursor stands where writing goes on.  *)
Following == {s \in Screen : s.cursor = At(s)}

LEMMA WriteFollows ==
  ASSUME NEW s \in Following, NEW text \in Seq(Glyph) PROVE write(s, text) \in Following
<1>1. Closed(Following, Glyph)
  BY PutKeeps DEF Closed, Following
<1> QED BY <1>1, WriteInto

LEMMA WriteOne ==
  ASSUME NEW s \in Screen, NEW c \in Glyph PROVE write(s, <<c>>) = Put(s, c)
<1>1. Closed(Screen, Glyph)
  BY PutKeeps DEF Closed
<1>2. PICK nothing \in Seq(Glyph) : nothing = <<>>
  <2>1. <<>> \in Seq(Glyph)
    OBVIOUS
  <2> QED BY <2>1, Zenon
<1>3. write(s, Append(nothing, c)) = Put(write(s, nothing), c)
  BY <1>1, WriteOneMore
<1>4. write(s, nothing) = s
  BY <1>2, WriteNothing
<1>5. Append(nothing, c) = <<c>>
  BY <1>2
<1> QED BY <1>3, <1>4, <1>5

(* Whatever the screen was, the cursor follows once a character is out.    *)
LEMMA PromptFollows ==
  ASSUME NEW s \in Screen PROVE init_prompt(s) \in Following
<1>1. PROMPT \in Seq(STRING) /\ PROMPT # <<>>
  BY ConsoleAssumption
<1> DEFINE n == Len(PROMPT)
           text == SubSeq(PROMPT, 1, n - 1)
<1>2. n \in Nat /\ n > 0 /\ PROMPT[n] \in STRING
  BY <1>1
<1>3. text \in Seq(STRING) /\ Len(text) = n - 1 /\ \A i \in 1 .. n - 1 : text[i] = PROMPT[i]
  BY <1>1, <1>2, SubSeqProperties
<1> HIDE DEF text
<1>4. PROMPT = Append(text, PROMPT[n])
  <2> DEFINE more == Append(text, PROMPT[n])
  <2>1. more \in Seq(STRING) /\ Len(more) = n /\ \A i \in 1 .. n : more[i] = PROMPT[i]
    BY <1>2, <1>3
  <2> HIDE DEF more
  <2>2. more = PROMPT
    BY <1>1, <2>1
  <2> QED BY <2>2 DEF more
<1>5. Closed(Screen, Glyph) /\ text \in Seq(Glyph) /\ PROMPT[n] \in Glyph
  BY <1>2, <1>3, PutKeeps DEF Closed, Glyph
<1> HIDE DEF n
<1>6. write(s, PROMPT) = Put(write(s, text), PROMPT[n])
  <2>1. PICK c \in Glyph : c = PROMPT[n]
    BY <1>5
  <2>2. write(s, Append(text, c)) = Put(write(s, text), c)
    BY <1>5, WriteOneMore
  <2> QED BY <1>4, <2>1, <2>2
<1>7. write(s, text) \in Screen
  BY <1>5, WriteKeeps
<1> QED BY <1>5, <1>6, <1>7, PutKeeps DEF init_prompt, Following

(* One port write: the index register, or the byte it has chosen.          *)
LEMMA OutbIndex ==
  ASSUME NEW s \in Screen, NEW v, NEW t, t = outb(s, <<"index", v>>)
  PROVE  t.cursor.index = v /\ t.cursor.high = s.cursor.high /\ position(t) = position(s)
<1>1. s.cursor \in Ports
  BY DEF Screen
<1> DEFINE c == [s.cursor EXCEPT !.index = v]
<1>2. t = [s EXCEPT !.cursor = c]
  BY DEF outb, Screen
<1>3. c.index = v /\ c.high = s.cursor.high
  BY <1>1 DEF Ports
<1> HIDE DEF c
<1> QED BY <1>2, <1>3 DEF position, Screen

LEMMA OutbData ==
  ASSUME NEW s \in Screen, NEW v, NEW t, t = outb(s, <<"data", v>>)
  PROVE  /\ t.cursor.index = s.cursor.index /\ position(t) = position(s)
         /\ s.cursor.index = "high" => t.cursor.high = v
         /\ s.cursor.index = "low" => t.cursor.low = v /\ t.cursor.high = s.cursor.high
<1>1. s.cursor \in Ports
  BY DEF Screen
<1> DEFINE c == [s.cursor EXCEPT ![s.cursor.index] = v]
<1>2. t = [s EXCEPT !.cursor = c]
  BY DEF outb, Screen
<1>3. /\ c.index = s.cursor.index
      /\ s.cursor.index = "high" => c.high = v
      /\ s.cursor.index = "low" => c.low = v /\ c.high = s.cursor.high
  BY <1>1 DEF Ports
<1> HIDE DEF c
<1> QED BY <1>2, <1>3 DEF position, Screen

LEMMA TailOf ==
  ASSUME NEW S, NEW t \in Seq(S), t # <<>>
  PROVE  /\ Tail(t) \in Seq(S) /\ Len(t) > 0 /\ Len(Tail(t)) = Len(t) - 1
         /\ Head(t) = t[1] /\ Head(t) \in S
         /\ \A i \in 1 .. Len(t) - 1 : Tail(t)[i] = t[i + 1]
         /\ (Tail(t) = <<>> <=> Len(t) = 1)
<1>1. Len(t) \in Nat /\ Len(t) > 0
  OBVIOUS
<1>2. Tail(t) \in Seq(S) /\ Len(Tail(t)) = Len(t) - 1
  BY <1>1
<1>3. Head(t) = t[1] /\ Head(t) \in S
  BY <1>1
<1>4. \A i \in 1 .. Len(t) - 1 : Tail(t)[i] = t[i + 1]
  BY <1>1
<1>5. Tail(t) = <<>> <=> Len(Tail(t)) = 0
  BY <1>2, EmptySeq
<1> QED BY <1>1, <1>2, <1>3, <1>4, <1>5

(* move_cursor looks at the position only.                                 *)
LEMMA MoveCursorAgain ==
  ASSUME NEW s \in Screen
  PROVE  /\ s \in Following => move_cursor(s) = s
         /\ move_cursor(newline(s)) = newline(s)
         /\ \A out \in Outs : move_cursor(outb(s, out)) = move_cursor(s)
<1>1. ASSUME NEW t \in Following PROVE move_cursor(t) = t
  <2>1. t \in Screen /\ t.cursor = At(t)
    BY DEF Following
  <2>2. move_cursor(t) = [t EXCEPT !.cursor = At(t)]
    BY <2>1, MoveCursorIs
  <2> QED BY <2>1, <2>2 DEF Screen
<1>2. newline(s) \in Following
  BY NewlineKeeps DEF Following
<1>3. ASSUME NEW out \in Outs PROVE move_cursor(outb(s, out)) = move_cursor(s)
  <2> DEFINE t == outb(s, out)
  <2>1. PICK c : t = [s EXCEPT !.cursor = c]
    BY DEF outb, Screen
  <2>2. t \in Screen
    BY OutbType
  <2> HIDE DEF t
  <2>3. position(t) = position(s)
    BY <2>1 DEF position, Screen
  <2>4. move_cursor(t) = [t EXCEPT !.cursor = At(s)]
    BY <2>2, <2>3, MoveCursorIs DEF At
  <2>5. move_cursor(t) = [s EXCEPT !.cursor = At(s)]
    BY <2>1, <2>4 DEF Screen
  <2> QED BY <2>5, MoveCursorIs DEF t
<1> QED BY <1>1, <1>2, <1>3

-----------------------------------------------------------------------------
(* Where a screen, or a pair of coordinates loaded from one, is written.   *)
(* An unsigned column beyond the row has been decremented below 0.         *)
LastRow == FB_HEIGHT - 1
column(at) == IF at.fb_col <= FB_WIDTH THEN at.fb_col ELSE at.fb_col - WORD
place(at) == column(at) + at.fb_row * FB_WIDTH

LEMMA RowsFit ==
  ASSUME NEW row \in 0 .. LastRow
  PROVE  /\ row * FB_WIDTH \in Nat /\ row * FB_WIDTH <= LastRow * FB_WIDTH
         /\ LastRow \in Nat /\ LastRow >= 1
         /\ LastRow * FB_WIDTH \in Nat /\ LastRow * FB_WIDTH >= 1
         /\ LastRow * FB_WIDTH + FB_WIDTH = FB_WIDTH * FB_HEIGHT
         /\ (row + 1) * FB_WIDTH = row * FB_WIDTH + FB_WIDTH
         /\ row < LastRow => row * FB_WIDTH + FB_WIDTH <= LastRow * FB_WIDTH
<1>1. FB_WIDTH \in Nat /\ FB_WIDTH >= 1 /\ FB_HEIGHT \in Nat /\ LastRow \in Nat /\ LastRow >= 1
      /\ row \in Nat /\ row <= LastRow /\ FB_HEIGHT = LastRow + 1
  BY Widths DEF LastRow
<1>2. \A a, b, w \in Nat : a <= b => a * w <= b * w
  BY Z3
<1>3. (row + 1) * FB_WIDTH = row * FB_WIDTH + FB_WIDTH
  BY <1>1, Z3
<1>4. FB_WIDTH * FB_HEIGHT = LastRow * FB_WIDTH + FB_WIDTH
  BY <1>1, Z3
<1>5. row * FB_WIDTH \in Nat /\ LastRow * FB_WIDTH \in Nat
  BY <1>1, Z3
<1>6. row < LastRow => (row + 1) * FB_WIDTH <= LastRow * FB_WIDTH
  BY <1>1, <1>2
<1>7. 1 * FB_WIDTH <= LastRow * FB_WIDTH
  BY <1>1, <1>2
<1>8. row * FB_WIDTH <= LastRow * FB_WIDTH
  BY <1>1, <1>2
<1> QED BY <1>1, <1>3, <1>4, <1>5, <1>6, <1>7, <1>8

(* The addition that write_cell is given does not wrap to another cell.    *)
LEMMA OnScreen ==
  ASSUME NEW at, at.fb_col \in 0 .. WORD - 1, at.fb_row \in 0 .. LastRow,
         at.fb_row = LastRow => at.fb_col # FB_WIDTH, place(at) >= 0
  PROVE  position(at) = place(at) /\ position(at) \in Cell
<1>1. PICK row \in 0 .. LastRow : row = at.fb_row
  OBVIOUS
<1>2. PICK col \in 0 .. WORD - 1 : col = at.fb_col
  OBVIOUS
<1> DEFINE a == row * FB_WIDTH
           z == LastRow * FB_WIDTH
           n == FB_WIDTH * FB_HEIGHT
<1>3. /\ a \in Nat /\ a <= z /\ z + FB_WIDTH = n /\ (row < LastRow => a + FB_WIDTH <= z)
      /\ z \in Nat /\ FB_WIDTH \in Nat /\ FB_WIDTH >= 1
      /\ LastRow \in Nat /\ row \in Nat /\ row <= LastRow
  BY RowsFit, Widths
<1>4. n \in Nat /\ 4 * n < WORD /\ WORD \in Nat
  BY Widths
<1> HIDE DEF a, z, n
<1>5. place(at) = (IF col <= FB_WIDTH THEN col ELSE col - WORD) + a
  BY <1>1, <1>2 DEF place, column, a
<1>6. place(at) \in 0 .. n - 1
  <2>1. col = FB_WIDTH => row < LastRow
    BY <1>1, <1>2, <1>3
  <2> QED BY <1>3, <1>4, <1>5, <2>1
<1>7. position(at) = (col + a) % WORD
  BY <1>1, <1>2 DEF position, a
<1>8. (col + a) % WORD = place(at)
  <2>1. col + a \in Int
    BY <1>3
  <2>2. CASE col <= FB_WIDTH
    <3>1. col + a = place(at) /\ col + a \in 0 .. WORD - 1
      BY <1>3, <1>4, <1>5, <1>6, <2>2
    <3> QED BY <2>1, <3>1, WordIs
  <2>3. CASE ~ (col <= FB_WIDTH)
    <3>1. (col + a) - WORD = place(at) /\ col + a \in WORD .. 2 * WORD - 1
      BY <1>3, <1>4, <1>5, <1>6, <2>3
    <3> QED BY <2>1, <3>1, WordIs
  <2> QED BY <2>2, <2>3
<1> QED BY <1>6, <1>7, <1>8 DEF Cell, n

LEMMA ColumnBack ==
  ASSUME NEW s \in Screen, column(s) >= - (FB_WIDTH * FB_HEIGHT)
  PROVE  /\ column(back_space(s)) = column(s) - 1 /\ column(s) \in Int
         /\ back_space(s).fb_col \in 0 .. WORD - 1 /\ back_space(s).fb_col # FB_WIDTH
<1>1. PICK col \in 0 .. WORD - 1 : col = s.fb_col
  BY DEF Screen
<1>2. back_space(s).fb_col = (col - 1) % WORD
  BY <1>1, BackSpaceKeeps
<1> DEFINE n == FB_WIDTH * FB_HEIGHT
<1>3. n \in Nat /\ 4 * n < WORD /\ WORD \in Nat /\ FB_WIDTH \in Nat /\ FB_WIDTH >= 1
      /\ FB_WIDTH <= n
  BY Widths
<1> HIDE DEF n
<1>4. column(s) = IF col <= FB_WIDTH THEN col ELSE col - WORD
  BY <1>1 DEF column
<1>5. col <= FB_WIDTH \/ col >= WORD - n
  BY <1>3, <1>4 DEF n
<1>6. CASE col = 0
  <2>1. col - 1 \in -WORD .. -1 /\ col - 1 \in Int
    BY <1>3, <1>6
  <2>2. (col - 1) % WORD = (col - 1) + WORD
    BY <2>1, WordIs
  <2>3. back_space(s).fb_col = WORD - 1
    BY <1>2, <1>3, <1>6, <2>2
  <2> QED BY <1>3, <1>4, <1>6, <2>3 DEF column
<1>7. CASE col # 0
  <2>1. col - 1 \in 0 .. WORD - 1 /\ col - 1 \in Int
    BY <1>3, <1>7
  <2>2. back_space(s).fb_col = col - 1
    BY <1>2, <2>1, WordIs
  <2> QED BY <1>3, <1>4, <1>5, <1>7, <2>1, <2>2 DEF column
<1> QED BY <1>6, <1>7

-----------------------------------------------------------------------------
(* The screens on which k characters stand before the cursor: erasing      *)
(* k times cannot pass the first cell.  A column of FB_WIDTH, which main   *)
(* can leave when it is interrupted, is that of the row below.             *)
Standing(k) ==
  {s \in Screen :
     /\ ~ s.stray /\ s.fb_row <= LastRow /\ (s.fb_row = LastRow => s.fb_col # FB_WIDTH)
     /\ place(s) >= k /\ (s.fb_col = FB_WIDTH => place(s) >= k + 1)}

LEMMA StandingLess ==
  ASSUME NEW k \in Nat PROVE Standing(k + 1) \subseteq Standing(k)
<1> SUFFICES ASSUME NEW s \in Standing(k + 1) PROVE s \in Standing(k)
  OBVIOUS
<1>1. place(s) \in Int
  <2>1. s \in Screen /\ s.fb_row \in 0 .. LastRow
    BY DEF Standing, Screen
  <2>2. s.fb_row * FB_WIDTH \in Nat
    BY <2>1, RowsFit
  <2>3. column(s) \in Int
    BY <2>1, Widths DEF column, Screen
  <2> QED BY <2>2, <2>3 DEF place
<1>2. place(s) >= k + 1 => place(s) >= k
  BY <1>1
<1>3. place(s) >= (k + 1) + 1 => place(s) >= k + 1
  BY <1>1
<1> QED BY <1>2, <1>3 DEF Standing

LEMMA PutStands ==
  ASSUME NEW k \in Nat, k + 1 <= LastRow * FB_WIDTH, NEW s \in Standing(k), NEW c \in Glyph
  PROVE  Put(s, c) \in Standing(k + 1)
<1> DEFINE t == Put(s, c)
           stays == c # NL /\ RoomBehind(s.fb_col)
<1>1. s \in Screen /\ ~ s.stray
  BY DEF Standing
<1>2. PICK row \in 0 .. LastRow : row = s.fb_row
  BY DEF Standing, Screen
<1>3. PICK col \in 0 .. WORD - 1 : col = s.fb_col
  BY DEF Standing, Screen
<1> DEFINE a == row * FB_WIDTH
           z == LastRow * FB_WIDTH
<1>4. /\ a \in Nat /\ a <= z /\ z \in Nat /\ (row < LastRow => a + FB_WIDTH <= z)
      /\ (row + 1) * FB_WIDTH = a + FB_WIDTH /\ FB_WIDTH \in Nat /\ FB_WIDTH >= 1
      /\ LastRow \in Nat /\ WORD \in Nat /\ row \in Nat /\ row <= LastRow
  BY RowsFit, Widths
<1>5. 0 * FB_WIDTH = 0
  BY <1>4
<1> HIDE DEF a, z
<1>6. place(s) = (IF col <= FB_WIDTH THEN col ELSE col - WORD) + a
  BY <1>2, <1>3 DEF place, column, a
<1>7. place(s) >= k /\ (col = FB_WIDTH => place(s) >= k + 1)
      /\ (row = LastRow => col # FB_WIDTH)
  BY <1>2, <1>3 DEF Standing
<1>8. position(s) \in Cell
  <2>1. place(s) >= 0
    BY <1>4, <1>6, <1>7
  <2> QED BY <1>2, <1>3, <1>7, <2>1, OnScreen
<1>9. /\ t \in Screen /\ ~ t.stray
      /\ t.fb_col = IF stays THEN col + 1 ELSE 0
      /\ t.fb_row = IF stays \/ row = LastRow THEN row ELSE row + 1
  <2>1. /\ t \in Screen /\ t.stray = (s.stray \/ (c # NL /\ position(s) \notin Cell))
        /\ t.fb_col = IF stays THEN s.fb_col + 1 ELSE 0
        /\ t.fb_row = IF stays THEN s.fb_row ELSE NextRow(s)
    BY <1>1, PutKeeps
  <2>2. NextRow(s) = IF row = LastRow THEN row ELSE row + 1
    BY <1>2, <1>4, Widths DEF NextRow, RoomBelow, LastRow
  <2> HIDE DEF t, stays
  <2>3. t.fb_row = IF stays \/ row = LastRow THEN row ELSE row + 1
    BY <1>2, <2>1, <2>2
  <2> QED BY <1>1, <1>3, <1>8, <2>1, <2>3
<1>10. stays => col <= FB_WIDTH - 2
  BY <1>3, <1>4 DEF RoomBehind
<1> HIDE DEF t, stays
<1>11. ASSUME stays PROVE t \in Standing(k + 1)
  <2>1. t.fb_col = col + 1 /\ t.fb_row = row /\ t.fb_col <= FB_WIDTH - 1
    BY <1>4, <1>9, <1>10, <1>11
  <2>2. place(t) = (col + 1) + a
    BY <1>4, <2>1 DEF place, column, a
  <2>3. place(t) >= k + 1
    BY <1>4, <1>6, <1>7, <1>10, <1>11, <2>2
  <2>4. t.fb_col # FB_WIDTH /\ t.fb_row <= LastRow
    BY <1>4, <2>1
  <2> QED BY <1>9, <2>3, <2>4 DEF Standing
<1>12. ASSUME ~ stays /\ row # LastRow PROVE t \in Standing(k + 1)
  <2>1. t.fb_col = 0 /\ t.fb_row = row + 1
    BY <1>9, <1>12
  <2>2. place(t) = a + FB_WIDTH
    BY <1>4, <2>1 DEF place, column, a
  <2>3. place(t) >= k + 1
    BY <1>4, <1>6, <1>7, <2>2
  <2>4. t.fb_col # FB_WIDTH /\ t.fb_row <= LastRow
    BY <1>4, <1>12, <2>1
  <2> QED BY <1>9, <2>3, <2>4 DEF Standing
<1>13. ASSUME ~ stays /\ row = LastRow PROVE t \in Standing(k + 1)
  <2>1. t.fb_col = 0 /\ t.fb_row = LastRow
    BY <1>9, <1>13
  <2>2. place(t) = z
    BY <1>4, <2>1 DEF place, column, z
  <2>3. place(t) >= k + 1
    BY <2>2 DEF z
  <2>4. t.fb_col # FB_WIDTH /\ t.fb_row <= LastRow
    BY <1>4, <2>1
  <2> QED BY <1>9, <2>3, <2>4 DEF Standing
<1> QED BY <1>11, <1>12, <1>13 DEF t

LEMMA BackStands ==
  ASSUME NEW k \in Nat, k > 0, NEW s \in Standing(k)
  PROVE  back_space(s) \in Standing(k - 1)
<1> DEFINE t == back_space(s)
<1>1. s \in Screen /\ ~ s.stray
  BY DEF Standing
<1>2. PICK row \in 0 .. LastRow : row = s.fb_row
  BY DEF Standing, Screen
<1> DEFINE a == row * FB_WIDTH
           n == FB_WIDTH * FB_HEIGHT
<1>3. a \in Nat /\ a <= n /\ n \in Nat
  BY RowsFit, Widths
<1> HIDE DEF a, n
<1>4. place(s) = column(s) + a /\ column(s) \in Int
  BY <1>1, <1>2, Widths DEF place, column, a, Screen
<1>5. place(s) >= k
  BY DEF Standing
<1>6. column(s) >= - n
  BY <1>3, <1>4, <1>5
<1>7. column(t) = column(s) - 1 /\ t.fb_col \in 0 .. WORD - 1 /\ t.fb_col # FB_WIDTH
  BY <1>1, <1>6, ColumnBack DEF n
<1>8. /\ t \in Screen /\ t.stray = (s.stray \/ position(t) \notin Cell)
      /\ t.fb_row = row
  BY <1>1, <1>2, BackSpaceKeeps
<1> HIDE DEF t
<1>9. place(t) = place(s) - 1 /\ place(t) >= k - 1 /\ place(t) >= 0
  <2>1. place(t) = column(t) + a
    BY <1>8 DEF place, a
  <2> QED BY <1>3, <1>4, <1>5, <1>7, <2>1
<1>10. position(t) \in Cell
  BY <1>7, <1>8, <1>9, OnScreen
<1>11. row <= LastRow
  BY RowsFit
<1> QED BY <1>1, <1>7, <1>8, <1>9, <1>10, <1>11 DEF Standing, t

(* A text leaves a screen on which writing and erasing are safe.           *)
LEMMA WriteStands ==
  ASSUME NEW s \in Standing(0), NEW text \in Seq(Glyph) PROVE write(s, text) \in Standing(0)
<1>1. 0 + 1 <= LastRow * FB_WIDTH
  <2>1. LastRow \in 0 .. LastRow
    BY Widths DEF LastRow
  <2> QED BY <2>1, RowsFit
<1>2. ASSUME NEW x \in Standing(0), NEW c \in Glyph PROVE Put(x, c) \in Standing(0)
  <2>1. Put(x, c) \in Standing(0 + 1)
    BY <1>1, PutStands
  <2> QED BY <2>1, StandingLess
<1>3. Closed(Standing(0), Glyph)
  BY <1>2 DEF Closed
<1> QED BY <1>3, WriteInto

-----------------------------------------------------------------------------
(* While main prints, keys may be handled at any of its statements.  The   *)
(* screens from row r on whose column is at most b cells before the first: *)
(* what is written on them stays on the screen while b cells fit above r.  *)
From(r, b) ==
  {s \in Screen :
     /\ ~ s.stray /\ s.fb_row \in r .. LastRow /\ (s.fb_row = LastRow => s.fb_col # FB_WIDTH)
     /\ column(s) >= - b}
Behind(r, b) == {s \in From(r, b) : s.fb_col # FB_WIDTH}

LEMMA CellFrom ==
  ASSUME NEW r \in 0 .. LastRow, NEW b \in Nat, b <= r * FB_WIDTH,
         NEW at, at.fb_col \in 0 .. WORD - 1, at.fb_row \in r .. LastRow,
         at.fb_row = LastRow => at.fb_col # FB_WIDTH, column(at) >= - b
  PROVE  /\ position(at) \in Cell /\ place(at) >= r * FB_WIDTH - b
         /\ (at.fb_col = FB_WIDTH => place(at) >= r * FB_WIDTH + FB_WIDTH)
<1>1. PICK row \in r .. LastRow : row = at.fb_row
  OBVIOUS
<1>2. PICK col \in 0 .. WORD - 1 : col = at.fb_col
  OBVIOUS
<1>3. r \in Nat /\ row \in Nat /\ r <= row /\ FB_WIDTH \in Nat /\ WORD \in Nat /\ row \in 0 .. LastRow
  BY RowsFit, Widths
<1>4. r * FB_WIDTH \in Nat /\ row * FB_WIDTH \in Nat /\ r * FB_WIDTH <= row * FB_WIDTH
  BY <1>3, Z3
<1>5. place(at) = column(at) + row * FB_WIDTH /\ column(at) \in Int
      /\ (at.fb_col = FB_WIDTH => column(at) = FB_WIDTH)
  BY <1>1, <1>2, <1>3 DEF place, column
<1> DEFINE a == row * FB_WIDTH
           d == r * FB_WIDTH
<1>6. a \in Nat /\ d \in Nat /\ d <= a /\ b <= d /\ place(at) = column(at) + a
  BY <1>4, <1>5
<1> HIDE DEF a, d
<1>7. place(at) >= d - b /\ place(at) >= 0 /\ (at.fb_col = FB_WIDTH => place(at) >= d + FB_WIDTH)
  BY <1>3, <1>5, <1>6
<1>8. position(at) \in Cell
  BY <1>1, <1>3, <1>7, OnScreen
<1> QED BY <1>7, <1>8 DEF d

LEMMA PutFrom ==
  ASSUME NEW r \in 0 .. LastRow, NEW b \in Nat, b <= r * FB_WIDTH,
         NEW s \in From(r, b), NEW c \in Glyph
  PROVE  Put(s, c) \in Behind(r, b)
<1> DEFINE t == Put(s, c)
<1>1. /\ s \in Screen /\ ~ s.stray /\ s.fb_row \in r .. LastRow
      /\ (s.fb_row = LastRow => s.fb_col # FB_WIDTH) /\ column(s) >= - b
  BY DEF From
<1>2. s.fb_col \in 0 .. WORD - 1
  BY <1>1 DEF Screen
<1>3. position(s) \in Cell
  BY <1>1, <1>2, CellFrom
<1>4. /\ t \in Screen /\ ~ t.stray
      /\ t.fb_col = 0 \/ (t.fb_col = s.fb_col + 1 /\ RoomBehind(s.fb_col))
      /\ t.fb_row = s.fb_row \/ (t.fb_row = s.fb_row + 1 /\ RoomBelow(s.fb_row))
  BY <1>1, <1>3, PutKeeps DEF NextRow
<1> HIDE DEF t
<1>5. FB_WIDTH \in Nat /\ FB_WIDTH > 0 /\ FB_HEIGHT \in Nat /\ WORD \in Nat /\ r \in Nat
  BY Widths, RowsFit
<1>6. t.fb_col \in 0 .. FB_WIDTH - 1
  BY <1>2, <1>4, <1>5 DEF RoomBehind
<1>7. t.fb_row \in r .. LastRow
  BY <1>1, <1>4, <1>5 DEF RoomBelow, LastRow
<1>8. column(t) >= - b /\ t.fb_col # FB_WIDTH
  BY <1>5, <1>6 DEF column
<1> QED BY <1>4, <1>7, <1>8 DEF From, Behind, t

LEMMA WriteFrom ==
  ASSUME NEW r \in 0 .. LastRow, NEW b \in Nat, b <= r * FB_WIDTH,
         NEW s \in From(r, b), NEW text \in Seq(Glyph)
  PROVE  /\ write(s, text) \in From(r, b)
         /\ s.fb_col # FB_WIDTH => write(s, text).fb_col # FB_WIDTH
<1>1. Closed(From(r, b), Glyph) /\ Closed(Behind(r, b), Glyph)
  BY PutFrom DEF Closed, Behind
<1>2. write(s, text) \in From(r, b)
  BY <1>1, WriteInto
<1>3. ASSUME s.fb_col # FB_WIDTH PROVE write(s, text) \in Behind(r, b)
  <2>1. s \in Behind(r, b)
    BY <1>3 DEF Behind
  <2> QED BY <1>1, <2>1, WriteInto
<1> QED BY <1>2, <1>3 DEF Behind

LEMMA BackFrom ==
  ASSUME NEW r \in 0 .. LastRow, NEW b \in Nat, b + 1 <= r * FB_WIDTH, NEW s \in From(r, b)
  PROVE  back_space(s) \in Behind(r, b + 1)
<1> DEFINE t == back_space(s)
<1>1. /\ s \in Screen /\ ~ s.stray /\ s.fb_row \in r .. LastRow /\ column(s) >= - b
  BY DEF From
<1>2. r * FB_WIDTH \in Nat /\ r * FB_WIDTH <= FB_WIDTH * FB_HEIGHT
  BY RowsFit, Widths
<1>3. column(s) >= - (FB_WIDTH * FB_HEIGHT)
  <2>1. column(s) \in Int
    BY <1>1, Widths DEF column, Screen
  <2> QED BY <1>1, <1>2, <2>1, Widths
<1>4. /\ column(t) = column(s) - 1 /\ column(s) \in Int
      /\ t.fb_col \in 0 .. WORD - 1 /\ t.fb_col # FB_WIDTH
  BY <1>1, <1>3, ColumnBack
<1>5. t \in Screen /\ t.stray = (s.stray \/ position(t) \notin Cell) /\ t.fb_row = s.fb_row
  BY <1>1, BackSpaceKeeps
<1> HIDE DEF t
<1>6. column(t) >= - (b + 1) /\ b + 1 \in Nat
  BY <1>1, <1>4
<1>7. position(t) \in Cell
  BY <1>1, <1>4, <1>5, <1>6, CellFrom
<1> QED BY <1>1, <1>4, <1>5, <1>6, <1>7 DEF From, Behind, t

LEMMA StandsOnNone ==
  ASSUME NEW k \in Nat PROVE Standing(k) \subseteq Standing(0)
<1> DEFINE I == {n \in 0 .. k : Standing(n) \subseteq Standing(0)}
<1>1. 0 \in I
  OBVIOUS
<1>2. ASSUME NEW n \in 0 .. k - 1, n \in I PROVE n + 1 \in I
  BY <1>2, StandingLess
<1> HIDE DEF I
<1>3. \A n \in 0 .. k : n \in I
  BY <1>1, <1>2, UpTo
<1>4. k \in I
  BY <1>3
<1> QED BY <1>4 DEF I

(* Writing never goes back to a row above.                                 *)
LEMMA NotAbove ==
  ASSUME NEW s \in Screen
  PROVE  /\ \A c \in Glyph : Put(s, c).fb_row >= s.fb_row
         /\ \A text \in Seq(Glyph) : write(s, text) \in Screen /\ write(s, text).fb_row >= s.fb_row
<1> DEFINE Below == {t \in Screen : t.fb_row >= s.fb_row}
<1>1. s.fb_row \in Nat
  BY Widths DEF Screen
<1>2. ASSUME NEW t \in Screen, NEW c \in Glyph PROVE Put(t, c) \in Screen /\ Put(t, c).fb_row >= t.fb_row
  <2>1. t.fb_row \in Nat
    BY Widths DEF Screen
  <2>2. NextRow(t) >= t.fb_row
    BY <2>1 DEF NextRow
  <2> QED BY <2>1, <2>2, PutKeeps
<1>3. ASSUME NEW t \in Below, NEW c \in Glyph PROVE Put(t, c) \in Below
  <2>1. t.fb_row \in Nat /\ Put(t, c).fb_row \in Nat /\ t \in Screen /\ Put(t, c) \in Screen
    <3>1. t \in Screen /\ Put(t, c) \in Screen
      BY <1>2
    <3>2. \A x \in Screen : x.fb_row \in Nat
      BY Widths DEF Screen
    <3> QED BY <3>1, <3>2
  <2>2. Put(t, c).fb_row >= t.fb_row
    BY <1>2, <2>1
  <2> QED BY <1>1, <2>1, <2>2
<1>4. s \in Below
  BY <1>1
<1> HIDE DEF Below
<1>5. Closed(Below, Glyph)
  BY <1>3 DEF Closed
<1>6. \A text \in Seq(Glyph) : write(s, text) \in Below
  BY <1>4, <1>5, WriteInto
<1> QED BY <1>2, <1>6 DEF Below

LEMMA FromMore ==
  ASSUME NEW r, NEW b \in Nat, NEW e \in Nat, b <= e
  PROVE  From(r, b) \subseteq From(r, e)
<1> SUFFICES ASSUME NEW s \in From(r, b) PROVE s \in From(r, e)
  OBVIOUS
<1>1. column(s) \in Int
  BY Widths DEF From, Screen, column
<1> QED BY <1>1 DEF From
-----------------------------------------------------------------------------
(* The cells that the operators leave.  Rolled: the rows have moved up by  *)
(* one, and the last is blank.  Marked: the character has been written.    *)
Rolled(f, g) ==
  \A i \in 1 .. FB_WIDTH * FB_HEIGHT :
    g[i] = IF i <= FB_WIDTH * (FB_HEIGHT - 1) THEN f[i + FB_WIDTH] ELSE Blank
Marked(s, c) == IF c = NL THEN s.fb ELSE [s.fb EXCEPT ![position(s) + 1] = c]

LEMMA NewlineCells ==
  ASSUME NEW s \in Screen
  PROVE  IF RoomBelow(s.fb_row) THEN newline(s).fb = s.fb ELSE Rolled(s.fb, newline(s).fb)
<1> DEFINE down == IF RoomBelow(s.fb_row) THEN [s EXCEPT !.fb_row = (s.fb_row + 1) % WORD]
                                          ELSE scroll_down(s)
           first == FirstColumn(down)
<1>1. /\ down \in Screen
      /\ IF RoomBelow(s.fb_row) THEN down.fb = s.fb ELSE Rolled(s.fb, down.fb)
  <2>1. CASE RoomBelow(s.fb_row)
    <3>1. (s.fb_row + 1) % WORD \in 0 .. WORD - 1
      <4>1. s.fb_row + 1 \in Int
        BY Widths DEF Screen
      <4> QED BY <4>1, WordIs
    <3> QED BY <2>1, <3>1, SetRow
  <2>2. CASE ~ RoomBelow(s.fb_row)
    BY <2>2, ScrollKeeps DEF Rolled
  <2> QED BY <2>1, <2>2
<1>2. newline(s) = move_cursor(first)
  BY DEF newline, Screen
<1> HIDE DEF down
<1>3. first \in Screen /\ first.fb = down.fb
  <2>1. 0 \in 0 .. WORD - 1
    BY Widths
  <2> QED BY <1>1, <2>1, SetColumn DEF FirstColumn
<1> HIDE DEF first
<1>4. newline(s).fb = first.fb
  BY <1>2, <1>3, MoveCursorKeeps
<1> QED BY <1>1, <1>3, <1>4

LEMMA AdvanceCells ==
  ASSUME NEW s \in Screen
  PROVE  IF RoomBehind(s.fb_col) \/ RoomBelow(s.fb_row)
           THEN advance_pos(s).fb = s.fb ELSE Rolled(s.fb, advance_pos(s).fb)
<1>1. CASE RoomBehind(s.fb_col)
  <2> DEFINE next == [s EXCEPT !.fb_col = (s.fb_col + 1) % WORD]
  <2>1. (s.fb_col + 1) % WORD \in 0 .. WORD - 1
    <3>1. s.fb_col + 1 \in Int
      BY Widths DEF Screen
    <3> QED BY <3>1, WordIs
  <2>2. next \in Screen /\ next.fb = s.fb
    BY <2>1, SetColumn
  <2>3. advance_pos(s) = move_cursor(next)
    BY <1>1 DEF advance_pos, Screen
  <2> HIDE DEF next
  <2>4. advance_pos(s).fb = s.fb
    BY <2>2, <2>3, MoveCursorKeeps
  <2> QED BY <1>1, <2>4
<1>2. CASE ~ RoomBehind(s.fb_col)
  <2>1. advance_pos(s) = move_cursor(newline(s)) /\ newline(s) \in Screen
    BY <1>2, NewlineKeeps DEF advance_pos
  <2>2. advance_pos(s).fb = newline(s).fb
    BY <2>1, MoveCursorKeeps
  <2> QED BY <1>2, <2>2, NewlineCells
<1> QED BY <1>1, <1>2

LEMMA PutCells ==
  ASSUME NEW s \in Screen, NEW c \in Glyph, position(s) \in Cell
  PROVE  IF (c # NL /\ RoomBehind(s.fb_col)) \/ RoomBelow(s.fb_row)
           THEN Put(s, c).fb = Marked(s, c) ELSE Rolled(Marked(s, c), Put(s, c).fb)
<1>1. CASE c = NL
  BY <1>1, NewlineCells DEF Put, Marked
<1>2. CASE c # NL
  <2> DEFINE x == write_cell(s, position(s), c)
  <2>1. Put(s, c) = advance_pos(x)
    BY <1>2 DEF Put
  <2>2. /\ x \in Screen /\ x.fb_col = s.fb_col /\ x.fb_row = s.fb_row
        /\ x.fb = [s.fb EXCEPT ![position(s) + 1] = c]
    BY PositionType, WriteCellKeeps
  <2> HIDE DEF x
  <2>3. x.fb = Marked(s, c)
    BY <1>2, <2>2 DEF Marked
  <2> QED BY <1>2, <2>1, <2>2, <2>3, AdvanceCells
<1> QED BY <1>1, <1>2

LEMMA BackSpaceCells ==
  ASSUME NEW s \in Screen, position(back_space(s)) \in Cell
  PROVE  back_space(s).fb = [s.fb EXCEPT ![position(back_space(s)) + 1] = Blank]
<1> DEFINE t == back_space(s)
           back == StepBack(s)
           x == write_cell(back, position(back), Blank)
<1>1. (s.fb_col - 1) % WORD \in 0 .. WORD - 1
  <2>1. s.fb_col - 1 \in Int
    BY Widths DEF Screen
  <2> QED BY <2>1, WordIs
<1>2. back = [s EXCEPT !.fb_col = (s.fb_col - 1) % WORD]
  BY DEF StepBack, Screen
<1>3. t = move_cursor(x)
  BY DEF back_space
<1> HIDE DEF t, back
<1>4. back \in Screen /\ back.fb = s.fb
  BY <1>1, <1>2, SetColumn
<1>5. /\ x \in Screen /\ x.fb_col = back.fb_col /\ x.fb_row = back.fb_row
      /\ position(back) \in Cell => x.fb = [back.fb EXCEPT ![position(back) + 1] = Blank]
  <2>1. Blank \in Glyph
    BY DEF Glyph
  <2> QED BY <1>4, <2>1, PositionType, WriteCellKeeps
<1> HIDE DEF x
<1>6. t.fb_col = back.fb_col /\ t.fb_row = back.fb_row /\ t.fb = x.fb
  BY <1>3, <1>5, MoveCursorKeeps
<1>7. position(t) = position(back)
  BY <1>6 DEF position
<1>8. position(t) \in Cell
  BY DEF t
<1> QED BY <1>4, <1>5, <1>6, <1>7, <1>8 DEF t

(* Writing goes on behind the character: in the next cell, unless it was   *)
(* a newline or the column has been decremented below 0; or, when the      *)
(* screen has scrolled, at the beginning of the last row.                  *)
LEMMA PutGoes ==
  ASSUME NEW s \in Standing(0), s.fb_col # FB_WIDTH, NEW c \in Glyph
  PROVE  LET t == Put(s, c)
             n == FB_WIDTH * FB_HEIGHT IN
         /\ s \in Screen /\ place(s) = position(s) /\ place(s) \in Cell
         /\ t \in Standing(0) /\ t.fb_col \in 0 .. FB_WIDTH - 1 /\ place(t) \in Cell
         /\ \/ /\ place(t) > place(s) /\ t.fb = Marked(s, c)
               /\ c # NL /\ s.fb_col < FB_WIDTH => place(t) = place(s) + 1
            \/ /\ place(t) = n - FB_WIDTH /\ Rolled(Marked(s, c), t.fb)
               /\ c # NL /\ s.fb_col < FB_WIDTH => place(s) = n - 1
<1> DEFINE t == Put(s, c)
           n == FB_WIDTH * FB_HEIGHT
           stays == c # NL /\ RoomBehind(s.fb_col)
<1>1. s \in Screen /\ place(s) >= 0
  BY DEF Standing
<1>2. PICK row \in 0 .. LastRow : row = s.fb_row
  BY DEF Standing, Screen
<1>3. PICK col \in 0 .. WORD - 1 : col = s.fb_col
  BY DEF Standing, Screen
<1> DEFINE a == row * FB_WIDTH
           z == LastRow * FB_WIDTH
<1>4. /\ a \in Nat /\ a <= z /\ z \in Nat /\ (row < LastRow => a + FB_WIDTH <= z)
      /\ (row + 1) * FB_WIDTH = a + FB_WIDTH /\ FB_WIDTH \in Nat /\ FB_WIDTH >= 1
      /\ LastRow \in Nat /\ WORD \in Nat /\ row \in Nat /\ row <= LastRow /\ z + FB_WIDTH = n
  BY RowsFit, Widths
<1>5. position(s) = place(s) /\ position(s) \in Cell
  BY <1>1, <1>2, <1>3, OnScreen
<1>6. t \in Standing(0)
  <2>1. 0 + 1 <= LastRow * FB_WIDTH
    BY <1>2, RowsFit
  <2>2. t \in Standing(0 + 1)
    BY <2>1, PutStands
  <2> QED BY <2>2, StandingLess
<1>7. /\ t.fb_col = IF stays THEN col + 1 ELSE 0
      /\ t.fb_row = IF stays \/ row = LastRow THEN row ELSE row + 1
  <2>1. /\ t.fb_col = IF stays THEN s.fb_col + 1 ELSE 0
        /\ t.fb_row = IF stays THEN s.fb_row ELSE NextRow(s)
    BY <1>1, PutKeeps
  <2>2. NextRow(s) = IF row = LastRow THEN row ELSE row + 1
    BY <1>2, <1>4, Widths DEF NextRow, RoomBelow, LastRow
  <2> HIDE DEF t, stays
  <2>3. t.fb_row = IF stays \/ row = LastRow THEN row ELSE row + 1
    BY <1>2, <2>1, <2>2
  <2> QED BY <1>3, <2>1, <2>3
<1>8. RoomBelow(s.fb_row) <=> row # LastRow
  BY <1>2, <1>4, Widths DEF RoomBelow, LastRow
<1>9. IF stays \/ row # LastRow THEN t.fb = Marked(s, c) ELSE Rolled(Marked(s, c), t.fb)
  BY <1>1, <1>5, <1>8, PutCells
<1>10. place(s) = (IF col <= FB_WIDTH THEN col ELSE col - WORD) + a
  BY <1>2, <1>3 DEF place, column, a
<1>11. RoomBehind(s.fb_col) <=> col < FB_WIDTH - 1
  BY <1>3 DEF RoomBehind
<1>12. col # FB_WIDTH
  BY <1>3
<1> HIDE DEF a, z, t, n
<1>13. t.fb_col \in 0 .. FB_WIDTH - 1
  BY <1>4, <1>7, <1>11
<1>14. place(t) = t.fb_col + t.fb_row * FB_WIDTH
  BY <1>4, <1>13 DEF place, column
<1>15. CASE stays
  <2>1. place(t) = place(s) + 1 /\ place(t) > place(s)
    <3>1. t.fb_row * FB_WIDTH = a /\ t.fb_col = col + 1
      BY <1>7, <1>15 DEF a
    <3> QED BY <1>4, <1>10, <1>11, <1>14, <1>15, <3>1
  <2>2. t.fb = Marked(s, c)
    BY <1>9, <1>15
  <2>3. place(t) \in Cell
    BY <1>4, <1>10, <1>11, <1>15, <1>5, <2>1 DEF Cell, n
  <2> QED BY <1>1, <1>5, <1>6, <1>13, <2>1, <2>2, <2>3 DEF t
<1>16. CASE ~ stays /\ row # LastRow
  <2>1. place(t) = a + FB_WIDTH
    <3>1. t.fb_row = row + 1 /\ t.fb_col = 0
      BY <1>7, <1>16
    <3> QED BY <1>4, <1>14, <3>1
  <2>2. place(t) > place(s) /\ place(t) \in 0 .. n - 1
    BY <1>4, <1>10, <1>12, <1>16, <1>3, <2>1
  <2>3. c # NL /\ s.fb_col < FB_WIDTH => place(t) = place(s) + 1
    BY <1>4, <1>3, <1>10, <1>11, <1>16, <2>1
  <2>4. t.fb = Marked(s, c)
    BY <1>9, <1>16
  <2> QED BY <1>1, <1>5, <1>6, <1>13, <2>2, <2>3, <2>4 DEF t, Cell, n
<1>17. CASE ~ stays /\ row = LastRow
  <2>1. place(t) = z
    <3>1. t.fb_row = LastRow /\ t.fb_col = 0
      BY <1>7, <1>17
    <3> QED BY <1>4, <1>14, <3>1 DEF z
  <2>2. place(t) = n - FB_WIDTH /\ place(t) \in 0 .. n - 1
    BY <1>4, <2>1
  <2>3. c # NL /\ s.fb_col < FB_WIDTH => place(s) = n - 1
    <3>1. a = z
      BY <1>17 DEF a, z
    <3> QED BY <1>4, <1>3, <1>10, <1>11, <1>17, <3>1
  <2>4. Rolled(Marked(s, c), t.fb)
    BY <1>9, <1>17
  <2> QED BY <1>1, <1>5, <1>6, <1>13, <2>2, <2>3, <2>4 DEF t, Cell, n
<1> QED BY <1>15, <1>16, <1>17
(* The last n cells before the place at which writing goes on show the     *)
(* first n characters of t, as far as they are still on the screen.        *)
Seen(s, t, n) ==
  \A k \in 1 .. n : (place(s) - n) + k > 0 => s.fb[(place(s) - n) + k] = t[k]

LEMMA PutSeen ==
  ASSUME NEW s \in Standing(0), s.fb_col < FB_WIDTH, NEW c \in Glyph, c # NL,
         NEW n \in Nat, NEW t, NEW u, Seen(s, t, n), \A k \in 1 .. n : u[k] = t[k], u[n + 1] = c
  PROVE  Seen(Put(s, c), u, n + 1)
<1> DEFINE x == Put(s, c)
           m == FB_WIDTH * FB_HEIGHT
           f == Marked(s, c)
<1>1. s.fb_col # FB_WIDTH /\ FB_WIDTH \in Nat /\ FB_WIDTH > 0 /\ m \in Nat /\ FB_WIDTH <= m
      /\ FB_WIDTH * (FB_HEIGHT - 1) = m - FB_WIDTH /\ Memory = 2 * m
  BY Widths DEF Standing, Screen
<1>2. PICK p \in 0 .. m - 1 : p = place(s)
  BY <1>1, PutGoes DEF Cell
<1>3. s.fb \in [1 .. Memory -> Glyph] /\ f = [s.fb EXCEPT ![p + 1] = c]
  BY <1>1, <1>2, PutGoes DEF Screen, Marked
<1>4. \/ place(x) = p + 1 /\ x.fb = f
      \/ place(x) = m - FB_WIDTH /\ Rolled(f, x.fb) /\ p = m - 1
  BY <1>1, <1>2, PutGoes
<1> HIDE DEF x, m, f
<1>5. f[p + 1] = c /\ \A i \in 1 .. m : i # p + 1 => f[i] = s.fb[i]
  BY <1>1, <1>2, <1>3
(* Before it is rolled, the screen shows one character more.               *)
<1>6. ASSUME NEW k \in 1 .. n + 1, (p - n) + k > 0 PROVE f[(p - n) + k] = u[k]
  <2>1. CASE k = n + 1
    <3>1. (p - n) + k = p + 1
      BY <1>2, <2>1
    <3> QED BY <1>5, <2>1, <3>1
  <2>2. CASE k # n + 1
    <3>1. k \in 1 .. n /\ (p - n) + k \in 1 .. m /\ (p - n) + k # p + 1
      BY <1>1, <1>2, <1>6, <2>2
    <3>2. s.fb[(p - n) + k] = t[k]
      BY <1>2, <1>6, <3>1 DEF Seen
    <3> QED BY <1>5, <3>1, <3>2
  <2> QED BY <2>1, <2>2
<1> SUFFICES ASSUME NEW k \in 1 .. n + 1, (place(x) - (n + 1)) + k > 0
             PROVE  x.fb[(place(x) - (n + 1)) + k] = u[k]
  BY DEF Seen, x
<1>7. CASE place(x) = p + 1 /\ x.fb = f
  <2>1. (place(x) - (n + 1)) + k = (p - n) + k
    BY <1>2, <1>7
  <2> QED BY <1>6, <1>7, <2>1
<1>8. CASE place(x) = m - FB_WIDTH /\ Rolled(f, x.fb) /\ p = m - 1
  <2> DEFINE i == (place(x) - (n + 1)) + k
  <2>1. i \in 1 .. m /\ i <= m - FB_WIDTH /\ i + FB_WIDTH = (p - n) + k
    BY <1>1, <1>8
  <2> HIDE DEF i
  <2>2. x.fb[i] = f[i + FB_WIDTH]
    BY <1>1, <1>8, <2>1 DEF Rolled, m
  <2>3. (p - n) + k > 0
    BY <1>1, <2>1
  <2> QED BY <1>6, <2>1, <2>2, <2>3 DEF i
<1> QED BY <1>4, <1>7, <1>8

LEMMA BackGoes ==
  ASSUME NEW k \in Nat, k > 0, NEW s \in Standing(k)
  PROVE  LET t == back_space(s) IN
         /\ t \in Standing(0) /\ t.fb_col # FB_WIDTH /\ s.fb \in [1 .. Memory -> Glyph]
         /\ place(t) \in Cell /\ place(t) = place(s) - 1 /\ place(s) \in Int
         /\ t.fb = [s.fb EXCEPT ![place(t) + 1] = Blank]
<1> DEFINE t == back_space(s)
           n == FB_WIDTH * FB_HEIGHT
<1>1. s \in Screen /\ place(s) >= k
  BY DEF Standing
<1>2. PICK row \in 0 .. LastRow : row = s.fb_row
  BY DEF Standing, Screen
<1> DEFINE a == row * FB_WIDTH
<1>3. a \in Nat /\ a <= n /\ n \in Nat /\ LastRow \in Nat
  BY RowsFit, Widths
<1> HIDE DEF a, n
<1>4. place(s) = column(s) + a /\ column(s) \in Int
  BY <1>1, <1>2, Widths DEF place, column, a, Screen
<1>5. column(s) >= - n
  BY <1>1, <1>3, <1>4
<1>6. column(t) = column(s) - 1 /\ t.fb_col \in 0 .. WORD - 1 /\ t.fb_col # FB_WIDTH
  BY <1>1, <1>5, ColumnBack DEF n
<1>7. t \in Standing(k - 1) /\ t.fb_row = row
  BY <1>1, <1>2, BackStands, BackSpaceKeeps
<1>8. t \in Standing(0)
  <2>1. k - 1 \in Nat
    OBVIOUS
  <2> QED BY <1>7, <2>1, StandsOnNone
<1> HIDE DEF t
<1>9. place(t) = place(s) - 1 /\ place(t) >= 0
  <2>1. place(t) = column(t) + a
    BY <1>7 DEF place, a
  <2> QED BY <1>1, <1>3, <1>4, <1>6, <2>1
<1>10. position(t) = place(t) /\ position(t) \in Cell
  BY <1>6, <1>7, <1>9, OnScreen
<1>11. t.fb = [s.fb EXCEPT ![position(t) + 1] = Blank]
  BY <1>1, <1>10, BackSpaceCells DEF t
<1>12. s.fb \in [1 .. Memory -> Glyph] /\ place(s) \in Int
  BY <1>1, <1>3, <1>4 DEF Screen
<1> QED BY <1>6, <1>8, <1>9, <1>10, <1>11, <1>12 DEF t

LEMMA BackSeen ==
  ASSUME NEW k \in Nat, k > 0, NEW s \in Standing(k),
         NEW n \in Nat, NEW t, NEW u, Seen(s, t, n + 1), \A i \in 1 .. n : u[i] = t[i]
  PROVE  Seen(back_space(s), u, n)
<1> DEFINE x == back_space(s)
<1>1. /\ place(x) \in Cell /\ place(x) = place(s) - 1 /\ place(s) \in Int
      /\ x.fb = [s.fb EXCEPT ![place(x) + 1] = Blank] /\ s.fb \in [1 .. Memory -> Glyph]
  BY BackGoes
<1> HIDE DEF x
<1> SUFFICES ASSUME NEW i \in 1 .. n, (place(x) - n) + i > 0
             PROVE  x.fb[(place(x) - n) + i] = u[i]
  BY DEF Seen, x
<1>2. (place(x) - n) + i = (place(s) - (n + 1)) + i /\ i \in 1 .. n + 1
  BY <1>1
<1>3. s.fb[(place(s) - (n + 1)) + i] = t[i]
  BY <1>2 DEF Seen
<1>4. (place(x) - n) + i \in 1 .. Memory /\ (place(x) - n) + i # place(x) + 1
  BY <1>1, Widths DEF Cell
<1> QED BY <1>1, <1>2, <1>3, <1>4

(* The screens with nothing behind the cursor: no key leads out of them.   *)
Clean ==
  {s \in Standing(0) :
     s.fb_col # FB_WIDTH /\ \A i \in Cell : i >= place(s) => s.fb[i + 1] = Blank}

LEMMA PutClean ==
  ASSUME NEW s \in Clean, NEW c \in Glyph PROVE Put(s, c) \in Clean
<1> DEFINE t == Put(s, c)
           n == FB_WIDTH * FB_HEIGHT
           f == Marked(s, c)
<1>1. s \in Standing(0) /\ s.fb_col # FB_WIDTH
      /\ \A i \in Cell : i >= place(s) => s.fb[i + 1] = Blank
  BY DEF Clean
<1>2. /\ s \in Screen /\ place(s) = position(s) /\ place(s) \in Cell
      /\ t \in Standing(0) /\ t.fb_col \in 0 .. FB_WIDTH - 1 /\ place(t) \in Cell
      /\ \/ place(t) > place(s) /\ t.fb = f
         \/ place(t) = n - FB_WIDTH /\ Rolled(f, t.fb)
  BY <1>1, PutGoes
<1>3. n \in Nat /\ Memory = 2 * n /\ FB_WIDTH \in Nat /\ FB_WIDTH * (FB_HEIGHT - 1) = n - FB_WIDTH
  BY Widths
<1> HIDE DEF t, n, f
<1>4. t.fb_col # FB_WIDTH
  BY <1>2, <1>3
<1>5. ASSUME NEW i \in Cell, i >= place(t) PROVE t.fb[i + 1] = Blank
  <2>0. i \in Nat /\ i + 1 \in 1 .. n /\ i + 1 \in 1 .. Memory
    BY <1>3 DEF Cell, n
  <2>1. CASE place(t) > place(s) /\ t.fb = f
    <3>1. i > place(s) /\ i >= place(s) /\ i + 1 # place(s) + 1
      BY <1>2, <1>5, <2>1 DEF Cell
    <3>2. f[i + 1] = s.fb[i + 1]
      BY <1>2, <2>0, <3>1 DEF f, Marked, Screen
    <3> QED BY <1>1, <2>1, <3>1, <3>2
  <2>2. CASE place(t) = n - FB_WIDTH /\ Rolled(f, t.fb)
    <3>1. ~ (i + 1 <= n - FB_WIDTH)
      BY <1>3, <1>5, <2>0, <2>2
    <3> QED BY <1>3, <2>0, <2>2, <3>1 DEF Rolled, n
  <2> QED BY <1>2, <2>1, <2>2
<1> QED BY <1>2, <1>4, <1>5 DEF Clean, t

LEMMA WriteClean ==
  ASSUME NEW s \in Clean, NEW text \in Seq(Glyph) PROVE write(s, text) \in Clean
<1>1. Closed(Clean, Glyph)
  BY PutClean DEF Closed
<1> QED BY <1>1, WriteInto

LEMMA BackClean ==
  ASSUME NEW k \in Nat, k > 0, NEW s \in Standing(k), s \in Clean
  PROVE  back_space(s) \in Clean
<1> DEFINE t == back_space(s)
<1>1. /\ t \in Standing(0) /\ t.fb_col # FB_WIDTH /\ s.fb \in [1 .. Memory -> Glyph]
      /\ place(t) \in Cell /\ place(t) = place(s) - 1 /\ place(s) \in Int
      /\ t.fb = [s.fb EXCEPT ![place(t) + 1] = Blank]
  BY BackGoes
<1> HIDE DEF t
<1>2. ASSUME NEW i \in Cell, i >= place(t) PROVE t.fb[i + 1] = Blank
  <2>1. i \in Int /\ i + 1 \in 1 .. Memory
    BY Widths DEF Cell
  <2>2. CASE i = place(t)
    BY <1>1, <2>1, <2>2
  <2>3. CASE i # place(t)
    <3>1. i >= place(s) /\ i + 1 # place(t) + 1
      BY <1>1, <1>2, <2>1, <2>3 DEF Cell
    <3> QED BY <1>1, <2>1, <3>1 DEF Clean
  <2> QED BY <2>2, <2>3
<1> QED BY <1>1, <1>2 DEF Clean, t

(* Whatever stood on the screen, the prompt is seen when it is out: it     *)
(* begins on a line of its own, and no newline breaks it.                  *)
LEMMA PromptGoes ==
  ASSUME NEW h, h[0] \in Standing(0),
         \A k \in 1 .. Len(PROMPT) : h[k] = Put(h[k - 1], PROMPT[k])
  PROVE  h[Len(PROMPT)] \in Standing(0) /\ h[Len(PROMPT)].fb_col \in 0 .. FB_WIDTH - 1
         /\ Seen(h[Len(PROMPT)], Tail(PROMPT), Len(PROMPT) - 1)
<1> DEFINE n == Len(PROMPT)
           t == Tail(PROMPT)
<1>1. PROMPT \in Seq(STRING) /\ PROMPT # <<>>
      /\ \A k \in 1 .. Len(PROMPT) : (PROMPT[k] = NL <=> k = 1)
  BY ConsoleAssumption
<1>2. n \in Nat /\ n > 0
  BY <1>1
<1>3. \A k \in 1 .. n - 1 : t[k] = PROMPT[k + 1]
  BY <1>1, TailOf
<1>4. \A k \in 1 .. n : PROMPT[k] \in Glyph /\ (PROMPT[k] = NL <=> k = 1)
  <2>1. \A k \in 1 .. n : PROMPT[k] \in STRING
    BY <1>1, ElementOfSeq
  <2> QED BY <1>1, <2>1 DEF Glyph
<1>5. \A k \in 1 .. n : h[k] = Put(h[k - 1], PROMPT[k])
  OBVIOUS
<1> HIDE DEF n, t
<1> DEFINE Good(k) == /\ h[k + 1] \in Standing(0) /\ h[k + 1].fb_col \in 0 .. FB_WIDTH - 1
                      /\ Seen(h[k + 1], t, k)
           I == {k \in 0 .. n - 1 : Good(k)}
<1>6. 0 \in I
  <2>1. 1 \in 1 .. n /\ 1 - 1 = 0 /\ 0 + 1 = 1
    BY <1>2
  <2>2. h[1] = Put(h[0], PROMPT[1]) /\ PROMPT[1] = NL /\ PROMPT[1] \in Glyph
    BY <1>4, <1>5, <2>1
  <2>3. h[0] \in Screen
    BY DEF Standing
  <2>4. h[1].fb_col = 0
    BY <2>2, <2>3, PutKeeps
  <2>5. h[1] \in Standing(0)
    <3>1. 0 + 1 <= LastRow * FB_WIDTH
      <4>1. LastRow \in 0 .. LastRow
        BY Widths DEF LastRow
      <4> QED BY <4>1, RowsFit
    <3>2. h[1] \in Standing(0 + 1)
      BY <2>2, <3>1, PutStands
    <3> QED BY <3>2, StandingLess
  <2>6. Seen(h[1], t, 0)
    BY DEF Seen
  <2>7. 0 \in 0 .. FB_WIDTH - 1 /\ 0 \in 0 .. n - 1
    BY <1>2, Widths
  <2> QED BY <2>1, <2>4, <2>5, <2>6, <2>7
<1>7. ASSUME NEW k \in 0 .. (n - 1) - 1, k \in I PROVE k + 1 \in I
  <2> DEFINE s == h[k + 1]
             c == PROMPT[k + 2]
  <2>1. k + 2 \in 1 .. n /\ (k + 2) - 1 = k + 1 /\ (k + 1) + 1 = k + 2 /\ k + 2 # 1
        /\ k \in Nat /\ k + 1 \in 1 .. n - 1 /\ k + 1 \in 0 .. n - 1
    BY <1>2
  <2>2. h[k + 2] = Put(s, c) /\ c # NL /\ c \in Glyph
    BY <1>4, <1>5, <2>1
  <2>3. s \in Standing(0) /\ s.fb_col \in 0 .. FB_WIDTH - 1 /\ Seen(s, t, k)
    BY <1>7
  <2>4. t[k + 1] = c
    BY <1>3, <2>1
  <2> HIDE DEF s, c, I
  <2>5. s.fb_col < FB_WIDTH /\ s.fb_col # FB_WIDTH
    BY <2>3, Widths
  <2>6. Put(s, c) \in Standing(0) /\ Put(s, c).fb_col \in 0 .. FB_WIDTH - 1
    BY <2>2, <2>3, <2>5, PutGoes
  <2>7. Seen(Put(s, c), t, k + 1)
    BY <2>1, <2>2, <2>3, <2>4, <2>5, PutSeen
  <2>8. Good(k + 1)
    BY <2>1, <2>2, <2>6, <2>7
  <2> QED BY <2>1, <2>8 DEF I
<1>8. \A k \in 0 .. n - 1 : k \in I
  <2>1. n - 1 \in Nat
    BY <1>2
  <2> HIDE DEF I
  <2> QED BY <1>6, <1>7, <2>1, UpTo
<1>9. n - 1 \in 0 .. n - 1 /\ (n - 1) + 1 = n
  BY <1>2
<1>10. Good(n - 1)
  BY <1>8, <1>9
<1> QED BY <1>9, <1>10 DEF n, t

LEMMA PromptSeen ==
  ASSUME NEW s \in Standing(0)
  PROVE  Seen(init_prompt(s), Tail(PROMPT), Len(PROMPT) - 1)
<1>1. PROMPT \in Seq(Glyph)
  BY ConsoleAssumption DEF Glyph
<1>2. 0 + 1 <= LastRow * FB_WIDTH
  <2>1. LastRow \in 0 .. LastRow
    BY Widths DEF LastRow
  <2> QED BY <2>1, RowsFit
<1>3. ASSUME NEW x \in Standing(0), NEW c \in Glyph PROVE Put(x, c) \in Standing(0)
  <2>1. Put(x, c) \in Standing(0 + 1)
    BY <1>2, PutStands
  <2> QED BY <2>1, StandingLess
<1>4. Closed(Standing(0), Glyph)
  BY <1>3 DEF Closed
<1>5. PICK h \in [0 .. Len(PROMPT) -> Standing(0)] :
             Goes(h, s, PROMPT) /\ write(s, PROMPT) = h[Len(PROMPT)]
  BY <1>1, <1>4, WriteGoes
<1>6. h[0] \in Standing(0) /\ \A k \in 1 .. Len(PROMPT) : h[k] = Put(h[k - 1], PROMPT[k])
  BY <1>5 DEF Goes
<1> QED BY <1>5, <1>6, PromptGoes DEF init_prompt

-----------------------------------------------------------------------------
(* The inductive invariant.  A key with a character waits in the           *)
(* controller only when the line has room for it: the promise the user     *)
(* makes at Press must still hold when the handler runs.                   *)
Buffer == command \in [0 .. CMDSIZE - 1 -> Chars \cup {NUL}] /\ cmd_index \in 0 .. MaxLine
Waiting == obf \in Keys \cup {"none"} /\ (irq => obf # "none")
RoomForKey == obf \in Chars => cmd_index < MaxLine
LineInv == Buffer /\ Waiting /\ RoomForKey /\ CommandTerminated

lineState == <<command, cmd_index, obf, irq>>

LEMMA InitLine == Init => LineInv
<1> SUFFICES ASSUME Init PROVE LineInv
  OBVIOUS
<1> USE KeyboardAssumption
<1>1. Buffer
  BY DEF Init, Buffer, Empty
<1>2. Waiting /\ RoomForKey
  BY DEF Init, Waiting, RoomForKey, Keys
<1>3. CommandTerminated
  BY DEF Init, CommandTerminated, Empty
<1> QED BY <1>1, <1>2, <1>3 DEF LineInv

(* Steps that leave the line and the controller alone.                     *)
LEMMA SameLine ==
  ASSUME LineInv, UNCHANGED lineState PROVE LineInv'
BY DEF LineInv, lineState, Buffer, Waiting, RoomForKey, CommandTerminated

LEMMA PressLine ==
  ASSUME LineInv, NEW k \in Keys, Press(k) PROVE LineInv'
<1> USE KeyboardAssumption
<1>1. UNCHANGED <<command, cmd_index>> /\ obf' = k /\ irq' = TRUE
      /\ (k \in Chars => cmd_index < MaxLine)
  BY DEF Press, lineVars
<1>2. Buffer' /\ CommandTerminated'
  BY <1>1 DEF LineInv, Buffer, CommandTerminated
<1>3. k # "none"
  BY DEF Keys, BACK, ENTER, RELEASE
<1>4. Waiting' /\ RoomForKey'
  BY <1>1, <1>3 DEF Waiting, RoomForKey
<1> QED BY <1>2, <1>4 DEF LineInv

(* One character less, and the rest of the buffer cleared.                 *)
LEMMA BackspaceLine ==
  ASSUME LineInv, Backspace PROVE Buffer' /\ CommandTerminated'
<1> USE KeyboardAssumption
<1>1. CASE Erasable
  <2>1. cmd_index' = cmd_index - 1 /\ cmd_index > 0
        /\ command' = [n \in DOMAIN command |-> IF n \in Copied THEN command[n] ELSE NUL]
    BY <1>1 DEF Backspace, Erasable
  <2>2. DOMAIN command = 0 .. CMDSIZE - 1
    BY DEF LineInv, Buffer
  <2>3. Buffer'
    BY <2>1, <2>2 DEF LineInv, Buffer
  <2>4. ASSUME NEW n \in cmd_index' .. CMDSIZE - 1 PROVE command'[n] = NUL
    <3>1. n \in 0 .. CMDSIZE - 1 /\ n \notin Copied
      BY <2>1 DEF LineInv, Buffer, Copied
    <3> QED BY <2>1, <2>2, <3>1
  <2> QED BY <2>3, <2>4 DEF CommandTerminated
<1>2. CASE ~ Erasable
  BY <1>2 DEF Backspace, LineInv, Buffer, CommandTerminated
<1> QED BY <1>1, <1>2

LEMMA EnterLine ==
  ASSUME LineInv, Enter PROVE Buffer' /\ CommandTerminated'
<1> USE KeyboardAssumption
<1>1. CASE "reboot" \in Dispatched
  BY <1>1 DEF Enter, LineInv, Buffer, CommandTerminated
<1>2. CASE "reboot" \notin Dispatched
  <2>1. cmd_index' = 0 /\ command' = Empty
    BY <1>2 DEF Enter, Restart, clear_command
  <2> QED BY <2>1 DEF Buffer, CommandTerminated, Empty
<1> QED BY <1>1, <1>2

LEMMA CharacterLine ==
  ASSUME LineInv, NEW c \in Chars, Character(c), cmd_index < MaxLine
  PROVE  Buffer' /\ CommandTerminated'
<1> USE KeyboardAssumption
<1>1. cmd_index' = cmd_index + 1 /\ command' = [command EXCEPT ![cmd_index] = c]
  BY DEF Character
<1>2. Buffer'
  BY <1>1 DEF LineInv, Buffer
<1>3. ASSUME NEW n \in cmd_index' .. CMDSIZE - 1 PROVE command'[n] = NUL
  BY <1>1 DEF LineInv, Buffer, CommandTerminated
<1> QED BY <1>2, <1>3 DEF CommandTerminated

LEMMA HandlerLine ==
  ASSUME LineInv, irq_handler PROVE LineInv'
<1> USE KeyboardAssumption
<1>1. irq /\ irq' = FALSE
  BY DEF irq_handler, Interrupted
<1>2. CASE registered
  <2>1. keyboard_cb(obf) /\ obf' = "none"
    BY <1>2 DEF irq_handler, keyboard_cb, Inb
  <2>2. Waiting' /\ RoomForKey'
    BY <1>1, <2>1 DEF Waiting, RoomForKey, Keys
  <2>3. CASE obf = RELEASE /\ UNCHANGED <<command, cmd_index>>
    BY <2>2, <2>3 DEF LineInv, Buffer, CommandTerminated
  <2>4. CASE Backspace
    BY <2>2, <2>4, BackspaceLine DEF LineInv
  <2>5. CASE Enter
    BY <2>2, <2>5, EnterLine DEF LineInv
  <2>6. CASE obf \in Chars /\ Character(obf)
    <3>1. cmd_index < MaxLine
      BY <2>6 DEF LineInv, RoomForKey
    <3> QED BY <2>2, <2>6, <3>1, CharacterLine DEF LineInv
  <2> QED BY <2>1, <2>3, <2>4, <2>5, <2>6 DEF keyboard_cb
<1>3. CASE ~ registered
  <2>1. UNCHANGED <<command, cmd_index, obf>>
    BY <1>3 DEF irq_handler, lineVars
  <2> QED BY <1>1, <2>1 DEF LineInv, Buffer, Waiting, RoomForKey, CommandTerminated
<1> QED BY <1>2, <1>3

LEMMA StepLine == LineInv /\ [Next]_vars => LineInv'
<1> SUFFICES ASSUME LineInv, [Next]_vars PROVE LineInv'
  OBVIOUS
<1>1. CASE main
  BY <1>1, SameLine DEF main, lineVars, lineState
<1>2. CASE irq_handler
  BY <1>2, HandlerLine
<1>3. ASSUME NEW k \in Keys, Press(k) PROVE LineInv'
  BY <1>3, PressLine
<1>4. CASE UNCHANGED vars
  BY <1>4, SameLine DEF vars, lineVars, lineState
<1> QED BY <1>1, <1>2, <1>3, <1>4 DEF Next

(* The buffer behind the line is zero, and a waiting key fits into it.     *)
THEOREM LineInvariant == Spec => []LineInv
BY InitLine, StepLine, PTL DEF Spec

-----------------------------------------------------------------------------
(* Behind the line command holds zeros, at every interleaving of main and  *)
(* the handler: what backspace and enter leave is never run.               *)
THEOREM Terminated == Spec => []CommandTerminated
<1>1. LineInv => CommandTerminated
  BY DEF LineInv
<1> QED BY <1>1, LineInvariant, PTL

StringEnds == cmd_index \in DOMAIN command /\ command[cmd_index] = NUL

(* The string that strcmp reads ends inside command, behind the line at    *)
(* the latest: cell cmd_index exists and is 0.                             *)
THEOREM EndsInBuffer == Spec => []StringEnds
<1>1. LineInv => StringEnds
  BY KeyboardAssumption DEF LineInv, Buffer, CommandTerminated, StringEnds
<1> QED BY <1>1, LineInvariant, PTL

-----------------------------------------------------------------------------
(* The keyboard is a line editor.  What has been typed, as a sequence, and *)
(* how the keys change it.                                                 *)
typed == [k \in 1 .. cmd_index |-> command[k - 1]]

(* The line of the refinement.                                             *)
line == IF halted THEN <<>> ELSE typed

LEMMA Sizes == CMDSIZE \in Nat /\ MaxLine \in 0 .. CMDSIZE - 1
BY KeyboardAssumption

LEMMA TypedIs ==
  ASSUME LineInv PROVE typed \in Seq(Chars \cup {NUL}) /\ Len(typed) = cmd_index
<1>1. \A k \in 1 .. cmd_index : command[k - 1] \in Chars \cup {NUL}
  BY KeyboardAssumption DEF LineInv, Buffer
<1>2. cmd_index \in Nat
  BY KeyboardAssumption DEF LineInv, Buffer
<1>3. typed \in [1 .. cmd_index -> Chars \cup {NUL}]
  BY <1>1 DEF typed
<1> QED BY <1>2, <1>3

(* strcmp and the line editor read the same text: the zero that ends it    *)
(* stands at the first key without a character, or behind the line.        *)
LEMMA TextIsMeant ==
  ASSUME LineInv, ~ halted PROVE Text = Editor!Meant
<1> USE Sizes
<1> DEFINE Zeros == {n \in 0 .. CMDSIZE - 1 : command[n] = NUL}
           First(n) == n \in 0 .. CMDSIZE - 1 /\ command[n] = NUL
                       /\ \A k \in 0 .. n - 1 : command[k] # NUL
<1>1. cmd_index \in Zeros /\ Zeros \subseteq Nat
  BY DEF LineInv, Buffer, CommandTerminated
<1>2. PICK n \in Zeros : \A m \in Zeros : n <= m
  BY <1>1, LeastElement
<1>3. n \in 0 .. cmd_index /\ First(n)
  BY <1>1, <1>2 DEF LineInv, Buffer
<1>4. ASSUME NEW m \in 0 .. CMDSIZE - 1, First(m) PROVE m = n
  BY <1>3, <1>4
<1>5. Text = [k \in 1 .. n |-> command[k - 1]]
  <2>1. (CHOOSE m \in 0 .. CMDSIZE - 1 :
           command[m] = NUL /\ \A k \in 0 .. m - 1 : command[k] # NUL) = n
    BY <1>3, <1>4
  <2> QED BY <2>1 DEF Text
<1>6. {m \in 1 .. Len(typed) : \A k \in 1 .. m : typed[k] # NUL} = 1 .. n
  <2>1. ASSUME NEW m \in 1 .. cmd_index PROVE (\A k \in 1 .. m : typed[k] # NUL) <=> m <= n
    <3>1. \A k \in 1 .. m : typed[k] = command[k - 1]
      BY DEF LineInv, Buffer, typed
    <3>2. CASE m <= n
      <4>1. \A k \in 1 .. m : k - 1 \in 0 .. n - 1
        BY <1>3, <3>2 DEF LineInv, Buffer
      <4> QED BY <1>3, <3>1, <3>2, <4>1
    <3>3. CASE m > n
      <4>1. n + 1 \in 1 .. m /\ (n + 1) - 1 = n
        BY <1>3, <3>3 DEF LineInv, Buffer
      <4>2. typed[n + 1] = NUL
        BY <1>3, <3>1, <4>1
      <4> QED BY <1>3, <3>3, <4>1, <4>2 DEF LineInv, Buffer
    <3> QED BY <1>3, <3>2, <3>3 DEF LineInv, Buffer
  <2> QED BY <1>3, <2>1, TypedIs DEF LineInv, Buffer
<1>7. Cardinality(1 .. n) = n
  BY <1>3, FS_Interval DEF LineInv, Buffer
<1>8. SubSeq(typed, 1, n) = [k \in 1 .. n |-> command[k - 1]]
  <2>1. SubSeq(typed, 1, n) = [k \in 1 .. n |-> typed[k]]
    BY <1>3, TypedIs DEF LineInv, Buffer
  <2>2. \A k \in 1 .. n : typed[k] = command[k - 1]
    BY <1>3 DEF LineInv, Buffer, typed
  <2> QED BY <2>1, <2>2
<1>9. \A S : Editor!Cardinality(S) = Cardinality(S)
  BY Zenon DEF Editor!Cardinality, Cardinality
<1>10. line = typed
  BY DEF line, typed
<1>11. Editor!Meant = SubSeq(line, 1, Cardinality({m \in 1 .. Len(line) :
                                                 \A k \in 1 .. m : line[k] # NUL}))
  BY <1>9, Zenon DEF Editor!Meant, line, typed
<1> QED BY <1>5, <1>6, <1>7, <1>8, <1>10, <1>11, Zenon

(* Steps that change neither the line nor the command last run.            *)
LEMMA NoEdit ==
  ASSUME UNCHANGED <<command, cmd_index, halted, ran>> PROVE UNCHANGED Editor!vars
BY DEF Editor!vars

LEMMA AppendIs ==
  ASSUME NEW S, NEW t \in Seq(S), NEW c \in S
  PROVE  Append(t, c) = [k \in 1 .. Len(t) + 1 |-> IF k = Len(t) + 1 THEN c ELSE t[k]]
<1> DEFINE more == Append(t, c)
<1>1. Len(t) \in Nat /\ more \in Seq(S) /\ Len(more) = Len(t) + 1
  OBVIOUS
<1>2. \A k \in 1 .. Len(t) + 1 : more[k] = IF k = Len(t) + 1 THEN c ELSE t[k]
  OBVIOUS
<1> HIDE DEF more
<1>3. more = [k \in 1 .. Len(t) + 1 |-> more[k]]
  BY <1>1
<1>4. more = [k \in 1 .. Len(t) + 1 |-> IF k = Len(t) + 1 THEN c ELSE t[k]]
  BY <1>2, <1>3, Zenon
<1> QED BY <1>4 DEF more

LEMMA CharacterTypes ==
  ASSUME LineInv, ~ halted, NEW c \in Chars, Character(c), cmd_index < MaxLine
  PROVE  Editor!Type(c)
<1> USE Sizes
<1>1. /\ cmd_index' = cmd_index + 1 /\ command' = [command EXCEPT ![cmd_index] = c]
      /\ ran' = ran /\ ~ halted'
  BY DEF Character
<1>2. typed \in Seq(Chars \cup {NUL}) /\ Len(typed) = cmd_index
  BY TypedIs
<1>3. ASSUME NEW k \in 1 .. cmd_index + 1
      PROVE  command'[k - 1] = IF k = cmd_index + 1 THEN c ELSE typed[k]
  BY <1>1 DEF LineInv, Buffer, typed
<1>4. typed' = [k \in 1 .. cmd_index + 1 |-> command'[k - 1]]
  BY <1>1 DEF typed
<1>5. Append(typed, c) = [k \in 1 .. cmd_index + 1 |-> IF k = cmd_index + 1 THEN c ELSE typed[k]]
  <2>1. c \in Chars \cup {NUL}
    OBVIOUS
  <2>2. Append(typed, c) = [k \in 1 .. Len(typed) + 1 |-> IF k = Len(typed) + 1 THEN c ELSE typed[k]]
    BY <1>2, <2>1, AppendIs
  <2> QED BY <1>2, <2>2
<1>6. typed' = Append(typed, c)
  BY <1>3, <1>4, <1>5
<1>7. line = typed /\ line' = typed'
  BY <1>1 DEF line
<1> QED BY <1>1, <1>6, <1>7 DEF Editor!Type, line, typed

LEMMA BackspaceErases ==
  ASSUME LineInv, ~ halted, Backspace PROVE [Editor!Next]_(Editor!vars)
<1> USE KeyboardAssumption
<1>1. CASE ~ Erasable
  BY <1>1, NoEdit DEF Backspace
<1>2. CASE Erasable
  <2>1. /\ cmd_index > 0 /\ cmd_index' = cmd_index - 1 /\ ran' = ran /\ ~ halted'
        /\ command' = [n \in DOMAIN command |-> IF n \in Copied THEN command[n] ELSE NUL]
    BY <1>2 DEF Backspace, Erasable
  <2>2. typed \in Seq(Chars \cup {NUL}) /\ Len(typed) = cmd_index
    BY TypedIs
  <2>3. ASSUME NEW k \in 1 .. cmd_index - 1 PROVE command'[k - 1] = typed[k]
    <3>1. k - 1 \in DOMAIN command /\ k - 1 \in Copied
      BY DEF LineInv, Buffer, Copied
    <3>2. typed[k] = command[k - 1]
      BY DEF LineInv, Buffer, typed
    <3> QED BY <2>1, <3>1, <3>2
  <2>4. typed' = [k \in 1 .. cmd_index - 1 |-> typed[k]]
    BY <2>1, <2>3 DEF typed
  <2>5. SubSeq(typed, 1, cmd_index - 1) = [k \in 1 .. cmd_index - 1 |-> typed[k]]
    BY <2>1, <2>2 DEF LineInv, Buffer
  <2>6. line = typed /\ line' = typed'
    BY <2>1 DEF line
  <2>7. line # <<>> /\ line' = SubSeq(line, 1, Len(line) - 1)
    BY <2>1, <2>2, <2>4, <2>5, <2>6
  <2>8. Editor!Erase
    BY <2>1, <2>7 DEF Editor!Erase, Editor!Front, line, typed
  <2> QED BY <2>8 DEF Editor!Next
<1> QED BY <1>1, <1>2

(* A reboot is the command "reboot", after which there is no line.         *)
LEMMA EnterRuns ==
  ASSUME LineInv, ~ halted, Enter PROVE Editor!Enter
<1> USE KeyboardAssumption
<1>1. Text = Editor!Meant
  BY TextIsMeant
<1>2. CASE "reboot" \in Dispatched
  <2>1. ran' = "reboot" /\ halted'
    BY <1>2 DEF Enter
  <2>2. "reboot" \in DOMAIN Commands /\ Commands["reboot"] = Editor!Meant
    BY <1>1, <1>2 DEF Dispatched
  <2> QED BY <2>1, <2>2 DEF Editor!Enter
<1>3. CASE "reboot" \notin Dispatched
  <2>1. cmd_index' = 0 /\ ~ halted'
    BY <1>3 DEF Enter, Restart
  <2>2. line' = <<>>
    BY <2>1 DEF line, typed
  <2>3. CASE Dispatched = {}
    <3>1. ran' = "nothing"
      BY <1>3, <2>3 DEF Enter
    <3>2. \A name \in DOMAIN Commands : Commands[name] # Editor!Meant
      BY <1>1, <2>3 DEF Dispatched
    <3> QED BY <2>2, <3>1, <3>2 DEF Editor!Enter, line, typed
  <2>4. CASE Dispatched # {}
    <3>1. ran' \in Dispatched
      BY <1>3, <2>4 DEF Enter
    <3>2. ran' \in DOMAIN Commands /\ Commands[ran'] = Editor!Meant
      BY <1>1, <3>1 DEF Dispatched
    <3> QED BY <2>2, <3>2 DEF Editor!Enter, line, typed
  <2> QED BY <2>3, <2>4
<1> QED BY <1>2, <1>3

LEMMA HandlerEdits ==
  ASSUME LineInv, irq_handler PROVE [Editor!Next]_(Editor!vars)
<1>1. ~ halted
  BY DEF irq_handler, Interrupted
<1>2. CASE ~ registered
  BY <1>2, NoEdit DEF irq_handler, lineVars
<1>3. CASE registered
  <2>1. keyboard_cb(obf)
    BY <1>3 DEF irq_handler
  <2>2. CASE obf = RELEASE /\ UNCHANGED <<screen, command, cmd_index, ran, halted, plain>>
    BY <2>2, NoEdit
  <2>3. CASE Backspace
    BY <1>1, <2>3, BackspaceErases
  <2>4. CASE Enter
    BY <1>1, <2>4, EnterRuns DEF Editor!Next
  <2>5. CASE obf \in Chars /\ Character(obf)
    <3>1. cmd_index < MaxLine
      BY <2>5 DEF LineInv, RoomForKey
    <3>2. PICK c \in Chars : c = obf
      BY <2>5
    <3>3. Editor!Type(c)
      BY <1>1, <2>5, <3>1, <3>2, CharacterTypes
    <3> QED BY <3>3 DEF Editor!Next
  <2> QED BY <2>1, <2>2, <2>3, <2>4, <2>5 DEF keyboard_cb
<1> QED BY <1>2, <1>3

LEMMA StepEdits == LineInv /\ [Next]_vars => [Editor!Next]_(Editor!vars)
<1> SUFFICES ASSUME LineInv, [Next]_vars PROVE [Editor!Next]_(Editor!vars)
  OBVIOUS
<1>1. CASE main
  BY <1>1, NoEdit DEF main, lineVars
<1>2. CASE irq_handler
  BY <1>2, HandlerEdits
<1>3. ASSUME NEW k \in Keys, Press(k) PROVE [Editor!Next]_(Editor!vars)
  BY <1>3, NoEdit DEF Press, lineVars
<1>4. CASE UNCHANGED vars
  BY <1>4, NoEdit DEF vars, lineVars
<1> QED BY <1>1, <1>2, <1>3, <1>4 DEF Next

LEMMA InitEdits == Init => Editor!Init
<1> SUFFICES ASSUME Init PROVE Editor!Init
  OBVIOUS
<1>1. cmd_index = 0 /\ ran = "nothing"
  BY DEF Init
<1> QED BY <1>1 DEF Editor!Init

(* Whatever keys are pressed and whenever they interrupt main, the line is *)
(* edited by one key at a time, and enter runs the command whose text the  *)
(* line holds before its first key without a character, or none.           *)
THEOREM KeyboardEdits == Spec => ImplementsEditor
BY InitEdits, StepEdits, LineInvariant, PTL DEF Spec, ImplementsEditor, Editor!Spec

-----------------------------------------------------------------------------
(* The types of the two threads.  What main prints is not over while it    *)
(* prints, and it holds port writes exactly while it makes them.  A key    *)
(* that waits in the controller is one that may still be handled.          *)
Idle == {"sti", "init_keyboard", "loop"}
Sending == {"outb", "outb_of_line"}
Places == Idle \cup Sending \cup {"put", "advance", "newline", "next_col", "next_row",
                                  "first_col", "cursor", "cursor_of_line"}
Words == 0 .. WORD - 1

MainType ==
  /\ pc \in Places
  /\ todo \in Seq(STRING) /\ (todo = <<>> <=> pc \in Idle)
  /\ reg \in [DOMAIN reg -> Words] /\ DOMAIN reg \subseteq Reads
  /\ outs \in Seq(Outs) /\ Len(outs) <= 4 /\ (outs = <<>> <=> pc \notin Sending)

Limit == IF pc = "loop" THEN MaxKeys ELSE BootKeys
KeysLeft == keys \in 0 .. Limit /\ (obf \in Keys \ {RELEASE} => keys < Limit)

TypeInv ==
  /\ LineInv /\ screen \in Screen /\ MainType /\ KeysLeft
  /\ irq \in BOOLEAN /\ ran \in DOMAIN Commands \cup {"nothing"}

LEMMA TextTypes ==
  /\ STRING \subseteq Glyph /\ Chars \subseteq STRING
  /\ PROMPT \in Seq(STRING) /\ PROMPT # <<>> /\ BootText \in Seq(STRING)
  /\ \A name \in DOMAIN Commands : Output[name] \in Seq(STRING)
BY ConsoleAssumption, KeyboardAssumption DEF Glyph

LEMMA GlyphText ==
  ASSUME NEW t \in Seq(STRING) PROVE t \in Seq(Glyph)
BY DEF Glyph

LEMMA ClearedType == Cleared(FirstRow) \in Screen /\ Cleared(FirstRow) \in Following
<1> DEFINE s == Cleared(FirstRow)
           p == FirstRow * FB_WIDTH
<1>1. FirstRow \in Nat /\ FirstRow < FB_HEIGHT
  BY KeyboardAssumption, Widths
<1>2. p \in Nat /\ p <= FB_WIDTH * FB_HEIGHT /\ FirstRow <= p
  BY <1>1, Widths
<1>3. p \in 0 .. WORD - 1 /\ FirstRow \in 0 .. WORD - 1 /\ 0 \in 0 .. WORD - 1
  BY <1>1, <1>2, Widths
<1> HIDE DEF p
<1>4. Blanks(Memory) \in [1 .. Memory -> Glyph]
  BY DEF Blanks, Glyph
<1>5. s = [fb |-> Blanks(Memory), fb_col |-> 0, fb_row |-> FirstRow, stray |-> FALSE,
           cursor |-> [index |-> "low", high |-> p \div BYTE, low |-> p % BYTE]]
  BY DEF Cleared, p
<1>6. p \div BYTE \in 0 .. BYTE - 1 /\ p % BYTE \in 0 .. BYTE - 1
  BY <1>3, ByteIs
<1> HIDE DEF s
<1>7. [index |-> "low", high |-> p \div BYTE, low |-> p % BYTE] \in Ports
  BY <1>6 DEF Ports
<1>8. s \in Screen
  BY <1>3, <1>4, <1>5, <1>7 DEF Screen
<1>9. position(s) = p
  <2>1. s.fb_col = 0 /\ s.fb_row = FirstRow
    BY <1>5
  <2>2. 0 + p = p /\ p % WORD = p
    BY <1>2, <1>3, WordIs
  <2> QED BY <2>1, <2>2 DEF position, p
<1>10. s.cursor = At(s)
  BY <1>5, <1>9 DEF At
<1> QED BY <1>8, <1>10 DEF Following, s

(* What the loaded coordinates are.                                        *)
LEMMA LoadedTypes ==
  ASSUME MainType, pc \in {"put", "cursor", "cursor_of_line"}, Loaded
  PROVE  reg.fb_col \in Words /\ reg.fb_row \in Words /\ position(reg) \in Words
<1>1. DOMAIN reg = {"fb_col", "fb_row"}
  BY DEF Loaded, Reads, MainType
<1>2. reg.fb_col \in Words /\ reg.fb_row \in Words
  BY <1>1 DEF MainType
<1>3. reg.fb_row \in Nat /\ reg.fb_col \in Nat
  BY <1>2, Widths DEF Words
<1>4. reg.fb_row * FB_WIDTH \in Nat
  BY <1>3, Widths
<1>5. position(reg) \in Words
  BY <1>3, <1>4, WordIs DEF position, Words
<1> QED BY <1>2, <1>5

LEMMA PrintingTypes ==
  ASSUME NEW t \in Seq(STRING)
  PROVE  /\ Printing(t) \in {"loop", "newline", "put"} /\ (t = <<>> <=> Printing(t) = "loop")
         /\ Printing(t) \in Places /\ (t = <<>> <=> Printing(t) \in Idle)
BY DEF Printing, Places, Idle, Sending

LEMMA InitTypes == Init => TypeInv
<1> SUFFICES ASSUME Init PROVE TypeInv
  OBVIOUS
<1>1. MainType
  BY DEF Init, MainType, Places, Idle, Sending, Unloaded, Words
<1>2. KeysLeft
  BY KeyboardAssumption DEF Init, KeysLeft, Limit, Keys, BACK, ENTER, RELEASE
<1> QED BY <1>1, <1>2, InitLine, ClearedType DEF Init, TypeInv

(* A step of main, one lemma for the types and one case per statement.     *)
LEMMA MainTypes ==
  ASSUME TypeInv, main PROVE screen' \in Screen /\ MainType'
<1> USE DEF TypeInv
<1>1. CASE sti
  BY <1>1 DEF sti, MainType, Places, Idle, Sending, Reads
<1>2. CASE init_keyboard
  <2>1. /\ todo' = BootText \o PROMPT /\ pc' = Printing(todo') /\ pc = "init_keyboard"
        /\ UNCHANGED <<screen, reg, outs>>
    BY <1>2 DEF init_keyboard
  <2>2. todo' \in Seq(STRING) /\ todo' # <<>>
    <3>1. Len(BootText) \in Nat /\ Len(PROMPT) \in Nat /\ Len(PROMPT) # 0
      BY TextTypes
    <3>2. todo' \in Seq(STRING) /\ Len(todo') = Len(BootText) + Len(PROMPT)
      BY <2>1, TextTypes, ConcatProperties
    <3> QED BY <3>1, <3>2
  <2>3. pc' \in {"newline", "put"} /\ pc' \notin Idle
    BY <2>1, <2>2, PrintingTypes
  <2>4. DOMAIN reg = {} /\ outs = <<>>
    BY <2>1 DEF MainType, Reads, Sending
  <2> QED BY <2>1, <2>2, <2>3, <2>4 DEF MainType, Places, Idle, Sending, Reads
<1>3. CASE Load
  <2>1. PICK x \in Reads \ DOMAIN reg :
          reg' = [y \in DOMAIN reg \cup {x} |-> IF y = x THEN screen[x] ELSE reg[y]]
    BY <1>3 DEF Load
  <2>2. UNCHANGED <<screen, pc, todo, outs>>
    BY <1>3 DEF Load
  <2>3. x \in {"fb_col", "fb_row"} /\ screen[x] \in Words
    <3>1. x \in {"fb_col", "fb_row"}
      BY <2>1 DEF Reads
    <3>2. screen["fb_col"] \in Words /\ screen["fb_row"] \in Words
      BY DEF Screen, Words
    <3> QED BY <3>1, <3>2
  <2>4. Reads' = Reads
    BY <2>2 DEF Reads
  <2>5. DOMAIN reg' \subseteq Reads' /\ reg' \in [DOMAIN reg' -> Words]
    BY <2>1, <2>3, <2>4 DEF MainType
  <2> QED BY <2>2, <2>5 DEF MainType, Places, Idle, Sending
<1>4. CASE PutCell
  <2>1. /\ pc = "put" /\ Loaded /\ reg' = Unloaded /\ pc' = "advance" /\ UNCHANGED <<todo, outs>>
        /\ screen' = write_cell(screen, position(reg), Head(todo))
    BY <1>4 DEF PutCell
  <2>2. position(reg) \in Words
    BY <2>1, LoadedTypes
  <2>3. Head(todo) \in Glyph
    <3>1. todo \in Seq(STRING) /\ todo # <<>>
      BY <2>1 DEF MainType, Idle
    <3>2. Head(todo) \in STRING
      BY <3>1
    <3> QED BY <3>2, TextTypes
  <2>4. screen' \in Screen
    BY <2>1, <2>2, <2>3, WriteCellKeeps DEF Words
  <2> QED BY <2>1, <2>4 DEF MainType, Places, Idle, Sending, Reads, Unloaded
<1>5. CASE Advance
  BY <1>5 DEF Advance, MainType, Places, Idle, Sending, Reads
<1>6. CASE Newline
  <2>1. pc = "newline" /\ pc' \in {"next_row", "first_col"} /\ screen' \in {screen, scroll_down(screen)}
        /\ UNCHANGED <<todo, reg, outs>>
    BY <1>6 DEF Newline
  <2>2. screen' \in Screen
    BY <2>1, ScrollKeeps
  <2>3. DOMAIN reg = {}
    BY <2>1 DEF MainType, Reads
  <2> QED BY <2>1, <2>2, <2>3 DEF MainType, Places, Idle, Sending, Reads
<1>7. CASE Store
  <2>1. /\ Loaded /\ reg' = Unloaded /\ UNCHANGED <<todo, outs>> 
        /\ \/ /\ pc = "next_col" /\ pc' = "cursor"
              /\ screen' = [screen EXCEPT !.fb_col = (reg.fb_col + 1) % WORD]
           \/ /\ pc = "next_row" /\ pc' = "first_col"
              /\ screen' = [screen EXCEPT !.fb_row = (reg.fb_row + 1) % WORD]
    BY <1>7 DEF Store
  <2>2. ASSUME NEW v \in Words PROVE (v + 1) % WORD \in 0 .. WORD - 1
    <3>1. v + 1 \in Int
      BY DEF Words
    <3> QED BY <3>1, WordIs
  <2>3. screen' \in Screen
    <3>1. CASE pc = "next_col"
      <4>1. reg.fb_col \in Words
        BY <2>1, <3>1 DEF Loaded, Reads, MainType
      <4> QED BY <2>1, <2>2, <3>1, <4>1, SetColumn
    <3>2. CASE pc = "next_row"
      <4>1. reg.fb_row \in Words
        BY <2>1, <3>2 DEF Loaded, Reads, MainType
      <4> QED BY <2>1, <2>2, <3>2, <4>1, SetRow
    <3> QED BY <2>1, <3>1, <3>2
  <2> QED BY <2>1, <2>3 DEF MainType, Places, Idle, Sending, Reads, Unloaded
<1>8. CASE FirstCol
  <2>1. pc = "first_col" /\ pc' = "cursor_of_line" /\ screen' = FirstColumn(screen)
        /\ UNCHANGED <<todo, reg, outs>>
    BY <1>8 DEF FirstCol
  <2>2. 0 \in 0 .. WORD - 1
    BY Widths
  <2>3. screen' \in Screen
    BY <2>1, <2>2, SetColumn DEF FirstColumn
  <2>4. DOMAIN reg = {}
    BY <2>1 DEF MainType, Reads
  <2> QED BY <2>1, <2>3, <2>4 DEF MainType, Places, Idle, Sending, Reads
<1>9. CASE CallMoveCursor
  <2>1. /\ pc \in {"cursor", "cursor_of_line"} /\ Loaded /\ outs' = PortWrites(position(reg))
        /\ reg' = Unloaded /\ pc' \in Sending /\ UNCHANGED <<screen, todo>>
    BY <1>9 DEF CallMoveCursor, Sending
  <2>2. position(reg) \in Words
    BY <2>1, LoadedTypes
  <2>3. outs' \in Seq(Outs) /\ Len(outs') = 4 /\ outs' # <<>>
    <3>1. outs' \in Seq(Outs) /\ Len(outs') = 4
      BY <2>1, <2>2, PortWritesAre DEF Words
    <3> QED BY <3>1
  <2>4. todo # <<>> /\ todo \in Seq(STRING)
    BY <2>1 DEF MainType, Idle
  <2>5. pc' \in Places /\ pc' \notin Idle
    BY <2>1 DEF Places, Idle, Sending
  <2>6. reg' \in [DOMAIN reg' -> Words] /\ DOMAIN reg' \subseteq Reads'
    BY <2>1 DEF Unloaded
  <2> HIDE DEF TypeInv
  <2>7. screen' \in Screen
    BY <2>1 DEF TypeInv
  <2> QED BY <2>1, <2>3, <2>4, <2>5, <2>6, <2>7 DEF MainType
<1>10. CASE Outb
  <2>1. /\ pc \in Sending /\ screen' = outb(screen, Head(outs)) /\ outs' = Tail(outs)
        /\ reg' = reg
        /\ \/ Tail(outs) # <<>> /\ UNCHANGED <<pc, todo>>
           \/ Tail(outs) = <<>> /\ pc' = "cursor" /\ todo' = todo
           \/ Tail(outs) = <<>> /\ todo' = Tail(todo) /\ pc' = Printing(todo')
    BY <1>10 DEF Outb, Sending
  <2>2. outs \in Seq(Outs) /\ outs # <<>> /\ todo \in Seq(STRING) /\ todo # <<>>
    BY <2>1 DEF MainType, Idle, Sending
  <2>3. screen' \in Screen
    <3>1. PICK out \in Outs : out = Head(outs)
      BY <2>2
    <3> QED BY <2>1, <3>1, OutbType
  <2>4. outs' \in Seq(Outs) /\ Len(outs') <= 4
    BY <2>1, <2>2 DEF MainType
  <2>5. Reads = {} /\ DOMAIN reg = {}
    BY <2>1 DEF MainType, Reads, Sending
  <2>6. todo' \in Seq(STRING) /\ (todo' = <<>> <=> pc' \in Idle) /\ pc' \in Places
        /\ (outs' = <<>> <=> pc' \notin Sending)
    <3>1. Tail(todo) \in Seq(STRING)
      BY <2>2
    <3>2. CASE Tail(outs) # <<>>
      BY <2>1, <2>2, <3>2 DEF MainType
    <3>3. CASE Tail(outs) = <<>> /\ pc' = "cursor" /\ todo' = todo
      BY <2>1, <2>2, <3>3 DEF Idle, Places, Sending
    <3>4. CASE Tail(outs) = <<>> /\ todo' = Tail(todo) /\ pc' = Printing(todo')
      <4>1. pc' \in {"loop", "newline", "put"} /\ (todo' = <<>> <=> pc' \in Idle) /\ pc' \in Places
        BY <3>1, <3>4, PrintingTypes
      <4> QED BY <2>1, <3>1, <3>4, <4>1 DEF Sending
    <3> QED BY <2>1, <3>2, <3>3, <3>4
  <2>7. reg' \in [DOMAIN reg' -> Words] /\ DOMAIN reg' \subseteq Reads'
    BY <2>1, <2>5 DEF MainType
  <2> HIDE DEF TypeInv
  <2> QED BY <2>3, <2>4, <2>6, <2>7 DEF MainType
<1> QED BY <1>1, <1>2, <1>3, <1>4, <1>5, <1>6, <1>7, <1>8, <1>9, <1>10 DEF main

(* The handler, as what it does to the screen and to the line: nothing, or *)
(* one of these.                                                           *)
Ignores == UNCHANGED <<screen, command, cmd_index, plain>> /\ keys' \in {keys, keys + 1}
Erases ==
  /\ cmd_index > 0 /\ cmd_index' = cmd_index - 1 /\ keys' = keys + 1 /\ plain' = plain
  /\ screen' = back_space(screen)
  /\ \A n \in 0 .. cmd_index - 2 : command'[n] = command[n]
Prompts ==
  /\ cmd_index' = 0 /\ keys' = keys + 1 /\ plain' = (pc = "loop")
  /\ \E t \in Seq(STRING) : screen' = init_prompt(write(screen, t))
Echoes ==
  /\ cmd_index < MaxLine /\ cmd_index' = cmd_index + 1 /\ keys' = keys + 1
  /\ plain' = (plain /\ pc = "loop" /\ screen.fb_col < FB_WIDTH)
  /\ \E c \in STRING \ {NL} : screen' = Put(screen, c) /\ command'[cmd_index] = c
  /\ \A n \in 0 .. cmd_index - 1 : command'[n] = command[n]

LEMMA EnterPrompts ==
  ASSUME ran \in DOMAIN Commands \cup {"nothing"}, Enter, keys' = keys + 1
  PROVE  ran' \in DOMAIN Commands \cup {"nothing"} /\ (Ignores \/ Prompts)
<1>1. CASE "reboot" \in Dispatched
  BY <1>1 DEF Enter, Dispatched, Ignores
<1>2. CASE "reboot" \notin Dispatched /\ Dispatched = {}
  <2>1. screen' = init_prompt(write(screen, <<>>)) /\ cmd_index' = 0 /\ plain' = (pc = "loop")
        /\ ran' = "nothing"
    BY <1>2 DEF Enter, Restart
  <2>2. <<>> \in Seq(STRING)
    OBVIOUS
  <2> QED BY <2>1, <2>2 DEF Prompts
<1>3. CASE "reboot" \notin Dispatched /\ Dispatched # {}
  <2>1. PICK name \in Dispatched : name = CHOOSE x \in Dispatched : TRUE
    BY <1>3
  <2>2. screen' = init_prompt(write(screen, Output[name])) /\ cmd_index' = 0
        /\ plain' = (pc = "loop") /\ ran' = name
    BY <1>3, <2>1 DEF Enter, Restart
  <2>3. name \in DOMAIN Commands /\ Output[name] \in Seq(STRING)
    BY TextTypes DEF Dispatched
  <2> QED BY <2>2, <2>3 DEF Prompts
<1> QED BY <1>1, <1>2, <1>3

LEMMA HandlerCases ==
  ASSUME TypeInv, irq_handler
  PROVE  /\ UNCHANGED mainVars /\ ran' \in DOMAIN Commands \cup {"nothing"}
         /\ (keys' # keys => keys < Limit)
         /\ (alone' => alone /\ (pc = "loop" \/ plain' \/ UNCHANGED plain))
         /\ Ignores \/ Erases \/ Prompts \/ Echoes
<1> USE DEF TypeInv
<1>0. alone' => alone /\ (pc = "loop" \/ plain' \/ UNCHANGED plain)
  <2>1. registered => alone' = (alone /\ (pc = "loop" \/ plain'))
    BY DEF irq_handler, keyboard_cb
  <2>2. ~ registered => UNCHANGED <<alone, plain>>
    BY DEF irq_handler, lineVars
  <2> QED BY <2>1, <2>2, Zenon
<1>1. UNCHANGED mainVars
  BY DEF irq_handler
<1>2. CASE ~ registered
  BY <1>0, <1>1, <1>2 DEF irq_handler, lineVars, Ignores
<1>3. CASE registered
  <2>1. keyboard_cb(obf)
    BY <1>3 DEF irq_handler
  <2>2. keys' # keys => keys' = keys + 1 /\ obf # RELEASE /\ keys < Limit
    <3>1. obf \in Keys
      BY <2>1 DEF keyboard_cb, Keys
    <3> QED BY <2>1, <3>1 DEF keyboard_cb, KeysLeft
  <2>3. CASE obf = RELEASE /\ UNCHANGED <<screen, command, cmd_index, ran, halted, plain>>
    BY <1>0, <1>1, <2>1, <2>2, <2>3 DEF Ignores, keyboard_cb
  <2>4. CASE obf = BACK /\ Backspace
    <3>1. keys' = keys + 1
      BY <2>1, <2>4 DEF keyboard_cb, BACK, RELEASE
    <3>2. ran' = ran
      BY <2>4 DEF Backspace
    <3>3. CASE ~ Erasable
      BY <1>0, <1>1, <2>2, <2>4, <3>1, <3>2, <3>3 DEF Backspace, Ignores
    <3>4. CASE Erasable
      <4>1. /\ cmd_index > 0 /\ cmd_index' = cmd_index - 1 /\ screen' = back_space(screen)
            /\ command' = [n \in DOMAIN command |-> IF n \in Copied THEN command[n] ELSE NUL]
        BY <2>4, <3>4 DEF Backspace, Erasable
      <4>2. \A n \in 0 .. cmd_index - 2 : n \in DOMAIN command /\ n \in Copied
        BY Sizes DEF LineInv, Buffer, Copied
      <4>3. Erases
        BY <2>4, <3>1, <4>1, <4>2 DEF Backspace, Erases
      <4> QED BY <1>0, <1>1, <2>2, <3>2, <4>3
    <3> QED BY <3>3, <3>4
  <2>5. CASE obf = ENTER /\ Enter
    <3>1. keys' = keys + 1
      BY <2>1, <2>5 DEF keyboard_cb, ENTER, RELEASE
    <3> QED BY <1>0, <1>1, <2>2, <2>5, <3>1, EnterPrompts
  <2>6. CASE obf \in Chars /\ Character(obf)
    <3>1. PICK c \in Chars : c = obf
      BY <2>6
    <3>2. keys' = keys + 1
      BY <2>1, <2>6, KeyboardAssumption DEF keyboard_cb, RELEASE
    <3>3. cmd_index < MaxLine
      BY <2>6 DEF LineInv, RoomForKey
    <3>4. c \in STRING \ {NL} /\ c \in Glyph
      BY TextTypes, KeyboardAssumption
    <3>5. screen' = Put(screen, c)
      BY <2>6, <3>1, <3>4, WriteOne DEF Character
    <3>6. /\ cmd_index' = cmd_index + 1 /\ ran' = ran
          /\ plain' = (plain /\ pc = "loop" /\ screen.fb_col < FB_WIDTH)
          /\ command' = [command EXCEPT ![cmd_index] = c]
      BY <2>6, <3>1 DEF Character
    <3>7. /\ command'[cmd_index] = c
          /\ \A n \in 0 .. cmd_index - 1 : command'[n] = command[n]
      BY <3>3, <3>6, Sizes DEF LineInv, Buffer
    <3>8. Echoes
      BY <3>2, <3>3, <3>4, <3>5, <3>6, <3>7 DEF Echoes
    <3> QED BY <1>0, <1>1, <2>2, <3>6, <3>8
  <2> QED BY <2>1, <2>3, <2>4, <2>5, <2>6 DEF keyboard_cb
<1> QED BY <1>2, <1>3

LEMMA HandlerTypes ==
  ASSUME TypeInv, irq_handler PROVE TypeInv'
<1>1. /\ UNCHANGED mainVars /\ ran' \in DOMAIN Commands \cup {"nothing"}
      /\ (keys' # keys => keys < Limit)
      /\ Ignores \/ Erases \/ Prompts \/ Echoes
  BY HandlerCases
<1>2. LineInv'
  BY HandlerLine DEF TypeInv
<1>3. MainType' /\ Limit' = Limit
  BY <1>1 DEF mainVars, TypeInv, MainType, Limit, Reads
<1>4. screen' \in Screen
  <2>1. CASE Ignores
    BY <2>1 DEF Ignores, TypeInv
  <2>2. CASE Erases
    BY <2>2, BackSpaceKeeps DEF Erases, TypeInv
  <2>3. CASE Prompts
    <3>1. PICK t \in Seq(STRING) : screen' = init_prompt(write(screen, t))
      BY <2>3 DEF Prompts
    <3>2. t \in Seq(Glyph)
      BY GlyphText
    <3>3. write(screen, t) \in Screen
      BY <3>2, WriteKeeps DEF TypeInv
    <3> QED BY <3>1, <3>3, PromptFollows DEF Following
  <2>4. CASE Echoes
    <3>1. PICK c \in STRING : screen' = Put(screen, c)
      BY <2>4 DEF Echoes
    <3> QED BY <3>1, PutKeeps, TextTypes DEF TypeInv
  <2> QED BY <1>1, <2>1, <2>2, <2>3, <2>4
<1>5. irq' = FALSE
  BY DEF irq_handler, Interrupted
<1>6. keys' \in 0 .. Limit
  <2>1. keys' \in {keys, keys + 1} /\ keys \in 0 .. Limit /\ Limit \in Nat
    BY <1>1, KeyboardAssumption DEF Ignores, Erases, Prompts, Echoes, TypeInv, KeysLeft, Limit
  <2> QED BY <1>1, <2>1
<1>7. obf' \in Keys \ {RELEASE} => keys' < Limit
  <2>1. CASE registered
    <3>1. obf' = "none"
      BY <2>1 DEF irq_handler, keyboard_cb, Inb
    <3> QED BY <3>1, KeyboardAssumption DEF Keys, BACK, ENTER, RELEASE
  <2>2. CASE ~ registered
    BY <2>2 DEF irq_handler, lineVars, TypeInv, KeysLeft
  <2> QED BY <2>1, <2>2
<1> QED BY <1>1, <1>2, <1>3, <1>4, <1>5, <1>6, <1>7 DEF TypeInv, KeysLeft

LEMMA StepTypes == TypeInv /\ [Next]_vars => TypeInv'
<1> SUFFICES ASSUME TypeInv, [Next]_vars PROVE TypeInv'
  OBVIOUS
<1>1. LineInv'
  BY StepLine DEF TypeInv
<1>2. CASE main
  <2>1. UNCHANGED <<obf, irq, lineVars>>
    BY <1>2 DEF main
  <2>2. screen' \in Screen /\ MainType'
    BY <1>2, MainTypes
  <2>3. KeysLeft'
    <3>1. pc = "loop" => pc' = "loop"
      BY <1>2 DEF main, sti, init_keyboard, Load, PutCell, Advance, Newline, Store, FirstCol,
                  CallMoveCursor, Outb, Reads
    <3>2. keys' = keys /\ obf' = obf
      BY <2>1 DEF lineVars
    <3>3. BootKeys \in 0 .. MaxKeys /\ MaxKeys \in Nat
      BY KeyboardAssumption
    <3> QED BY <3>1, <3>2, <3>3 DEF TypeInv, KeysLeft, Limit
  <2> QED BY <1>1, <2>1, <2>2, <2>3 DEF TypeInv, lineVars
<1>3. CASE irq_handler
  BY <1>3, HandlerTypes
<1>4. ASSUME NEW k \in Keys, Press(k) PROVE TypeInv'
  <2>1. /\ UNCHANGED <<screen, mainVars, lineVars>> /\ obf' = k /\ irq' = TRUE
        /\ k # RELEASE => keys < Limit
    BY <1>4 DEF Press, Limit
  <2>2. MainType' /\ KeysLeft'
    BY <2>1 DEF TypeInv, MainType, KeysLeft, Limit, mainVars, lineVars, Reads
  <2> QED BY <1>1, <2>1, <2>2 DEF TypeInv, lineVars
<1>5. CASE UNCHANGED vars
  <2>1. MainType' /\ KeysLeft'
    BY <1>5 DEF TypeInv, MainType, KeysLeft, Limit, vars, mainVars, lineVars, Reads
  <2> QED BY <1>1, <1>5, <2>1 DEF TypeInv, vars, lineVars
<1> QED BY <1>2, <1>3, <1>4, <1>5 DEF Next

(* What each of the two threads holds keeps its type.                      *)
THEOREM TypeInvariant == Spec => []TypeInv
BY InitTypes, StepTypes, PTL DEF Spec

(* No step of main or of the handler, in any order, takes the screen, what *)
(* main holds, or the line out of its range: the screen keeps its memory,  *)
(* the coordinates are words, and cmd_index stays within command.          *)
THEOREM TypeCorrect == Spec => []TypeOK
<1>1. TypeInv => TypeOK
  <2> SUFFICES ASSUME TypeInv PROVE TypeOK
    OBVIOUS
  <2>1. /\ Len(screen.fb) = Memory /\ screen.stray \in BOOLEAN
        /\ {screen.fb_col, screen.fb_row} \subseteq 0 .. WORD - 1 /\ screen.cursor \in Ports
    <3>1. Memory \in Nat
      BY Widths
    <3> QED BY <3>1 DEF TypeInv, Screen
  <2>2. keys \in 0 .. MaxKeys
    BY KeyboardAssumption DEF TypeInv, KeysLeft, Limit
  <2> QED BY <2>1, <2>2 DEF TypeInv, LineInv, Buffer, Waiting, MainType, TypeOK, Ports
<1> QED BY <1>1, TypeInvariant, PTL

-----------------------------------------------------------------------------
(* Where the hardware cursor stands.  While a line is plain, the handler   *)
(* has left main alone: the coordinates main holds are those of the        *)
(* screen, and the registers hold what main has sent so far.               *)
RegAgrees == \A x \in DOMAIN reg : reg[x] = screen[x]

Pending ==
  \A i \in 1 .. Len(outs) : outs[i] = PortWrites(position(screen))[(4 - Len(outs)) + i]
Driven ==
  /\ Pending
  /\ Len(outs) = 3 \/ Len(outs) = 2 => screen.cursor.index = "high"
  /\ Len(outs) = 1 => screen.cursor.index = "low"
  /\ Len(outs) = 2 \/ Len(outs) = 1 => screen.cursor.high = position(screen) \div BYTE

FollowInv ==
  /\ keys = 0 => plain /\ cmd_index = 0
  /\ plain /\ pc = "loop" => screen \in Following
  /\ plain /\ pc # "loop" => cmd_index = 0 /\ RegAgrees /\ (pc \in Sending => Driven)

LEMMA HandlerFollows ==
  ASSUME TypeInv, FollowInv, irq_handler PROVE FollowInv'
<1>1. UNCHANGED mainVars /\ (Ignores \/ Erases \/ Prompts \/ Echoes)
  BY HandlerCases
<1>2. UNCHANGED <<pc, reg, outs>> /\ screen \in Screen /\ keys \in Nat /\ cmd_index \in Nat
  BY <1>1, KeyboardAssumption DEF mainVars, TypeInv, KeysLeft, Limit, LineInv, Buffer
<1>3. CASE Ignores
  <2>1. UNCHANGED <<screen, cmd_index, plain, pc, reg, outs>> /\ (keys' = 0 => keys = 0)
    BY <1>2, <1>3 DEF Ignores
  <2>2. RegAgrees' = RegAgrees /\ Driven' = Driven
    BY <2>1 DEF RegAgrees, Driven, Pending
  <2> QED BY <2>1, <2>2 DEF FollowInv
<1>4. CASE Erases
  <2>1. plain' => pc' = "loop"
    BY <1>2, <1>4 DEF Erases, FollowInv
  <2>2. screen' \in Following /\ keys' # 0
    BY <1>2, <1>4, BackSpaceKeeps DEF Erases, Following
  <2> QED BY <2>1, <2>2 DEF FollowInv
<1>5. CASE Prompts
  <2>1. (plain' => pc' = "loop") /\ keys' # 0
    <3>1. plain' = (pc = "loop") /\ keys' = keys + 1
      BY <1>5 DEF Prompts
    <3>2. plain' => pc = "loop"
      BY <3>1, Zenon
    <3>3. keys + 1 # 0
      BY <1>2
    <3> QED BY <1>2, <3>1, <3>2, <3>3, Zenon
  <2>2. PICK t \in Seq(STRING) : screen' = init_prompt(write(screen, t))
    BY <1>5 DEF Prompts
  <2>3. t \in Seq(Glyph)
    BY GlyphText
  <2>4. write(screen, t) \in Screen
    BY <1>2, <2>3, WriteKeeps
  <2>5. screen' \in Following
    BY <2>2, <2>4, PromptFollows
  <2> QED BY <2>1, <2>5 DEF FollowInv
<1>6. CASE Echoes
  <2>1. (plain' => pc' = "loop") /\ keys' # 0
    <3>1. plain' = (plain /\ pc = "loop" /\ screen.fb_col < FB_WIDTH) /\ keys' = keys + 1
      BY <1>6 DEF Echoes
    <3>2. plain' => pc = "loop"
      BY <3>1, Zenon
    <3>3. keys + 1 # 0
      BY <1>2
    <3> QED BY <1>2, <3>1, <3>2, <3>3, Zenon
  <2>2. PICK c \in STRING : screen' = Put(screen, c)
    BY <1>6 DEF Echoes
  <2>3. screen' \in Following
    BY <1>2, <2>2, PutKeeps, TextTypes DEF Following
  <2> QED BY <2>1, <2>3 DEF FollowInv
<1> QED BY <1>1, <1>3, <1>4, <1>5, <1>6

(* What a port write leaves to be sent, and where the last one leaves the  *)
(* cursor.                                                                 *)
LEMMA OutbDrives ==
  ASSUME screen \in Screen, outs \in Seq(Outs), outs # <<>>, Len(outs) <= 4, Driven,
         screen' = outb(screen, Head(outs)), outs' = Tail(outs), screen' \in Screen
  PROVE  (Tail(outs) # <<>> => Driven') /\ (Tail(outs) = <<>> => screen' \in Following)
<1> DEFINE p == position(screen)
           n == Len(outs)
<1>1. n \in 1 .. 4 /\ Len(outs') = n - 1 /\ \A i \in 1 .. n - 1 : outs'[i] = outs[i + 1]
  <2>1. /\ n > 0 /\ Len(Tail(outs)) = n - 1
        /\ \A i \in 1 .. n - 1 : Tail(outs)[i] = outs[i + 1]
    BY TailOf
  <2>2. n \in Nat
    OBVIOUS
  <2> HIDE DEF n
  <2> QED BY <2>1, <2>2 DEF n
<1>2. Head(outs) = outs[1] /\ (Tail(outs) = <<>> <=> n = 1)
  BY TailOf
<1>3. /\ PortWrites(p)[1] = <<"index", "high">> /\ PortWrites(p)[2] = <<"data", p \div BYTE>>
      /\ PortWrites(p)[3] = <<"index", "low">> /\ PortWrites(p)[4] = <<"data", p % BYTE>>
  BY DEF PortWrites
<1>4. Head(outs) = PortWrites(p)[(4 - n) + 1]
  <2>1. 1 \in 1 .. Len(outs)
    BY <1>1
  <2>2. outs[1] = PortWrites(p)[(4 - n) + 1]
    BY <2>1 DEF Driven, Pending
  <2> QED BY <1>2, <2>2
<1> HIDE DEF p
<1>5. ASSUME position(screen') = p PROVE Pending'
  <2>1. ASSUME NEW i \in 1 .. n - 1 PROVE outs'[i] = PortWrites(p)[(4 - (n - 1)) + i]
    <3>1. i + 1 \in 1 .. n /\ (4 - n) + (i + 1) = (4 - (n - 1)) + i
      BY <1>1
    <3>2. outs[i + 1] = PortWrites(p)[(4 - n) + (i + 1)]
      BY <3>1 DEF Driven, Pending, p
    <3> QED BY <1>1, <3>1, <3>2
  <2> QED BY <1>1, <1>5, <2>1 DEF Pending
<1>6. n = Len(outs)
  OBVIOUS
<1> HIDE DEF n
<1>7. CASE n = 4
  <2>1. screen' = outb(screen, <<"index", "high">>)
    <3>1. (4 - n) + 1 = 1
      BY <1>7
    <3> QED BY <1>3, <1>4, <3>1
  <2>3. screen'.cursor.index = "high" /\ position(screen') = p
    BY <2>1, OutbIndex DEF p
  <2>4. Len(outs') = 3 /\ Pending'
    BY <1>1, <1>5, <1>7, <2>3
  <2>5. Driven'
    <3>1. 3 # 1 /\ 3 # 2
      OBVIOUS
    <3> QED BY <2>3, <2>4, <3>1, Zenon DEF Driven
  <2>6. Tail(outs) # <<>>
    BY <1>2, <1>7
  <2> QED BY <2>5, <2>6
<1>8. CASE n = 3
  <2>1. screen' = outb(screen, <<"data", p \div BYTE>>)
    <3>1. (4 - n) + 1 = 2
      BY <1>8
    <3> QED BY <1>3, <1>4, <3>1
  <2>2. screen.cursor.index = "high"
    BY <1>6, <1>8 DEF Driven, p
  <2>3. screen'.cursor.index = "high" /\ screen'.cursor.high = p \div BYTE
        /\ position(screen') = p
    BY <2>1, <2>2, OutbData DEF p
  <2>4. Len(outs') = 2 /\ Pending'
    BY <1>1, <1>5, <1>8, <2>3
  <2>5. Driven'
    <3>1. 2 # 1 /\ 2 # 3
      OBVIOUS
    <3> QED BY <2>3, <2>4, <3>1, Zenon DEF Driven
  <2>6. Tail(outs) # <<>>
    BY <1>2, <1>8
  <2> QED BY <2>5, <2>6
<1>9. CASE n = 2
  <2>1. screen' = outb(screen, <<"index", "low">>)
    <3>1. (4 - n) + 1 = 3
      BY <1>9
    <3> QED BY <1>3, <1>4, <3>1
  <2>2. screen.cursor.high = p \div BYTE
    BY <1>6, <1>9 DEF Driven, p
  <2>3. screen'.cursor.index = "low" /\ screen'.cursor.high = p \div BYTE
        /\ position(screen') = p
    BY <2>1, <2>2, OutbIndex DEF p
  <2>4. Len(outs') = 1 /\ Pending'
    BY <1>1, <1>5, <1>9, <2>3
  <2>5. Driven'
    <3>1. 1 # 2 /\ 1 # 3
      OBVIOUS
    <3> QED BY <2>3, <2>4, <3>1, Zenon DEF Driven
  <2>6. Tail(outs) # <<>>
    BY <1>2, <1>9
  <2> QED BY <2>5, <2>6
<1>10. CASE n = 1
  <2>1. screen' = outb(screen, <<"data", p % BYTE>>)
    <3>1. (4 - n) + 1 = 4
      BY <1>10
    <3> QED BY <1>3, <1>4, <3>1
  <2>2. screen.cursor.high = p \div BYTE /\ screen.cursor.index = "low"
    BY <1>6, <1>10 DEF Driven, p
  <2>3. screen'.cursor.index = "low" /\ screen'.cursor.high = p \div BYTE
        /\ screen'.cursor.low = p % BYTE /\ position(screen') = p
    BY <2>1, <2>2, OutbData DEF p
  <2>4. screen'.cursor = At(screen')
    BY <2>3 DEF At, Screen, Ports
  <2> QED BY <1>2, <1>10, <2>4 DEF Following
<1> QED BY <1>1, <1>7, <1>8, <1>9, <1>10

LEMMA MainFollows ==
  ASSUME TypeInv, TypeInv', FollowInv, main PROVE FollowInv'
<1>1. UNCHANGED <<keys, cmd_index, plain>>
  BY DEF main, lineVars
<1>2. pc # "loop"
  BY DEF main, sti, init_keyboard, Load, PutCell, Advance, Newline, Store, FirstCol,
         CallMoveCursor, Outb, Reads
<1> SUFFICES ASSUME plain
             PROVE  /\ pc' = "loop" => screen' \in Following
                    /\ pc' # "loop" => RegAgrees' /\ (pc' \in Sending => Driven')
  BY <1>1, <1>2 DEF FollowInv
<1>3. RegAgrees /\ (pc \in Sending => Driven) /\ screen \in Screen /\ MainType
  BY <1>2 DEF FollowInv, TypeInv
<1>4. CASE Load
  <2>1. PICK x \in Reads \ DOMAIN reg :
          reg' = [y \in DOMAIN reg \cup {x} |-> IF y = x THEN screen[x] ELSE reg[y]]
    BY <1>4 DEF Load
  <2>2. UNCHANGED <<screen, pc>> /\ pc \notin Sending
    BY <1>4 DEF Load, Reads, Sending
  <2>3. RegAgrees'
    BY <1>3, <2>1, <2>2 DEF RegAgrees
  <2> QED BY <1>2, <2>2, <2>3
<1>5. CASE CallMoveCursor
  <2>1. /\ pc \in {"cursor", "cursor_of_line"} /\ Loaded /\ outs' = PortWrites(position(reg))
        /\ reg' = Unloaded /\ pc' # "loop" /\ screen' = screen
    BY <1>5 DEF CallMoveCursor
  <2>2. position(reg) = position(screen)
    <3>1. DOMAIN reg = {"fb_col", "fb_row"}
      BY <2>1 DEF Loaded, Reads
    <3>2. reg["fb_col"] = screen["fb_col"] /\ reg["fb_row"] = screen["fb_row"]
      BY <1>3, <3>1 DEF RegAgrees
    <3> QED BY <3>2 DEF position
  <2>3. Len(outs') = 4
    BY <1>3, <2>1, <2>2, PositionType, PortWritesAre
  <2>4. Driven'
    <3>1. position(screen') = position(screen)
      BY <2>1
    <3>2. Pending'
      <4>1. \A i \in 1 .. 4 : (4 - 4) + i = i
        OBVIOUS
      <4>2. \A i \in 1 .. 4 : outs'[i] = PortWrites(position(screen'))[i]
        BY <2>1, <2>2, <3>1
      <4> QED BY <2>3, <4>1, <4>2 DEF Pending
    <3> QED BY <2>3, <3>2 DEF Driven
  <2> QED BY <2>1, <2>4 DEF RegAgrees, Unloaded
<1>6. CASE Outb
  <2>1. /\ pc \in Sending /\ screen' = outb(screen, Head(outs)) /\ outs' = Tail(outs)
        /\ reg' = reg /\ (Tail(outs) # <<>> => pc' = pc)
    BY <1>6 DEF Outb, Sending
  <2>2. outs \in Seq(Outs) /\ outs # <<>> /\ Len(outs) <= 4 /\ Driven
    BY <1>3, <2>1 DEF MainType
  <2>3. screen' \in Screen /\ (outs' = <<>> <=> pc' \notin Sending)
    BY DEF TypeInv, MainType
  <2>4. (Tail(outs) # <<>> => Driven') /\ (Tail(outs) = <<>> => screen' \in Following)
    BY <1>3, <2>1, <2>2, <2>3, OutbDrives
  <2>5. DOMAIN reg = {}
    BY <1>3, <2>1 DEF MainType, Reads, Sending
  <2> QED BY <2>1, <2>3, <2>4, <2>5 DEF RegAgrees, Sending
<1>7. CASE sti \/ init_keyboard \/ PutCell \/ Advance \/ Newline \/ Store \/ FirstCol
  <2>1. DOMAIN reg' = {}
    <3>1. CASE PutCell \/ Store
      BY <3>1 DEF PutCell, Store, Unloaded
    <3>2. CASE sti \/ init_keyboard \/ Advance \/ Newline \/ FirstCol
      BY <1>3, <3>2 DEF sti, init_keyboard, Advance, Newline, FirstCol, MainType, Reads
    <3> QED BY <1>7, <3>1, <3>2
  <2>2. pc' \notin Sending /\ pc' # "loop"
    <3>1. CASE init_keyboard
      <4>1. outs' = outs /\ pc \notin Sending /\ todo' = BootText \o PROMPT /\ pc' = Printing(todo')
        BY <3>1 DEF init_keyboard, Sending
      <4>2. pc' \in {"loop", "newline", "put"}
        BY <4>1 DEF Printing
      <4>3. todo' # <<>>
        <5>1. Len(BootText) \in Nat /\ Len(PROMPT) \in Nat /\ Len(PROMPT) # 0
          BY TextTypes
        <5>2. Len(todo') = Len(BootText) + Len(PROMPT)
          BY <4>1, TextTypes, ConcatProperties
        <5> QED BY <5>1, <5>2
      <4> QED BY <4>1, <4>2, <4>3 DEF Printing, Sending
    <3>2. CASE sti \/ PutCell \/ Advance \/ Newline \/ Store \/ FirstCol
      BY <3>2 DEF sti, PutCell, Advance, Newline, Store, FirstCol, Sending
    <3> QED BY <1>7, <3>1, <3>2
  <2> QED BY <2>1, <2>2 DEF RegAgrees
<1> QED BY <1>4, <1>5, <1>6, <1>7 DEF main

LEMMA StepFollows == TypeInv /\ TypeInv' /\ FollowInv /\ [Next]_vars => FollowInv'
<1> SUFFICES ASSUME TypeInv, TypeInv', FollowInv, [Next]_vars PROVE FollowInv'
  OBVIOUS
<1>1. CASE main
  BY <1>1, MainFollows
<1>2. CASE irq_handler
  BY <1>2, HandlerFollows
<1>3. ASSUME UNCHANGED <<screen, mainVars, lineVars>> PROVE FollowInv'
  BY <1>3 DEF FollowInv, RegAgrees, Driven, Pending, mainVars, lineVars
<1>4. ASSUME NEW k \in Keys, Press(k) PROVE FollowInv'
  BY <1>3, <1>4 DEF Press
<1>5. CASE UNCHANGED vars
  BY <1>3, <1>5 DEF vars
<1> QED BY <1>1, <1>2, <1>4, <1>5 DEF Next

LEMMA InitFollows == Init => FollowInv
BY DEF Init, FollowInv, RegAgrees, Unloaded, Sending

(* On a plain line main holds what the screen holds.                       *)
THEOREM FollowInvariant == Spec => []FollowInv
BY InitFollows, StepFollows, TypeInvariant, PTL DEF Spec

(* At a plain line the hardware cursor stands at the position of the next  *)
(* character, for every screen: through wrapping, scrolling, backspacing   *)
(* over rows and the output of commands.                                   *)
THEOREM Follows == Spec => []CursorFollows
<1>1. TypeInv /\ FollowInv => CursorFollows
  <2> SUFFICES ASSUME TypeInv, screen \in Following
               PROVE  screen.cursor.high * BYTE + screen.cursor.low = position(screen)
    BY DEF FollowInv, CursorFollows
  <2>1. screen.cursor = At(screen) /\ position(screen) \in 0 .. WORD - 1
    BY PositionType DEF Following
  <2>2. screen.cursor.high = position(screen) \div BYTE
        /\ screen.cursor.low = position(screen) % BYTE
    BY <2>1 DEF At
  <2> QED BY <2>1, <2>2, ByteIs
<1> QED BY <1>1, TypeInvariant, FollowInvariant, PTL

-----------------------------------------------------------------------------
(* What main has printed when the user waits for the prompt.  Boot is its  *)
(* text, Shows(k) the screen after k characters of it, and Finished the    *)
(* screen once main is through with the character it is at.                *)
Boot == BootText \o PROMPT
Shows(k) == write(Cleared(FirstRow), SubSeq(Boot, 1, k))
Gone == Len(Boot) - Len(todo)

Finished ==
  CASE pc = "put" -> Put(screen, Head(todo))
    [] pc = "advance" -> advance_pos(screen)
    [] pc = "newline" -> newline(screen)
    [] pc = "next_col" -> move_cursor([screen EXCEPT !.fb_col = (screen.fb_col + 1) % WORD])
    [] pc = "next_row" ->
         move_cursor(FirstColumn([screen EXCEPT !.fb_row = (screen.fb_row + 1) % WORD]))
    [] pc = "first_col" -> move_cursor(FirstColumn(screen))
    [] OTHER -> move_cursor(screen)

Undisturbed ==
  /\ pc \in {"sti", "init_keyboard"} => screen = Cleared(FirstRow)
  /\ pc = "loop" => screen = Shows(Len(Boot))
  /\ pc \notin Idle =>
       /\ Len(todo) <= Len(Boot) /\ \A i \in 1 .. Len(todo) : todo[i] = Boot[Gone + i]
       /\ Finished = Shows(Gone + 1)
  /\ pc = "put" => Head(todo) # NL

(* It holds before the first key, and as long as no key that came while    *)
(* main printed has changed the line.                                      *)
BootInv == keys = 0 \/ (plain /\ pc # "loop") => Undisturbed

LEMMA BootIs ==
  /\ Boot \in Seq(STRING) /\ Len(Boot) \in Nat /\ Len(Boot) > 0
  /\ \A i \in 1 .. Len(Boot) : Boot[i] \in STRING /\ Boot[i] \in Glyph
<1>1. Boot \in Seq(STRING) /\ Len(Boot) = Len(BootText) + Len(PROMPT)
  BY TextTypes, ConcatProperties DEF Boot
<1>2. Len(BootText) \in Nat /\ Len(PROMPT) \in Nat /\ Len(PROMPT) # 0
  BY TextTypes
<1>3. Len(Boot) \in Nat /\ Len(Boot) > 0
  BY <1>1, <1>2
<1>4. \A i \in 1 .. Len(Boot) : Boot[i] \in STRING
  BY <1>1, ElementOfSeq
<1> QED BY <1>1, <1>3, <1>4, TextTypes

LEMMA ShowsNext ==
  /\ Shows(0) = Cleared(FirstRow) /\ Shows(Len(Boot)) = write(Cleared(FirstRow), Boot)
  /\ \A k \in 0 .. Len(Boot) : Shows(k) \in Screen
  /\ \A k \in 0 .. Len(Boot) - 1 : Shows(k + 1) = Put(Shows(k), Boot[k + 1])
<1>1. PICK s \in Screen : s = Cleared(FirstRow)
  BY ClearedType
<1>2. PICK n \in Nat : n = Len(Boot)
  BY BootIs
<1>3. PICK all \in Seq(STRING) : all = Boot
  BY BootIs
<1>4. SubSeq(all, 1, 0) = <<>> /\ SubSeq(all, 1, n) = all
  <2>1. SubSeq(all, 1, 0) = <<>>
    BY <1>2, <1>3
  <2>2. SubSeq(all, 1, n) = all
    BY <1>2, <1>3
  <2> QED BY <2>1, <2>2
<1>5. ASSUME NEW k \in 0 .. n PROVE Shows(k) \in Screen
  <2> DEFINE text == SubSeq(all, 1, k)
  <2>1. text \in Seq(STRING)
    BY <1>2, <1>3
  <2> HIDE DEF text
  <2>2. text \in Seq(Glyph)
    BY <2>1, GlyphText
  <2>3. write(s, text) \in Screen
    BY <2>2, WriteKeeps
  <2> QED BY <1>1, <1>3, <2>3 DEF Shows, text
<1>6. ASSUME NEW k \in 0 .. n - 1 PROVE Shows(k + 1) = Put(Shows(k), Boot[k + 1])
  <2> DEFINE text == SubSeq(all, 1, k)
             more == SubSeq(all, 1, k + 1)
  <2>1. text \in Seq(STRING) /\ Len(text) = k /\ \A i \in 1 .. k : text[i] = all[i]
    BY <1>2, <1>3
  <2>2. more \in Seq(STRING) /\ Len(more) = k + 1 /\ \A i \in 1 .. k + 1 : more[i] = all[i]
    BY <1>2, <1>3
  <2> HIDE DEF text, more
  <2>3. PICK c \in Glyph : c = all[k + 1]
    <3>1. k + 1 \in 1 .. Len(Boot)
      BY <1>2
    <3> QED BY <1>3, <3>1, BootIs
  <2>4. all[k + 1] \in STRING
    <3>1. k + 1 \in 1 .. Len(Boot)
      BY <1>2
    <3> QED BY <1>3, <3>1, BootIs
  <2>5. more = Append(text, all[k + 1])
    <3> DEFINE longer == Append(text, all[k + 1])
    <3>1. longer \in Seq(STRING) /\ Len(longer) = k + 1
          /\ \A i \in 1 .. k + 1 : longer[i] = all[i]
      BY <2>1, <2>4
    <3> HIDE DEF longer
    <3>2. more = longer
      BY <2>2, <3>1
    <3> QED BY <3>2 DEF longer
  <2>6. Closed(Screen, Glyph) /\ text \in Seq(Glyph)
    BY <2>1, GlyphText, PutKeeps DEF Closed
  <2>7. write(s, Append(text, c)) = Put(write(s, text), c)
    BY <2>6, WriteOneMore
  <2> QED BY <1>1, <1>3, <2>3, <2>5, <2>7 DEF Shows, text, more
<1>7. write(s, <<>>) = s
  BY WriteNothing
<1> QED BY <1>1, <1>2, <1>3, <1>4, <1>5, <1>6, <1>7 DEF Shows

(* From one character to the next.                                         *)
LEMMA NextCharacter ==
  ASSUME todo' \in Seq(STRING), pc' = Printing(todo'), Len(todo') <= Len(Boot),
         \A i \in 1 .. Len(todo') : todo'[i] = Boot[Gone' + i],
         screen' = Shows(Gone')
  PROVE  /\ pc' = "loop" => screen' = Shows(Len(Boot))
         /\ pc' \notin {"sti", "init_keyboard"}
         /\ pc' \notin Idle => Finished' = Shows(Gone' + 1)
         /\ pc' = "put" => Head(todo') # NL
<1>1. Len(todo') \in Nat /\ Gone' = Len(Boot) - Len(todo')
  BY DEF Gone, Boot
<1>2. CASE todo' = <<>>
  <2>1. pc' = "loop" /\ Len(todo') = 0
    BY <1>2 DEF Printing
  <2>2. Gone' = Len(Boot)
    BY <1>1, <2>1, BootIs
  <2> QED BY <2>1, <2>2 DEF Idle
<1>3. CASE todo' # <<>>
  <2>1. Finished' = Put(screen', Head(todo')) /\ (pc' = "put" => Head(todo') # NL)
        /\ pc' \notin Idle
    <3>1. CASE Head(todo') = NL
      BY <1>3, <3>1 DEF Printing, Finished, Put, Idle
    <3>2. CASE Head(todo') # NL
      BY <1>3, <3>2 DEF Printing, Finished, Idle
    <3> QED BY <3>1, <3>2
  <2>2. Len(todo') > 0 /\ Head(todo') = todo'[1] /\ 1 \in 1 .. Len(todo')
    BY <1>1, <1>3, TailOf
  <2>3. Gone' \in 0 .. Len(Boot) - 1 /\ Head(todo') = Boot[Gone' + 1]
    BY <1>1, <2>2, BootIs
  <2>4. Shows(Gone' + 1) = Put(Shows(Gone'), Boot[Gone' + 1])
    BY <2>3, ShowsNext
  <2> QED BY <2>1, <2>3, <2>4 DEF Idle
<1> QED BY <1>2, <1>3

LEMMA MainBoots ==
  ASSUME TypeInv, TypeInv', FollowInv, plain, Undisturbed, main PROVE Undisturbed'
<1>2. pc # "loop" /\ screen \in Screen /\ MainType /\ MainType' /\ screen' \in Screen
  BY DEF TypeInv, main, sti, init_keyboard, Load, PutCell, Advance, Newline, Store, FirstCol,
         CallMoveCursor, Outb, Reads
<1>3. RegAgrees
  BY <1>2 DEF FollowInv
<1>4. pc \notin Idle =>
        /\ Len(todo) <= Len(Boot) /\ \A i \in 1 .. Len(todo) : todo[i] = Boot[Gone + i]
        /\ Finished = Shows(Gone + 1)
  BY DEF Undisturbed
<1>5. ASSUME pc \notin Idle, pc' \notin Idle \cup {"put"}, todo' = todo, Finished' = Finished
      PROVE  Undisturbed'
  BY <1>4, <1>5 DEF Undisturbed, Gone, Idle, Boot
<1>6. CASE sti
  BY <1>6 DEF sti, Undisturbed, Idle
<1>7. CASE init_keyboard
  <2>1. /\ todo' = Boot /\ pc' = Printing(todo') /\ screen' = Cleared(FirstRow)
    BY <1>7 DEF init_keyboard, Boot, Undisturbed
  <2>2. Gone' = 0 /\ todo' \in Seq(STRING) /\ Len(todo') <= Len(Boot)
        /\ \A i \in 1 .. Len(todo') : todo'[i] = Boot[Gone' + i]
    BY <2>1, BootIs DEF Gone, Boot
  <2>3. screen' = Shows(Gone')
    BY <2>1, <2>2, ShowsNext
  <2> QED BY <2>1, <2>2, <2>3, NextCharacter DEF Undisturbed
<1>8. CASE Load
  <2>1. UNCHANGED <<screen, pc, todo>>
    BY <1>8 DEF Load
  <2> QED BY <2>1, <1>2 DEF Undisturbed, Finished, Gone, Boot
<1>9. CASE PutCell
  <2>1. /\ pc = "put" /\ Loaded /\ pc' = "advance" /\ todo' = todo
        /\ screen' = write_cell(screen, position(reg), Head(todo))
    BY <1>9 DEF PutCell
  <2>2. position(reg) = position(screen)
    <3>1. DOMAIN reg = {"fb_col", "fb_row"}
      BY <2>1 DEF Loaded, Reads
    <3>2. reg["fb_col"] = screen["fb_col"] /\ reg["fb_row"] = screen["fb_row"]
      BY <1>3, <3>1 DEF RegAgrees
    <3> QED BY <3>2 DEF position
  <2>3. Head(todo) # NL
    BY <2>1 DEF Undisturbed
  <2>4. Finished = advance_pos(screen') /\ Finished' = advance_pos(screen')
    BY <2>1, <2>2, <2>3 DEF Finished, Put
  <2> QED BY <1>5, <2>1, <2>4 DEF Idle, Undisturbed
<1>10. CASE Advance
  <2>1. pc = "advance" /\ UNCHANGED <<screen, todo>>
        /\ pc' = IF RoomBehind(screen.fb_col) THEN "next_col" ELSE "newline"
    BY <1>10 DEF Advance
  <2>2. Finished' = advance_pos(screen)
    <3>1. CASE RoomBehind(screen.fb_col)
      BY <1>2, <2>1, <3>1 DEF Finished, advance_pos, Screen
    <3>2. CASE ~ RoomBehind(screen.fb_col)
      BY <1>2, <2>1, <3>2, MoveCursorAgain DEF Finished, advance_pos
    <3> QED BY <3>1, <3>2
  <2>3. Finished' = Finished
    BY <2>1, <2>2 DEF Finished
  <2> QED BY <1>5, <2>1, <2>3 DEF Idle, Undisturbed
<1>11. CASE Newline
  <2>1. pc = "newline" /\ todo' = todo
        /\ IF RoomBelow(screen.fb_row)
             THEN pc' = "next_row" /\ screen' = screen
             ELSE pc' = "first_col" /\ screen' = scroll_down(screen)
    BY <1>11 DEF Newline
  <2>2. Finished' = newline(screen)
    BY <1>2, <2>1 DEF Finished, newline, Screen
  <2>3. Finished' = Finished /\ pc' \notin Idle \cup {"put"}
    BY <2>1, <2>2 DEF Finished, Idle
  <2> QED BY <1>5, <2>1, <2>3 DEF Idle, Undisturbed
<1>12. CASE Store
  <2>1. /\ Loaded /\ todo' = todo
        /\ \/ /\ pc = "next_col" /\ pc' = "cursor"
              /\ screen' = [screen EXCEPT !.fb_col = (reg.fb_col + 1) % WORD]
           \/ /\ pc = "next_row" /\ pc' = "first_col"
              /\ screen' = [screen EXCEPT !.fb_row = (reg.fb_row + 1) % WORD]
    BY <1>12 DEF Store
  <2>2. Finished' = Finished
    <3>1. CASE pc = "next_col"
      <4>1. reg["fb_col"] = screen["fb_col"]
        BY <1>3, <2>1, <3>1 DEF Loaded, Reads, RegAgrees
      <4> QED BY <2>1, <3>1, <4>1 DEF Finished
    <3>2. CASE pc = "next_row"
      <4>1. reg["fb_row"] = screen["fb_row"]
        BY <1>3, <2>1, <3>2 DEF Loaded, Reads, RegAgrees
      <4> QED BY <2>1, <3>2, <4>1 DEF Finished
    <3> QED BY <2>1, <3>1, <3>2
  <2> QED BY <1>5, <2>1, <2>2 DEF Idle, Undisturbed
<1>13. CASE FirstCol
  <2>1. /\ pc = "first_col" /\ pc' = "cursor_of_line" /\ screen' = FirstColumn(screen)
        /\ todo' = todo
    BY <1>13 DEF FirstCol
  <2>2. Finished' = Finished
    BY <2>1 DEF Finished
  <2> QED BY <1>5, <2>1, <2>2 DEF Idle, Undisturbed
<1>14. CASE CallMoveCursor
  <2>1. /\ pc \in {"cursor", "cursor_of_line"} /\ UNCHANGED <<screen, todo>>
        /\ pc' \in Sending
    BY <1>14 DEF CallMoveCursor, Sending
  <2>2. Finished' = Finished
    BY <2>1 DEF Finished, Sending
  <2> QED BY <1>5, <2>1, <2>2 DEF Idle, Sending, Undisturbed
<1>15. CASE Outb
  <2>1. /\ pc \in Sending /\ screen' = outb(screen, Head(outs)) /\ outs' = Tail(outs)
        /\ \/ Tail(outs) # <<>> /\ UNCHANGED <<pc, todo>>
           \/ Tail(outs) = <<>> /\ pc' = "cursor" /\ todo' = todo
           \/ Tail(outs) = <<>> /\ todo' = Tail(todo) /\ pc' = Printing(todo')
    BY <1>15 DEF Outb, Sending
  <2>2. /\ outs \in Seq(Outs) /\ outs # <<>> /\ Len(outs) <= 4
        /\ todo \in Seq(STRING) /\ todo # <<>> /\ pc \notin Idle
    BY <1>2, <2>1 DEF MainType, Idle, Sending
  <2>3. move_cursor(screen') = move_cursor(screen)
    <3>1. PICK out \in Outs : out = Head(outs)
      BY <2>2, TailOf
    <3> QED BY <1>2, <2>1, <3>1, MoveCursorAgain
  <2>4. Finished = move_cursor(screen)
    BY <2>1 DEF Finished, Sending
  <2>5. CASE pc' \in {"cursor"} \cup Sending /\ todo' = todo
    <3>1. Finished' = move_cursor(screen')
      BY <2>5 DEF Finished, Sending
    <3>2. pc' \notin Idle \cup {"put"}
      BY <2>5 DEF Idle, Sending
    <3> QED BY <1>5, <2>2, <2>3, <2>4, <2>5, <3>1, <3>2 DEF Undisturbed
  <2>6. CASE Tail(outs) = <<>> /\ todo' = Tail(todo) /\ pc' = Printing(todo')
    <3>1. Driven
      BY <1>2, <2>1 DEF FollowInv
    <3>2. screen' \in Following
      BY <1>2, <2>1, <2>2, <2>6, <3>1, OutbDrives
    <3>3. screen' = Shows(Gone + 1)
      BY <1>2, <1>4, <2>2, <2>3, <2>4, <3>2, MoveCursorAgain
    <3>4. /\ todo' \in Seq(STRING) /\ Len(todo) \in Nat /\ Len(todo') = Len(todo) - 1
          /\ \A i \in 1 .. Len(todo) - 1 : todo'[i] = todo[i + 1]
      BY <2>2, <2>6, TailOf
    <3>5. Gone' = Gone + 1 /\ Gone \in Int
      BY <3>4, BootIs DEF Gone, Boot
    <3>6. ASSUME NEW i \in 1 .. Len(todo') PROVE todo'[i] = Boot[Gone' + i]
      <4>1. i + 1 \in 1 .. Len(todo) /\ i \in 1 .. Len(todo) - 1 /\ Gone + (i + 1) = Gone' + i
        BY <3>4, <3>5
      <4> QED BY <1>4, <2>2, <3>4, <4>1
    <3>7. Len(todo') <= Len(Boot)
      BY <1>4, <2>2, <3>4, BootIs
    <3> QED BY <2>6, <3>3, <3>4, <3>5, <3>6, <3>7, NextCharacter DEF Undisturbed
  <2> QED BY <2>1, <2>5, <2>6
<1> QED BY <1>6, <1>7, <1>8, <1>9, <1>10, <1>11, <1>12, <1>13, <1>14, <1>15 DEF main

LEMMA StepBoots == TypeInv /\ TypeInv' /\ FollowInv /\ BootInv /\ [Next]_vars => BootInv'
<1> SUFFICES ASSUME TypeInv, TypeInv', FollowInv, BootInv, [Next]_vars PROVE BootInv'
  OBVIOUS
<1>1. CASE main
  <2>1. UNCHANGED <<keys, plain>> /\ pc # "loop"
    BY <1>1 DEF main, lineVars, sti, init_keyboard, Load, PutCell, Advance, Newline, Store,
                FirstCol, CallMoveCursor, Outb, Reads
  <2>2. SUFFICES ASSUME keys = 0 \/ plain PROVE Undisturbed'
    BY <2>1 DEF BootInv
  <2>3. plain /\ Undisturbed
    BY <2>1, <2>2 DEF BootInv, FollowInv
  <2> QED BY <1>1, <2>3, MainBoots
<1>2. ASSUME UNCHANGED <<screen, pc, todo, plain>>, keys' = 0 => keys = 0 PROVE BootInv'
  BY <1>2 DEF BootInv, Undisturbed, Finished, Gone, Boot
<1>3. CASE irq_handler
  <2>1. UNCHANGED mainVars /\ (Ignores \/ Erases \/ Prompts \/ Echoes)
    BY <1>3, HandlerCases
  <2>2. keys \in Nat
    BY KeyboardAssumption DEF TypeInv, KeysLeft, Limit
  <2>3. CASE Ignores
    BY <1>2, <2>1, <2>2, <2>3 DEF Ignores, mainVars
  <2>4. CASE Erases \/ Prompts \/ Echoes
    <3>1. keys' # 0
      BY <2>2, <2>4 DEF Erases, Prompts, Echoes
    <3>2. plain' => pc = "loop"
      <4>1. CASE Erases
        <5>1. cmd_index > 0 /\ plain' = plain /\ cmd_index \in Nat
          BY <4>1, Sizes DEF Erases, TypeInv, LineInv, Buffer
        <5> QED BY <5>1 DEF FollowInv
      <4>2. CASE Prompts
        <5>1. plain' = (pc = "loop")
          BY <4>2 DEF Prompts
        <5> QED BY <5>1, Zenon
      <4>3. CASE Echoes
        <5>1. plain' = (plain /\ pc = "loop" /\ screen.fb_col < FB_WIDTH)
          BY <4>3 DEF Echoes
        <5> QED BY <5>1, Zenon
      <4> QED BY <2>4, <4>1, <4>2, <4>3
    <3>3. pc' = pc
      BY <2>1 DEF mainVars
    <3> QED BY <3>1, <3>2, <3>3 DEF BootInv
  <2> QED BY <2>1, <2>3, <2>4
<1>4. ASSUME NEW k \in Keys, Press(k) PROVE BootInv'
  BY <1>2, <1>4 DEF Press, mainVars, lineVars
<1>5. CASE UNCHANGED vars
  BY <1>2, <1>5 DEF vars, mainVars, lineVars
<1> QED BY <1>1, <1>3, <1>4, <1>5 DEF Next

LEMMA InitBoots == Init => BootInv
BY DEF Init, BootInv, Undisturbed, Idle

(* Undisturbed, the screen is on its way to main's next character.         *)
THEOREM BootInvariant == Spec => []BootInv
BY InitBoots, StepBoots, TypeInvariant, FollowInvariant, PTL DEF Spec

(* main alone prints what it is given, for every text, prompt and screen:  *)
(* its loads, stores and port writes, taken apart, come to what the calls  *)
(* of write and init_prompt do undivided.                                  *)
THEOREM BootPrints == Spec => []BootScreen
<1>1. BootInv => BootScreen
  BY ShowsNext DEF BootInv, Undisturbed, BootScreen, Boot
<1> QED BY <1>1, BootInvariant, PTL

-----------------------------------------------------------------------------
(* What write_cell is given.  At the prompt, at least the characters of    *)
(* the line stand before the cursor.  While main prints, Late bounds how   *)
(* far the keys handled so far can have put the column before the first of *)
(* its row; main may move the column back to what it has loaded, but not   *)
(* beyond that, and the row never up to above the one it began at.         *)
Late == keys - cmd_index
Ahead(at) == at.fb_col # FB_WIDTH /\ (screen.fb_row = LastRow => RoomBehind(at.fb_col))

Booting ==
  /\ cmd_index <= keys
  /\ ~ screen.stray /\ screen.fb_row \in FirstRow .. LastRow /\ column(screen) >= - Late
  /\ screen.fb_row = LastRow /\ screen.fb_col = FB_WIDTH => pc = "first_col"
  /\ "fb_row" \in DOMAIN reg => reg.fb_row \in FirstRow .. screen.fb_row
  /\ "fb_col" \in DOMAIN reg => column(reg) >= - Late
  /\ pc = "put" /\ "fb_col" \in DOMAIN reg /\ reg.fb_col = FB_WIDTH => screen.fb_row # LastRow
  /\ pc = "next_col" => Ahead(screen) /\ ("fb_col" \in DOMAIN reg => Ahead(reg))
  /\ pc = "next_row" => screen.fb_row # LastRow

RoomInv ==
  /\ pc = "loop" => screen \in Standing(cmd_index)
  /\ pc # "loop" => Booting

(* A key that is handled while main prints does not take the screen to its *)
(* last row.                                                               *)
RoomKept == pc # "loop" /\ keys' # keys => RoomBelow(screen'.fb_row)
RoomForKeys == [][RoomKept]_vars

LEMMA RoomSizes ==
  /\ FB_WIDTH \in Nat /\ FB_WIDTH > 0 /\ FB_HEIGHT \in Nat /\ LastRow = FB_HEIGHT - 1
  /\ FirstRow \in 1 .. LastRow /\ LastRow \in Nat /\ WORD \in Nat /\ LastRow < WORD /\ FB_WIDTH < WORD
  /\ \A row \in FirstRow .. LastRow : RoomBelow(row) <=> row # LastRow
  /\ \A row \in FirstRow .. LastRow : FirstRow * FB_WIDTH <= row * FB_WIDTH
  /\ FirstRow * FB_WIDTH \in Nat /\ MaxLine + 1 <= LastRow * FB_WIDTH
<1>1. FB_WIDTH \in Nat /\ FB_WIDTH > 0 /\ FB_HEIGHT \in Nat /\ FB_HEIGHT > 1 /\ WORD \in Nat
      /\ 4 * (FB_WIDTH * FB_HEIGHT) < WORD /\ FB_WIDTH * FB_HEIGHT \in Nat
  BY Widths
<1>2. FirstRow \in 1 .. LastRow /\ LastRow \in Nat
  BY <1>1, KeyboardAssumption DEF LastRow
<1>3. FB_HEIGHT <= FB_WIDTH * FB_HEIGHT /\ FB_WIDTH <= FB_WIDTH * FB_HEIGHT
  BY <1>1
<1>4. \A row \in FirstRow .. LastRow : FirstRow * FB_WIDTH <= row * FB_WIDTH
  <2>1. \A x, y, w \in Nat : x <= y => x * w <= y * w
    BY Z3
  <2> QED BY <1>1, <1>2, <2>1
<1>5. MaxLine + 1 <= LastRow * FB_WIDTH
  <2>1. MaxLine \in Nat /\ MaxLine + Len(PROMPT) <= FB_WIDTH * (FB_HEIGHT - 1)
    BY KeyboardAssumption
  <2>2. Len(PROMPT) \in Nat /\ Len(PROMPT) # 0
    BY TextTypes
  <2>3. FB_WIDTH * (FB_HEIGHT - 1) = LastRow * FB_WIDTH /\ LastRow * FB_WIDTH \in Nat
    BY <1>1, <1>2 DEF LastRow
  <2> QED BY <2>1, <2>2, <2>3
<1>6. \A row \in FirstRow .. LastRow : RoomBelow(row) <=> row # LastRow
  BY <1>1, <1>2 DEF RoomBelow, LastRow
<1>7. FirstRow * FB_WIDTH \in Nat
  BY <1>1, <1>2
<1> QED BY <1>1, <1>2, <1>3, <1>4, <1>5, <1>6, <1>7 DEF LastRow

(* A key at the prompt.                                                    *)
LEMMA KeyAtPrompt ==
  ASSUME TypeInv, screen \in Standing(cmd_index), Ignores \/ Erases \/ Prompts \/ Echoes
  PROVE  screen' \in Standing(cmd_index')
<1>1. cmd_index \in Nat
  BY Sizes DEF TypeInv, LineInv, Buffer
<1>2. CASE Ignores
  BY <1>2 DEF Ignores
<1>3. CASE Erases
  BY <1>1, <1>3, BackStands DEF Erases
<1>4. CASE Prompts
  <2>1. PICK t \in Seq(STRING) : screen' = init_prompt(write(screen, t))
    BY <1>4 DEF Prompts
  <2>2. screen \in Standing(0)
    BY <1>1, StandsOnNone
  <2>3. t \in Seq(Glyph) /\ PROMPT \in Seq(Glyph)
    BY GlyphText, TextTypes
  <2>4. write(screen, t) \in Standing(0)
    BY <2>2, <2>3, WriteStands
  <2> QED BY <1>4, <2>1, <2>3, <2>4, WriteStands DEF Prompts, init_prompt
<1>5. CASE Echoes
  <2>1. PICK c \in STRING : screen' = Put(screen, c)
    BY <1>5 DEF Echoes
  <2>2. c \in Glyph /\ cmd_index' = cmd_index + 1
    BY <1>5, TextTypes DEF Echoes
  <2>3. cmd_index + 1 <= LastRow * FB_WIDTH
    <3>1. cmd_index < MaxLine /\ MaxLine \in Nat
      BY <1>5, Sizes DEF Echoes
    <3>2. LastRow * FB_WIDTH \in Nat
      BY RoomSizes
    <3> QED BY <1>1, <3>1, <3>2, RoomSizes
  <2> QED BY <1>1, <2>1, <2>2, <2>3, PutStands
<1> QED BY <1>2, <1>3, <1>4, <1>5

(* A key while main prints: it leaves the screen no further before the     *)
(* first column than Late says, and in no row above the one it was in.     *)
LEMMA KeyMeanwhile ==
  ASSUME BootKeys <= FirstRow * FB_WIDTH, TypeInv, Booting, pc # "loop", RoomKept,
         keys' # keys, keys < Limit, UNCHANGED mainVars,
         Ignores \/ Erases \/ Prompts \/ Echoes
  PROVE  Booting'
<1>1. /\ cmd_index \in Nat /\ keys \in Nat /\ keys + 1 <= FirstRow * FB_WIDTH
      /\ cmd_index <= keys /\ Late \in Nat /\ Late + 1 <= FirstRow * FB_WIDTH
  <2>1. cmd_index \in Nat
    BY Sizes DEF TypeInv, LineInv, Buffer
  <2>2. keys \in Nat /\ keys + 1 <= BootKeys /\ BootKeys \in Nat
    BY KeyboardAssumption DEF TypeInv, KeysLeft, Limit
  <2>3. FirstRow * FB_WIDTH \in Nat
    BY RoomSizes
  <2> QED BY <2>1, <2>2, <2>3 DEF Late, Booting
<1>2. PICK r \in FirstRow .. LastRow : r = screen.fb_row
  BY DEF Booting
<1>3. r \in 0 .. LastRow /\ FirstRow * FB_WIDTH <= r * FB_WIDTH /\ r * FB_WIDTH \in Nat
      /\ FirstRow * FB_WIDTH \in Nat
  BY RoomSizes, RowsFit
<1>4. PICK b \in Nat : b = Late
  BY <1>1
<1>5. b <= r * FB_WIDTH /\ b + 1 <= r * FB_WIDTH
  BY <1>1, <1>3, <1>4
<1>6. screen \in Screen /\ ~ screen.stray /\ column(screen) >= - b
  BY <1>4 DEF TypeInv, Booting
<1>7. screen' \in Screen /\ screen'.fb_row >= r
  <2>1. r \in Nat
    BY <1>3
  <2>2. CASE Erases
    BY <1>2, <1>6, <2>1, <2>2, BackSpaceKeeps DEF Erases
  <2>3. CASE Prompts
    <3>1. PICK t \in Seq(STRING) : screen' = write(write(screen, t), PROMPT)
      BY <2>3 DEF Prompts, init_prompt
    <3>2. t \in Seq(Glyph) /\ PROMPT \in Seq(Glyph)
      BY GlyphText, TextTypes
    <3>3. write(screen, t) \in Screen /\ write(screen, t).fb_row >= r
      BY <1>2, <1>6, <3>2, NotAbove
    <3>4. screen' \in Screen /\ screen'.fb_row >= write(screen, t).fb_row
      BY <3>1, <3>2, <3>3, NotAbove
    <3>5. \A x \in Screen : x.fb_row \in Nat
      BY Widths DEF Screen
    <3> QED BY <2>1, <3>3, <3>4, <3>5
  <2>4. CASE Echoes
    <3>1. PICK c \in STRING : screen' = Put(screen, c)
      BY <2>4 DEF Echoes
    <3>2. c \in Glyph
      BY TextTypes
    <3> QED BY <1>2, <1>6, <3>1, <3>2, NotAbove, PutKeeps
  <2>5. CASE Ignores
    BY <1>2, <1>6, <2>1, <2>5 DEF Ignores
  <2> QED BY <2>2, <2>3, <2>4, <2>5
<1>8. r # LastRow /\ RoomBelow(screen'.fb_row) /\ screen'.fb_row # LastRow
  <2>1. RoomBelow(screen'.fb_row)
    BY DEF RoomKept
  <2>2. \A x \in Screen : x.fb_row \in Nat
    BY Widths DEF Screen
  <2>3. screen'.fb_row < LastRow
    BY <1>7, <2>1, <2>2, RoomSizes DEF RoomBelow
  <2> QED BY <1>3, <1>7, <2>1, <2>2, <2>3, RoomSizes
<1>9. screen \in From(r, b)
  <2>1. screen.fb_row \in r .. LastRow
    BY <1>2, <1>3, RoomSizes
  <2> QED BY <1>2, <1>6, <1>8, <2>1 DEF From
<1>10. /\ Late' \in Nat /\ Late' >= b /\ cmd_index' <= keys' /\ screen' \in From(r, Late')
       /\ screen.fb_col # FB_WIDTH => screen'.fb_col # FB_WIDTH
  <2>1. CASE Erases
    <3>1. Late' = b + 2 /\ cmd_index' <= keys'
      BY <1>1, <1>4, <2>1 DEF Erases, Late
    <3>2. screen' \in Behind(r, b + 1)
      BY <1>3, <1>5, <1>9, <2>1, BackFrom DEF Erases
    <3>3. screen' \in From(r, b + 1) /\ screen'.fb_col # FB_WIDTH
      BY <3>2 DEF Behind
    <3>4. b + 1 <= b + 2 /\ b + 1 \in Nat /\ b + 2 \in Nat
      OBVIOUS
    <3>5. screen' \in From(r, b + 2)
      BY <3>3, <3>4, FromMore
    <3> QED BY <3>1, <3>3, <3>4, <3>5
  <2>2. CASE Prompts
    <3>1. Late' = keys + 1 /\ b <= keys + 1 /\ cmd_index' <= keys' /\ keys + 1 \in Nat
          /\ keys + 1 <= r * FB_WIDTH
      BY <1>1, <1>3, <1>4, <2>2 DEF Prompts, Late
    <3>2. PICK t \in Seq(STRING) : screen' = write(write(screen, t), PROMPT)
      BY <2>2 DEF Prompts, init_prompt
    <3>3. t \in Seq(Glyph) /\ PROMPT \in Seq(Glyph)
      BY GlyphText, TextTypes
    <3>4. screen \in From(r, keys + 1)
      BY <1>9, <3>1, FromMore
    <3>5. write(screen, t) \in From(r, keys + 1)
          /\ (screen.fb_col # FB_WIDTH => write(screen, t).fb_col # FB_WIDTH)
      BY <1>3, <3>1, <3>3, <3>4, WriteFrom
    <3>6. screen' \in From(r, keys + 1)
          /\ (write(screen, t).fb_col # FB_WIDTH => screen'.fb_col # FB_WIDTH)
      BY <1>3, <3>1, <3>2, <3>3, <3>5, WriteFrom
    <3> QED BY <3>1, <3>5, <3>6
  <2>3. CASE Echoes
    <3>1. Late' = b /\ cmd_index' <= keys'
      BY <1>1, <1>4, <2>3 DEF Echoes, Late
    <3>2. PICK c \in STRING : screen' = Put(screen, c)
      BY <2>3 DEF Echoes
    <3>3. c \in Glyph
      BY TextTypes
    <3>4. screen' \in Behind(r, b)
      BY <1>3, <1>5, <1>9, <3>2, <3>3, PutFrom
    <3> QED BY <3>1, <3>4 DEF Behind
  <2>4. CASE Ignores
    <3>1. keys' = keys + 1 /\ cmd_index' = cmd_index /\ screen' = screen
      BY <2>4 DEF Ignores
    <3>2. Late' = b + 1 /\ cmd_index' <= keys'
      BY <1>1, <1>4, <3>1 DEF Late
    <3>3. b <= b + 1 /\ b + 1 \in Nat
      OBVIOUS
    <3>4. screen' \in From(r, b + 1)
      BY <1>9, <3>1, <3>3, FromMore
    <3> QED BY <3>1, <3>2, <3>3, <3>4
  <2> QED BY <2>1, <2>2, <2>3, <2>4
<1>11. UNCHANGED <<pc, reg>>
  BY DEF mainVars
<1>12. ~ screen'.stray /\ screen'.fb_row \in r .. LastRow /\ column(screen') >= - Late'
  BY <1>10 DEF From
<1>13. FirstRow \in Nat /\ FirstRow <= r /\ LastRow \in Nat /\ r \in Nat
  BY <1>3, RoomSizes
<1>14. screen'.fb_row \in FirstRow .. LastRow
       /\ \A row \in FirstRow .. screen.fb_row : row \in FirstRow .. screen'.fb_row
  BY <1>2, <1>12, <1>13
<1>15. "fb_col" \in DOMAIN reg' => column(reg') >= - Late'
  <2>1. ASSUME "fb_col" \in DOMAIN reg PROVE column(reg) >= - Late'
    <3>1. column(reg) >= - b
      BY <1>4, <2>1 DEF Booting
    <3>2. reg.fb_col \in Nat
      BY <2>1, RoomSizes DEF TypeInv, MainType, Words
    <3>3. column(reg) \in Int
      BY <3>2, RoomSizes DEF column
    <3> QED BY <1>10, <3>1, <3>3
  <2>2. column(reg') = column(reg)
    BY <1>11
  <2> QED BY <1>11, <2>1, <2>2
<1>16. pc' = "next_col" => Ahead(screen)' /\ ("fb_col" \in DOMAIN reg' => Ahead(reg)')
  BY <1>8, <1>10, <1>11 DEF Booting, Ahead
<1> QED BY <1>8, <1>10, <1>11, <1>12, <1>14, <1>15, <1>16 DEF Booting

(* A step of main.                                                         *)
LEMMA MainRoom ==
  ASSUME BootKeys <= FirstRow * FB_WIDTH, TypeInv, TypeInv', RoomInv, main
  PROVE  RoomInv'
<1>1. UNCHANGED <<keys, cmd_index>>
  BY DEF main, lineVars
<1>2. pc # "loop"
  BY DEF main, sti, init_keyboard, Load, PutCell, Advance, Newline, Store, FirstCol,
         CallMoveCursor, Outb, Reads
<1>3. Booting /\ screen \in Screen /\ MainType /\ MainType' /\ screen' \in Screen
  BY <1>2 DEF RoomInv, TypeInv
<1>4. /\ cmd_index \in Nat /\ keys \in Nat /\ cmd_index <= keys
      /\ Late \in Nat /\ Late <= FirstRow * FB_WIDTH /\ FirstRow * FB_WIDTH \in Nat
      /\ FirstRow * FB_WIDTH - Late >= cmd_index /\ FirstRow * FB_WIDTH >= cmd_index
  <2>1. cmd_index \in Nat
    BY Sizes DEF TypeInv, LineInv, Buffer
  <2>2. keys \in Nat /\ keys <= BootKeys /\ BootKeys \in Nat
    BY <1>2, KeyboardAssumption DEF TypeInv, KeysLeft, Limit
  <2>3. FirstRow * FB_WIDTH \in Nat
    BY RoomSizes
  <2> QED BY <1>3, <2>1, <2>2, <2>3 DEF Late, Booting
<1>5. Late' = Late
  BY <1>1 DEF Late
<1>6. FirstRow \in 0 .. LastRow /\ FirstRow \in Nat /\ LastRow \in Nat /\ FB_WIDTH \in Nat /\ FB_WIDTH > 0
  BY RoomSizes
<1>7. /\ ~ screen.stray /\ screen.fb_row \in FirstRow .. LastRow /\ column(screen) >= - Late
      /\ screen.fb_row = LastRow /\ screen.fb_col = FB_WIDTH => pc = "first_col"
  BY <1>3 DEF Booting
(* The screen is as it was, except perhaps for its cells and cursor.       *)
<1>8. ASSUME pc' # "loop", ~ screen'.stray, UNCHANGED <<screen.fb_col, screen.fb_row>>,
             pc = "first_col" => pc' = "first_col",
             "fb_row" \in DOMAIN reg' => reg'.fb_row \in FirstRow .. screen.fb_row,
             "fb_col" \in DOMAIN reg' => column(reg') >= - Late,
             pc' = "put" /\ "fb_col" \in DOMAIN reg' /\ reg'.fb_col = FB_WIDTH => screen.fb_row # LastRow,
             pc' = "next_col" => Ahead(screen) /\ ("fb_col" \in DOMAIN reg' => Ahead(reg)'),
             pc' = "next_row" => screen.fb_row # LastRow
      PROVE  RoomInv'
  <2>1. column(screen') = column(screen)
    BY <1>8 DEF column
  <2>2. Ahead(screen)' = Ahead(screen)
    BY <1>8 DEF Ahead
  <2> QED BY <1>1, <1>3, <1>5, <1>7, <1>8, <2>1, <2>2 DEF RoomInv, Booting
<1>9. ASSUME DOMAIN reg' = {}, pc' \notin {"loop", "next_col", "next_row"}, ~ screen'.stray,
             UNCHANGED <<screen.fb_col, screen.fb_row>>, pc = "first_col" => pc' = "first_col"
      PROVE  RoomInv'
  BY <1>8, <1>9
<1>10. CASE sti
  <2>1. DOMAIN reg' = {} /\ screen' = screen /\ pc = "sti" /\ pc' = "init_keyboard"
    BY <1>3, <1>10 DEF sti, MainType, Reads
  <2> QED BY <1>7, <1>9, <2>1
<1>11. CASE init_keyboard
  <2>1. /\ DOMAIN reg' = {} /\ screen' = screen /\ pc = "init_keyboard" /\ pc' = Printing(todo')
        /\ outs' = outs
    BY <1>3, <1>11 DEF init_keyboard, MainType, Reads
  <2>2. todo' = Boot /\ todo' # <<>>
    BY <1>11, BootIs DEF init_keyboard, Boot
  <2>3. pc' \in {"newline", "put"}
    BY <2>1, <2>2, Zenon DEF Printing
  <2> QED BY <1>7, <1>9, <2>1, <2>3
<1>12. CASE Load
  <2>1. PICK x \in Reads \ DOMAIN reg :
          reg' = [y \in DOMAIN reg \cup {x} |-> IF y = x THEN screen[x] ELSE reg[y]]
    BY <1>12 DEF Load
  <2>2. UNCHANGED <<screen, pc>> /\ pc # "first_col"
    BY <1>12 DEF Load, Reads
  <2>3. "fb_row" \in DOMAIN reg' => reg'.fb_row \in FirstRow .. screen.fb_row
    <3>1. screen.fb_row \in FirstRow .. screen.fb_row
      BY <1>6, <1>7
    <3> QED BY <1>3, <2>1, <3>1 DEF Booting
  <2>4. "fb_col" \in DOMAIN reg' => reg'.fb_col = screen.fb_col
                                    \/ ("fb_col" \in DOMAIN reg /\ reg'.fb_col = reg.fb_col)
    BY <2>1
  <2>5. "fb_col" \in DOMAIN reg' => column(reg') >= - Late
    BY <1>3, <1>7, <2>4 DEF Booting, column
  <2>6. pc = "next_col" => Ahead(screen) /\ ("fb_col" \in DOMAIN reg' => Ahead(reg)')
    BY <1>3, <2>2, <2>4 DEF Booting, Ahead
  <2>7. pc = "put" /\ "fb_col" \in DOMAIN reg' /\ reg'.fb_col = FB_WIDTH => screen.fb_row # LastRow
    BY <1>3, <1>7, <2>4 DEF Booting
  <2>8. pc = "next_row" => screen.fb_row # LastRow
    BY <1>3 DEF Booting
  <2> QED BY <1>2, <1>7, <1>8, <2>2, <2>3, <2>5, <2>6, <2>7, <2>8
<1>13. CASE PutCell
  <2>1. /\ pc = "put" /\ Loaded /\ reg' = Unloaded /\ pc' = "advance"
        /\ screen' = write_cell(screen, position(reg), Head(todo))
    BY <1>13 DEF PutCell
  <2>2. DOMAIN reg = {"fb_col", "fb_row"}
    BY <2>1 DEF Loaded, Reads
  <2>3. reg.fb_col \in 0 .. WORD - 1 /\ reg.fb_row \in FirstRow .. screen.fb_row
        /\ column(reg) >= - Late /\ (reg.fb_col = FB_WIDTH => screen.fb_row # LastRow)
    BY <1>3, <2>1, <2>2 DEF Booting, MainType, Words
  <2>4. reg.fb_row \in FirstRow .. LastRow /\ (reg.fb_row = LastRow => reg.fb_col # FB_WIDTH)
    BY <1>6, <1>7, <2>3
  <2>5. position(reg) \in Cell
    BY <1>4, <1>6, <2>3, <2>4, CellFrom
  <2>6. position(reg) \in 0 .. WORD - 1
    BY <1>3, <2>1, LoadedTypes DEF Words
  <2>7. Head(todo) \in Glyph
    <3>1. todo \in Seq(STRING) /\ todo # <<>>
      BY <1>3, <2>1 DEF MainType, Idle
    <3> QED BY <3>1, TailOf, TextTypes
  <2>8. screen'.fb_col = screen.fb_col /\ screen'.fb_row = screen.fb_row /\ ~ screen'.stray
    BY <1>3, <1>7, <2>1, <2>5, <2>6, <2>7, WriteCellKeeps
  <2> QED BY <1>9, <2>1, <2>8 DEF Unloaded
<1>14. CASE Advance
  <2>1. /\ pc = "advance" /\ UNCHANGED <<screen, reg>> /\ DOMAIN reg = {}
        /\ pc' = IF RoomBehind(screen.fb_col) THEN "next_col" ELSE "newline"
    BY <1>3, <1>14 DEF Advance, MainType, Reads
  <2>2. RoomBehind(screen.fb_col) => Ahead(screen)
    BY <1>6 DEF RoomBehind, Ahead
  <2> QED BY <1>7, <1>8, <2>1, <2>2
<1>15. CASE Newline
  <2>1. /\ pc = "newline" /\ reg' = reg /\ DOMAIN reg = {}
        /\ IF RoomBelow(screen.fb_row)
             THEN pc' = "next_row" /\ screen' = screen
             ELSE pc' = "first_col" /\ screen' = scroll_down(screen)
    BY <1>3, <1>15 DEF Newline, MainType, Reads
  <2>2. CASE RoomBelow(screen.fb_row)
    <3>1. screen.fb_row # LastRow
      BY <1>7, <2>2, RoomSizes
    <3> QED BY <1>7, <1>8, <2>1, <2>2, <3>1
  <2>3. CASE ~ RoomBelow(screen.fb_row)
    BY <1>3, <1>7, <1>9, <2>1, <2>3, ScrollKeeps
  <2> QED BY <2>2, <2>3
<1>16. CASE Store /\ pc = "next_col"
  <2>1. /\ Loaded /\ reg' = Unloaded /\ pc' = "cursor"
        /\ screen' = [screen EXCEPT !.fb_col = (reg.fb_col + 1) % WORD]
    BY <1>16 DEF Store
  <2>2. DOMAIN reg = {"fb_col"}
    BY <1>16, <2>1 DEF Loaded, Reads
  <2>3. PICK col \in 0 .. WORD - 1 : col = reg.fb_col
    BY <1>3, <2>2 DEF MainType, Words
  <2>4. column(reg) >= - Late /\ Ahead(reg)
    BY <1>3, <1>16, <2>2 DEF Booting
  <2>5. /\ screen'.fb_col = (col + 1) % WORD /\ screen'.fb_row = screen.fb_row
        /\ screen'.stray = screen.stray /\ (col + 1) % WORD \in 0 .. WORD - 1
    <3>1. (col + 1) % WORD \in 0 .. WORD - 1
      <4>1. col + 1 \in Int
        BY RoomSizes
      <4> QED BY <4>1, WordIs
    <3> QED BY <1>3, <2>1, <2>3, <3>1, SetColumn
  <2>6. column(screen') >= - Late /\ (screen.fb_row = LastRow => screen'.fb_col # FB_WIDTH)
    <3>1. col # FB_WIDTH /\ (screen.fb_row = LastRow => col < FB_WIDTH - 1)
          /\ (IF col <= FB_WIDTH THEN col ELSE col - WORD) >= - Late
      BY <2>3, <2>4 DEF Ahead, RoomBehind, column
    <3>2. WORD \in Nat /\ FB_WIDTH < WORD
      BY RoomSizes
    <3>3. CASE col < FB_WIDTH
      <4>1. col + 1 \in 0 .. WORD - 1 /\ col + 1 \in Int /\ col + 1 <= FB_WIDTH
        BY <1>6, <3>2, <3>3
      <4>2. screen'.fb_col = col + 1
        BY <2>5, <4>1, WordIs
      <4> QED BY <1>4, <1>6, <3>1, <3>2, <4>1, <4>2 DEF column
    <3>4. CASE col > FB_WIDTH /\ col < WORD - 1
      <4>1. col + 1 \in 0 .. WORD - 1 /\ col + 1 \in Int /\ col + 1 > FB_WIDTH
        BY <1>6, <3>2, <3>4
      <4>2. screen'.fb_col = col + 1
        BY <2>5, <4>1, WordIs
      <4> QED BY <1>4, <1>6, <3>1, <3>2, <3>4, <4>1, <4>2 DEF column
    <3>5. CASE col > FB_WIDTH /\ col = WORD - 1
      <4>1. col + 1 \in WORD .. 2 * WORD - 1 /\ col + 1 \in Int /\ (col + 1) - WORD = 0
        BY <1>6, <3>2, <3>5
      <4>2. screen'.fb_col = 0
        BY <2>5, <4>1, WordIs
      <4> QED BY <1>4, <1>6, <4>2 DEF column
    <3> QED BY <1>6, <3>1, <3>2, <3>3, <3>4, <3>5
  <2>7. DOMAIN reg' = {}
    BY <2>1 DEF Unloaded
  <2> QED BY <1>1, <1>3, <1>5, <1>7, <2>1, <2>5, <2>6, <2>7 DEF RoomInv, Booting
<1>17. CASE Store /\ pc = "next_row"
  <2>1. /\ Loaded /\ reg' = Unloaded /\ pc' = "first_col"
        /\ screen' = [screen EXCEPT !.fb_row = (reg.fb_row + 1) % WORD]
    BY <1>17 DEF Store
  <2>2. DOMAIN reg = {"fb_row"}
    BY <1>17, <2>1 DEF Loaded, Reads
  <2>3. PICK row \in FirstRow .. screen.fb_row : row = reg.fb_row
    BY <1>3, <2>2 DEF Booting
  <2>4. screen.fb_row # LastRow
    BY <1>3, <1>17 DEF Booting
  <2>5. row + 1 \in FirstRow .. LastRow /\ row + 1 \in 0 .. WORD - 1 /\ row + 1 \in Int
    BY <1>6, <1>7, <2>3, <2>4, RoomSizes
  <2>6. screen'.fb_row = row + 1 /\ screen'.fb_col = screen.fb_col /\ screen'.stray = screen.stray
    BY <1>3, <2>1, <2>3, <2>5, WordIs, SetRow
  <2>7. DOMAIN reg' = {}
    BY <2>1 DEF Unloaded
  <2>8. column(screen') = column(screen)
    BY <2>6 DEF column
  <2> QED BY <1>1, <1>3, <1>5, <1>7, <2>1, <2>5, <2>6, <2>7, <2>8 DEF RoomInv, Booting
<1>18. CASE FirstCol
  <2>1. pc' = "cursor_of_line" /\ reg' = reg /\ DOMAIN reg = {} /\ screen' = FirstColumn(screen)
    BY <1>3, <1>18 DEF FirstCol, MainType, Reads
  <2>2. screen'.fb_col = 0 /\ screen'.fb_row = screen.fb_row /\ screen'.stray = screen.stray
    BY <1>3, <2>1 DEF FirstColumn, Screen
  <2>3. column(screen') = 0 /\ screen'.fb_col # FB_WIDTH
    BY <1>6, <2>2 DEF column
  <2> QED BY <1>1, <1>3, <1>4, <1>5, <1>7, <2>1, <2>2, <2>3 DEF RoomInv, Booting
<1>19. CASE CallMoveCursor
  <2>1. /\ pc \in {"cursor", "cursor_of_line"} /\ reg' = Unloaded /\ screen' = screen
        /\ pc' \in Sending
    BY <1>19 DEF CallMoveCursor, Sending
  <2> QED BY <1>7, <1>9, <2>1 DEF Unloaded, Sending
<1>20. CASE Outb
  <2>1. /\ pc \in Sending /\ screen' = outb(screen, Head(outs)) /\ reg' = reg
        /\ pc' = pc \/ pc' = "cursor" \/ pc' = Printing(todo')
    BY <1>20 DEF Outb, Sending
  <2>2. DOMAIN reg = {} /\ pc \notin {"loop", "first_col", "next_col", "next_row"}
    BY <1>3, <2>1 DEF MainType, Reads, Sending
  <2>3. screen'.fb_col = screen.fb_col /\ screen'.fb_row = screen.fb_row /\ screen'.stray = screen.stray
    BY <1>3, <2>1 DEF outb, Screen
  <2>4. pc' \notin {"first_col", "next_col", "next_row"}
    BY <2>1, <2>2 DEF Printing
  <2>5. CASE pc' # "loop"
    BY <1>7, <1>9, <2>1, <2>2, <2>3, <2>4, <2>5
  <2>6. CASE pc' = "loop"
    <3>1. /\ screen'.fb_row \in FirstRow .. LastRow
          /\ screen'.fb_row = LastRow => screen'.fb_col # FB_WIDTH
      BY <1>7, <2>2, <2>3
    <3>2. screen'.fb_col \in 0 .. WORD - 1
      BY <1>3 DEF Screen
    <3>3. column(screen') >= - Late
      BY <1>7, <2>3 DEF column
    <3>4. /\ place(screen') >= FirstRow * FB_WIDTH - Late
          /\ screen'.fb_col = FB_WIDTH => place(screen') >= FirstRow * FB_WIDTH + FB_WIDTH
      BY <1>4, <1>6, <3>1, <3>2, <3>3, CellFrom
    <3>5. place(screen') \in Int
      <4>1. PICK row \in FirstRow .. LastRow : row = screen'.fb_row
        BY <3>1
      <4>2. row * FB_WIDTH \in Int
        BY <1>6
      <4>3. column(screen') \in Int
        BY <3>2, RoomSizes DEF column
      <4> QED BY <4>1, <4>2, <4>3 DEF place
    <3>6. place(screen') >= cmd_index /\ (screen'.fb_col = FB_WIDTH => place(screen') >= cmd_index + 1)
      BY <1>4, <1>6, <3>4, <3>5
    <3>7. screen'.fb_row <= LastRow
      BY <1>6, <3>1
    <3>8. screen' \in Standing(cmd_index)
      BY <1>3, <1>7, <2>3, <3>1, <3>6, <3>7 DEF Standing
    <3> QED BY <1>1, <2>6, <3>8 DEF RoomInv
  <2> QED BY <2>5, <2>6
<1>21. Store => pc \in {"next_col", "next_row"}
  BY DEF Store
<1> QED BY <1>10, <1>11, <1>12, <1>13, <1>14, <1>15, <1>16, <1>17, <1>18, <1>19, <1>20, <1>21 DEF main

LEMMA StepRoom ==
  ASSUME BootKeys <= FirstRow * FB_WIDTH
  PROVE  TypeInv /\ TypeInv' /\ RoomInv /\ [Next]_vars /\ [RoomKept]_vars => RoomInv'
<1> SUFFICES ASSUME TypeInv, TypeInv', RoomInv, [Next]_vars, [RoomKept]_vars PROVE RoomInv'
  OBVIOUS
<1>1. CASE main
  BY <1>1, MainRoom
<1>2. ASSUME UNCHANGED <<screen, pc, reg, cmd_index>>, keys' = keys PROVE RoomInv'
  BY <1>2 DEF RoomInv, Booting, Late, Ahead
<1>3. CASE irq_handler
  <2>1. /\ UNCHANGED mainVars /\ (keys' # keys => keys < Limit)
        /\ Ignores \/ Erases \/ Prompts \/ Echoes
    BY <1>3, HandlerCases
  <2>2. UNCHANGED <<pc, reg>>
    BY <2>1 DEF mainVars
  <2>3. keys \in Nat
    BY KeyboardAssumption DEF TypeInv, KeysLeft, Limit
  <2>4. CASE pc = "loop"
    <3>1. screen' \in Standing(cmd_index')
      BY <2>1, <2>4, KeyAtPrompt DEF RoomInv
    <3> QED BY <2>2, <2>4, <3>1 DEF RoomInv
  <2>5. CASE pc # "loop" /\ keys' = keys
    <3>1. Ignores
      BY <2>1, <2>3, <2>5 DEF Erases, Prompts, Echoes
    <3> QED BY <1>2, <2>2, <2>5, <3>1 DEF Ignores
  <2>6. CASE pc # "loop" /\ keys' # keys
    <3>1. RoomKept
      BY <2>6 DEF vars, lineVars
    <3>2. Booting
      BY <2>6 DEF RoomInv
    <3>3. Booting'
      BY <2>1, <2>6, <3>1, <3>2, KeyMeanwhile
    <3> QED BY <2>2, <2>6, <3>3 DEF RoomInv
  <2> QED BY <2>4, <2>5, <2>6
<1>4. ASSUME NEW k \in Keys, Press(k) PROVE RoomInv'
  BY <1>2, <1>4 DEF Press, mainVars, lineVars
<1>5. CASE UNCHANGED vars
  BY <1>2, <1>5 DEF vars, mainVars, lineVars
<1> QED BY <1>1, <1>3, <1>4, <1>5 DEF Next

LEMMA InitRoom == Init => RoomInv
<1> SUFFICES ASSUME Init PROVE RoomInv
  OBVIOUS
<1>1. screen.fb_col = 0 /\ screen.fb_row = FirstRow /\ ~ screen.stray /\ DOMAIN reg = {}
      /\ pc = "sti" /\ keys = 0 /\ cmd_index = 0
  BY DEF Init, Cleared, Unloaded
<1>2. Late = 0 /\ column(screen) = 0 /\ screen.fb_col # FB_WIDTH
  BY <1>1, RoomSizes DEF Late, column
<1>3. screen.fb_row \in FirstRow .. LastRow
  BY <1>1, RoomSizes
<1> QED BY <1>1, <1>2, <1>3 DEF RoomInv, Booting

(* What is written next is on the screen, at every statement of main.      *)
THEOREM RoomInvariant ==
  ASSUME BootKeys <= FirstRow * FB_WIDTH
  PROVE  Spec /\ RoomForKeys => []RoomInv
BY InitRoom, StepRoom, TypeInvariant, PTL DEF Spec, RoomForKeys

LEMMA RoomShows == RoomInv => WritesOnScreen
BY DEF RoomInv, Booting, Standing, WritesOnScreen

(* No call of write_cell leaves the screen: not of main, not of the        *)
(* handler between any two of main's loads and stores, not after           *)
(* backspaces that carried the column below 0, at any length of line, of   *)
(* text and of output.  Two things are asked of the keys that come while   *)
(* main still prints: fewer than the cells above the first row printed,    *)
(* and none that takes the screen to its last row.                         *)
THEOREM OnlyOnScreen ==
  ASSUME BootKeys <= FirstRow * FB_WIDTH
  PROVE  Spec /\ RoomForKeys => []WritesOnScreen
BY RoomInvariant, RoomShows, PTL

LEMMA RoomInvariantAtPrompt ==
  ASSUME BootKeys = 0
  PROVE  Spec => []RoomInv
<1>1. TypeInv /\ [Next]_vars => [RoomKept]_vars
  <2> SUFFICES ASSUME TypeInv, [Next]_vars, pc # "loop", keys' # keys PROVE FALSE
    BY DEF RoomKept
  <2>1. irq_handler
    BY DEF Next, main, Press, lineVars, vars
  <2>2. keys < Limit
    BY <2>1, HandlerCases
  <2> QED BY <2>2 DEF TypeInv, KeysLeft, Limit
<1>2. BootKeys <= FirstRow * FB_WIDTH
  BY RoomSizes
<1>3. TypeInv /\ TypeInv' /\ RoomInv /\ [Next]_vars => RoomInv'
  BY <1>1, <1>2, StepRoom
<1> QED BY <1>3, InitRoom, TypeInvariant, PTL DEF Spec

(* Nothing is asked when the keys come at the prompt, as many as they are. *)
THEOREM OnlyOnScreenAtPrompt ==
  ASSUME BootKeys = 0
  PROVE  Spec => []WritesOnScreen
BY RoomInvariantAtPrompt, RoomShows, PTL

-----------------------------------------------------------------------------
(* What the user sees.  A line that is plain is shown before the cursor;   *)
(* and while no key has changed the screen between main's own accesses,    *)
(* nothing stands behind it.                                               *)
EchoInv ==
  /\ pc # "loop" /\ alone => plain
  /\ plain /\ pc = "loop" => Seen(screen, Shown, Len(Shown))
  /\ alone /\ pc = "loop" => screen \in Clean

ShownParts ==
  /\ Len(PROMPT) - 1 \in Nat /\ cmd_index \in Nat
  /\ Len(Shown) = (Len(PROMPT) - 1) + cmd_index
  /\ \A k \in 1 .. Len(PROMPT) - 1 : Shown[k] = Tail(PROMPT)[k]
  /\ \A k \in 1 .. cmd_index : Shown[(Len(PROMPT) - 1) + k] = command[k - 1]

LEMMA ShownIs == TypeInv => ShownParts
<1> SUFFICES ASSUME TypeInv PROVE ShownParts
  OBVIOUS
<1> DEFINE t == Tail(PROMPT)
           u == [k \in 1 .. cmd_index |-> command[k - 1]]
           m == Len(PROMPT) - 1
<1>1. PROMPT \in Seq(STRING) /\ PROMPT # <<>>
  BY TextTypes
<1>2. t \in Seq(STRING) /\ Len(t) = m /\ m \in Nat
  <2>1. Len(PROMPT) \in Nat
    BY <1>1
  <2> QED BY <1>1, <2>1, TailOf
<1>3. u \in Seq(Chars \cup {NUL}) /\ Len(u) = cmd_index /\ cmd_index \in Nat
  BY TypedIs, Sizes DEF TypeInv, LineInv, Buffer, typed
<1>4. Shown = t \o u
  BY DEF Shown
<1>5. \A k \in 1 .. cmd_index : u[k] = command[k - 1]
  OBVIOUS
<1> DEFINE any == STRING \cup Chars \cup {NUL}
<1>6. t \in Seq(any) /\ u \in Seq(any)
  BY <1>2, <1>3
<1> HIDE DEF t, u, m, any
<1>7. /\ Len(t \o u) = Len(t) + Len(u)
      /\ \A i \in 1 .. Len(t) + Len(u) : (t \o u)[i] = IF i <= Len(t) THEN t[i] ELSE u[i - Len(t)]
  BY <1>6, ConcatProperties
<1>8. ASSUME NEW k \in 1 .. m PROVE Shown[k] = t[k]
  <2>1. k \in 1 .. Len(t) + Len(u) /\ k <= Len(t)
    BY <1>2, <1>3
  <2> QED BY <1>4, <1>7, <2>1
<1>9. ASSUME NEW k \in 1 .. cmd_index PROVE Shown[m + k] = command[k - 1]
  <2>1. m + k \in 1 .. Len(t) + Len(u) /\ ~ (m + k <= Len(t)) /\ (m + k) - Len(t) = k
    BY <1>2, <1>3
  <2> QED BY <1>4, <1>5, <1>7, <2>1
<1> QED BY <1>2, <1>3, <1>4, <1>7, <1>8, <1>9 DEF t, m, ShownParts

(* Where main is not interrupted, it leaves the prompt and nothing else.   *)
LEMMA BootSeen ==
  Shows(Len(Boot)) \in Clean /\ Seen(Shows(Len(Boot)), Tail(PROMPT), Len(PROMPT) - 1)
<1>1. Cleared(FirstRow) \in Clean
  <2> DEFINE s == Cleared(FirstRow)
  <2>1. s.fb_col = 0 /\ s.fb_row = FirstRow /\ ~ s.stray /\ s.fb = Blanks(Memory)
    BY DEF Cleared
  <2>2. s \in Screen
    BY ClearedType
  <2> HIDE DEF s
  <2>3. place(s) >= 0
    BY <2>1, RoomSizes DEF place, column
  <2>4. \A i \in Cell : s.fb[i + 1] = Blank
    BY <2>1, Widths DEF Cell, Blanks
  <2>5. s.fb_row <= LastRow /\ s.fb_col # FB_WIDTH
    BY <2>1, RoomSizes
  <2> QED BY <2>1, <2>2, <2>3, <2>4, <2>5 DEF Clean, Standing, s
<1>2. PICK s \in Clean : s = Cleared(FirstRow)
  BY <1>1
<1>3. ASSUME NEW text \in Seq(STRING) PROVE write(s, text) \in Clean
  BY GlyphText, WriteClean
<1>4. PICK n \in Nat : n = Len(BootText)
  BY TextTypes
<1>5. PICK m \in Nat : m = Len(PROMPT)
  BY TextTypes
<1>6. Len(Boot) = n + m /\ \A k \in 1 .. m : Boot[n + k] = PROMPT[k]
  <2>1. /\ Len(BootText \o PROMPT) = n + m
        /\ \A i \in 1 .. n + m : (BootText \o PROMPT)[i] = IF i <= n THEN BootText[i] ELSE PROMPT[i - n]
    BY <1>4, <1>5, TextTypes, ConcatProperties
  <2>2. ASSUME NEW k \in 1 .. m PROVE (BootText \o PROMPT)[n + k] = PROMPT[k]
    <3>1. n + k \in 1 .. n + m /\ ~ (n + k <= n) /\ (n + k) - n = k
      OBVIOUS
    <3> QED BY <2>1, <3>1
  <2> QED BY <2>1, <2>2 DEF Boot
<1>7. Shows(Len(Boot)) \in Clean
  BY <1>2, <1>3, ShowsNext, BootIs
<1>8. Shows(n) \in Standing(0)
  <2>1. SubSeq(Boot, 1, n) \in Seq(STRING)
    <3>1. PICK all \in Seq(STRING) : all = Boot /\ Len(all) = n + m
      BY <1>6, BootIs
    <3>2. SubSeq(all, 1, n) \in Seq(STRING)
      BY <3>1
    <3> QED BY <3>1, <3>2
  <2> QED BY <1>2, <1>3, <2>1 DEF Shows, Clean
<1> DEFINE h == [k \in 0 .. m |-> Shows(n + k)]
<1>9. h[0] \in Standing(0) /\ h[m] = Shows(Len(Boot))
  BY <1>6, <1>8
<1>10. ASSUME NEW k \in 1 .. m PROVE h[k] = Put(h[k - 1], PROMPT[k])
  <2>1. n + (k - 1) \in 0 .. Len(Boot) - 1 /\ (n + (k - 1)) + 1 = n + k /\ k - 1 \in 0 .. m
    BY <1>6
  <2>2. Shows(n + k) = Put(Shows(n + (k - 1)), Boot[n + k])
    BY <2>1, ShowsNext
  <2> QED BY <1>6, <2>1, <2>2
<1> HIDE DEF h
<1>11. Seen(h[m], Tail(PROMPT), m - 1)
  BY <1>5, <1>9, <1>10, PromptGoes
<1> QED BY <1>5, <1>7, <1>9, <1>11

LEMMA SeenNow ==
  ASSUME TypeInv, cmd_index = 0, Seen(screen, Tail(PROMPT), Len(PROMPT) - 1)
  PROVE  Seen(screen, Shown, Len(Shown))
<1>1. /\ Len(Shown) = Len(PROMPT) - 1 /\ \A k \in 1 .. Len(PROMPT) - 1 : Shown[k] = Tail(PROMPT)[k]
  BY ShownIs DEF ShownParts
<1> QED BY <1>1, Zenon DEF Seen

LEMMA MainEchoes ==
  ASSUME TypeInv, TypeInv', FollowInv, BootInv, EchoInv, main PROVE EchoInv'
<1>1. UNCHANGED <<keys, cmd_index, plain, alone>> /\ pc # "loop"
  BY DEF main, lineVars, sti, init_keyboard, Load, PutCell, Advance, Newline, Store, FirstCol,
         CallMoveCursor, Outb, Reads
<1>2. CASE pc' # "loop"
  BY <1>1, <1>2 DEF EchoInv
<1>3. CASE ~ plain
  BY <1>1, <1>3 DEF EchoInv
<1>4. CASE plain /\ pc' = "loop"
  <2>1. Undisturbed'
    BY <1>1, <1>4, MainBoots DEF BootInv
  <2>2. screen' = Shows(Len(Boot))
    BY <1>4, <2>1 DEF Undisturbed, Shows, Boot
  <2>3. screen' \in Clean /\ Seen(screen', Tail(PROMPT), Len(PROMPT) - 1) /\ cmd_index' = 0
    BY <1>1, <1>4, <2>2, BootSeen DEF FollowInv
  <2>4. Seen(screen', Shown', Len(Shown'))
    <3>1. (TypeInv /\ cmd_index = 0 /\ Seen(screen, Tail(PROMPT), Len(PROMPT) - 1)
             => Seen(screen, Shown, Len(Shown)))'
      BY SeenNow, PTL
    <3> QED BY <2>3, <3>1
  <2> QED BY <1>4, <2>3, <2>4 DEF EchoInv
<1> QED BY <1>2, <1>3, <1>4

(* What a key leaves of the line is still shown.                           *)
LEMMA ShownKeeps ==
  ASSUME TypeInv, TypeInv', NEW j \in 0 .. cmd_index, j <= cmd_index',
         \A n \in 0 .. j - 1 : command'[n] = command[n]
  PROVE  \A i \in 1 .. (Len(PROMPT) - 1) + j : Shown'[i] = Shown[i]
<1> DEFINE m == Len(PROMPT) - 1
<1>1. /\ m \in Nat /\ cmd_index \in Nat /\ \A k \in 1 .. m : Shown[k] = Tail(PROMPT)[k]
      /\ \A k \in 1 .. cmd_index : Shown[m + k] = command[k - 1]
  BY ShownIs DEF ShownParts
<1>2. /\ cmd_index' \in Nat /\ \A k \in 1 .. m : Shown'[k] = Tail(PROMPT)[k]
      /\ \A k \in 1 .. cmd_index' : Shown'[m + k] = command'[k - 1]
  <2>1. ShownParts'
    BY ShownIs, PTL
  <2> QED BY <2>1 DEF ShownParts
<1> HIDE DEF m
<1> SUFFICES ASSUME NEW i \in 1 .. m + j PROVE Shown'[i] = Shown[i]
  BY DEF m
<1>3. CASE i <= m
  <2>1. i \in 1 .. m
    BY <1>1, <1>3
  <2> QED BY <1>1, <1>2, <2>1
<1>4. CASE i > m
  <2> DEFINE k == i - m
  <2>1. k \in 1 .. cmd_index /\ k \in 1 .. cmd_index' /\ k - 1 \in 0 .. j - 1 /\ i = m + k
    BY <1>1, <1>2, <1>4
  <2> HIDE DEF k
  <2> QED BY <1>1, <1>2, <2>1
<1> QED BY <1>1, <1>3, <1>4

LEMMA HandlerEchoes ==
  ASSUME TypeInv, TypeInv', RoomInv, EchoInv, irq_handler PROVE EchoInv'
<1>1. /\ UNCHANGED mainVars
      /\ (alone' => alone /\ (pc = "loop" \/ plain' \/ UNCHANGED plain))
      /\ Ignores \/ Erases \/ Prompts \/ Echoes
  BY HandlerCases
<1>2. pc' = pc
  BY <1>1 DEF mainVars
<1>3. CASE pc # "loop"
  BY <1>1, <1>2, <1>3 DEF EchoInv
<1> SUFFICES ASSUME pc = "loop"
             PROVE  /\ plain' => Seen(screen', Shown', Len(Shown'))
                    /\ alone' => screen' \in Clean
  BY <1>2, <1>3 DEF EchoInv
<1>4. /\ screen \in Standing(cmd_index) /\ (alone' => screen \in Clean)
      /\ plain => Seen(screen, Shown, Len(Shown))
  BY <1>1 DEF RoomInv, EchoInv
<1> DEFINE m == Len(PROMPT) - 1
<1>5. m \in Nat /\ cmd_index \in Nat /\ Len(Shown) = m + cmd_index
  BY ShownIs DEF ShownParts
<1>6. Len(Shown') = m + cmd_index'
  <2>1. ShownParts'
    BY ShownIs, PTL
  <2> QED BY <2>1 DEF ShownParts
<1>7. screen \in Standing(0)
  BY <1>4, <1>5, StandsOnNone
<1> HIDE DEF m
<1>8. CASE Ignores
  <2>1. UNCHANGED <<screen, plain, Shown>>
    BY <1>8 DEF Ignores, Shown
  <2> QED BY <1>4, <2>1
<1>9. CASE Erases
  <2>1. /\ cmd_index > 0 /\ cmd_index' = cmd_index - 1 /\ plain' = plain
        /\ screen' = back_space(screen)
        /\ \A n \in 0 .. cmd_index - 2 : command'[n] = command[n]
    BY <1>9 DEF Erases
  <2> DEFINE n == m + (cmd_index - 1)
  <2>2. n \in Nat /\ Len(Shown) = n + 1 /\ Len(Shown') = n
    BY <1>5, <1>6, <2>1
  <2>3. \A i \in 1 .. n : Shown'[i] = Shown[i]
    <3>1. cmd_index - 1 \in 0 .. cmd_index /\ cmd_index - 1 <= cmd_index'
          /\ (cmd_index - 1) - 1 = cmd_index - 2
      BY <1>5, <2>1
    <3> QED BY <2>1, <3>1, ShownKeeps DEF m
  <2> HIDE DEF n
  <2>4. plain' => Seen(screen', Shown', Len(Shown'))
    BY <1>4, <1>5, <2>1, <2>2, <2>3, BackSeen
  <2>5. alone' => screen' \in Clean
    BY <1>4, <1>5, <2>1, BackClean
  <2> QED BY <2>4, <2>5
<1>10. CASE Prompts
  <2>1. PICK t \in Seq(STRING) : screen' = init_prompt(write(screen, t))
    BY <1>10 DEF Prompts
  <2>2. t \in Seq(Glyph) /\ PROMPT \in Seq(Glyph) /\ cmd_index' = 0
    BY <1>10, GlyphText, TextTypes DEF Prompts
  <2>3. write(screen, t) \in Standing(0)
    BY <1>7, <2>2, WriteStands
  <2>4. Seen(screen', Tail(PROMPT), Len(PROMPT) - 1)
    BY <2>1, <2>3, PromptSeen
  <2>5. Seen(screen', Shown', Len(Shown'))
    <3>1. (TypeInv /\ cmd_index = 0 /\ Seen(screen, Tail(PROMPT), Len(PROMPT) - 1)
             => Seen(screen, Shown, Len(Shown)))'
      BY SeenNow, PTL
    <3> QED BY <2>2, <2>4, <3>1
  <2>6. alone' => screen' \in Clean
    BY <1>4, <2>1, <2>2, WriteClean DEF init_prompt
  <2> QED BY <2>5, <2>6
<1>11. CASE Echoes
  <2>1. PICK c \in STRING \ {NL} : screen' = Put(screen, c) /\ command'[cmd_index] = c
    BY <1>11 DEF Echoes
  <2>2. /\ cmd_index' = cmd_index + 1 /\ \A n \in 0 .. cmd_index - 1 : command'[n] = command[n]
        /\ plain' = (plain /\ pc = "loop" /\ screen.fb_col < FB_WIDTH)
    BY <1>11 DEF Echoes
  <2>3. c \in Glyph /\ c # NL
    BY TextTypes
  <2> DEFINE n == m + cmd_index
  <2>4. n \in Nat /\ Len(Shown) = n /\ Len(Shown') = n + 1
    BY <1>5, <1>6, <2>2
  <2>5. \A i \in 1 .. n : Shown'[i] = Shown[i]
    <3>1. cmd_index \in 0 .. cmd_index /\ cmd_index <= cmd_index'
      BY <1>5, <2>2
    <3> QED BY <2>2, <3>1, ShownKeeps DEF m
  <2>6. Shown'[n + 1] = c
    <3>1. \A k \in 1 .. cmd_index' : Shown'[m + k] = command'[k - 1]
      <4>1. ShownParts'
        BY ShownIs, PTL
      <4> QED BY <4>1 DEF ShownParts, m
    <3>2. cmd_index + 1 \in 1 .. cmd_index' /\ (cmd_index + 1) - 1 = cmd_index
          /\ m + (cmd_index + 1) = n + 1
      BY <1>5, <2>2
    <3> QED BY <2>1, <3>1, <3>2
  <2> HIDE DEF n
  <2>7. plain' => plain /\ screen.fb_col < FB_WIDTH
    BY <2>2, Zenon
  <2>8. plain' => Seen(screen', Shown', Len(Shown'))
    BY <1>4, <1>7, <2>1, <2>3, <2>4, <2>5, <2>6, <2>7, PutSeen
  <2>9. alone' => screen' \in Clean
    BY <1>4, <2>1, <2>3, PutClean
  <2> QED BY <2>8, <2>9
<1> QED BY <1>1, <1>8, <1>9, <1>10, <1>11

LEMMA StepEchoes ==
  TypeInv /\ TypeInv' /\ FollowInv /\ BootInv /\ RoomInv /\ EchoInv /\ [Next]_vars => EchoInv'
<1> SUFFICES ASSUME TypeInv, TypeInv', FollowInv, BootInv, RoomInv, EchoInv, [Next]_vars
             PROVE  EchoInv'
  OBVIOUS
<1>1. CASE main
  BY <1>1, MainEchoes
<1>2. CASE irq_handler
  BY <1>2, HandlerEchoes
<1>3. ASSUME UNCHANGED <<screen, mainVars, lineVars>> PROVE EchoInv'
  BY <1>3 DEF EchoInv, Shown, mainVars, lineVars
<1>4. ASSUME NEW k \in Keys, Press(k) PROVE EchoInv'
  BY <1>3, <1>4 DEF Press
<1>5. CASE UNCHANGED vars
  BY <1>3, <1>5 DEF vars
<1> QED BY <1>1, <1>2, <1>4, <1>5 DEF Next

LEMMA InitEchoes == Init => EchoInv
BY DEF Init, EchoInv

LEMMA EchoShows == TypeInv /\ RoomInv /\ EchoInv => Echo
<1> SUFFICES ASSUME TypeInv, RoomInv, EchoInv, plain, pc = "loop"
             PROVE  LET home == position(screen) - Len(Shown) IN
                    /\ \A k \in 1 .. Len(Shown) : home + k > 0 => screen.fb[home + k] = Shown[k]
                    /\ alone => \A i \in Cell : i >= position(screen) => screen.fb[i + 1] = Blank
  BY DEF Echo
<1>1. screen \in Standing(0)
  <2>1. cmd_index \in Nat
    BY ShownIs DEF ShownParts
  <2> QED BY <2>1, StandsOnNone DEF RoomInv
<1>2. position(screen) = place(screen)
  <2>1. /\ screen.fb_col \in 0 .. WORD - 1 /\ screen.fb_row \in 0 .. LastRow
        /\ screen.fb_row = LastRow => screen.fb_col # FB_WIDTH
        /\ place(screen) >= 0
    BY <1>1 DEF Standing, Screen
  <2> QED BY <2>1, OnScreen
<1> QED BY <1>2 DEF EchoInv, Seen, Clean

(* What the user sees is what will be run: before the cursor stand the     *)
(* prompt and the line, through wrapping, scrolling, backspacing over rows *)
(* and the output of commands, for every prompt, screen and text.  What is *)
(* asked of the keys that come while main prints is what OnlyOnScreen asks *)
(* of them.                                                                *)
THEOREM LineShown ==
  ASSUME BootKeys <= FirstRow * FB_WIDTH
  PROVE  Spec /\ RoomForKeys => []Echo
BY InitEchoes, StepEchoes, TypeInvariant, FollowInvariant, BootInvariant, RoomInvariant,
   EchoShows, PTL DEF Spec

(* Nothing is asked when the keys come at the prompt.                      *)
THEOREM LineShownAtPrompt ==
  ASSUME BootKeys = 0
  PROVE  Spec => []Echo
<1>1. Spec => []RoomInv
  BY RoomInvariantAtPrompt
<1> QED BY <1>1, InitEchoes, StepEchoes, TypeInvariant, FollowInvariant, BootInvariant,
           EchoShows, PTL DEF Spec
=============================================================================
