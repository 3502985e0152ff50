------------------------------ MODULE MCStrings ------------------------------
(***************************************************************************)
(* Instance of Strings: bytes as words, so that buf, with the five cells a *)
(* word in hexadecimal needs, is exactly large enough; every byte is       *)
(* printed in every way, alone and between others.                         *)
(***************************************************************************)
EXTENDS Strings

MCText(s) == [letter |-> NUL, spaces |-> 0, value |-> s]
MCPiece(letter, spaces, value) == [letter |-> letter, spaces |-> spaces, value |-> value]

MCBytes == 0 .. 255
MCOthers == {MCPiece(PERCENT, 0, 0), MCPiece(113, 1, 0), MCPiece(S, 0, <<I, 46>>),
             MCPiece(S, 2, <<>>), MCPiece(C, 1, PERCENT), MCText(SPACE), MCText(D)}

MCMessages ==
  {<<>>}
    \cup {<<MCPiece(letter, n % 3, n)>> : letter \in {D, X}, n \in MCBytes}
    \cup {<<MCPiece(I, n % 3, n)>> : n \in 0 .. 127}
    \cup {<<p, q>> : p, q \in MCOthers}
    \cup {<<p, MCPiece(X, 1, m), q, MCPiece(I, 0, n), r>> :
            p, q, r \in MCOthers, m \in {0, 255}, n \in {0, 10, 127}}

MCStringsCompared == UNION {[1 .. n -> {1, 2, 255}] : n \in 0 .. 3}
MCMemory == <<1, 2, 3, 4, 5>>
MCCopies ==
  {c \in [dst : 0 .. 5, src : 0 .. 5, len : 0 .. 5] :
     /\ c.dst + c.len <= 5 /\ c.src + c.len <= 5
     /\ c.dst <= c.src \/ c.dst >= c.src + c.len}
=============================================================================
