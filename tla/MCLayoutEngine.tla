--------------------------- MODULE MCLayoutEngine ---------------------------
(***************************************************************************)
(* Windows of at most 3 cells by 2 rows over buffers of up to 3          *)
(* characters: an ordinary letter, a wide CJK ideograph, a newline, a     *)
(* tab, a carriage return and a C0 control character.                    *)
(***************************************************************************)
EXTENDS LayoutEngine

Alphabet == {97, 19968, 10, 9, 13, 1}

MCBuffers == UNION {[1..n -> Alphabet] : n \in 0..3}
MCCols    == {0, 1, 2, 3}
MCRows    == {1, 2}
=============================================================================
