--------------------------- MODULE MCInputScanner ---------------------------
(* Every stream of the eleven kinds of character, cut into reads anywhere, *)
(* and a few bytes without structure, in blocks of two.                    *)
EXTENDS Inputs, TLC
=============================================================================
