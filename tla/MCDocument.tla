----------------------------- MODULE MCDocument -----------------------------
(* Finite constants for Document.                                          *)
EXTENDS Document

CONSTANTS narrow, wide

UnitsValue == [c \in Chars |-> IF c = wide THEN 2 ELSE 1]
=============================================================================
