----------------------------- MODULE MCRegistry -----------------------------
(* A small instance of Registry: three connections of one device and one     *)
(* connection that does not say which device it is.                          *)
EXTENDS Registry

CONSTANTS c1, c2, c3, c4, d1

OneAnonymous == [c \in Conns |-> IF c = c4 THEN NoKey ELSE d1]
=============================================================================
