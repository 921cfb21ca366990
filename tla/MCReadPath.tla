----------------------------- MODULE MCReadPath -----------------------------
(***************************************************************************)
(* An instance of ReadPath for TLC: two events share an external id.       *)
(***************************************************************************)
EXTENDS ReadPath, TLC

CONSTANTS e1, e2, e3, e4, x, s1, s2

MCPayloadOf == [e \in Event |-> e]

MCExtOf == [e \in Event |-> IF e \in {e1, e2} THEN x ELSE Nil]
=============================================================================
