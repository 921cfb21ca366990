------------------------------ MODULE MCExport ------------------------------
(***************************************************************************)
(* Instances of Export for TLC: an export of everything, and one whose     *)
(* period ends before the last event.                                      *)
(***************************************************************************)
EXTENDS Export, TLC

CONSTANTS e1, e2, e3, j1, j2, s1, s2, w1, w2

MCPayloadOf == [e \in Event |-> e]

MCExtOf == [e \in Event |-> Nil]

MCFullPeriod == [j \in Job |-> Event]

MCPeriods == [j \in Job |-> IF j = j1 THEN Event ELSE Event \ {e2}]

=============================================================================
