------------------------------ MODULE MCIngest ------------------------------
(***************************************************************************)
(* An instance of Ingest for TLC: three POSTs with one key, one of them    *)
(* possibly a retry, one POST under another key and a batch of two.        *)
(***************************************************************************)
EXTENDS Ingest, TLC

CONSTANTS r1, r2, r3, r4, r5, e1, e2, e3, e4, e5, e6, k1, k2

MCEventsOf ==
    r1 :> <<e1>> @@ r2 :> <<e2>> @@ r3 :> <<e3>> @@ r4 :> <<e4>> @@
    r5 :> <<e5, e6>>

MCKeyOf == [r \in Request |-> CASE r \in {r1, r2, r3} -> k1
                                [] r = r4             -> k2
                                [] r = r5             -> Nil]
=============================================================================
