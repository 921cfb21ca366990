------------------------------ MODULE MCSealer ------------------------------
(***************************************************************************)
(* Instances of Sealer for TLC.                                            *)
(***************************************************************************)
EXTENDS Sealer, TLC

CONSTANTS e1, e2, e3, e4, x, a, b, s1, s2, p1, p2

MCPayloadOf == [e \in Event |-> e]

\* e1 and e3 share an external id but not an actor, e2 is routed by its
\* actor, e4 has no routing key.
MCExtOf == [e \in Event |-> IF e \in {e1, e3} THEN x ELSE Nil]

MCActorOf == [e \in Event |-> CASE e \in {e1, e2} -> a
                                  [] e = e3        -> b
                                  [] e = e4        -> Nil]

\* Everything meets on one shard, or the external id and actor a part.
MCSameShard == [k \in Ext \cup Actor |-> s1]

MCTwoShards == [k \in Ext \cup Actor |-> IF k = a THEN s2 ELSE s1]

MCSymmetry == Permutations(Process)
=============================================================================
