------------------------------ MODULE MCTenancy ------------------------------
(***************************************************************************)
(* An instance of Tenancy for TLC.  The key ka is for the environment that *)
(* `environment create` makes, in any organization and project; kb is for  *)
(* the default one, which servers without authentication use too, but of   *)
(* another organization.  Three posts share an idempotency key and an      *)
(* external id.                                                            *)
(***************************************************************************)
EXTENDS Tenancy

CONSTANTS ka, kb, ra, rb, rc, o, other, p0, p1, e0, e1, idem, extid

MCFlags ==
    [k \in Key |->
        IF k = ka
        THEN [org |-> o, target |-> [project |-> p1, environment |-> e1]]
        ELSE [org |-> other, target |-> Nil]]

MCGrants == {Scope, {"events:read"}}

MCKeyOf == [r \in Request |-> IF r = rb THEN kb ELSE ka]

MCIdempotencyOf == [r \in Request |-> idem]

MCExternalOf == [r \in Request |-> extid]
=============================================================================
