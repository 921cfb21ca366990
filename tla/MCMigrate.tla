------------------------------ MODULE MCMigrate ------------------------------
(***************************************************************************)
(* An instance of Migrate for TLC.  The first migration is 0001 with one   *)
(* table of each kind: projects, which nothing indexes, environments,      *)
(* which references it, and the indexed pending_events and events.  The    *)
(* second stands for a later one.                                          *)
(***************************************************************************)
EXTENDS Migrate, TLC

CONSTANTS projects, environments, pending_events, events, later, u1, u2, d1, d2

Create(t, needs) == [op |-> "table", on |-> t, needs |-> needs]

Index(t) == [op |-> "index", on |-> t, needs |-> {t}]

Drop(t) == [op |-> "drop", on |-> t, needs |-> {}]

MCUpSQL ==
    1 :> <<Create(projects, {}), Create(environments, {projects}),
           Create(pending_events, {}), Index(pending_events),
           Create(events, {}), Index(events)>> @@
    2 :> <<Create(later, {})>>

MCDownSQL ==
    1 :> <<Drop(events), Drop(pending_events), Drop(environments), Drop(projects)>> @@
    2 :> <<Drop(later)>>

MCGoal == [r \in Runner |-> IF r \in {u1, u2} THEN "up" ELSE "down"]
=============================================================================
