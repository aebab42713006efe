------------------------------ MODULE MCSchema ------------------------------
(* Instances of Schema for TLC. *)
EXTENDS Schema, TLC

CONSTANTS j1, j2  \* runs of jobs

Symmetry == Permutations({j1, j2})

\* The lists as they are.
AllEnsured == EnsureIndexes
AllUp      == MigrationsUp
AllDown    == MigrationsDown

\* The lists, of two collections: one that the first migration creates and its
\* rollback drops, one of a later migration.
Some == {"idempotency_keys", "audit_rate_limits"}
SomeEnsured == SelectSeq(EnsureIndexes, LAMBDA i : i.coll \in Some)
SomeUp      == [k \in DOMAIN MigrationsUp |-> Only(MigrationsUp[k], Some)]
SomeDown    == [k \in DOMAIN MigrationsDown |-> Only(MigrationsDown[k], Some)]
=============================================================================
