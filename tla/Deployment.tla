----------------------------- MODULE Deployment -----------------------------
(***************************************************************************)
(* The service over its database: the process of Bootstrap, whose TypeORM  *)
(* does not synchronize and is given no migrations to run, and the         *)
(* migrations, which an operator runs and reverts at any time.             *)
(***************************************************************************)
EXTENDS Bootstrap, Migrations

vars == <<bootVars, schemaVars>>

Init == BootInit /\ SchemaInit

\* The process, and what it depends on: no start changes the schema.
Process == BootNext /\ UNCHANGED schemaVars

\* `pnpm migration:run` and `pnpm migration:revert`.
Operator == dbUp /\ (MigrationRun \/ MigrationRevert) /\ UNCHANGED bootVars

NewRelease == phase = "stopped" /\ Deploy /\ UNCHANGED bootVars

\* The rows that requests write, and the end of all rows of a table.
Requests ==
    /\ phase = "serving" /\ dbUp
    /\ \E t \in Watched : Write(t) \/ Empty(t)
    /\ UNCHANGED bootVars

Next == Process \/ Operator \/ NewRelease \/ Requests

\* A process goes on, and one that ended is started again; nothing makes the
\* operator, the database or Redis act.
Fairness ==
    /\ WF_vars(Load /\ UNCHANGED schemaVars)
    /\ WF_vars((Build \/ BuildFails) /\ UNCHANGED schemaVars)
    /\ WF_vars((Connect \/ ConnectFails) /\ UNCHANGED schemaVars)

Spec == Init /\ [][Next]_vars /\ Fairness
=============================================================================
