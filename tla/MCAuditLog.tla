----------------------------- MODULE MCAuditLog -----------------------------
(***************************************************************************)
(* Model-checking instance of AuditLog on both databases: the installation *)
(* chooses one and keeps it.  Dialect itself stands for PostgreSQL; Lite   *)
(* is the same log on SQLite.                                              *)
(***************************************************************************)
EXTENDS AuditLog

VARIABLE dialect

Lite == INSTANCE AuditLog WITH Dialect <- "sqlite"
Postgres == dialect = Dialect

MCInit == Init /\ dialect \in {"postgresql", "sqlite"}
MCNext == UNCHANGED dialect /\ \/ Postgres /\ Next
                               \/ ~Postgres /\ Lite!Next

\* On SQLite the single writer goes on as the rows' holder does on PostgreSQL,
\* and sqlite3 retries for a busy writer until it gets its turn or fails.
MCSpec ==
    /\ MCInit /\ [][MCNext]_<<vars, dialect>>
    /\ \A w \in Writers : /\ SF_vars(Postgres /\ (Step(w) \/ Conflict(w)))
                          /\ SF_vars(~Postgres /\ (Lite!Step(w) \/ Lite!Conflict(w)))

\* On PostgreSQL no writer ever runs into UNIQUE(tenant_id, seq): the chain
\* lock makes the writers of both programs wait for each other.
NoFork == Postgres => NoForkOnPostgres
=============================================================================
