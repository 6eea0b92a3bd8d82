------------------------------ MODULE AuditLog ------------------------------
(***************************************************************************)
(* The append-only, hash-chained audit log, as the Python backend          *)
(* (platform/auditlog.py) and the Go control plane (internal/audit) write  *)
(* it into one table, each event in the transaction of the change it is    *)
(* about.                                                                  *)
(*                                                                         *)
(* A writer is one database transaction: it changes one row of a tenant    *)
(* (or nothing) and records one or more events.  The backend takes the     *)
(* tenant's chain lock in record() and flushes its change to the row       *)
(* afterwards; the control plane locks the row first.  On SQLite there is  *)
(* no chain lock, only the database's single writer and the constraint     *)
(* UNIQUE(tenant_id, seq).                                                 *)
(***************************************************************************)
EXTENDS Integers, FiniteSets

CONSTANTS
    Tenants,     \* organizations, each with a chain of its own
    Writers,     \* database transactions that may be open at the same time
    Values,      \* values of the row the events are about (a version's state)
    InitValue,   \* the row's value when its tenant is created
    Other,       \* the body of an event that is not about the row
    NONE,        \* no lock holder
    Dialect,     \* "postgresql" or "sqlite": session.get_bind().dialect.name
    MaxEvents,   \* bound: events one transaction records
    MaxSeq,      \* bound: committed events of a tenant before it stops
    MaxForged    \* bound: events of a rewritten chain that are not recorded ones

ASSUME TenantsAssumption == Tenants # {}
ASSUME DialectAssumption == Dialect \in {"postgresql", "sqlite"}
ASSUME ValuesAssumption == InitValue \in Values /\ Other \notin Values
ASSUME NoneAssumption == NONE \notin Writers
ASSUME BoundsAssumption == MaxEvents \in Nat \ {0} /\ MaxSeq \in Nat /\ MaxForged \in Nat

VARIABLES
    audit_events,  \* committed rows of the table, by tenant
    data,          \* committed value of the tenant's row
    pc,            \* where a writer's transaction stands
    work,          \* what it is doing: door, tenant, value to write
    left,          \* events it has still to record
    seen,          \* the newest event it read: sequence number and hash
    mine,          \* rows it inserted and has not committed
    chain_lock,    \* holder of pg_advisory_xact_lock(hashtext(tenant))
    row_lock       \* holder of the row (on SQLite: of the write lock)

locks == <<chain_lock, row_lock>>
committed == <<audit_events, data>>
vars == <<audit_events, data, pc, work, left, seen, mine, chain_lock, row_lock>>

GENESIS == <<>>
Bodies == Values \cup {Other}
Doors == IF Dialect = "postgresql" THEN {"python", "go"} ELSE {"python"}
Work == [door : Doors, tenant : Tenants, value : Bodies]
NoWork == [door |-> "python", tenant |-> CHOOSE t \in Tenants : TRUE, value |-> Other]

-----------------------------------------------------------------------------
(* Events and chains. *)

\* SHA-256 of the canonical JSON of the fields, without collisions: the
\* hashed fields themselves.  The Go digest is of the same text.
Digest(t, seq, body, prev) == <<t, seq, body, prev>>

Event(t, last, body) ==
    [seq |-> last.seq + 1, body |-> body, prev_hash |-> last.hash,
     hash |-> Digest(t, last.seq + 1, body, last.hash)]

Empty == [seq |-> 0, hash |-> GENESIS]

\* The row ORDER BY seq DESC LIMIT 1, or the values an empty chain starts from.
Last(rows) ==
    IF rows = {} THEN Empty
    ELSE LET e == CHOOSE e \in rows : \A f \in rows : f.seq <= e.seq
         IN  [seq |-> e.seq, hash |-> e.hash]

\* Faulty verify_chain: links only, the digest is not computed again.
verify_links(t, rows) ==
    {e \in rows : LET previous == Last({f \in rows : f.seq < e.seq})
                  IN  \/ e.seq # previous.seq + 1
                      \/ \E f \in rows \ {e} : f.seq = e.seq
                      \/ e.prev_hash # previous.hash}

\* verify_chain over the rows in the order of seq: the events it complains of.
\* The event that precedes e in that order gives the expected seq and hash; of
\* two events with one number, the second does not have the expected one.
verify_chain(t, rows) ==
    {e \in rows : LET previous == Last({f \in rows : f.seq < e.seq})
                  IN  \/ e.seq # previous.seq + 1
                      \/ \E f \in rows \ {e} : f.seq = e.seq
                      \/ e.prev_hash # previous.hash
                      \/ e.hash # Digest(t, e.seq, e.body, e.prev_hash)}

\* Faulty Visible: pending rows are not flushed before the query.
VisibleUnflushed(w) == audit_events[work[w].tenant]

\* What a statement of writer w sees: committed rows and its own.
Visible(w) == audit_events[work[w].tenant] \cup mine[w]

-----------------------------------------------------------------------------
Init ==
    /\ audit_events = [t \in Tenants |-> {}]
    /\ data = [t \in Tenants |-> InitValue]
    /\ pc = [w \in Writers |-> "idle"]
    /\ work = [w \in Writers |-> NoWork]
    /\ left = [w \in Writers |-> 0]
    /\ seen = [w \in Writers |-> Empty]
    /\ mine = [w \in Writers |-> {}]
    /\ chain_lock = [t \in Tenants |-> NONE]
    /\ row_lock = [t \in Tenants |-> NONE]

\* The row (PostgreSQL) or the whole database (SQLite) may be written by w.
CanWrite(w, t) ==
    IF Dialect = "postgresql" THEN row_lock[t] \in {NONE, w}
    ELSE \A u \in Tenants : row_lock[u] \in {NONE, w}

\* A request or a job opens its transaction.
Begin(w) ==
    /\ pc[w] = "idle"
    /\ \E k \in Work, n \in 1..MaxEvents :
         /\ Last(audit_events[k.tenant]).seq + n <= MaxSeq
         /\ work' = [work EXCEPT ![w] = k]
         /\ left' = [left EXCEPT ![w] = n]
         /\ pc' = [pc EXCEPT ![w] = IF k.door = "go" THEN "row" ELSE "chain"]
    /\ UNCHANGED <<committed, seen, mine, locks>>

\* GetVersion's SELECT ... FOR UPDATE in the control plane.
LockRow(w) ==
    LET t == work[w].tenant IN
    /\ pc[w] = "row"
    /\ row_lock[t] \in {NONE, w}
    /\ row_lock' = [row_lock EXCEPT ![t] = w]
    /\ pc' = [pc EXCEPT ![w] = "chain"]
    /\ UNCHANGED <<committed, work, left, seen, mine, chain_lock>>

\* Faulty LockChain: no chain lock on either dialect.
LockChainNever(w) ==
    /\ pc[w] = "chain"
    /\ pc' = [pc EXCEPT ![w] = "select"]
    /\ UNCHANGED <<committed, work, left, seen, mine, locks>>

\* record(): take the chain lock of the tenant for the transaction.
LockChain(w) ==
    LET t == work[w].tenant IN
    /\ pc[w] = "chain"
    /\ IF Dialect = "postgresql"
       THEN /\ chain_lock[t] \in {NONE, w}
            /\ chain_lock' = [chain_lock EXCEPT ![t] = w]
       ELSE UNCHANGED chain_lock
    /\ pc' = [pc EXCEPT ![w] = "select"]
    /\ UNCHANGED <<committed, work, left, seen, mine, row_lock>>

\* record(): flush the pending change to the row, then read the newest event.
SelectLast(w) ==
    LET t == work[w].tenant IN
    /\ pc[w] = "select"
    /\ IF work[w].value = Other THEN UNCHANGED row_lock
       ELSE /\ CanWrite(w, t)
            /\ row_lock' = [row_lock EXCEPT ![t] = w]
    /\ seen' = [seen EXCEPT ![w] = Last(Visible(w))]
    /\ pc' = [pc EXCEPT ![w] = "insert"]
    /\ UNCHANGED <<committed, work, left, mine, chain_lock>>

\* The first event of a transaction that writes the row reports the new value.
NextBody(w) == IF mine[w] = {} THEN work[w].value ELSE Other

\* UNIQUE(tenant_id, seq) refuses the row.
Taken(w, seq) == \E f \in Visible(w) : f.seq = seq

\* INSERT: a row with this (tenant_id, seq) that another open transaction has
\* inserted makes it wait, a committed one makes it fail.
InsertEvent(w) ==
    LET t == work[w].tenant
        e == Event(t, seen[w], NextBody(w)) IN
    /\ pc[w] = "insert"
    /\ \A x \in Writers \ {w} : work[x].tenant = t => \A f \in mine[x] : f.seq # e.seq
    /\ IF Dialect = "postgresql" THEN UNCHANGED row_lock
       ELSE /\ CanWrite(w, t)
            /\ row_lock' = [row_lock EXCEPT ![t] = w]
    /\ IF Taken(w, e.seq)
       THEN /\ pc' = [pc EXCEPT ![w] = "conflict"]
            /\ UNCHANGED <<left, mine>>
       ELSE /\ mine' = [mine EXCEPT ![w] = @ \cup {e}]
            /\ left' = [left EXCEPT ![w] = @ - 1]
            /\ pc' = [pc EXCEPT ![w] = IF left[w] = 1 THEN "commit" ELSE "chain"]
    /\ UNCHANGED <<committed, work, seen, chain_lock>>

\* Faulty End: a session-level advisory lock outlives the transaction.
EndHoldingChain(w) ==
    /\ row_lock' = [t \in Tenants |-> IF row_lock[t] = w THEN NONE ELSE row_lock[t]]
    /\ pc' = [pc EXCEPT ![w] = "idle"]
    /\ work' = [work EXCEPT ![w] = NoWork]
    /\ left' = [left EXCEPT ![w] = 0]
    /\ seen' = [seen EXCEPT ![w] = Empty]
    /\ mine' = [mine EXCEPT ![w] = {}]
    /\ UNCHANGED chain_lock

\* The transaction ends, and its locks with it.
End(w) ==
    /\ chain_lock' = [t \in Tenants |-> IF chain_lock[t] = w THEN NONE ELSE chain_lock[t]]
    /\ row_lock' = [t \in Tenants |-> IF row_lock[t] = w THEN NONE ELSE row_lock[t]]
    /\ pc' = [pc EXCEPT ![w] = "idle"]
    /\ work' = [work EXCEPT ![w] = NoWork]
    /\ left' = [left EXCEPT ![w] = 0]
    /\ seen' = [seen EXCEPT ![w] = Empty]
    /\ mine' = [mine EXCEPT ![w] = {}]

\* Faulty Commit: the row is written although the change is about something else.
CommitAlwaysWrites(w) ==
    /\ pc[w] = "commit"
    /\ audit_events' = [audit_events EXCEPT ![work[w].tenant] = @ \cup mine[w]]
    /\ data' = [data EXCEPT ![work[w].tenant] = work[w].value]
    /\ End(w)

\* The change and its events become visible together.
Commit(w) ==
    LET t == work[w].tenant IN
    /\ pc[w] = "commit"
    /\ audit_events' = [audit_events EXCEPT ![t] = @ \cup mine[w]]
    /\ data' = IF work[w].value = Other THEN data ELSE [data EXCEPT ![t] = work[w].value]
    /\ End(w)

\* Faulty Rollback: events are recorded in a session of their own and stay.
RollbackKeepsEvents(w) ==
    /\ audit_events' = [audit_events EXCEPT ![work[w].tenant] = @ \cup mine[w]]
    /\ End(w)
    /\ UNCHANGED data

\* scoped_session rolls back on any exception; BeginFunc does when fn fails.
Rollback(w) == End(w) /\ UNCHANGED committed

\* An exception after any statement of the transaction.
Abort(w) == pc[w] # "idle" /\ Rollback(w)

\* After an IntegrityError from the unique constraint nothing else can follow.
Conflict(w) == pc[w] = "conflict" /\ Abort(w)

\* The backend waits for the row with the chain locked, the control plane for
\* the chain with the row locked.
Deadlocked(w, x) ==
    LET t == work[w].tenant IN
    /\ work[x].tenant = t
    /\ pc[w] = "select" /\ chain_lock[t] = w /\ row_lock[t] = x
    /\ pc[x] = "chain" /\ work[w].value # Other

\* PostgreSQL finds the cycle and fails one of the two transactions.
DeadlockVictim(w) ==
    /\ \E x \in Writers \ {w} : Deadlocked(w, x) \/ Deadlocked(x, w)
    /\ Rollback(w)

Step(w) ==
    \/ LockRow(w) \/ LockChain(w) \/ SelectLast(w) \/ InsertEvent(w)
    \/ Commit(w) \/ DeadlockVictim(w)

Next == \E w \in Writers : Begin(w) \/ Step(w) \/ Abort(w)

Spec == Init /\ [][Next]_vars

\* An open transaction goes on: the process that runs it is scheduled, and
\* PostgreSQL hands a freed lock to its waiters in turn and breaks cycles.
FairSpec == Spec /\ \A w \in Writers : SF_vars(Step(w) \/ Conflict(w))

-----------------------------------------------------------------------------
(* Properties. *)

PCs == {"idle", "row", "chain", "select", "insert", "conflict", "commit"}

\* Types of the locks, of the committed values and of a writer's program counter.
TypeOK ==
    /\ DOMAIN audit_events = Tenants /\ DOMAIN mine = Writers /\ DOMAIN seen = Writers
    /\ data \in [Tenants -> Values]
    /\ pc \in [Writers -> PCs]
    /\ work \in [Writers -> Work]
    /\ left \in [Writers -> 0..MaxEvents]
    /\ chain_lock \in [Tenants -> Writers \cup {NONE}]
    /\ row_lock \in [Tenants -> Writers \cup {NONE}]
    /\ \A t \in Tenants : \A e \in audit_events[t] : e.seq \in Nat \ {0} /\ e.body \in Bodies

\* Whatever transactions overlapped, aborted or came through the other door,
\* verify_chain finds no problem in the committed chain of any tenant.
ChainsIntact == \A t \in Tenants : verify_chain(t, audit_events[t]) = {}

\* On PostgreSQL the chain lock makes concurrent writers wait for each other:
\* none of them ever runs into UNIQUE(tenant_id, seq) and loses its change.
NoForkOnPostgres == Dialect = "postgresql" => \A w \in Writers : pc[w] # "conflict"

\* The value the newest event about the row reports.
Reported(t) ==
    LET about == {e \in audit_events[t] : e.body # Other} IN
    IF about = {} THEN InitValue
    ELSE (CHOOSE e \in about : \A f \in about : f.seq <= e.seq).body

\* The log and the data never disagree: the row always has the value that the
\* newest committed event about it reports, although the two doors lock the
\* row and the chain in opposite orders.
LogMatchesData == \A t \in Tenants : data[t] = Reported(t)

\* Every transaction that begins also ends: on PostgreSQL the opposite lock
\* orders of the two doors cost a victim, never a standstill.
TransactionsEnd == \A w \in Writers : pc[w] # "idle" ~> pc[w] = "idle"

\* The committed events of a tenant in the order of their numbers.
Journalled(t) ==
    [i \in 1..Last(audit_events[t]).seq |-> (CHOOSE e \in audit_events[t] : e.seq = i).body]

Promise == INSTANCE Journal WITH journal <- [t \in Tenants |-> Journalled(t)]

\* Transactions that overlap, abort, deadlock, or come through the other door
\* are as if each had happened at once when it committed: its change with all
\* its events, after everything committed before, and the log never changes
\* otherwise ("append-only", auditlog.py).
ImplementsJournal == Promise!Spec

-----------------------------------------------------------------------------
(* Rows changed behind the writers' back, by someone who bypasses the      *)
(* triggers that reject UPDATE and DELETE: what one tenant's rows become.  *)
(* The hash has no key, so that whoever changes a row can also compute it, *)
(* and those after it, again.  created_at is not hashed and not in rows.   *)

\* Another body; the hash stays.
Edited(rows) ==
    UNION {{(rows \ {e}) \cup {[e EXCEPT !.body = b]} : b \in Bodies \ {e.body}} : e \in rows}

Deleted(rows) == {rows \ {e} : e \in rows}

\* A well-formed event becomes number n, perhaps the last; the later ones move up.
InsertedAt(t, rows, n, b) ==
    LET before == {f \in rows : f.seq < n}
        after == {[f EXCEPT !.seq = @ + 1] : f \in rows \ before}
    IN  before \cup {Event(t, Last(before), b)} \cup after
Inserted(t, rows) == {InsertedAt(t, rows, n, b) : n \in 1..(Last(rows).seq + 1), b \in Bodies}

\* Two events trade their places in the order.
Reordered(rows) ==
    UNION {{(rows \ {e, f}) \cup {[e EXCEPT !.seq = f.seq], [f EXCEPT !.seq = e.seq]} :
            f \in {g \in rows : e.seq < g.seq}} : e \in rows}

UpTo(rows, n) == {f \in rows : f.seq <= n}

\* The rows up to number n, and after them k events that report the bodies b
\* with all their hashes computed anew.
Rechained(t, rows, n, k, b) ==
    LET made[i \in 0..k] ==
            IF i = 0 THEN UpTo(rows, n) ELSE made[i - 1] \cup {Event(t, Last(made[i - 1]), b[i])}
    IN  made[k]
Rewritten(t, rows) ==
    UNION {{Rechained(t, rows, n, k, b) : n \in 0..Last(rows).seq, b \in [1..k -> Bodies]} : k \in 0..MaxForged}

Changed(t, rows) ==
    Edited(rows) \cup Deleted(rows) \cup Inserted(t, rows) \cup Reordered(rows) \cup Rewritten(t, rows)

\* The head that an attestation names anchors it "in that history" (attest.py):
\* whatever transactions wrote the chain and however it is changed later, with
\* or without new hashes, a chain that verify_chain accepts and that has an
\* event with the hash of an event recorded here is the same up to that event.
HistoryAnchored ==
    \A t \in Tenants :
        LET rows == audit_events[t] IN
        \A changed \in Changed(t, rows) :
            verify_chain(t, changed) = {} =>
                \A e \in rows, f \in changed : f.hash = e.hash => UpTo(changed, f.seq) = UpTo(rows, e.seq)
=============================================================================
