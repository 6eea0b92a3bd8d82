----------------------------- MODULE Attestation -----------------------------
(***************************************************************************)
(* Encrypted storage (platform/storage.py), signed attestations            *)
(* (platform/attest.py) and what the diligence report says of them         *)
(* (platform/reports.py).                                                  *)
(*                                                                         *)
(* Objects are written at once and stay, whatever becomes of the           *)
(* transaction; rows are written when it commits.  The transaction that    *)
(* ends an audit moves the version first, which takes the lock of the      *)
(* audit log's chain until it commits (AuditLog), and attests after that.  *)
(***************************************************************************)
EXTENDS Integers, Sequences, FiniteSets, FiniteSetsExt

CONSTANTS
    Tenants,
    Owner,        \* the tenant whose versions are audited
    Names,        \* names of datasets
    Corpora,      \* their contents
    Workers,      \* transactions in flight
    Versions,
    Parent,       \* the version that each one is to replace, or NONE
    MaxLog,
    MaxCopies,    \* objects somebody copies inside the bucket
    MaxOutages,   \* reads that fail although the object is there
    NONE

VARIABLES
    objects,     \* the bucket: ciphertext at [tenant][key], or NONE
    datasets,    \* datasets rows: the content by tenant and name, or NONE
    public_key,  \* tenants.public_key of Owner
    state,       \* of each version, NONE before it is registered
    attestation, \* of each version, or NONE
    log,         \* audit events of Owner
    task,        \* what each transaction is doing
    generated,   \* number of signing keys generated
    copies, outages

vars == <<objects, datasets, public_key, state, attestation, log, task, generated, copies, outages>>

-----------------------------------------------------------------------------
(* Storage. *)

KEY_OBJECT == <<"keys", "signing-key.pem">>
dataset_key(c) == <<"datasets", c>>
ObjectKeys == {KEY_OBJECT} \cup {dataset_key(c) : c \in Corpora}

\* Every tenant has a data key of its own.
data_key(t) == <<"data_key", t>>
corpus(c) == <<"corpus", c>>
pem(n) == <<"pem", n>>

\* What the bucket may hold.
Blobs == [key : {data_key(t) : t \in Tenants}, context : Tenants \X ObjectKeys,
          data : ({"corpus"} \X Corpora) \cup ({"pem"} \X Nat)]
States == {"registered", "auditing", "findings", "clean", "superseded"}

ASSUME OwnerAssumption == Owner \in Tenants
ASSUME ParentAssumption == Parent \in [Versions -> Versions \cup {NONE}]
ASSUME NoneAssumption == NONE \notin Versions /\ NONE \notin States /\ NONE \notin Blobs
ASSUME BoundAssumption == MaxLog \in Nat

\* Faulty _context: the object's key is left out.
_context_of_tenant(t, k) == <<t>>

_context(t, k) == <<t, k>>

\* TenantStore.put
encrypted(t, k, data) == [key |-> data_key(t), context |-> _context(t, k), data |-> data]

\* TenantStore.get: the data, or an error (StorageError, DecryptionError).
MISSING == <<"missing">>
UNDECRYPTABLE == <<"undecryptable">>
get(t, k) ==
    LET blob == objects[t][k] IN
    IF blob = NONE THEN MISSING
    ELSE IF blob.key = data_key(t) /\ blob.context = _context(t, k) THEN blob.data
    ELSE UNDECRYPTABLE

put(t, k, data) == objects' = [objects EXCEPT ![t][k] = encrypted(t, k, data)]

\* Somebody with access to the bucket copies an object to another place.
Copy ==
    /\ copies < MaxCopies
    /\ copies' = copies + 1
    /\ \E t, u \in Tenants, k, l \in ObjectKeys :
          objects[t][k] # NONE /\ objects' = [objects EXCEPT ![u][l] = objects[t][k]]
    /\ UNCHANGED <<datasets, public_key, state, attestation, log, task, generated, outages>>

-----------------------------------------------------------------------------
(* Transactions. *)

Idle == [pc |-> "idle"]
Goes(w, s) == task' = [task EXCEPT ![w] = s]

Init ==
    /\ objects = [t \in Tenants |-> [k \in ObjectKeys |-> NONE]]
    /\ datasets = [t \in Tenants |-> [n \in Names |-> NONE]]
    /\ public_key = NONE
    /\ state = [v \in Versions |-> IF Parent[v] = NONE THEN "registered" ELSE NONE]
    /\ attestation = [v \in Versions |-> NONE]
    /\ log = <<>>
    /\ task = [w \in Workers |-> Idle]
    /\ generated = 0 /\ copies = 0 /\ outages = 0

\* Whether an audit holds the lock of Owner's chain.
ChainFree == \A w \in Workers : task[w].pc \notin {"key", "put", "attest"}

Event(kind, what, sha) == [kind |-> kind, what |-> what, sha |-> sha]

\* add_dataset: the name is free (400), the object is written ...
PutDataset(w, t, n, c) ==
    /\ task[w].pc = "idle" /\ datasets[t][n] = NONE
    /\ put(t, dataset_key(c), corpus(c))
    /\ Goes(w, [pc |-> "dataset", tenant |-> t, name |-> n, content |-> c])
    /\ UNCHANGED <<datasets, public_key, state, attestation, log, generated, copies, outages>>

\* ... and then the row, unless the name was taken meanwhile.
CommitDataset(w) ==
    LET d == task[w] IN
    /\ d.pc = "dataset" /\ datasets[d.tenant][d.name] = NONE
    /\ IF d.tenant = Owner
       THEN ChainFree /\ Len(log) < MaxLog /\ log' = Append(log, Event("dataset.added", <<d.name>>, NONE))
       ELSE UNCHANGED log
    /\ datasets' = [datasets EXCEPT ![d.tenant][d.name] = d.content]
    /\ Goes(w, Idle)
    /\ UNCHANGED <<objects, public_key, state, attestation, generated, copies, outages>>

DatasetConflict(w) ==
    /\ task[w].pc = "dataset" /\ datasets[task[w].tenant][task[w].name] # NONE
    /\ Goes(w, Idle)
    /\ UNCHANGED <<objects, datasets, public_key, state, attestation, log, generated, copies, outages>>

\* Faulty StartAudit: also of versions that were replaced.
StartAuditAnytime(v) ==
    /\ state[v] \in {"registered", "clean", "findings", "superseded"}
    /\ state' = [state EXCEPT ![v] = "auditing"]
    /\ UNCHANGED <<objects, datasets, public_key, attestation, log, task, generated, copies, outages>>

\* Requests and job failures move versions as Lifecycle says; their events are
\* left out here.
StartAudit(v) ==
    /\ state[v] \in {"registered", "clean", "findings"}
    /\ state' = [state EXCEPT ![v] = "auditing"]
    /\ UNCHANGED <<objects, datasets, public_key, attestation, log, task, generated, copies, outages>>

\* _remediate: the successor replaces the version in one transaction, and its
\* audit follows.
Remediate(v) ==
    /\ Parent[v] # NONE /\ state[v] = NONE /\ state[Parent[v]] = "findings" /\ ChainFree
    /\ state' = [state EXCEPT ![Parent[v]] = "superseded", ![v] = "auditing"]
    /\ UNCHANGED <<objects, datasets, public_key, attestation, log, task, generated, copies, outages>>

\* Faulty AuditMove: the lock is not taken.
AuditMoveUnlocked(w, v) ==
    /\ task[w].pc = "idle" /\ state[v] = "auditing"
    /\ \A x \in Workers : task[x].pc \in {"key", "put", "attest"} => task[x].version # v
    /\ Len(log) + 2 <= MaxLog
    /\ Goes(w, [pc |-> "key", version |-> v, key |-> 0, fresh |-> FALSE])
    /\ UNCHANGED <<objects, datasets, public_key, state, attestation, log, generated, copies, outages>>

\* _audit's second transaction: lifecycle.move, and with it the chain's lock.
AuditMove(w, v) ==
    /\ task[w].pc = "idle" /\ state[v] = "auditing" /\ ChainFree
    /\ Len(log) + 2 <= MaxLog
    /\ Goes(w, [pc |-> "key", version |-> v, key |-> 0, fresh |-> FALSE])
    /\ UNCHANGED <<objects, datasets, public_key, state, attestation, log, generated, copies, outages>>

\* signing_key: no key yet, the key, or one that does not decrypt.
GetKey(w) ==
    LET data == get(Owner, KEY_OBJECT) IN
    /\ task[w].pc = "key" /\ data # UNDECRYPTABLE
    /\ IF data = MISSING
       THEN Goes(w, [task[w] EXCEPT !.pc = "put"])
       ELSE Goes(w, [task[w] EXCEPT !.pc = "attest", !.key = data[2]])
    /\ UNCHANGED <<objects, datasets, public_key, state, attestation, log, generated, copies, outages>>

\* S3Store.get: whatever goes wrong counts as "object not found".
GetKeyOutage(w) ==
    /\ task[w].pc = "key" /\ outages < MaxOutages
    /\ outages' = outages + 1
    /\ Goes(w, [task[w] EXCEPT !.pc = "put"])
    /\ UNCHANGED <<objects, datasets, public_key, state, attestation, log, generated, copies>>

\* The new key is in the storage before anything commits.
PutKey(w) ==
    /\ task[w].pc = "put"
    /\ generated' = generated + 1
    /\ put(Owner, KEY_OBJECT, pem(generated + 1))
    /\ Goes(w, [task[w] EXCEPT !.pc = "attest", !.key = generated + 1, !.fresh = TRUE])
    /\ UNCHANGED <<datasets, public_key, state, attestation, log, copies, outages>>

\* sha256 of the canonical JSON, without collisions.
sha256(document) == IF document = NONE THEN NONE ELSE <<"sha256", document>>

\* The document: the version and its state, the parent by its hash, and the
\* head of the log, which is the event of the move.
Body(v, to, head) ==
    [version |-> v, state |-> to,
     parent |-> IF Parent[v] = NONE THEN NONE ELSE [version |-> Parent[v], sha |-> sha256(attestation[Parent[v]])],
     audit_log_head |-> head]

signed(body, key) == [body |-> body, signature |-> [key |-> key, of |-> body]]

\* verify
verify(document, key) == document.signature.key = key /\ document.signature.of = document.body

\* attest and the commit: findings or clean, the published key if it is new,
\* the attestation, the move's event and the attestation's.
Attest(w, to) ==
    LET v == task[w].version
        document == signed(Body(v, to, [seq |-> Len(log) + 1]), task[w].key) IN
    /\ task[w].pc = "attest"
    /\ state' = [state EXCEPT ![v] = to]
    /\ attestation' = [attestation EXCEPT ![v] = document]
    /\ public_key' = IF task[w].fresh THEN task[w].key ELSE public_key
    /\ log' = log \o <<Event("version.state", <<v, to>>, NONE), Event("version.attested", <<v>>, sha256(document))>>
    /\ Goes(w, Idle)
    /\ UNCHANGED <<objects, datasets, generated, copies, outages>>

\* An error, a DecryptionError among them, or the end of the worker: nothing is
\* written; the audit is tried again or, after the last attempt, given up.
Abort(w) ==
    /\ task[w].pc \in {"key", "put", "attest"}
    /\ \E to \in {"auditing", "registered"} : state' = [state EXCEPT ![task[w].version] = to]
    /\ Goes(w, Idle)
    /\ UNCHANGED <<objects, datasets, public_key, attestation, log, generated, copies, outages>>

Next ==
    \/ Copy
    \/ \E v \in Versions : StartAudit(v) \/ Remediate(v)
    \/ \E w \in Workers :
          \/ \E t \in Tenants, n \in Names, c \in Corpora : PutDataset(w, t, n, c)
          \/ CommitDataset(w) \/ DatasetConflict(w)
          \/ \E v \in Versions : AuditMove(w, v)
          \/ GetKey(w) \/ GetKeyOutage(w) \/ PutKey(w) \/ Abort(w)
          \/ \E to \in {"findings", "clean"} : Attest(w, to)

Spec == Init /\ [][Next]_vars

-----------------------------------------------------------------------------
(* The diligence report. *)

\* _version: the signature is checked when both halves are there.
attestation_verified(v) ==
    attestation[v] # NONE /\ public_key # NONE /\ verify(attestation[v], public_key)

all_attestations_verified == \A v \in Versions : attestation[v] # NONE => attestation_verified(v)

-----------------------------------------------------------------------------
(* Properties. *)

\* Types of the tables and of the bucket.
TypeOK ==
    /\ \A t \in Tenants, k \in ObjectKeys : objects[t][k] # NONE =>
          DOMAIN objects[t][k] = {"key", "context", "data"}
    /\ \A t \in Tenants, n \in Names : datasets[t][n] \in Corpora \cup {NONE}
    /\ public_key # NONE => public_key \in 1..generated
    /\ \A v \in Versions : attestation[v] # NONE =>
          attestation[v].body.version = v /\ attestation[v].signature.key \in 1..generated
    /\ Len(log) <= MaxLog

\* "an object copied to another tenant or path does not decrypt" (storage.py):
\* jobs read the dataset that was uploaded under this hash by this tenant, or
\* fail; the signing key is one that was generated for the tenant.
NothingForeign ==
    /\ \A t \in Tenants, n \in Names : datasets[t][n] # NONE =>
          get(t, dataset_key(datasets[t][n])) \in {corpus(datasets[t][n]), UNDECRYPTABLE}
    /\ get(Owner, KEY_OBJECT) \in {MISSING, UNDECRYPTABLE} \cup {pem(n) : n \in 1..generated}

\* The first audits of a tenant may overlap and be retried, but one signing key
\* comes of them: as long as the storage answers, none replaces another, not
\* even when the stored one was tampered with.
OneSigningKey == outages = 0 => generated <= 1

\* Once the tenant's key is published, every attestation verifies under it and
\* the report says so, unless a failed read made the key be replaced.
PublishedVerifies == outages = 0 /\ public_key # NONE => all_attestations_verified

\* "versions form a verifiable chain": the hash a version has of its parent is
\* the hash of the parent's attestation, whenever either is audited again.
ParentChain ==
    \A v \in Versions : attestation[v] # NONE /\ Parent[v] # NONE =>
        attestation[v].body.parent.sha = sha256(attestation[Parent[v]])

\* The log vouches for every attestation: its newest event about the version's
\* attestation has the hash of the one stored, and the head the attestation
\* names is the move that ended the audit, right before that event.
Anchored ==
    \A v \in Versions : attestation[v] # NONE =>
        LET attested == {i \in DOMAIN log : log[i].kind = "version.attested" /\ log[i].what = <<v>>}
            head == attestation[v].body.audit_log_head.seq IN
        /\ attested # {} /\ log[Max(attested)].sha = sha256(attestation[v])
        /\ head = Max(attested) - 1 /\ log[head].what = <<v, attestation[v].body.state>>

\* As long as the storage answers, a tenant has one signing key, and whatever
\* was attested verifies under the one that was published.
OneKeyVerifies == OneSigningKey /\ PublishedVerifies

\* Attestations are linked in both directions, through every new audit: to the
\* parent's by its hash, and from the log to the newest of each version.
AttestationsLinked == TypeOK /\ ParentChain /\ Anchored
=============================================================================
