# Model Passport in TLA+

Model Passport audits models, above all language models, for memorised personal
data, writes what it finds into signed passports, remediates, and takes the result
through testing and approval to release. It has two halves. The *toolkit*
(`src/model_passport/core`, `llm`, `scanners`, `auditors`, `policy`, `registry`,
`monitoring`) works on a project directory and a registry. The *platform* is two
programs over one PostgreSQL database: a Python backend with worker processes
(`src/model_passport/platform`) and a Go control plane with a gateway
(`controlplane/internal`). This directory holds TLA+ models of both, TLC runs on
small instances and TLAPS proofs for all instances.

## Inventory

| Component | State | Operations | What is hard | Correct when |
|---|---|---|---|---|
| Audit log (`auditlog.py`, `internal/audit`) | `audit_events`, one hash chain per tenant | `record` from either program, `verify_chain` | concurrent appends, two lock orders, rollback, SQLite without a lock | chains verify, nothing forks, log and data agree, a recorded hash fixes the history before it |
| Lifecycle (`lifecycle.py`, `rbac.py`, `auth.go`) | `model_versions.state` | `check`, `move` | two programs write the state, each with a table of its own | every change is a lifecycle step |
| Release (`routes_tenant.py`, `controlplane.py`, `server.go`, `store.go`) and gateway | version state, deployments, test reports | transition, approve/reject, test report, deploy, rollback, kill, resolve | blind writes in the backend, row locks in the control plane, timeouts between them | only approved versions reach consumers, the kill switch holds |
| Job queue, workers (`jobs.py`, `worker.py`) | `jobs`, checkpoint, audit, parent of a version | enqueue, claim, train, audit, remediate, finish, fail, recover | several transactions per job, retries, crashes, long work between read and write | no job is lost or taken twice, what is cleared was audited |
| Storage, attestations (`storage.py`, `attest.py`, `reports.py`) | encrypted objects, signing key, attestations | put, get, sign, verify | key created on first use by concurrent workers, objects outlive rolled-back transactions | attestations verify and are linked |
| Sign-in, members, tenants (`security.py`, `deps.py`, `routes_admin.py`, `services.py`) | users, memberships, tokens, throttle | login, invite, change, remove, suspend | parallel guesses, authorization in another transaction than the change | limits, removals and suspensions hold |
| Guard (`guard.py`, `routes_guard.py`, `guard/`) | keys, settings, vault, cache with a time to live | protect and review a conversation | stale cache, settings changing, placeholders that mean something else in each request | text that is sent tells nothing of held-back values, every placeholder comes back |
| Passport core (`core/`, `cli/project.py`) | project files, run record, keys, passport, history | init, run, build, verify | files edited, and edits undone, while they are hashed, run and checked | what a passport says was really so; tampering is reported |
| Registry, monitoring (`registry/`, `monitoring/`) | stored passports, events | push, append event, monitor | read-modify-write of the event chain, requests that outlive their client, one unlocked connection for all threads | nothing acknowledged is lost |
| Entity audit, sanitizing, remediation (`llm/`) | corpora, versions, history | audit, sanitize, translate, loop | spans that move, two tests, crashes between files | what blocks is confirmed, risky values go and stay gone |
| Scanners, auditors, policy, gate (`scanners/`, `auditors/`, `policy/`, `gate.py`) | none | scan, evaluate | missing evidence, thresholds | a rule that passes is true |
| ML stages, dashboards, rendering, web app, generated code | files | statistics, rendering | numeric code | not modelled |

`PROJECT.json` lists every component with its status, and the hazards of this
code with the properties that would catch them.

The platform's components meet in four places. Each change of a version calls
`auditlog.record` in its own transaction. The backend calls the control plane
(gRPC, 15 s timeout) for `canary`, `released`, rollback and kill, *before* it
writes the version itself. Requests and workers share the `jobs` table. An audit's
last transaction moves the version, attests it and reads the signing key while it
holds the chain's lock. The toolkit's commands meet in files: `passport.json` and
`.passport/`, the corpora, and the registry's copy of a passport.

## Modules

| Module | Models |
|---|---|
| `Rbac`, `Lifecycle` | the permission tables and checks of both programs; the transition table |
| `VersionLifecycle` | abstract specification: versions appear as registered and then follow the lifecycle |
| `Journal` | abstract specification: a change and all its events happen at once, at the end of the tenant's journal |
| `AuditLog` | writers of the chain as database transactions; rows changed from outside |
| `Release` | approving, deploying, rolling back and killing the versions of a model |
| `Pipeline` | requests, jobs and workers on the versions of a model |
| `Attestation` | the bucket, signing keys, attestations and what the report says of them |
| `Access` | login throttle, tokens, authorization, members and organizations |
| `Guard` | the guard's engine, settings, keys, cache and requests |
| `Passport` | documents, signatures, events, revisions, what the verifier accepts (operators) |
| `Project` | the commands that work on a project directory; uses `Passport` |
| `Registry` | the registry's server and its clients; uses `Passport` |
| `Roc`, `EntityAudit`, `Sanitize`, `Scans`, `Policy` | pure algorithms as operators |
| `Remediation` | the remediation loop; composes `EntityAudit`, `Sanitize`, `Scans` and `Policy` |
| `AuditLogProofs`, `ReleaseProofs`, `PipelineProofs`, `AttestationProofs`, `GuardProofs`, `AccessProofs`, `RemediationProofs` | theorems about the module of that name |
| `PassportProofs` | theorems about `Project` and `Registry` |
| `MC*` | the constants' values, symmetry and, for `MCAuditLog`, both databases |

Operators commented as *Faulty ...* are deliberate errors: each is put in the
place of the definition below it to see that some property notices.

**AuditLog.** A writer is a transaction that changes one row and records one or
more events. Its program counter follows the statements of `record`: chain lock
(PostgreSQL only), the query for the newest event, which flushes the pending
change to the row first, and the insert. The control plane (`door = "go"`) locks
the row before the chain. Two transactions of the two programs can therefore
deadlock, and PostgreSQL fails one of them. The hash is the tuple of the hashed
fields: without collisions and equal for both programs. What the Go canonical
JSON encoder does to strings is not modelled. `Changed` is what somebody who can
write the table may make of a chain: rows edited with their hash left stale, deleted,
exchanged, inserted anywhere, also after the newest, and any rewritten suffix with all
its hashes computed anew (`Rechained`), since `_digest` has no key.

**Release.** The versions have passed their audit. A request carries its program
counter, the version, the state it will write, and for a deployment its
environment, time and rows. Backend operations read and decide in one step
(`Transition`, `Decide`) and write in a later one (`WriteState`), because the
UPDATE is issued at commit, by primary key, from the object as it was loaded.
Deploy is five steps: begin (its `now()`), row lock and check, the UPDATE's
snapshot, the UPDATE itself once it gets its rows, and commit. Rollback chooses
its deployments and writes them later; `restored` remembers what a rollback has
brought back, and `unseen` what was committed when another deploy to the same
environment had already looked for what it replaces. A request that writes a state
remembers the one it read (`from`). Kill is one step: it holds the row lock
throughout, and its UPDATE waits for rows that another transaction has changed.
Requests always may overlap.
`TimesOut` is the gRPC timeout, after which the control plane goes on alone;
`Fails` is any other failure. `Served` is Resolve with the gateway's answer.

**Pipeline.** Requests move a version and enqueue a job in one transaction,
split into its read and its commit. A worker claims a job (two steps: the lock,
then the commit), loads, reads again, stores, and finishes, each in a transaction
of its own; `Raise` and `Crash` may happen in between. The artifact is the number
of trainings behind it, and an audit remembers which artifact it loaded. `orphans`
are the jobs that a worker died on.

In `Pipeline` the constant `Overlap` says whether transactions on versions may
overlap between their read and their write. With it the model shows what READ
COMMITTED allows; without it, what holds when each request is alone, so that a
property that needs serial execution is told apart from one that fails anyway.

**Attestation.** Objects are written at once, rows when the transaction commits.
A ciphertext is [key, context, data] and decrypts only with the tenant's key in
its own place. `AuditMove` takes the chain's lock, `GetKey`, `PutKey` and `Attest`
follow, and `Abort` undoes the rows and leaves the objects. `Copy` is somebody who
moves objects in the bucket, `GetKeyOutage` a read that fails while the object is
there, which `S3Store.get` reports as a missing object. A hash is the document.

**Access.** A login asks the throttle, verifies the password and tells the throttle
in three steps. Any other request reads the account (`Authenticate`), the
organization (`AuthorizeTenant`), in a second SELECT the membership (`Authorize`), the
row it will change (`HandlerReads`), and commits; the unique constraints and an UPDATE
of a deleted row make it fail. `deps.py` refuses an account with `users.disabled`; no
handler writes that column, so `SetDisabled` is somebody with the database. The throttle is
modelled for the account; the one for the client is the same code with another key.

**Guard.** A text is the sequence of the values and placeholders that the detector
finds in the string contents, the text parts and the tool-call arguments of a request.
Its other parts and fields are the values in its `rest`, which `routes_guard.py:192`
sends as they came. `Forward` reads the settings and the cache and sends the protected
text and the rest,
`Reply` reviews the answer with the policy and the memorized values of that
moment; keys, settings and audit results may change between the two.

**Passport, Project, Registry.** A hash is the thing itself and a signature the
pair of its key and what was signed. In `Project`, `run` hashes the inputs, runs
the stage and hashes the outputs in three steps, `build` hashes, assesses, archives
and writes in four, and the owner may save a file between any two of them (`Edit`)
or bring back what it held before (`Undo`); `Fail` stops a command anywhere. A build
has the passport at `--out` as its predecessor and archives it, or has none (`--no-link`,
another model, a file that does not load), or has a copy kept elsewhere (`--previous`);
in the last two cases it archives nothing. `--out` in another place is not modelled.
In `Registry` the server reads, checks, writes and commits in steps. All its threads
share one sqlite connection without a lock: `view` is what the connection shows,
`store` what is committed, a commit commits whatever any thread has written, and a
rollback takes it back (`rolled`). A client that gives up (`Timeout`) leaves its
request behind.

**Remediation.** One action per file that is read or written, with crashes in
between and one in the middle of writing the corpus. The scores of the model and
the p-values of the second test are chosen freely; from there on, `EntityAudit` has
the adjustment of Benjamini and Hochberg, risk, severity, confirmation and the
report, `Scans` what each scanner concludes from a *site* (what there is to find; of a
table with more rows than `sample_size` it sees the rows drawn), and `Policy` every
rule. A surrogate is a value of the pool that is not in the corpus, or, when no draw
succeeds, a perturbation of the value that nothing checks (`Fallbacks`, `_perturb`). A text is a sequence of atoms, so that spans and lengths
are real and spelling is not. Numbers are integers: rates are thousandths and
adjusted p-values scaled thousandths, both rounded up, so that one is over a limit
exactly when the quotient is; for up to four entities adjusted p-values are exact
and so is the order of the report. A risk is rounded to hundredths, as in the code.

## Runs

| Run | Distinct states | Result |
|---|---|---|
| `audit` | 124 000 | 2 writers, both databases, both doors: chains verify, no writer meets the unique constraint on PostgreSQL, the row agrees with the newest event about it, every edit, insertion, reordering and inner deletion is reported, every transaction ends, deadlocks included, and all of it is as if each transaction had happened at once (`ImplementsJournal`) |
| `release_overlap` | 1.0 million | 2 versions, 2 overlapping requests, every operation but test reports, and the targets `canary`, `released` and `rolled_back`: consumers get only versions that have been approved; only a rollback brings a killed version's deployment back |
| `release_serial` | 800 000 | 3 versions, 4 deployments, one request at a time: one live deployment per environment, consumers reach what is approved or released unless somebody withdraws it, only lifecycle steps, reported leaks block approval |
| `release_stale_kill` | | **violated**: a request that loaded the version before the kill writes its state afterwards, and the version is no longer killed |
| `pipeline_jobs_and_versions` | 500 000 | 2 workers, 2 versions, 3 jobs, 2 attempts, 1 crash: no job is held twice, cleared versions were audited as they are, successors replace, and the pipeline implements `VersionLifecycle` |
| `pipeline_progress` | 52 000 | overlapping transactions, no crashes: jobs settle within their attempts and waiting versions come back |
| `project` | 800 000 | 2 stages, 2 edits, 2 passports, 2 events, 2 keys: outputs come from the certified inputs, files that match a passport are the ones its checks saw, passports verify as written and in no other form, revisions find their predecessor, reported events stay |
| `registry` | 27 000 | one machine, 3 events, 5 requests: the registry follows the machine and every request is answered or given up |
| `guard` | 1.07 million | 2 apps, 2 conversations, 3 policies: no held-back value is sent, placeholders come back as their own values, the cache hides an audit for its time to live at most |
| `access` | 310 000 | 2 requests at a time, 3 in all, 3 people, 2 organizations: parallel guesses are bounded, the log agrees with the members, removals and suspensions are obeyed |
| `attestation` | 1.7 million | 2 workers, 3 versions, a copied object, a failing read: objects do not decrypt elsewhere, one signing key, attestations verify and are linked |
| `remediation` | 180 000 | 2 records, 3 entities, 3 builds, 3 strategies, 30 sites: what blocks was confirmed, passing rules are true, the gates agree, sanitizing is exact, the history is kept |

The violated runs quote, in `PROJECT.json`, the lines of the repository that say
otherwise.

### What the restrictions hide

Where a run restricts its instance, or a property names an exception, the code
does not keep the property beyond it. TLC finds the behaviours below when the
property is checked with other constants or without the exception:

- `OneActive` excepts two deploys of different versions of which one commits after
  the other's snapshot (`unseen`): they lock different rows, do not see each other's
  deployment, and both stay active. It also excepts what a rollback brought back,
  because Rollback does not lock the version. `ServedUnlessWithdrawn` therefore
  speaks of customers served from one live deployment (`Crowded`).
- `KilledStaysDown` and `ServedUnlessWithdrawn` except rollbacks: Rollback
  (`server.go:221`) chooses what it restores by status and environment and never
  looks at the version's state, so a deployment of a version killed meanwhile
  becomes active again (the gateway still answers 423), and a second rollback
  restores what the first one withdrew. `SETUP.md:295` says "Nothing deploys a
  killed version."
- `KilledStaysDown` also excepts a transition to `killed`: the endpoint
  (`routes_tenant.py:422`) accepts it like any state, writes it without the control
  plane, and the version keeps its live deployment.
- `OnlyLifecycleSteps` and `ServedUnlessWithdrawn` except requests that were
  overtaken between their read and their write: the UPDATE is blind.
  `release_stale_kill` shows what that does to the kill switch.
- `ServedUnlessWithdrawn` excepts withdrawals: "Mark rolled back" changes the
  state only, and the version keeps serving.
- No property says that a version with leaks in a test report is never approved,
  because the code does not see to it: `transition` accepts `approved`, which the web
  app never sends, and does not call `_check_approvable`, and a report that commits
  during an approval is not seen by it.
- `WaitingSettles` is about versions whose job is in the queue. A transition to
  `auditing` or `remediating`, which the endpoint accepts too, moves the version and
  enqueues nothing: no job takes it out again, and it waits for ever unless a person
  moves it or starts the job.
- `WaitingSettles` and `JobsSettle` except the jobs a worker died on: whether it dies
  while the job runs or between `fail` and `_recover` (`worker.py:326`), no job is
  taken from a dead worker. Such a job stays running, and its version auditing, for
  ever.
- `AuditedArtifact` with `Overlap = TRUE`: `_train`'s second transaction
  (`worker.py:140`) commits a checkpoint while an audit of the base model is under
  way, and the version ends clean with a checkpoint nobody audited.
- `HistoryAnchored` says what the hashes give somebody who has kept one, as an
  attestation does. Without a kept hash they give little: `_digest`
  (`auditlog.py:36`) has no key, so an event edited, inserted or appended with every
  later hash computed anew, or newest events deleted, make a chain that verifies; and
  `created_at` is in no hash. The last event of a passport can be deleted likewise.
- `Provenance` and `VerifiedMeansAssessed` except files that were undone: a script
  that is hashed, edited, run and then brought back to what was hashed is certified
  with an output that it did not make, and a dataset edited after its hashing, checked
  (`builder.py:121-137`) and brought back matches a passport whose checks saw other
  contents.
- The same two with a stage's output among the files that people edit: one that is
  edited between the end of the stage and its hashing is certified as what the stage
  made; one that is edited between its hashing and the checks, and made again later,
  matches a passport whose checks saw the edited one.
- `HistoryLinked` and `EventsKept` follow what a build archives. With `--previous` a
  copy elsewhere, the predecessor of the revision is that copy and not in the history,
  and the passport at `--out` is overwritten with its events; so it is when
  `load_previous` (`revision.py:19`) finds another model's passport there or one that
  does not load.
- All properties of `Project` are about one command at a time. There is no lock on
  the directory, files are truncated and written in place, and a stage reads its
  inputs long before it writes its outputs, which `Execute` does in one step: with a
  second `passport run` an output of older inputs can arrive after the newer inputs
  were hashed, and is certified with them. With one command and an owner who edits
  without going back, the one step loses nothing: what was hashed before it is what
  it read, or is gone.
- `EventsKept` with two commands at a time: two monitors, or a monitor and a build,
  read the same `passport.json`, and the one that writes last wins.
- `RegistryFollows` excepts passports that a rollback has touched (`rolled`), and
  `registry_lost_event` shows why: the rollback of an upload that fails
  (`db.py:95-109`) between another thread's UPDATE and its commit takes the event
  back, and the other thread acknowledges it all the same.
- `MaskedUnseen` is about the text. What a request holds in other parts and fields,
  values that the policy holds back among it, is sent as it came
  (`routes_guard.py:192`). Of a reply, `review_completion` (`chat.py:65-81`) looks at
  string contents and tool-call arguments only; anything else comes back unreviewed,
  and `RepliesFaithful` and `MemorizedHeld` say nothing of it.
- `RegistryFollows` with two machines on one passport: both append to the chain
  they read; the second write drops the first event, or the branches part and the
  registry refuses one of them from then on.
- `AllowedSinceItBegan` speaks of two moments, first one with the organization open
  and then one with the member: `deps.py:119` and `deps.py:124` are two SELECTs under
  READ COMMITTED. A request may pass on an organization that has been suspended
  since, with a role given after that. A request that has passed goes on whatever is
  removed, suspended or disabled before it commits.
- `LogMatchesMembers` excepts rows in `raced`: a removal whose row is gone is
  recorded, and of two changes the event order need not be the order of the rows.
- `OneKeyVerifies` excepts outages: a failing read of the signing key makes a new
  one, and older attestations no longer verify under the key that is then
  published. A key stored by a transaction that aborts afterwards is used from then
  on and never published; the report calls its attestations unverified.
- `HistoryKept` and `SanitizedInPlace` except versions in `torn`: a crash between
  the corpus and the version leaves new data under the old number, and one in the
  middle of the corpus loses records.
- `SanitizedInPlace` excepts values whose draws were all in vain: after `MAX_DRAWS`
  draws in the corpus or equal to the value, `references.py:144` returns a
  perturbation that it does not compare with either. A value without letters or digits
  is then replaced by itself, as one of a type with few values may be.
- `ReportTrue` excepts what `Holds` names: rows outside the sample (`PiiScanner._sample`
  draws 10 000 rows by default, and an identifier in another row passes
  `pii_columns_max`), files that are not text, cards that look like ids, and
  vulnerabilities whose severity could not be fetched, which count as medium.

Further things met while modelling and covered by no property: the throttle keeps
failures of addresses that never come back, and its announced wait need not be
enough; the area of a type whose scores are all NaN is written as null and makes
the build fail (`BuildFails`); `build` parses its config before it hashes it; a
surrogate may equal an original value that an earlier round replaced.

### Bounds

`MaxSeq`, `MaxEvents` (audit log): four committed events in chunks of one or two
let a transaction chain to its own row, to another's and to the genesis value.
`MaxForged` 2 lets a rewritten suffix have an event chained to a forged one.
`MaxDeploys` 2 lets two deploys of one version, or of two, overlap, a kill or a
withdrawal come between, and a rollback bring the first back; `ReleaseTargets` has the
targets that deploy, one that withdraws and one that has an endpoint of its own. With
one version 1 deployment is enough for the stale write. `MaxVersion` 2 has a
version and its successor; `MaxJobs` 3 a training, its audit and a re-audit or a
remediation and its audit; `MaxAttempts` 2 both a retry and a last attempt;
`MaxCrashes` 1, also in the run about progress, where
the one worker starts again. New jobs are only accepted with room for those they lead to
(`Room`), so that a bound never stops a job half-way. `MaxPassports` 2 and
`MaxEvents` 2 have a revision and an event chained to another; `MaxEdits` 2 an
edit on each side of a hash, or one and its undoing; what is edited is an input, a
script and the config, what is checked a source and a product. `MaxSent` 5 lets two
requests be given up and overtaken; 4 are enough for a push, an event, and the failing
push between the event's write and its commit. `Rests` has one value that a policy
holds back. `MaxClock` is one more than the time to live or the window, so that an
entry expires. `Window` and `Limit` 1 make the throttle refuse after one failure;
with two requests at a time two guesses get through. `MaxCalls` 3 lets a request meet
a removal, a suspension or a disabled account between any two of its reads; that the
two moments of `AllowedSinceItBegan` never coincide takes four and is left to the
proof. `MaxLog` 6 holds three
attestations or two and two datasets. `MaxBuilds` 3 gives a run of all `MaxRounds`
rounds or two runs with a crash between; only the first build sees every site
(`LaterSites`). `MAX_FINDINGS` 2 is less than the entities there are. Sites have
tables within and beyond `sample_size` 2, with the identifier drawn and not drawn.
`Scrambled` gives one atom itself or another and leaves the rest, so that a
perturbation may change a value, or not.

Deadlock is not checked where the bounds stop behaviours or requests need not
arrive. In `project` and `guard` it is: keys, settings and edits never run out
before a command or a request may be given up or changed. Workers, requests,
versions and apps are interchangeable in runs without liveness. `InitState` starts
the `Release` runs further on where the steps before do not matter, as for versions
that were tested before a control plane was set up.

### Fairness

`AuditLog`: strong fairness of each transaction's next step. The process that runs
it is scheduled; PostgreSQL queues waiters, and SQLite's busy handler tries again,
so a lock that is freed again and again is eventually granted. Beginning a
transaction and failing at random are not fair. `Pipeline`: weak fairness of each
worker's next step (the worker loops over `run_once`) and of a request's commit.
`Registry`: weak fairness of the server, which works off its thread pool's queue; a
client's timeout is not fair, so that `Answered` does not rest on giving up. There
is no fairness for requests arriving, failures, edits or crashes.

## Proofs

The theorems hold for every value of the constants: any tenants, versions, workers,
requests, texts and bounds. A theorem that needs more than the specification states
it as its hypothesis; each such hypothesis is a restriction that the runs make too,
and *What the restrictions hide* says what happens without it. No property is
inductive as it stands. Each module therefore has an invariant `Inv` that says what
is known of everything that is under way, a lemma per action that the action keeps
it, and then the theorems, which follow from it.

| Module | Theorem | States | Hypothesis |
|---|---|---|---|
| `AuditLogProofs` | `TypeCorrect`, `ChainIntegrity`, `NeverConflicts`, `LogAgrees`, `Anchored` | `TypeOK`, `ChainsIntact`, `NoForkOnPostgres`, `LogMatchesData`, `HistoryAnchored` | |
| | `Unforked` | `NoFork` of both databases (`MCAuditLog`) | |
| | `Journals` | `ImplementsJournal` | |
| `ReleaseProofs` | `TypeCorrect`, `ApprovedBeforeConsumers` | `TypeOK`, `ConsumerWasApproved` | |
| | `KilledStays`, `OneLive` | `KilledStaysDown`, `OneActive` | |
| | `StepsOfLifecycle`, `ServedApproved` | `OnlyLifecycleSteps`, `ServedUnlessWithdrawn` | |
| `PipelineProofs` | `HeldOnce` | `JobHeldOnce` | |
| | `Audited`, `Replaces`, `Implements` | `AuditedArtifact`, `SuccessorReplaces`, `ImplementsLifecycle` | `~Overlap` |
| `AttestationProofs` | `Foreign`, `OneKey`, `Linked` | `NothingForeign`, `OneKeyVerifies`, `AttestationsLinked` | |
| `GuardProofs` | `Sealed`, `Faithful`, `Held` | `MaskedUnseen`, `RepliesFaithful`, `MemorizedHeld` | |
| `AccessProofs` | `Throttled`, `LogGivesMembers`, `Rechecked` | `GuessesBounded`, `LogMatchesMembers`, `AllowedSinceItBegan` | |
| `PassportProofs` | `Provenant`, `AssessedAsVerified`, `Verifiable`, `Revised`, `Kept` | `Provenance`, `VerifiedMeansAssessed`, `VerifiesAsWritten`, `HistoryLinked`, `EventsKept` | `OneCommand`, `OwnFiles`, `NoneIsMissing` |
| | `Follows` | `RegistryFollows` | `OneWriter`, `NoneIsNoRow` |
| `RemediationProofs` | `DataKept`, `OneGate`, `Sanitizing`, `Reporting`, `Confirming` | `HistoryKept`, `GatesAgree`, `SanitizedInPlace`, `ReportTrue`, `BlockingIsConfirmed` | |

**AuditLogProofs.** `Inv` says of every chain, and of every chain extended by what
one open transaction has inserted, that its numbers are 1..n and each event carries
the digest and the hash before it (`Linked`); that a writer which has rows of its
own holds the chain lock (PostgreSQL) or the write lock (SQLite); that on PostgreSQL
what it read is still the newest event; and that a transaction that writes the row
reports the value in its first event. `Anchored` compares
two chains that verify and have one hash in common: a hash contains its event's fields
and the hash before it, so going back from the common one both chains agree, event by
event, to the genesis value. The rest is that whatever is made of a chain, edited,
cut, exchanged, extended or computed anew, is a set of rows like it. `Unforked`
adds that a behaviour of `MCAuditLog` that starts on PostgreSQL is one of `AuditLog`
with that dialect. `Journals` is the refinement of `Journal`: the journal of a tenant
is what its committed events report, in the order of their numbers. It needs one more
invariant, `Chunks`: the numbers a transaction has inserted are no further apart
than the events it set out to record, and only the lowest reports a value of the row.
A commit then appends exactly one `Transaction` (`CommitJournals`), and no other step
touches a committed row or the data (`NextChunks`, `Journals`).

**ReleaseProofs.** A request carries a decision of an earlier moment, so `Inv` says
what stays true of it: a write of `released` still to come, and a consumer
deployment past the row lock, are about a version that has been approved, because
`approved` never shrinks and the only lifecycle step to `released` starts in
`approved`. No theorem assumes that requests wait for each other. `KilledStays` rests
on the row lock: while a deployment is between its check and its commit, its version
stays in a state that may be deployed there (`StillFit`, `AllFit`), since whoever
changes a state waits for the lock. A version whose deployment is committed is
therefore not killed at that moment, and Kill, which waits likewise, takes down every
live deployment of its version. `OneLive` needs that one request at a time holds a
version (`LockedOnce`), and that a deploy which has looked for what it replaces still
has among its rows everything live in the environment that is of its own version or
was committed before it looked, unless a rollback brought it back (`Replaces`, `Own`).
`StepsOfLifecycle` compares what a request read with what there is when it writes: if
they are the same, its step is one of the lifecycle, and if not it was overtaken.
`ServedApproved` follows from the three: with one live deployment, what customers
reach changes with that deployment, whose version is fit at its commit, or with the
state of its version.

**PipelineProofs.** `HeldOnce` needs what the status of a job says of who may hold
it (`Held`) and that there is a row for every job that work under way will enqueue
(`Fits`). The others need that a version has at most one audit or remediation under
way and waits for it (`DueWaits`, `DueOnce`), and that the checkpoint an audit has
loaded is the one the version still has (`LoadedCurrent`). `Implements` maps the
initial states of `Pipeline` to those of `VersionLifecycle` and every step to a
lifecycle step or a stutter.

**AttestationProofs.** Every object, copied or not, is one that was encrypted for
the place its context names (`Genuine`), which gives `Foreign`. One worker at a time
is between its move and its attestation, where it holds the chain's lock; it
generates a key only if there is none (`Audits`, `KeysGenerated`), and the head it
names is the newest event of the log (`Logged`). A version that exists has superseded
its parent (`Replaced`), so the parent is not audited again and its attestation stays.

**GuardProofs.** `Sealed` runs `protect` on the text and on the same text with other
values of the masked and redacted types: the vault numbers values by where they first
come, so the placeholders, and with them the whole protected text, are the same
(`FirstRenamed`, `PlaceholderRenamed`, `ProtectRenamed`). A value that a request does not know as memorized was found by a
later audit or within the time to live of what the cache holds (`Unfound`); the
placeholders of one vault differ from each other; and an event of a request is
written when the request is done (`Events`).

**AccessProofs.** An attempt that has passed the throttle counts as a failure in
advance (`Guesses`): passing needs fewer recent failures than the limit, and of those
under way there are no more than requests. A request between its two SELECTs has
found the organization open since it began (`Opened`), one after them has found that
and then the membership (`Permitted`), and as logs only grow it stays so
(`AllVouched`). A transaction about to write a row knows
the row, unless requests on that row overlapped (`UpToDate`). What an earlier part of
the log says stays so when more is logged. The newest event about a row is found
through the least element of a set of numbers, in place of an induction over the log.

**PassportProofs, of Project.** The contents of a source that has been saved again do
not come back unless the save is undone. A file that was ever undone may have held
anything; the proofs put a mark in its place (`Marks`), and contents are gone for good
if a later save is there, or the file is marked
(`Older`). What a stage made comes from what was hashed before it ran, or something
that was hashed is gone (`Ran`), and then `build` finds the files changed; likewise
what the checks read is what was hashed, or the passport never verifies again
(`Seen`); both are said up to marked files, which the properties except. Every document is a signed body with a chain of events (`Document`), copies
of a passport differ in their events only, the archived copy has no event that the
passport has not (`Papers`), and a build that archives and is about to write has its
predecessor in the history, while one that does not archive goes by none or by a copy
kept elsewhere (`Fits`, `Building`). That a chain does not verify with an event taken out or
exchanged needs that no event equals the one before it: otherwise, going back, the
first event would equal the signed document (`EventsDiffer`). The hypotheses are that
one command runs at a time, that nobody edits what a stage makes, and that the value
for a missing file is no file and no passport.

**PassportProofs, of Registry.** The machine's events are numbered and linked (`Linked`), what the
registry has, or a request has read or carries, is the beginning of them (`Entry`),
and every request has a number of its own. The event that would come next in a row
that was read is not yet in the row there is, because only the request that carries
it can put it there (`NotYet`). Passports that a rollback has touched are
left out (`rolled`); of the others, what is committed is the beginning of what the
connection shows (`Behind`), a request that has written will acknowledge what the
connection shows (`Says`), and what was acknowledged is committed (`Known`).
`OneWriter` says that each passport is written from one machine, without which the
theorem is false; `NoneIsNoRow` that the value for a missing row is not a row.

**RemediationProofs.** The algorithms are folds, and what a fold computes for every
input is an induction. Each of these proofs does without the induction theorems: it
takes the least place in the fold where the claim fails, which is not the first, and
finds a contradiction with the place before it.

- `DataKept`: between the copy and the raised version the data in use are the ones
  in the history (`Kept`).
- `OneGate`: a build holds what the policy makes of its site and its audit
  (`Evaluated`), and a verdict is the worst of its rules.
- `Sanitizing`: after any number of spans the text written so far is the gaps of the
  original and the values chosen, the spans written are the slices of it, and the
  shift is what the replacements have added (`Stage`). Writing a corpus and reading
  it back gives the same spans in order. Hence each record of the training data is a
  copy of an original one, entity by entity (`Copied`), `translate` finds the position
  a finding means, and a position once replaced is never given its old value again:
  a surrogate that was drawn is none of the corpus's values and a mask is no value
  (`Counted`, `InPlace`). Values for which no draw succeeded are left out (`Sure`):
  nothing is known of their perturbation.
- `Reporting`: one lemma per rule (`RuleHolds`) from what the scanner counted to what
  is so, for sites and samples of any size: a count of 0 means that nothing was there
  among the rows drawn, the least
  class size that every class has it, a rate at a threshold that so many members are
  exposed. `risky_combinations` adds, size by size, what contains nothing found
  before, and these are the smallest combinations that single rows out
  (`GrowsSmallest`).
- `Confirming`: for any p-values, an adjusted p-value is within the rate exactly when
  the step-up procedure of Benjamini and Hochberg, stated without sorting, rejects
  (`AdjustedIs`); of tied p-values, the last one in the order counts all of them
  (`LastTied`). The findings that block are then those that both tests reject
  (`SecondTest`, `BlockingCount`). A finding has fewer others before it than the
  report's limit, or is left out; in the second case the report is full, because the
  places of what is listed are the numbers from 0 on (`ReportFull`).

The assumptions on the constants (`ASSUME` in the modules) say that the value for
*missing* is none of the values, that bounds, times and limits are natural numbers,
and that the names given are names there are: `Attestation` has versions whose parent
is a version or none and object contents that are not the value for a missing object;
`Guard` has texts made of values and placeholders and a default policy that is one of
the policies; `Access` has an administrator and a first organization, users that are
not organizations, roles that can be granted, among them `org_admin`, and finitely
many requests in flight, as a server has; the limit of its throttle is not 0, as in
`security.py`. `Registry` gives each machine a passport; `Project` has a pipeline with a
stage that makes the model. `Remediation` has a policy
with the rules about entities (`Template`) that is as strict as the shipped ones:
missing evidence does not pass, and no secret, direct identifier, critical
vulnerability or unsafe pickle is let through (`Strict`); finite sites with whole
tables, of which `sample_size` rows are drawn when there are more (`Sites`); an original corpus as `load_corpus` reads it, with ids that differ
and entities in order, apart, not empty and not masks (`Corpus`); a p-value for every
score, an impact for every type and a rate below 1 (`Audit`); surrogates that are
not empty (`Pool`); and atoms that become atoms when they are perturbed
(`Scrambled`).

Every invariant of a passing run, every safety property over steps and both
refinements are theorems. Only model-checked are the liveness properties
(`TransactionsEnd`, `WaitingSettles`, `JobsSettle`, `Answered`), which this prover
cannot do, and the counterexamples of `release_stale_kill` and `registry_lost_event`.

## Not modelled, and plan

Not modelled: training, likelihoods and statistics (numeric code), regular
expressions of the detectors, rendering, dashboards, argument parsing and the web
app, generated code, ciphers, HTTP and JWT handling, plans and quotas, search and
lineage in the registry (they only read), JSON-LD export. The `report` job writes
files and moves no version. Annotations that overlap in a corpus are not modelled.

Next, in this order:

1. `Platform`: `Pipeline`, `Attestation` and `Release` composed over one version
   table.
2. `Registry` and the events of `Project` as implementations of an append-only
   log, as `AuditLog` is one of `Journal`.
