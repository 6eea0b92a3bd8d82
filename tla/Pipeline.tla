------------------------------ MODULE Pipeline ------------------------------
(***************************************************************************)
(* Background jobs and the versions they train, audit and remediate.       *)
(*                                                                         *)
(* Requests (platform/api/routes_tenant.py) move a version and enqueue a   *)
(* job in one transaction.  Workers (platform/worker.py) claim the oldest  *)
(* queued job (platform/jobs.py), load what they need in one transaction,  *)
(* work outside any, write the result in a second one and finish the job   *)
(* in a third; failures are written by transactions of their own.          *)
(*                                                                         *)
(* A transaction reads the version, decides, and writes when it commits;   *)
(* nothing locks the version in between.  Versions are numbered as         *)
(* bump_minor numbers them: the successor of v is v + 1.                   *)
(***************************************************************************)
EXTENDS Integers, FiniteSets, Lifecycle

CONSTANTS
    Workers,      \* worker processes
    Requests,     \* API requests that may be in flight at the same time
    NONE,         \* no version, job or audit
    Targets,      \* states the transition endpoint is asked for
    Overlap,      \* whether transactions on versions may overlap
    MaxAttempts,  \* Job.max_attempts
    MaxVersion,   \* bound: version numbers
    MaxJobs,      \* bound: jobs ever enqueued
    MaxCrashes    \* bound: jobs whose worker dies

ASSUME TargetsAssumption == Targets \subseteq States
ASSUME OverlapAssumption == Overlap \in BOOLEAN
ASSUME BoundsAssumption ==
    MaxAttempts \in Nat \ {0} /\ MaxVersion \in Nat /\ MaxJobs \in Nat /\ MaxCrashes \in Nat
ASSUME NoneAssumption == NONE \notin Nat /\ NONE \notin States

VARIABLES
    state,     \* model_versions.state, NONE while the version does not exist
    artifact,  \* the trained checkpoint: how many trainings produced it, 0 the base
    audited,   \* the artifact the stored audit is of, NONE before the first audit
    risky,     \* whether that audit failed the gate or had high findings
    parent,    \* parent_id
    job,       \* the job queue, in the order of created_at
    njobs,     \* jobs enqueued so far
    worker,    \* what each worker is doing
    req,       \* requests in flight
    orphans    \* history: jobs whose worker died on them

versionVars == <<state, artifact, audited, risky, parent>>
queueVars == <<job, njobs>>
vars == <<versionVars, queueVars, worker, req, orphans>>

Versions == 1..MaxVersion
JobIds == 1..MaxJobs
Kinds == {"train", "audit", "remediate"}
NoJob == [kind |-> "none", v |-> NONE, status |-> "none", attempts |-> 0]
Job == [kind : Kinds, v : Versions, attempts : 0..MaxAttempts,
        status : {"queued", "running", "succeeded", "failed"}]

\* RECOVERY: the state after a final failure; a failed training has none.
RECOVERY == [audit |-> "registered", remediate |-> "findings"]

-----------------------------------------------------------------------------
(* Transactions. *)

IdleWorker == [pc |-> "idle", job |-> NONE, artifact |-> NONE]
IdleRequest == [pc |-> "idle", op |-> "none", v |-> NONE, to |-> "none"]

Worker(w, pc) == worker' = [worker EXCEPT ![w].pc = pc]
JobOf(w) == job[worker[w].job]

\* Transactions between their read of a version and their commit.
WritingWorkers == {w \in Workers : worker[w].pc \in {"storing", "recovering"}}
WritingRequests == {r \in Requests : req[r].pc = "write"}
MayRead == Overlap \/ (WritingWorkers = {} /\ WritingRequests = {})

\* jobs.enqueue
Enqueue(q, n, kind, v) == [q EXCEPT ![n] = [kind |-> kind, v |-> v, status |-> "queued", attempts |-> 0]]

\* Room for n more jobs, after those that trainings and remediations under
\* way will enqueue.
Followups == {j \in JobIds : job[j].kind \in {"train", "remediate"}
                             /\ job[j].status \in {"queued", "running"}}
Promised == {r \in Requests : req[r].op \in {"train", "audit", "remediate"}}
Room(n) == njobs + Cardinality(Followups) + 2 * Cardinality(Promised) + n <= MaxJobs

Init ==
    /\ state = [v \in Versions |-> NONE]
    /\ artifact = [v \in Versions |-> 0]
    /\ audited = [v \in Versions |-> NONE]
    /\ risky = [v \in Versions |-> FALSE]
    /\ parent = [v \in Versions |-> NONE]
    /\ job = [j \in JobIds |-> NoJob]
    /\ njobs = 0
    /\ worker = [w \in Workers |-> IdleWorker]
    /\ req = [r \in Requests |-> IdleRequest]
    /\ orphans = {}

-----------------------------------------------------------------------------
(* Requests. *)

Begin(r, op, v, to) ==
    /\ req[r] = IdleRequest /\ MayRead
    /\ req' = [req EXCEPT ![r] = [pc |-> "write", op |-> op, v |-> v, to |-> to]]
    /\ UNCHANGED <<versionVars, queueVars, worker, orphans>>

\* register_version(): with train, a training that ends in an audit.
RegisterVersion(r) ==
    \E v \in Versions, op \in {"register", "train"} :
        /\ state[v] = NONE /\ (op = "train" => Room(2))
        /\ Begin(r, op, v, "registered")

\* start_audit(), start_remediation(): move, then enqueue.
StartAudit(r) ==
    \E v \in Versions, role \in Callers :
        /\ allowed(role, "audits.run") /\ check(state[v], "auditing", role) /\ Room(1)
        /\ Begin(r, "audit", v, "auditing")

StartRemediation(r) ==
    \E v \in Versions, role \in Callers :
        /\ allowed(role, "remediation.run") /\ check(state[v], "remediating", role)
        /\ v < MaxVersion /\ Room(2)
        /\ Begin(r, "remediate", v, "remediating")

\* transition(): the state and nothing else.
Transition(r) ==
    \E v \in Versions, to \in Targets, role \in Callers :
        /\ check(state[v], to, role)
        /\ Begin(r, "transition", v, to)

\* The request commits.  A version that another transaction registered in the
\* meantime is a violation of UNIQUE(model_id, version) and ends it.
WriteRequest(r) ==
    LET q == req[r]
        duplicate == q.to = "registered" /\ state[q.v] # NONE
    IN
    /\ q.pc = "write"
    /\ IF duplicate THEN UNCHANGED <<versionVars, queueVars>>
       ELSE /\ state' = [state EXCEPT ![q.v] = q.to]
            /\ UNCHANGED <<artifact, audited, risky, parent>>
            /\ IF q.op \in Kinds
               THEN /\ job' = Enqueue(job, njobs + 1, q.op, q.v)
                    /\ njobs' = njobs + 1
               ELSE UNCHANGED queueVars
    /\ req' = [req EXCEPT ![r] = IdleRequest]
    /\ UNCHANGED <<worker, orphans>>

\* The request fails before its commit.
RequestFails(r) ==
    /\ req[r] # IdleRequest
    /\ req' = [req EXCEPT ![r] = IdleRequest]
    /\ UNCHANGED <<versionVars, queueVars, worker, orphans>>

-----------------------------------------------------------------------------
(* Workers: run_once. *)

\* claim(): the oldest queued job whose row no other claim has locked (FOR
\* UPDATE SKIP LOCKED).
LockedJobs == {worker[w].job : w \in {x \in Workers : worker[x].pc = "claiming"}}

\* Faulty Claimable: without SKIP LOCKED; and without the jobs put back.
ClaimableLocked == {j \in JobIds : job[j].status = "queued"}
ClaimableOnce == {j \in JobIds : job[j].status = "queued" /\ job[j].attempts = 0} \ LockedJobs

Claimable == {j \in JobIds : job[j].status = "queued"} \ LockedJobs

Claim(w) ==
    /\ worker[w].pc = "idle"
    /\ \E j \in Claimable :
         /\ \A i \in Claimable : j <= i
         /\ worker' = [worker EXCEPT ![w].pc = "claiming", ![w].job = j]
    /\ UNCHANGED <<versionVars, queueVars, req, orphans>>

ClaimCommit(w) ==
    /\ worker[w].pc = "claiming"
    /\ job' = [job EXCEPT ![worker[w].job].status = "running", ![worker[w].job].attempts = @ + 1]
    /\ Worker(w, "load")
    /\ UNCHANGED <<versionVars, njobs, req, orphans>>

\* The handler's first transaction: what it reads here it uses to the end.  A
\* remediation without an audit raises.
Load(w) ==
    LET v == JobOf(w).v IN
    /\ worker[w].pc = "load"
    /\ IF JobOf(w).kind = "remediate" /\ audited[v] = NONE
       THEN Worker(w, "failing")
       ELSE worker' = [worker EXCEPT ![w].pc = "loaded", ![w].artifact = artifact[v]]
    /\ UNCHANGED <<versionVars, queueVars, req, orphans>>

\* Where the second transaction takes the version; an audit has two outcomes.
Outcomes(kind) ==
    CASE kind = "train" -> {"auditing"}
      [] kind = "audit" -> {"findings", "clean"}
      [] kind = "remediate" -> {"superseded"}

\* Faulty StoreRead: handlers write the new state without lifecycle.move.
StoreReadBlindly(w) ==
    LET v == JobOf(w).v IN
    /\ worker[w].pc = "loaded" /\ MayRead
    /\ IF JobOf(w).kind = "remediate" => state[v + 1] = NONE
       THEN Worker(w, "storing")
       ELSE Worker(w, "failing")
    /\ UNCHANGED <<versionVars, queueVars, req, orphans>>

\* The second transaction reads the version again; lifecycle.move and, for a
\* remediation, register_version raise when the step is not allowed any more.
StoreRead(w) ==
    LET v == JobOf(w).v IN
    /\ worker[w].pc = "loaded" /\ MayRead
    /\ IF /\ \A to \in Outcomes(JobOf(w).kind) : check(state[v], to, SYSTEM)
          /\ JobOf(w).kind = "remediate" => state[v + 1] = NONE
       THEN Worker(w, "storing")
       ELSE Worker(w, "failing")
    /\ UNCHANGED <<versionVars, queueVars, req, orphans>>

\* Faulty StoreTraining: the new checkpoint and nothing else.
StoreTrainingInPlace(w) ==
    /\ worker[w].pc = "storing" /\ JobOf(w).kind = "train"
    /\ artifact' = [artifact EXCEPT ![JobOf(w).v] = @ + 1]
    /\ Worker(w, "finish")
    /\ UNCHANGED <<state, audited, risky, parent, queueVars, req, orphans>>

\* _train: the new checkpoint, the move and the audit's job.
StoreTraining(w) ==
    LET v == JobOf(w).v IN
    /\ worker[w].pc = "storing" /\ JobOf(w).kind = "train"
    /\ artifact' = [artifact EXCEPT ![v] = @ + 1]
    /\ state' = [state EXCEPT ![v] = "auditing"]
    /\ job' = Enqueue(job, njobs + 1, "audit", v)
    /\ njobs' = njobs + 1
    /\ Worker(w, "finish")
    /\ UNCHANGED <<audited, risky, parent, req, orphans>>

\* _audit: the audit of the artifact that was loaded, and the gate's verdict.
StoreAudit(w) ==
    LET v == JobOf(w).v IN
    /\ worker[w].pc = "storing" /\ JobOf(w).kind = "audit"
    /\ audited' = [audited EXCEPT ![v] = worker[w].artifact]
    /\ \E bad \in BOOLEAN :
         /\ risky' = [risky EXCEPT ![v] = bad]
         /\ state' = [state EXCEPT ![v] = IF bad THEN "findings" ELSE "clean"]
    /\ Worker(w, "finish")
    /\ UNCHANGED <<artifact, parent, queueVars, req, orphans>>

\* Faulty StoreRemediation: the remediated version goes back to its findings.
StoreRemediationBeside(w) ==
    LET v == JobOf(w).v IN
    /\ worker[w].pc = "storing" /\ JobOf(w).kind = "remediate" /\ state[v + 1] = NONE
    /\ state' = [state EXCEPT ![v] = "findings", ![v + 1] = "auditing"]
    /\ artifact' = [artifact EXCEPT ![v + 1] = 1]
    /\ parent' = [parent EXCEPT ![v + 1] = v]
    /\ job' = Enqueue(job, njobs + 1, "audit", v + 1)
    /\ njobs' = njobs + 1
    /\ Worker(w, "finish")
    /\ UNCHANGED <<audited, risky, req, orphans>>

\* _remediate: the successor with its checkpoint, both moves and the audit's
\* job.  UNIQUE(model_id, version) fails it when the successor exists by now.
StoreRemediation(w) ==
    LET v == JobOf(w).v IN
    /\ worker[w].pc = "storing" /\ JobOf(w).kind = "remediate"
    /\ IF state[v + 1] # NONE
       THEN Worker(w, "failing") /\ UNCHANGED <<versionVars, queueVars>>
       ELSE /\ state' = [state EXCEPT ![v] = "superseded", ![v + 1] = "auditing"]
            /\ artifact' = [artifact EXCEPT ![v + 1] = 1]
            /\ parent' = [parent EXCEPT ![v + 1] = v]
            /\ job' = Enqueue(job, njobs + 1, "audit", v + 1)
            /\ njobs' = njobs + 1
            /\ Worker(w, "finish")
            /\ UNCHANGED <<audited, risky>>
    /\ UNCHANGED <<req, orphans>>

\* The handler raises: a missing file, a model that cannot be loaded, a
\* database error.  Its open transaction is rolled back.
Raise(w) ==
    /\ worker[w].pc \in {"load", "loaded", "storing"}
    /\ Worker(w, "failing")
    /\ UNCHANGED <<versionVars, queueVars, req, orphans>>

\* jobs.finish
Finish(w) ==
    /\ worker[w].pc = "finish"
    /\ job' = [job EXCEPT ![worker[w].job].status = "succeeded"]
    /\ worker' = [worker EXCEPT ![w] = IdleWorker]
    /\ UNCHANGED <<versionVars, njobs, req, orphans>>

FailOnly(w) ==
    /\ worker[w].pc = "failing"
    /\ job' = [job EXCEPT ![worker[w].job].status =
                  IF JobOf(w).attempts < MaxAttempts THEN "queued" ELSE "failed"]
    /\ worker' = [worker EXCEPT ![w] = IdleWorker]
    /\ UNCHANGED <<versionVars, njobs, req, orphans>>

\* jobs.fail: queued again unless it is out of attempts; then _recover.
Fail(w) ==
    LET retry == JobOf(w).attempts < MaxAttempts IN
    /\ worker[w].pc = "failing"
    /\ job' = [job EXCEPT ![worker[w].job].status = IF retry THEN "queued" ELSE "failed"]
    /\ worker' = IF retry \/ JobOf(w).kind \notin DOMAIN RECOVERY
                 THEN [worker EXCEPT ![w] = IdleWorker]
                 ELSE [worker EXCEPT ![w].pc = "recover"]
    /\ UNCHANGED <<versionVars, njobs, req, orphans>>

\* _recover reads the version and moves it if the lifecycle has the step.
RecoverRead(w) ==
    /\ worker[w].pc = "recover" /\ MayRead
    /\ IF <<state[JobOf(w).v], RECOVERY[JobOf(w).kind]>> \in LifecycleSteps
       THEN Worker(w, "recovering")
       ELSE worker' = [worker EXCEPT ![w] = IdleWorker]
    /\ UNCHANGED <<versionVars, queueVars, req, orphans>>

RecoverWrite(w) ==
    /\ worker[w].pc = "recovering"
    /\ state' = [state EXCEPT ![JobOf(w).v] = RECOVERY[JobOf(w).kind]]
    /\ worker' = [worker EXCEPT ![w] = IdleWorker]
    /\ UNCHANGED <<artifact, audited, risky, parent, queueVars, req, orphans>>

\* The worker's process dies and is started again: an open transaction is
\* rolled back, and nothing remembers the job.
Crash(w) ==
    /\ worker[w] # IdleWorker /\ Cardinality(orphans) < MaxCrashes
    /\ worker' = [worker EXCEPT ![w] = IdleWorker]
    /\ orphans' = orphans \cup {worker[w].job}
    /\ UNCHANGED <<versionVars, queueVars, req>>

Store(w) == StoreTraining(w) \/ StoreAudit(w) \/ StoreRemediation(w)

RunOnce(w) ==
    \/ Claim(w) \/ ClaimCommit(w) \/ Load(w) \/ StoreRead(w) \/ Store(w)
    \/ Finish(w) \/ Fail(w) \/ RecoverRead(w) \/ RecoverWrite(w)

Next ==
    \/ \E r \in Requests :
          \/ RegisterVersion(r) \/ StartAudit(r) \/ StartRemediation(r) \/ Transition(r)
          \/ WriteRequest(r) \/ RequestFails(r)
    \/ \E w \in Workers : RunOnce(w) \/ Raise(w) \/ Crash(w)

Spec == Init /\ [][Next]_vars

\* A worker that is running goes on with its job and then takes the next one,
\* and a request that was read commits or fails.
FairSpec ==
    /\ Spec
    /\ \A w \in Workers : WF_vars(RunOnce(w))
    /\ \A r \in Requests : WF_vars(WriteRequest(r))

-----------------------------------------------------------------------------
(* Properties. *)

WorkerPCs == {"idle", "claiming", "load", "loaded", "storing", "finish", "failing",
              "recover", "recovering"}
RequestOps == {"none", "register", "train", "audit", "remediate", "transition"}

\* Types; attempts stay within max_attempts, and a busy worker has a job.
TypeOK ==
    /\ state \in [Versions -> States \cup {NONE}]
    /\ artifact \in [Versions -> Nat]
    /\ audited \in [Versions -> Nat \cup {NONE}]
    /\ risky \in [Versions -> BOOLEAN]
    /\ parent \in [Versions -> Versions \cup {NONE}]
    /\ job \in [JobIds -> Job \cup {NoJob}]
    /\ njobs \in 0..MaxJobs
    /\ worker \in [Workers -> [pc : WorkerPCs, job : JobIds \cup {NONE},
                               artifact : Nat \cup {NONE}]]
    /\ \A w \in Workers : worker[w].pc # "idle" => worker[w].job \in 1..njobs
    /\ req \in [Requests -> [pc : {"idle", "write"}, op : RequestOps,
                             v : Versions \cup {NONE}, to : States \cup {"none"}]]
    /\ orphans \subseteq JobIds

\* Any number of workers side by side never take the same job, also when one of
\* them fails, dies or gives the job back to the queue; no job is tried more
\* often than max_attempts, and a busy worker has a job (TypeOK).
JobHeldOnce ==
    /\ TypeOK
    /\ \A w, x \in Workers : w # x /\ worker[w].job # NONE => worker[w].job # worker[x].job

Cleared == {"clean", "canary", "verifying", "approved", "released"}

\* A version that is cleared for testing or release has a passing audit of the
\* very checkpoint it serves, although training, audit and requests run side
\* by side and an audit loads the checkpoint long before it stores its verdict.
AuditedArtifact ==
    \A v \in Versions : state[v] \in Cleared => audited[v] = artifact[v] /\ ~risky[v]

\* A version with a successor is retired: a retried, repeated or crashed
\* remediation never leaves both in use.
SuccessorReplaces ==
    \A v \in Versions : parent[v] # NONE => state[parent[v]] = "superseded"

Waits == [audit |-> "auditing", remediate |-> "remediating"]

\* Version v is in the state that a queued job is to take it out of.
HasJob(v) ==
    \E j \in JobIds : /\ job[j].v = v /\ job[j].status = "queued"
                      /\ job[j].kind \in DOMAIN Waits /\ state[v] = Waits[job[j].kind]

\* A version whose job is in the queue does not wait for ever: after the last
\* attempt, too, it comes back to a state that a person can act on, unless a
\* worker died on one of its jobs (nothing looks at a running job again).  The
\* transition endpoint makes a version wait without a job, which is another matter.
WaitingSettles ==
    \A v \in Versions : HasJob(v) ~> \/ state[v] \notin {"auditing", "remediating"}
                                     \/ \E j \in orphans : job[j].v = v

\* Every queued job that no worker dies on ends as succeeded or as failed after
\* max_attempts, also when a worker dies on another one.
JobsSettle ==
    \A j \in JobIds : job[j].status = "queued" ~>
                         job[j].status \in {"succeeded", "failed"} \/ j \in orphans

Promise == INSTANCE VersionLifecycle WITH Absent <- NONE

\* Versions appear as registered, and every change of state, also of two
\* versions in one transaction, is made of steps of the lifecycle.
ImplementsLifecycle == Promise!Spec
=============================================================================
