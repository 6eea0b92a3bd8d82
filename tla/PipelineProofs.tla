--------------------------- MODULE PipelineProofs ---------------------------
(***************************************************************************)
(* Theorems about Pipeline, for any number of workers and requests, any    *)
(* targets of the transition endpoint and any bounds.                      *)
(*                                                                         *)
(* JobHeldOnce needs to know what the status of a job says about who may   *)
(* hold it (Held), and that the queue has a row for every job that         *)
(* trainings and remediations under way will still enqueue (Fits).  Both   *)
(* hold however transactions overlap.                                      *)
(*                                                                         *)
(* What is said of versions holds when transactions on versions do not     *)
(* overlap: then what a transaction has read is true when it writes        *)
(* (Serial), a version has at most one audit or remediation under way and  *)
(* waits for it (DueWaits, DueOnce), and the checkpoint that an audit has  *)
(* loaded is still the version's (LoadedCurrent).                          *)
(***************************************************************************)
EXTENDS Pipeline, FiniteSetTheorems, TLAPS

WorkerRecord == [pc : WorkerPCs, job : JobIds \cup {NONE}, artifact : Nat \cup {NONE}]
RequestRecord == [pc : {"idle", "write"}, op : RequestOps,
                  v : Versions \cup {NONE}, to : States \cup {"none"}]

Tables ==
    /\ state \in [Versions -> States \cup {NONE}]
    /\ artifact \in [Versions -> Nat]
    /\ audited \in [Versions -> Nat \cup {NONE}]
    /\ risky \in [Versions -> BOOLEAN]
    /\ parent \in [Versions -> Versions \cup {NONE}]
    /\ orphans \subseteq JobIds

\* Row j of a queue of n jobs.
Queued(e, j, n) ==
    IF j <= n
    THEN /\ e \in Job
         /\ e.status = "queued" => e.attempts < MaxAttempts
         /\ e.kind = "remediate" => e.v < MaxVersion
    ELSE e = NoJob

\* Where a worker works on a running job, and where after its last failure.
Running == {"load", "loaded", "storing", "finish", "failing"}
Recovering == {"recover", "recovering"}

\* What the queue js of n jobs says of the job that a worker p holds.
Held(p, js, n) ==
    /\ p \in WorkerRecord
    /\ p.pc = "idle" => p = IdleWorker
    /\ p.pc # "idle" => p.job \in 1..n
    /\ p.pc = "claiming" => js[p.job].status = "queued"
    /\ p.pc \in Running => js[p.job].status = "running"
    /\ p.pc \in Recovering => js[p.job].status = "failed" /\ js[p.job].kind \in {"audit", "remediate"}
    /\ p.pc \in {"loaded", "storing"} => p.artifact \in Nat

\* A request in flight: a remediation leaves room for the successor.
Asked(q) ==
    /\ q \in RequestRecord
    /\ q.pc = "idle" => q = IdleRequest
    /\ q.pc = "write" => q.v \in Versions /\ q.to \in States
    /\ q.op = "remediate" => q.v < MaxVersion

Queue ==
    /\ njobs \in 0..MaxJobs
    /\ job = [j \in JobIds |-> job[j]]
    /\ \A j \in JobIds : Queued(job[j], j, njobs)

Staff ==
    /\ worker = [w \in Workers |-> worker[w]]
    /\ \A w \in Workers : Held(worker[w], job, njobs)
    /\ \A w, x \in Workers : w # x /\ worker[w].job # NONE => worker[w].job # worker[x].job

Asks ==
    /\ req = [r \in Requests |-> req[r]]
    /\ \A r \in Requests : Asked(req[r])

\* Jobs that will still enqueue another, and requests that will enqueue one
\* job, or one that enqueues another.
Ahead == {j \in JobIds : /\ job[j].kind \in {"train", "remediate"}
                         /\ \/ job[j].status = "queued"
                            \/ \E w \in Workers : worker[w].job = j /\ worker[w].pc \in Running \ {"finish"}}
Once == {r \in Requests : req[r].op = "audit"}
Twice == {r \in Requests : req[r].op \in {"train", "remediate"}}

Fits ==
    /\ IsFiniteSet(Once) /\ IsFiniteSet(Twice)
    /\ njobs + Cardinality(Ahead) + Cardinality(Once) + 2 * Cardinality(Twice) <= MaxJobs

Inv == Tables /\ Queue /\ Staff /\ Asks /\ Fits

-----------------------------------------------------------------------------
(* The queue. *)

\* The sets that Fits counts are finite, and a smaller one counts less.
LEMMA Fewer ==
    ASSUME NEW T, IsFiniteSet(T), NEW S \in SUBSET T
    PROVE  IsFiniteSet(S) /\ Cardinality(S) \in Nat /\ Cardinality(T) \in Nat /\ Cardinality(S) <= Cardinality(T)
BY FS_Subset, FS_CardinalityType

LEMMA AheadFinite == IsFiniteSet(Ahead) /\ Cardinality(Ahead) \in Nat
<1>1. IsFiniteSet(JobIds)
  BY FS_Interval, BoundsAssumption DEF JobIds
<1>2. Ahead \in SUBSET JobIds
  BY DEF Ahead
<1>3. QED
  BY <1>1, <1>2, Fewer

\* Nothing more to enqueue than before.
LEMMA FitsStill ==
    ASSUME Fits, njobs \in Nat, njobs' = njobs, Ahead' \subseteq Ahead, Once' \subseteq Once, Twice' \subseteq Twice
    PROVE  Fits'
<1>1. Cardinality(Ahead') \in Nat /\ Cardinality(Ahead) \in Nat /\ Cardinality(Ahead') <= Cardinality(Ahead)
  BY AheadFinite, Fewer
<1>2. /\ IsFiniteSet(Once') /\ Cardinality(Once') \in Nat /\ Cardinality(Once) \in Nat
      /\ Cardinality(Once') <= Cardinality(Once)
  BY Fewer DEF Fits
<1>3. /\ IsFiniteSet(Twice') /\ Cardinality(Twice') \in Nat /\ Cardinality(Twice) \in Nat
      /\ Cardinality(Twice') <= Cardinality(Twice)
  BY Fewer DEF Fits
<1>4. QED
  BY <1>1, <1>2, <1>3, BoundsAssumption DEF Fits

\* A worker goes on, gives up or takes a job; the queue stays as it is.
LEMMA WorkerMoves ==
    ASSUME Inv, Tables', NEW w \in Workers, NEW p, worker' = [worker EXCEPT ![w] = p],
           UNCHANGED <<queueVars, req>>, Held(p, job, njobs),
           p.job # NONE => \A x \in Workers : x # w => worker[x].job # p.job,
           p.pc \in Running \ {"finish"} => p.job = worker[w].job /\ worker[w].pc \in Running \ {"finish"}
    PROVE  Inv'
<1>1. worker = [x \in Workers |-> worker[x]] /\ \A x \in Workers : Held(worker[x], job, njobs)
  BY DEF Inv, Staff
<1>2. worker'[w] = p /\ \A x \in Workers : x # w => worker'[x] = worker[x]
  BY <1>1
<1>3. job' = job /\ njobs' = njobs /\ req' = req
  BY DEF queueVars
<1>4. Queue' /\ Asks'
  BY <1>3 DEF Inv, Queue, Queued, Asks, Asked
<1>5. Staff'
  <2>1. worker' = [x \in Workers |-> worker'[x]]
    BY <1>1
  <2>2. ASSUME NEW x \in Workers PROVE Held(worker[x], job, njobs)'
    <3>1. Held(worker'[x], job, njobs)
      BY <1>1, <1>2
    <3>2. QED
      BY <1>3, <3>1 DEF Held
  <2>3. ASSUME NEW x \in Workers, NEW y \in Workers, x # y, worker'[x].job # NONE
        PROVE  worker'[x].job # worker'[y].job
    BY <1>2, <2>3 DEF Inv, Staff
  <2>4. QED
    BY <2>1, <2>2, <2>3 DEF Staff
<1>6. Ahead' \subseteq Ahead
  <2> SUFFICES ASSUME NEW j \in JobIds, j \in Ahead' PROVE j \in Ahead
    BY DEF Ahead
  <2>1. CASE job[j].status = "queued"
    BY <1>3, <2>1 DEF Ahead
  <2>2. CASE job[j].status # "queued"
    <3>1. PICK x \in Workers : worker'[x].job = j /\ worker'[x].pc \in Running \ {"finish"}
      BY <1>3, <2>2 DEF Ahead
    <3>2. worker[x].job = j /\ worker[x].pc \in Running \ {"finish"}
      BY <1>2, <3>1
    <3>3. QED
      BY <1>3, <3>2 DEF Ahead
  <2>3. QED
    BY <2>1, <2>2
<1>7. Fits'
  <2>1. Once' \subseteq Once /\ Twice' \subseteq Twice
    BY <1>3 DEF Once, Twice
  <2>2. QED
    BY <1>3, <1>6, <2>1, FitsStill DEF Inv, Queue
<1>8. QED
  BY <1>4, <1>5, <1>7 DEF Inv

\* A worker changes the status of its own job.
LEMMA JobMoves ==
    ASSUME Inv, Tables', NEW w \in Workers, NEW p, NEW e, NEW k, k = worker[w].job, worker[w].pc # "idle",
           worker' = [worker EXCEPT ![w] = p], job' = [job EXCEPT ![k] = e], UNCHANGED <<njobs, req>>,
           Queued(e, k, njobs), e.kind = job[k].kind, Held(p, job', njobs), p.job \in {k, NONE},
           worker[w].pc \notin {"claiming", "failing"} => e.status # "queued" /\ p = IdleWorker
    PROVE  Inv'
<1>0. /\ worker = [x \in Workers |-> worker[x]] /\ \A x \in Workers : Held(worker[x], job, njobs)
      /\ job = [j \in JobIds |-> job[j]] /\ njobs \in 0..MaxJobs
  BY DEF Inv, Staff, Queue
<1>1. k \in JobIds /\ k # NONE /\ \A x \in Workers : x # w => worker[x].job # k
  BY <1>0, NoneAssumption, BoundsAssumption DEF Inv, Staff, Held, JobIds
<1>2. worker'[w] = p /\ \A x \in Workers : x # w => worker'[x] = worker[x]
  BY <1>0
<1>3. job'[k] = e /\ \A j \in JobIds : j # k => job'[j] = job[j]
  BY <1>0, <1>1
<1>4. Queue'
  <2>1. job' = [j \in JobIds |-> job'[j]]
    BY <1>0
  <2>2. \A j \in JobIds : Queued(job'[j], j, njobs)
    BY <1>3 DEF Inv, Queue
  <2>3. QED
    BY <2>1, <2>2 DEF Inv, Queue, Queued
<1>5. Asks'
  BY DEF Inv, Asks, Asked
<1>6. Staff'
  <2>1. worker' = [x \in Workers |-> worker'[x]]
    BY <1>0
  <2>2. ASSUME NEW x \in Workers PROVE Held(worker[x], job, njobs)'
    <3>1. CASE x = w
      BY <1>2, <3>1 DEF Held
    <3>2. CASE x # w
      <4>1. worker'[x] = worker[x] /\ worker[x].job # k /\ Held(worker[x], job, njobs)
        BY <1>0, <1>1, <1>2, <3>2
      <4>2. worker[x].pc # "idle" => job'[worker[x].job] = job[worker[x].job]
        BY <1>0, <1>3, <4>1, BoundsAssumption DEF Held, JobIds
      <4>3. QED
        BY <4>1, <4>2 DEF Held, Running, Recovering
    <3>3. QED
      BY <3>1, <3>2
  <2>3. ASSUME NEW x \in Workers, NEW y \in Workers, x # y, worker'[x].job # NONE
        PROVE  worker'[x].job # worker'[y].job
    BY <1>1, <1>2, <2>3 DEF Inv, Staff
  <2>4. QED
    BY <2>1, <2>2, <2>3 DEF Staff
<1>7. Ahead' \subseteq Ahead
  <2> SUFFICES ASSUME NEW j \in JobIds, j \in Ahead' PROVE j \in Ahead
    BY DEF Ahead
  <2>1. CASE j # k
    <3>1. job'[j] = job[j]
      BY <1>3, <2>1
    <3>2. CASE job[j].status = "queued"
      BY <3>1, <3>2 DEF Ahead
    <3>3. CASE job[j].status # "queued"
      <4>1. PICK x \in Workers : worker'[x].job = j /\ worker'[x].pc \in Running \ {"finish"}
        BY <3>1, <3>3 DEF Ahead
      <4>2. worker[x].job = j /\ worker[x].pc \in Running \ {"finish"}
        BY <1>2, <2>1, <4>1, NoneAssumption DEF JobIds
      <4>3. QED
        BY <3>1, <4>2 DEF Ahead
    <3>4. QED
      BY <3>2, <3>3
  <2>2. CASE j = k
    <3>1. job[k].kind \in {"train", "remediate"}
      BY <1>3, <2>2 DEF Ahead
    <3>2. CASE worker[w].pc \in {"claiming", "failing"}
      BY <1>0, <1>1, <2>2, <3>1, <3>2 DEF Ahead, Held, Running
    <3>3. CASE e.status # "queued" /\ p = IdleWorker
      <4>1. PICK x \in Workers : worker'[x].job = k /\ worker'[x].pc \in Running \ {"finish"}
        BY <1>3, <2>2, <3>3 DEF Ahead
      <4>2. QED
        BY <1>1, <1>2, <3>3, <4>1 DEF IdleWorker, Running
    <3>4. QED
      BY <3>2, <3>3
  <2>3. QED
    BY <2>1, <2>2
<1>8. Fits'
  <2>1. Once' \subseteq Once /\ Twice' \subseteq Twice
    BY DEF Once, Twice
  <2>2. QED
    BY <1>7, <2>1, FitsStill DEF Inv, Queue
<1>9. QED
  BY <1>4, <1>5, <1>6, <1>8 DEF Inv

\* What enqueueing a job leaves of the queue, and of what workers hold.
LEMMA Enqueued ==
    ASSUME Queue, njobs + 1 <= MaxJobs, NEW kind \in Kinds, NEW v \in Versions,
           kind = "remediate" => v < MaxVersion,
           job' = Enqueue(job, njobs + 1, kind, v), njobs' = njobs + 1
    PROVE  /\ Queue'
           /\ job'[njobs + 1] = [kind |-> kind, v |-> v, status |-> "queued", attempts |-> 0]
           /\ \A j \in JobIds : j # njobs + 1 => job'[j] = job[j]
           /\ \A p : Held(p, job, njobs) => Held(p, job', njobs')
<1> DEFINE e == [kind |-> kind, v |-> v, status |-> "queued", attempts |-> 0]
<1>0. /\ njobs \in Nat /\ MaxJobs \in Nat /\ MaxAttempts \in Nat \ {0} /\ njobs + 1 \in JobIds
      /\ job = [j \in JobIds |-> job[j]] /\ \A j \in JobIds : Queued(job[j], j, njobs)
  BY BoundsAssumption DEF Queue, JobIds
<1>1. job'[njobs + 1] = e /\ \A j \in JobIds : j # njobs + 1 => job'[j] = job[j]
  BY <1>0 DEF Enqueue
<1>2. Queue'
  <2>1. job' = [j \in JobIds |-> job'[j]]
    BY <1>0 DEF Enqueue
  <2>2. e \in Job /\ e.status = "queued" /\ e.attempts < MaxAttempts /\ (e.kind = "remediate" => e.v < MaxVersion)
    BY <1>0 DEF Job
  <2> HIDE DEF e
  <2>3. ASSUME NEW j \in JobIds PROVE Queued(job'[j], j, njobs + 1)
    <3>0. Queued(job[j], j, njobs) /\ j \in Nat
      BY <1>0 DEF JobIds
    <3>1. CASE j = njobs + 1
      BY <1>0, <1>1, <2>2, <3>1 DEF Queued
    <3>2. CASE j # njobs + 1
      BY <1>0, <1>1, <3>0, <3>2 DEF Queued
    <3>3. QED
      BY <3>1, <3>2
  <2>4. njobs + 1 \in 0..MaxJobs
    BY <1>0
  <2>5. QED
    BY <2>1, <2>3, <2>4 DEF Queue, Queued
<1>3. ASSUME NEW p, Held(p, job, njobs) PROVE Held(p, job', njobs')
  <2>1. p.pc # "idle" => p.job \in 1..(njobs + 1) /\ job'[p.job] = job[p.job]
    BY <1>0, <1>1, <1>3 DEF Held, JobIds
  <2>2. QED
    BY <1>3, <2>1 DEF Held, Running, Recovering
<1>4. QED
  BY <1>1, <1>2, <1>3

\* A training or a remediation is stored, and its audit enqueued.
LEMMA StoredKeeps ==
    ASSUME Inv, Tables', NEW w \in Workers, worker[w].pc = "storing", JobOf(w).kind \in {"train", "remediate"},
           Worker(w, "finish"), NEW v \in Versions, job' = Enqueue(job, njobs + 1, "audit", v),
           njobs' = njobs + 1, UNCHANGED req
    PROVE  Inv'
<1> DEFINE k == worker[w].job
           p == [worker[w] EXCEPT !.pc = "finish"]
<1>0. /\ worker = [x \in Workers |-> worker[x]] /\ \A x \in Workers : Held(worker[x], job, njobs)
      /\ njobs \in 0..MaxJobs /\ MaxJobs \in Nat /\ Queue
  BY BoundsAssumption DEF Inv, Staff, Queue
<1>1. /\ k \in JobIds /\ k # njobs + 1 /\ k # NONE /\ job[k].status = "running"
      /\ \A x \in Workers : x # w => worker[x].job # k
  BY <1>0, NoneAssumption DEF Inv, Staff, Held, JobIds, Running
<1>2. worker'[w] = p /\ \A x \in Workers : x # w => worker'[x] = worker[x]
  BY <1>0 DEF Worker
<1>3. p.job = k /\ p.pc = "finish" /\ Held(p, job, njobs)
  BY <1>0 DEF Held, WorkerRecord, WorkerPCs, Running, Recovering
<1> HIDE DEF p
<1>4. k \in Ahead
  BY <1>1 DEF Ahead, Running, JobOf
<1>5. IsFiniteSet(Ahead) /\ Cardinality(Ahead) \in Nat /\ Cardinality(Ahead) # 0
  BY <1>4, AheadFinite, FS_EmptySet
<1>6. Cardinality(Once) \in Nat /\ Cardinality(Twice) \in Nat
  BY FS_CardinalityType DEF Inv, Fits
<1>7. njobs + 1 <= MaxJobs
  BY <1>0, <1>5, <1>6 DEF Inv, Fits
<1>8. /\ Queue' /\ job'[njobs + 1] = [kind |-> "audit", v |-> v, status |-> "queued", attempts |-> 0]
      /\ \A j \in JobIds : j # njobs + 1 => job'[j] = job[j]
      /\ \A q : Held(q, job, njobs) => Held(q, job', njobs')
  BY <1>0, <1>7, Enqueued DEF Kinds
<1>9. Staff'
  <2>1. worker' = [x \in Workers |-> worker'[x]]
    BY <1>0 DEF Worker
  <2>2. ASSUME NEW x \in Workers PROVE Held(worker'[x], job', njobs')
    BY <1>0, <1>2, <1>3, <1>8
  <2>3. ASSUME NEW x \in Workers, NEW y \in Workers, x # y, worker'[x].job # NONE
        PROVE  worker'[x].job # worker'[y].job
    BY <1>1, <1>2, <1>3, <2>3 DEF Inv, Staff
  <2>4. QED
    BY <2>1, <2>2, <2>3 DEF Staff
<1>10. Ahead' \subseteq Ahead \ {k}
  <2> SUFFICES ASSUME NEW j \in JobIds, j \in Ahead' PROVE j \in Ahead /\ j # k
    BY DEF Ahead
  <2>1. j # njobs + 1 /\ job'[j] = job[j]
    <3>1. job'[njobs + 1].kind = "audit"
      BY <1>8
    <3>2. QED
      BY <1>8, <3>1 DEF Ahead
  <2>2. CASE job[j].status = "queued"
    BY <1>1, <2>1, <2>2 DEF Ahead
  <2>3. CASE job[j].status # "queued"
    <3>1. PICK x \in Workers : worker'[x].job = j /\ worker'[x].pc \in Running \ {"finish"}
      BY <2>1, <2>3 DEF Ahead
    <3>2. x # w /\ worker[x].job = j /\ worker[x].pc \in Running \ {"finish"}
      BY <1>2, <1>3, <3>1
    <3>3. QED
      BY <1>1, <2>1, <3>2 DEF Ahead
  <2>4. QED
    BY <2>2, <2>3
<1>11. Fits'
  <2>1. IsFiniteSet(Ahead \ {k}) /\ Cardinality(Ahead \ {k}) = Cardinality(Ahead) - 1
    BY <1>4, <1>5, FS_RemoveElement
  <2>2. Cardinality(Ahead') \in Nat /\ Cardinality(Ahead') <= Cardinality(Ahead) - 1
    BY <1>10, <2>1, Fewer
  <2>3. Once' = Once /\ Twice' = Twice
    BY DEF Once, Twice
  <2>4. QED
    BY <1>0, <1>5, <1>6, <2>2, <2>3 DEF Inv, Fits
<1>12. QED
  BY <1>8, <1>9, <1>11 DEF Inv, Asks, Asked

-----------------------------------------------------------------------------
(* The steps of a worker. *)

\* A worker stays on its job.
LEMMA Proceeds ==
    ASSUME Inv, Tables', NEW w \in Workers, NEW pc, Worker(w, pc), UNCHANGED <<queueVars, req>>,
           \/ worker[w].pc \in Running \ {"finish"} /\ pc \in {"failing", "finish"}
           \/ worker[w].pc = "loaded" /\ pc = "storing"
           \/ worker[w].pc = "recover" /\ pc = "recovering"
    PROVE  Inv'
<1> DEFINE p == [worker[w] EXCEPT !.pc = pc]
<1>0. worker = [x \in Workers |-> worker[x]] /\ Held(worker[w], job, njobs)
  BY DEF Inv, Staff
<1>1. worker' = [worker EXCEPT ![w] = p]
  BY <1>0 DEF Worker
<1>2. p.job = worker[w].job /\ p.pc = pc /\ p.artifact = worker[w].artifact /\ p \in WorkerRecord
  BY <1>0 DEF Held, WorkerRecord, WorkerPCs, Running
<1> HIDE DEF p
<1>3. Held(p, job, njobs)
  BY <1>0, <1>2 DEF Held, Running, Recovering
<1>4. p.pc \in Running \ {"finish"} => worker[w].pc \in Running \ {"finish"}
  BY <1>2 DEF Running
<1>5. p.job # NONE => \A x \in Workers : x # w => worker[x].job # p.job
  BY <1>2 DEF Inv, Staff
<1>6. QED
  BY <1>1, <1>2, <1>3, <1>4, <1>5, WorkerMoves

\* A worker has nothing to do with any job any more.
LEMMA IdleHolds ==
    /\ \A js, n : Held(IdleWorker, js, n)
    /\ IdleWorker.job = NONE /\ IdleWorker.pc = "idle" /\ "idle" \notin Running
BY DEF Held, IdleWorker, WorkerRecord, WorkerPCs, Running, Recovering

LEMMA Forgets ==
    ASSUME Inv, Tables', NEW w \in Workers, worker' = [worker EXCEPT ![w] = IdleWorker],
           UNCHANGED <<queueVars, req>>
    PROVE  Inv'
BY IdleHolds, WorkerMoves

\* Versions as they were.
LEMMA SameTables ==
    ASSUME Inv, UNCHANGED <<versionVars, orphans>>
    PROVE  Tables'
BY DEF Inv, Tables, versionVars

LEMMA ClaimKeeps ==
    ASSUME Inv, NEW w \in Workers, Claim(w)
    PROVE  Inv'
<1>1. PICK j \in Claimable : worker' = [worker EXCEPT ![w].pc = "claiming", ![w].job = j]
  BY DEF Claim
<1> DEFINE p == [worker[w] EXCEPT !.pc = "claiming", !.job = j]
<1>0. worker = [x \in Workers |-> worker[x]] /\ \A x \in Workers : Held(worker[x], job, njobs)
  BY DEF Inv, Staff
<1>2. worker' = [worker EXCEPT ![w] = p]
  BY <1>0, <1>1
<1>3. j \in JobIds /\ job[j].status = "queued" /\ j \notin LockedJobs
  BY DEF Claimable
<1>4. p \in WorkerRecord /\ p.job = j /\ p.pc = "claiming"
  BY <1>0, <1>3 DEF Held, WorkerRecord, WorkerPCs
<1> HIDE DEF p
<1>5. j \in 1..njobs
  BY <1>3, BoundsAssumption DEF Inv, Queue, Queued, NoJob, JobIds
<1>6. Held(p, job, njobs)
  BY <1>3, <1>4, <1>5 DEF Held, Running, Recovering
<1>7. ASSUME NEW x \in Workers, worker[x].job = j PROVE FALSE
  <2>1. worker[x].pc = "idle" => worker[x].job = NONE
    BY <1>0 DEF Held, IdleWorker
  <2>2. worker[x].pc # "idle"
    BY <1>5, <1>7, <2>1, NoneAssumption, BoundsAssumption DEF Inv, Queue
  <2>3. worker[x].pc \in WorkerPCs
    BY <1>0 DEF Held, WorkerRecord
  <2>4. worker[x].pc = "claiming"
    BY <1>0, <1>3, <1>7, <2>2, <2>3 DEF Held, WorkerPCs, Running, Recovering
  <2>5. QED
    BY <1>3, <1>7, <2>4 DEF LockedJobs
<1>8. QED
  BY <1>2, <1>4, <1>6, <1>7, WorkerMoves, SameTables DEF Claim, Running

LEMMA ClaimCommitKeeps ==
    ASSUME Inv, NEW w \in Workers, ClaimCommit(w)
    PROVE  Inv'
<1> DEFINE k == worker[w].job
           e == [job[k] EXCEPT !.status = "running", !.attempts = @ + 1]
           p == [worker[w] EXCEPT !.pc = "load"]
<1>0. /\ worker = [x \in Workers |-> worker[x]] /\ Held(worker[w], job, njobs)
      /\ job = [j \in JobIds |-> job[j]] /\ njobs \in 0..MaxJobs
      /\ worker[w].pc = "claiming" /\ MaxJobs \in Nat /\ MaxAttempts \in Nat
  BY BoundsAssumption DEF Inv, Staff, Queue, ClaimCommit
<1>1. k \in 1..njobs /\ k \in JobIds /\ job[k].status = "queued"
  BY <1>0 DEF Held, JobIds
<1>2. Queued(job[k], k, njobs)
  BY <1>1 DEF Inv, Queue
<1>3. job[k] \in Job /\ job[k].attempts < MaxAttempts /\ (job[k].kind = "remediate" => job[k].v < MaxVersion)
  BY <1>0, <1>1, <1>2 DEF Queued
<1>4. worker' = [worker EXCEPT ![w] = p] /\ job' = [job EXCEPT ![k] = e]
  BY <1>0 DEF ClaimCommit, Worker
<1>5. e \in Job /\ e.status = "running" /\ e.kind = job[k].kind /\ e.v = job[k].v
  <2>1. job[k].attempts + 1 \in 0..MaxAttempts
    BY <1>0, <1>3 DEF Job
  <2>2. QED
    BY <1>3, <2>1 DEF Job
<1>6. p.job = k /\ p.pc = "load" /\ p \in WorkerRecord
  BY <1>0 DEF Held, WorkerRecord, WorkerPCs
<1> HIDE DEF e, p
<1>7. Queued(e, k, njobs)
  BY <1>0, <1>1, <1>3, <1>5 DEF Queued
<1>8. job'[k] = e
  BY <1>0, <1>1, <1>4
<1>9. Held(p, job', njobs)
  BY <1>1, <1>5, <1>6, <1>8 DEF Held, Running, Recovering
<1>10. Tables' /\ UNCHANGED <<njobs, req>>
  BY SameTables DEF ClaimCommit
<1>11. k = worker[w].job /\ worker[w].pc # "idle"
         /\ worker[w].pc \in {"claiming", "failing"} /\ p.job \in {k, NONE}
  BY <1>0, <1>6
<1> HIDE DEF k
<1>12. QED
  BY <1>4, <1>5, <1>7, <1>9, <1>10, <1>11, JobMoves

LEMMA LoadKeeps ==
    ASSUME Inv, NEW w \in Workers, Load(w)
    PROVE  Inv'
<1>0. worker = [x \in Workers |-> worker[x]] /\ Held(worker[w], job, njobs) /\ worker[w].pc = "load"
  BY DEF Inv, Staff, Load
<1>1. CASE JobOf(w).kind = "remediate" /\ audited[JobOf(w).v] = NONE
  BY <1>0, <1>1, Proceeds, SameTables DEF Load, Running
<1>2. CASE ~(JobOf(w).kind = "remediate" /\ audited[JobOf(w).v] = NONE)
  <2> DEFINE k == worker[w].job
             a == artifact[JobOf(w).v]
             p == [worker[w] EXCEPT !.pc = "loaded", !.artifact = a]
  <2>1. worker' = [worker EXCEPT ![w] = p]
    BY <1>0, <1>2 DEF Load
  <2>2. k \in 1..njobs /\ k \in JobIds /\ Queued(job[k], k, njobs)
    BY <1>0, BoundsAssumption DEF Held, Inv, Queue, JobIds
  <2>3. job[k].v \in Versions
    BY <2>2, BoundsAssumption DEF Queued, Job, Inv, Queue
  <2>4. a \in Nat
    BY <2>3 DEF JobOf, Inv, Tables
  <2> HIDE DEF a
  <2>5. p.job = k /\ p.pc = "loaded" /\ p.artifact = a /\ p \in WorkerRecord
    BY <1>0, <2>4 DEF Held, WorkerRecord, WorkerPCs
  <2> HIDE DEF p
  <2>6. Held(p, job, njobs)
    BY <1>0, <2>4, <2>5 DEF Held, Running, Recovering
  <2>7. p.job # NONE => \A x \in Workers : x # w => worker[x].job # p.job
    BY <2>5 DEF Inv, Staff
  <2>8. QED
    BY <1>0, <2>1, <2>5, <2>6, <2>7, WorkerMoves, SameTables DEF Load, Running
<1>3. QED
  BY <1>1, <1>2

\* What becomes of the version of a job.
LEMMA JobVersion ==
    ASSUME Inv, NEW w \in Workers, worker[w].pc # "idle"
    PROVE  /\ worker[w].job \in 1..njobs /\ worker[w].job \in JobIds /\ JobOf(w) \in Job
           /\ JobOf(w).v \in Versions /\ JobOf(w).v \in Nat /\ JobOf(w).kind \in Kinds
           /\ JobOf(w).kind = "remediate" => JobOf(w).v + 1 \in Versions
<1> DEFINE k == worker[w].job
<1>1. Held(worker[w], job, njobs)
  BY DEF Inv, Staff
<1>2. k \in 1..njobs /\ k \in JobIds
  BY <1>1, BoundsAssumption DEF Held, JobIds, Inv, Queue
<1>3. Queued(job[k], k, njobs)
  BY <1>2 DEF Inv, Queue
<1>4. job[k] \in Job /\ (job[k].kind = "remediate" => job[k].v < MaxVersion)
  BY <1>2, <1>3, BoundsAssumption DEF Queued, Inv, Queue
<1>5. QED
  BY <1>2, <1>4, BoundsAssumption DEF Job, Versions, JobOf

LEMMA StoreReadKeeps ==
    ASSUME Inv, NEW w \in Workers, StoreRead(w)
    PROVE  Inv'
BY Proceeds, SameTables DEF StoreRead, Running

LEMMA StoreTrainingKeeps ==
    ASSUME Inv, NEW w \in Workers, StoreTraining(w)
    PROVE  Inv'
<1>1. JobOf(w).v \in Versions
  BY JobVersion DEF StoreTraining
<1>2. Tables'
  BY <1>1 DEF StoreTraining, Inv, Tables, States
<1>3. QED
  BY <1>1, <1>2, StoredKeeps DEF StoreTraining

LEMMA StoreAuditKeeps ==
    ASSUME Inv, NEW w \in Workers, StoreAudit(w)
    PROVE  Inv'
<1>1. JobOf(w).v \in Versions
  BY JobVersion DEF StoreAudit
<1>2. worker[w].artifact \in Nat
  BY DEF Inv, Staff, Held, StoreAudit
<1>3. Tables'
  BY <1>1, <1>2 DEF StoreAudit, Inv, Tables, States
<1>4. QED
  BY <1>3, Proceeds DEF StoreAudit, Running

LEMMA StoreRemediationKeeps ==
    ASSUME Inv, NEW w \in Workers, StoreRemediation(w)
    PROVE  Inv'
<1>1. JobOf(w).v \in Versions /\ JobOf(w).v + 1 \in Versions
  BY JobVersion DEF StoreRemediation
<1>2. CASE state[JobOf(w).v + 1] # NONE
  BY <1>2, Proceeds, SameTables DEF StoreRemediation, Running
<1>3. CASE state[JobOf(w).v + 1] = NONE
  <2>1. Tables'
    BY <1>1, <1>3 DEF StoreRemediation, Inv, Tables, States
  <2>2. QED
    BY <1>1, <1>3, <2>1, StoredKeeps DEF StoreRemediation
<1>4. QED
  BY <1>2, <1>3

LEMMA RaiseKeeps ==
    ASSUME Inv, NEW w \in Workers, Raise(w)
    PROVE  Inv'
BY Proceeds, SameTables DEF Raise, Running

LEMMA FinishKeeps ==
    ASSUME Inv, NEW w \in Workers, Finish(w)
    PROVE  Inv'
<1> DEFINE k == worker[w].job
           e == [job[k] EXCEPT !.status = "succeeded"]
<1>0. worker[w].pc = "finish" /\ job = [j \in JobIds |-> job[j]]
  BY DEF Finish, Inv, Queue
<1>1. k \in 1..njobs /\ k \in JobIds /\ job[k] \in Job
  BY <1>0, JobVersion DEF JobOf
<1>2. Queued(job[k], k, njobs)
  BY <1>1 DEF Inv, Queue
<1>3. job' = [job EXCEPT ![k] = e]
  BY <1>0 DEF Finish
<1>4. e \in Job /\ e.status = "succeeded" /\ e.kind = job[k].kind /\ e.v = job[k].v
  BY <1>1 DEF Job
<1> HIDE DEF e
<1>5. Queued(e, k, njobs)
  BY <1>1, <1>2, <1>4, BoundsAssumption DEF Queued, Inv, Queue
<1>6. QED
  BY <1>0, <1>3, <1>4, <1>5, JobMoves, IdleHolds, SameTables DEF Finish

LEMMA FailKeeps ==
    ASSUME Inv, NEW w \in Workers, Fail(w)
    PROVE  Inv'
<1> DEFINE k == worker[w].job
           s == IF JobOf(w).attempts < MaxAttempts THEN "queued" ELSE "failed"
           e == [job[k] EXCEPT !.status = s]
           p == [worker[w] EXCEPT !.pc = "recover"]
<1>0. /\ worker[w].pc = "failing" /\ job = [j \in JobIds |-> job[j]]
      /\ worker = [x \in Workers |-> worker[x]] /\ Held(worker[w], job, njobs)
  BY DEF Fail, Inv, Queue, Staff
<1>1. k \in 1..njobs /\ k \in JobIds /\ job[k] \in Job
  BY <1>0, JobVersion DEF JobOf
<1>2. Queued(job[k], k, njobs)
  BY <1>1 DEF Inv, Queue
<1>3. job' = [job EXCEPT ![k] = e]
  BY <1>0 DEF Fail
<1>4. s \in {"queued", "failed"} /\ (s = "queued" <=> job[k].attempts < MaxAttempts)
  BY DEF JobOf
<1> HIDE DEF s
<1>5. e \in Job /\ e.status = s /\ e.kind = job[k].kind /\ e.v = job[k].v /\ e.attempts = job[k].attempts
  BY <1>1, <1>4 DEF Job
<1> HIDE DEF e
<1>6. Queued(e, k, njobs)
  BY <1>1, <1>2, <1>4, <1>5, BoundsAssumption DEF Queued, Inv, Queue
<1>7. CASE worker' = [worker EXCEPT ![w] = IdleWorker]
  BY <1>0, <1>3, <1>5, <1>6, <1>7, JobMoves, IdleHolds, SameTables DEF Fail
<1>8. CASE s = "failed" /\ job[k].kind \in DOMAIN RECOVERY /\ worker' = [worker EXCEPT ![w].pc = "recover"]
  <2>1. worker' = [worker EXCEPT ![w] = p]
    BY <1>0, <1>8
  <2>2. p.job = k /\ p.pc = "recover" /\ p \in WorkerRecord
    BY <1>0 DEF Held, WorkerRecord, WorkerPCs
  <2> HIDE DEF p
  <2>3. job'[k] = e
    BY <1>0, <1>1, <1>3
  <2>4. job[k].kind \in {"audit", "remediate"}
    BY <1>8 DEF RECOVERY
  <2>5. Held(p, job', njobs)
    BY <1>1, <1>5, <1>8, <2>2, <2>3, <2>4 DEF Held, Running, Recovering
  <2>6. Tables' /\ UNCHANGED <<njobs, req>>
    BY SameTables DEF Fail
  <2>7. k = worker[w].job /\ worker[w].pc # "idle"
         /\ worker[w].pc \in {"claiming", "failing"} /\ p.job \in {k, NONE}
    BY <1>0, <2>2
  <2> HIDE DEF k
  <2>8. QED
    BY <1>3, <1>5, <1>6, <2>1, <2>5, <2>6, <2>7, JobMoves
<1>9. QED
  BY <1>4, <1>7, <1>8 DEF Fail, JobOf

LEMMA RecoverReadKeeps ==
    ASSUME Inv, NEW w \in Workers, RecoverRead(w)
    PROVE  Inv'
BY Proceeds, Forgets, SameTables DEF RecoverRead

LEMMA RecoverWriteKeeps ==
    ASSUME Inv, NEW w \in Workers, RecoverWrite(w)
    PROVE  Inv'
<1>1. JobOf(w).v \in Versions /\ JobOf(w).kind \in {"audit", "remediate"}
  BY JobVersion DEF RecoverWrite, Inv, Staff, Held, Recovering, JobOf
<1>2. RECOVERY[JobOf(w).kind] \in States
  BY <1>1 DEF RECOVERY, States
<1>3. Tables'
  BY <1>1, <1>2 DEF RecoverWrite, Inv, Tables
<1>4. QED
  BY <1>3, Forgets DEF RecoverWrite

LEMMA CrashKeeps ==
    ASSUME Inv, NEW w \in Workers, Crash(w)
    PROVE  Inv'
<1>0. worker[w].job \in JobIds
  <2>1. Held(worker[w], job, njobs) /\ njobs \in 0..MaxJobs /\ worker[w] # IdleWorker
    BY DEF Crash, Inv, Staff, Queue
  <2>2. worker[w].job \in 1..njobs
    BY <2>1 DEF Held
  <2>3. QED
    BY <2>1, <2>2, BoundsAssumption DEF JobIds
<1>1. Tables'
  BY <1>0 DEF Crash, Inv, Tables, versionVars
<1>2. QED
  BY <1>1, Forgets DEF Crash

-----------------------------------------------------------------------------
(* The steps of a request. *)

\* A request is read, or ends without a job.
LEMMA RequestMoves ==
    ASSUME Inv, Tables', NEW r \in Requests, NEW q, req' = [req EXCEPT ![r] = q], Asked(q),
           UNCHANGED <<queueVars, worker>>, Fits'
    PROVE  Inv'
<1>1. req = [x \in Requests |-> req[x]] /\ \A x \in Requests : Asked(req[x])
  BY DEF Inv, Asks
<1>2. Asks'
  <2>1. req' = [x \in Requests |-> req'[x]]
    BY <1>1
  <2>2. \A x \in Requests : Asked(req'[x])
    BY <1>1
  <2>3. QED
    BY <2>1, <2>2 DEF Asks, Asked
<1>3. Queue' /\ Staff'
  BY DEF Inv, Queue, Queued, Staff, Held, queueVars
<1>4. QED
  BY <1>2, <1>3 DEF Inv

LEMMA IdleAsks == Asked(IdleRequest) /\ IdleRequest.op = "none"
BY DEF Asked, IdleRequest, RequestRecord, RequestOps

\* What requests will enqueue when one of them ends.
LEMMA RequestEnds ==
    ASSUME Inv, NEW r \in Requests, req' = [req EXCEPT ![r] = IdleRequest]
    PROVE  /\ Once' = Once \ {r} /\ Twice' = Twice \ {r}
           /\ \A x \in Requests : Asked(req'[x])
           /\ req' = [x \in Requests |-> req'[x]]
<1>1. req = [x \in Requests |-> req[x]] /\ \A x \in Requests : Asked(req[x])
  BY DEF Inv, Asks
<1>2. req'[r] = IdleRequest /\ \A x \in Requests : x # r => req'[x] = req[x]
  BY <1>1
<1>3. Once' = Once \ {r} /\ Twice' = Twice \ {r}
  BY <1>2, IdleAsks DEF Once, Twice
<1>4. \A x \in Requests : Asked(req'[x])
  BY <1>1, <1>2, IdleAsks
<1>5. QED
  BY <1>1, <1>3, <1>4

\* A request that ends without a job.
LEMMA EndsWithout ==
    ASSUME Inv, Tables', NEW r \in Requests, req' = [req EXCEPT ![r] = IdleRequest],
           UNCHANGED <<queueVars, worker>>
    PROVE  Inv'
<1>1. Once' \subseteq Once /\ Twice' \subseteq Twice
  BY RequestEnds
<1>2. Ahead' = Ahead /\ njobs' = njobs
  BY DEF Ahead, queueVars
<1>3. Fits'
  BY <1>1, <1>2, FitsStill DEF Inv, Queue
<1>4. QED
  BY <1>3, IdleAsks, RequestMoves

\* Room for n more jobs is room for n more jobs.
LEMMA RoomFits ==
    ASSUME Inv, NEW n \in Nat, Room(n)
    PROVE  /\ Cardinality(Ahead) \in Nat /\ Cardinality(Once) \in Nat /\ Cardinality(Twice) \in Nat
           /\ njobs + Cardinality(Ahead) + Cardinality(Once) + 2 * Cardinality(Twice) + n <= MaxJobs
<1>1. Cardinality(Once) \in Nat /\ Cardinality(Twice) \in Nat /\ IsFiniteSet(Once) /\ IsFiniteSet(Twice)
  BY FS_CardinalityType DEF Inv, Fits
<1>2. Promised = Once \cup Twice /\ Once \cap Twice = {}
  BY DEF Promised, Once, Twice
<1>3. Cardinality(Promised) = Cardinality(Once) + Cardinality(Twice)
  <2>1. Cardinality(Once \cap Twice) = 0
    BY <1>2, FS_EmptySet
  <2>2. Cardinality(Once \cup Twice) = Cardinality(Once) + Cardinality(Twice) - Cardinality(Once \cap Twice)
    BY <1>1, FS_Union
  <2>3. QED
    BY <1>1, <1>2, <2>1, <2>2
<1>4. Ahead \in SUBSET Followups
  <2>1. \A w \in Workers : worker[w].pc \in Running => job[worker[w].job].status = "running"
    BY DEF Inv, Staff, Held
  <2>2. QED
    BY <2>1 DEF Ahead, Followups
<1>5. IsFiniteSet(Followups)
  <2>1. IsFiniteSet(JobIds)
    BY FS_Interval, BoundsAssumption DEF JobIds
  <2>2. Followups \in SUBSET JobIds
    BY DEF Followups
  <2>3. QED
    BY <2>1, <2>2, Fewer
<1>6. /\ Cardinality(Ahead) \in Nat /\ Cardinality(Followups) \in Nat
      /\ Cardinality(Ahead) <= Cardinality(Followups)
  BY <1>4, <1>5, Fewer
<1>7. QED
  BY <1>1, <1>3, <1>6, BoundsAssumption DEF Room, Inv, Queue

\* Begin, for an operation that enqueues nothing, one job, or one that enqueues another.
LEMMA BeginKeeps ==
    ASSUME Inv, NEW r \in Requests, NEW op \in RequestOps, NEW v \in Versions, NEW to \in States,
           Begin(r, op, v, to), op = "remediate" => v < MaxVersion,
           op = "audit" => Room(1), op \in {"train", "remediate"} => Room(2)
    PROVE  Inv'
<1> DEFINE q == [pc |-> "write", op |-> op, v |-> v, to |-> to]
<1>1. /\ req = [x \in Requests |-> req[x]] /\ req[r] = IdleRequest /\ req' = [req EXCEPT ![r] = q]
      /\ UNCHANGED <<versionVars, queueVars, worker, orphans>>
  BY DEF Inv, Asks, Begin
<1>2. Asked(q) /\ q.op = op
  BY DEF Asked, RequestRecord
<1> HIDE DEF q
<1>3. req'[r] = q /\ \A x \in Requests : x # r => req'[x] = req[x]
  BY <1>1
<1>4. Ahead' = Ahead /\ njobs' = njobs
  BY <1>1 DEF Ahead, queueVars
<1>5. r \notin Once /\ r \notin Twice /\ IsFiniteSet(Once) /\ IsFiniteSet(Twice)
  BY <1>1, IdleAsks DEF Once, Twice, Inv, Fits
<1>6. njobs \in Nat /\ MaxJobs \in Nat
  BY BoundsAssumption DEF Inv, Queue
<1>7. Fits'
  <2>1. CASE op = "audit"
    <3>1. Once' = Once \cup {r} /\ Twice' = Twice
      BY <1>2, <1>3, <1>5, <2>1 DEF Once, Twice
    <3>2. IsFiniteSet(Once') /\ Cardinality(Once') = Cardinality(Once) + 1
      BY <1>5, <3>1, FS_AddElement
    <3>3. /\ Cardinality(Ahead) \in Nat /\ Cardinality(Once) \in Nat /\ Cardinality(Twice) \in Nat
          /\ njobs + Cardinality(Ahead) + Cardinality(Once) + 2 * Cardinality(Twice) + 1 <= MaxJobs
      BY <2>1, RoomFits
    <3>4. IsFiniteSet(Twice') /\ Cardinality(Twice') = Cardinality(Twice)
      BY <1>5, <3>1, Zenon
    <3>5. QED
      BY <1>4, <1>6, <3>2, <3>3, <3>4 DEF Fits
  <2>2. CASE op \in {"train", "remediate"}
    <3>1. Twice' = Twice \cup {r} /\ Once' = Once
      BY <1>2, <1>3, <1>5, <2>2 DEF Once, Twice
    <3>2. IsFiniteSet(Twice') /\ Cardinality(Twice') = Cardinality(Twice) + 1
      BY <1>5, <3>1, FS_AddElement
    <3>3. /\ Cardinality(Ahead) \in Nat /\ Cardinality(Once) \in Nat /\ Cardinality(Twice) \in Nat
          /\ njobs + Cardinality(Ahead) + Cardinality(Once) + 2 * Cardinality(Twice) + 2 <= MaxJobs
      BY <2>2, RoomFits
    <3>4. IsFiniteSet(Once') /\ Cardinality(Once') = Cardinality(Once)
      BY <1>5, <3>1, Zenon
    <3>5. QED
      BY <1>4, <1>6, <3>2, <3>3, <3>4 DEF Fits
  <2>3. CASE op \notin {"audit", "train", "remediate"}
    <3>1. Once' = Once /\ Twice' = Twice
      BY <1>2, <1>3, <1>5, <2>3 DEF Once, Twice
    <3>2. QED
      BY <1>4, <3>1 DEF Fits, Inv
  <2>4. QED
    BY <2>1, <2>2, <2>3
<1>8. QED
  BY <1>1, <1>2, <1>7, RequestMoves, SameTables

\* lifecycle.check lets a person make only steps of the lifecycle to a state.
LEMMA CheckedStep ==
    ASSUME NEW from, NEW to, NEW who, check(from, to, who)
    PROVE  to \in States /\ from \in States /\ <<from, to>> \in LifecycleSteps
<1>1. \A t \in TRANSITIONS : t[1] \in States /\ t[2] \in States
  BY DEF TRANSITIONS, KILLABLE, States
<1>2. QED
  BY <1>1 DEF check, LifecycleSteps

LEMMA RequestBegins ==
    ASSUME Inv, NEW r \in Requests,
           RegisterVersion(r) \/ StartAudit(r) \/ StartRemediation(r) \/ Transition(r)
    PROVE  Inv'
<1>1. CASE RegisterVersion(r)
  BY <1>1, BeginKeeps DEF RegisterVersion, RequestOps, States
<1>2. CASE StartAudit(r)
  BY <1>2, BeginKeeps DEF StartAudit, RequestOps, States
<1>3. CASE StartRemediation(r)
  BY <1>3, BeginKeeps DEF StartRemediation, RequestOps, States
<1>4. CASE Transition(r)
  BY <1>4, BeginKeeps, CheckedStep DEF Transition, RequestOps
<1>5. QED
  BY <1>1, <1>2, <1>3, <1>4

LEMMA RequestFailsKeeps ==
    ASSUME Inv, NEW r \in Requests, RequestFails(r)
    PROVE  Inv'
BY EndsWithout, SameTables DEF RequestFails

\* A request commits with a job to enqueue.
LEMMA WriteEnqueues ==
    ASSUME Inv, Tables', NEW r \in Requests, req' = [req EXCEPT ![r] = IdleRequest], req[r].pc = "write",
           NEW kind \in Kinds, kind = "remediate" => req[r].v < MaxVersion,
           kind = "audit" => req[r].op = "audit",
           kind # "audit" => req[r].op \in {"train", "remediate"},
           job' = Enqueue(job, njobs + 1, kind, req[r].v), njobs' = njobs + 1, UNCHANGED worker
    PROVE  Inv'
<1>0. /\ Queue /\ req[r].v \in Versions /\ njobs \in Nat /\ MaxJobs \in Nat
      /\ worker = [x \in Workers |-> worker[x]] /\ \A x \in Workers : Held(worker[x], job, njobs)
  BY BoundsAssumption DEF Inv, Asks, Asked, Queue, Staff
<1>1. /\ Once' = Once \ {r} /\ Twice' = Twice \ {r}
      /\ \A x \in Requests : Asked(req'[x])
      /\ req' = [x \in Requests |-> req'[x]]
  BY RequestEnds
<1>2. /\ IsFiniteSet(Once) /\ Cardinality(Once) \in Nat
      /\ IsFiniteSet(Twice) /\ Cardinality(Twice) \in Nat
      /\ IsFiniteSet(Ahead) /\ Cardinality(Ahead) \in Nat
  BY AheadFinite, FS_CardinalityType DEF Inv, Fits
<1>3. njobs + Cardinality(Ahead) + Cardinality(Once) + 2 * Cardinality(Twice) <= MaxJobs
  BY DEF Inv, Fits
<1>4. ASSUME NEW S, NEW T, IsFiniteSet(S), Cardinality(S) \in Nat, T = S \ {r}
      PROVE  /\ IsFiniteSet(T) /\ Cardinality(T) \in Nat /\ Cardinality(T) <= Cardinality(S)
             /\ r \in S => Cardinality(T) = Cardinality(S) - 1
  <2>1. IsFiniteSet(T) /\ Cardinality(T) = IF r \in S THEN Cardinality(S) - 1 ELSE Cardinality(S)
    BY <1>4, FS_RemoveElement
  <2>2. Cardinality(T) \in Nat
    BY <2>1, FS_CardinalityType
  <2>3. QED
    BY <1>4, <2>1, <2>2
<1>5. /\ IsFiniteSet(Once') /\ Cardinality(Once') \in Nat /\ Cardinality(Once') <= Cardinality(Once)
      /\ r \in Once => Cardinality(Once') = Cardinality(Once) - 1
  BY <1>1, <1>2, <1>4
<1>6. /\ IsFiniteSet(Twice') /\ Cardinality(Twice') \in Nat /\ Cardinality(Twice') <= Cardinality(Twice)
      /\ r \in Twice => Cardinality(Twice') = Cardinality(Twice) - 1
  BY <1>1, <1>2, <1>4
<1>7. (kind = "audit" => r \in Once) /\ (kind # "audit" => r \in Twice)
  BY DEF Once, Twice
<1>8. njobs + 1 <= MaxJobs
  BY <1>0, <1>2, <1>3, <1>5, <1>6, <1>7
<1>9. /\ Queue'
      /\ job'[njobs + 1] = [kind |-> kind, v |-> req[r].v, status |-> "queued", attempts |-> 0]
      /\ \A j \in JobIds : j # njobs + 1 => job'[j] = job[j]
      /\ \A p : Held(p, job, njobs) => Held(p, job', njobs')
  BY <1>0, <1>8, Enqueued
<1>10. Staff'
  <2>1. worker' = [x \in Workers |-> worker'[x]] /\ \A x \in Workers : Held(worker'[x], job', njobs')
    BY <1>0, <1>9
  <2>2. QED
    BY <2>1 DEF Inv, Staff
<1>11. ASSUME NEW j \in JobIds, j \in Ahead', j # njobs + 1 PROVE j \in Ahead
  BY <1>9, <1>11 DEF Ahead
<1>12. Fits'
  <2>1. CASE kind = "audit"
    <3>1. job'[njobs + 1].kind = "audit"
      BY <1>9, <2>1
    <3>2. Ahead' \in SUBSET Ahead
      BY <1>11, <3>1 DEF Ahead
    <3>3. Cardinality(Ahead') \in Nat /\ Cardinality(Ahead') <= Cardinality(Ahead)
      BY <1>2, <3>2, Fewer
    <3>4. QED
      BY <1>0, <1>2, <1>3, <1>5, <1>6, <1>7, <2>1, <3>3 DEF Fits
  <2>2. CASE kind # "audit"
    <3>1. Ahead' \in SUBSET (Ahead \cup {njobs + 1})
      BY <1>11 DEF Ahead
    <3>2. /\ IsFiniteSet(Ahead \cup {njobs + 1})
          /\ Cardinality(Ahead \cup {njobs + 1}) =
               IF njobs + 1 \in Ahead THEN Cardinality(Ahead) ELSE Cardinality(Ahead) + 1
      BY <1>2, FS_AddElement
    <3>3. /\ Cardinality(Ahead') \in Nat /\ Cardinality(Ahead \cup {njobs + 1}) \in Nat
          /\ Cardinality(Ahead') <= Cardinality(Ahead \cup {njobs + 1})
      BY <3>1, <3>2, Fewer
    <3>4. Cardinality(Ahead') <= Cardinality(Ahead) + 1
      BY <1>2, <3>2, <3>3
    <3>5. QED
      BY <1>0, <1>2, <1>3, <1>5, <1>6, <1>7, <2>2, <3>3, <3>4 DEF Fits
  <2>3. QED
    BY <2>1, <2>2
<1>13. QED
  BY <1>1, <1>9, <1>10, <1>12 DEF Inv, Asks, Asked

LEMMA WriteRequestKeeps ==
    ASSUME Inv, NEW r \in Requests, WriteRequest(r)
    PROVE  Inv'
<1> DEFINE q == req[r]
           kind == q.op
           duplicate == q.to = "registered" /\ state[q.v] # NONE
<1>0. q.pc = "write" /\ Asked(q) /\ req' = [req EXCEPT ![r] = IdleRequest] /\ UNCHANGED <<worker, orphans>>
  BY DEF WriteRequest, Inv, Asks
<1>1. CASE duplicate
  BY <1>0, <1>1, EndsWithout, SameTables DEF WriteRequest
<1>2. CASE ~duplicate
  <2>1. /\ state' = [state EXCEPT ![q.v] = q.to] /\ UNCHANGED <<artifact, audited, risky, parent>>
        /\ IF kind \in Kinds
           THEN job' = Enqueue(job, njobs + 1, kind, q.v) /\ njobs' = njobs + 1
           ELSE UNCHANGED queueVars
    BY <1>2 DEF WriteRequest
  <2>2. Tables'
    BY <1>0, <2>1 DEF Inv, Tables, Asked
  <2>3. CASE kind \notin Kinds
    BY <1>0, <2>1, <2>2, <2>3, EndsWithout
  <2>4. CASE kind \in Kinds
    <3>1. /\ kind = "audit" => q.op = "audit"
          /\ kind # "audit" => q.op \in {"train", "remediate"}
          /\ kind = "remediate" => q.v < MaxVersion
      BY <1>0, <2>4 DEF Asked, RequestRecord, RequestOps, Kinds
    <3>2. job' = Enqueue(job, njobs + 1, kind, q.v) /\ njobs' = njobs + 1
      BY <2>1, <2>4
    <3> HIDE DEF kind
    <3>3. QED
      BY <1>0, <2>2, <2>4, <3>1, <3>2, WriteEnqueues
  <2>5. QED
    BY <2>3, <2>4
<1>3. QED
  BY <1>1, <1>2

-----------------------------------------------------------------------------
LEMMA InitInv == Init => Inv
<1> SUFFICES ASSUME Init PROVE Inv
  OBVIOUS
<1>1. Tables
  BY BoundsAssumption DEF Init, Tables
<1>2. Queue
  BY BoundsAssumption DEF Init, Queue, Queued, JobIds
<1>3. Staff
  BY IdleHolds DEF Init, Staff
<1>4. Asks
  BY IdleAsks DEF Init, Asks
<1>5. Ahead = {} /\ Once = {} /\ Twice = {}
  BY IdleHolds, IdleAsks DEF Init, Ahead, Once, Twice, NoJob
<1>6. Fits
  BY <1>5, FS_EmptySet, BoundsAssumption DEF Init, Fits
<1>7. QED
  BY <1>1, <1>2, <1>3, <1>4, <1>6 DEF Inv

LEMMA NextKeeps == Inv /\ [Next]_vars => Inv'
<1> SUFFICES ASSUME Inv, [Next]_vars PROVE Inv'
  OBVIOUS
<1>1. ASSUME NEW w \in Workers, RunOnce(w) \/ Raise(w) \/ Crash(w) PROVE Inv'
  BY <1>1, ClaimKeeps, ClaimCommitKeeps, LoadKeeps, StoreReadKeeps, StoreTrainingKeeps, StoreAuditKeeps,
     StoreRemediationKeeps, RaiseKeeps, FinishKeeps, FailKeeps, RecoverReadKeeps, RecoverWriteKeeps, CrashKeeps
  DEF RunOnce, Store
<1>2. ASSUME NEW r \in Requests,
             \/ RegisterVersion(r) \/ StartAudit(r) \/ StartRemediation(r) \/ Transition(r)
             \/ WriteRequest(r) \/ RequestFails(r)
      PROVE  Inv'
  BY <1>2, RequestBegins, WriteRequestKeeps, RequestFailsKeeps
<1>3. CASE UNCHANGED vars
  BY <1>3 DEF vars, versionVars, queueVars, Inv, Tables, Queue, Queued, Staff, Held, Asks, Asked,
              Fits, Ahead, Once, Twice
<1>4. QED
  BY <1>1, <1>2, <1>3 DEF Next

LEMMA Invariance == Spec => []Inv
BY InitInv, NextKeeps, PTL DEF Spec

\* However workers and requests interleave, fail and crash: no two workers have
\* the same job, attempts stay within max_attempts and the tables well-typed.
THEOREM HeldOnce == Spec => []JobHeldOnce
<1>1. Inv => JobHeldOnce
  <2> SUFFICES ASSUME Inv PROVE JobHeldOnce
    OBVIOUS
  <2>1. job \in [JobIds -> Job \cup {NoJob}]
    <3>1. \A j \in JobIds : job[j] \in Job \cup {NoJob}
      BY DEF Inv, Queue, Queued
    <3>2. QED
      BY <3>1 DEF Inv, Queue
  <2>2. worker \in [Workers -> WorkerRecord]
    BY DEF Inv, Staff, Held
  <2>3. req \in [Requests -> RequestRecord]
    BY DEF Inv, Asks, Asked
  <2>4. \A w \in Workers : worker[w].pc # "idle" => worker[w].job \in 1..njobs
    BY DEF Inv, Staff, Held
  <2>5. TypeOK
    BY <2>1, <2>2, <2>3, <2>4 DEF Inv, Tables, Queue, TypeOK, WorkerRecord, RequestRecord
  <2>6. QED
    BY <2>5 DEF Inv, Staff, JobHeldOnce
<1>2. QED
  BY <1>1, Invariance, PTL

-----------------------------------------------------------------------------
(* Transactions on versions that do not overlap. *)

\* At most one transaction is between its read of a version and its commit.
Alone ==
    /\ \A w, x \in WritingWorkers : w = x
    /\ \A q, r \in WritingRequests : q = r
    /\ WritingWorkers = {} \/ WritingRequests = {}

\* What a request has read: a new number, or a step that a person may make.
ReadRequest(q) ==
    q.pc = "write" =>
        \/ q.op \in {"register", "train"} /\ q.to = "registered" /\ state[q.v] = NONE
        \/ /\ <<state[q.v], q.to>> \in LifecycleSteps
           /\ state[q.v] \notin {"auditing", "remediating"}
           /\ q.to \in Cleared => state[q.v] \in Cleared
           /\ q.op = "audit" => q.to = "auditing"
           /\ q.op = "remediate" => q.to = "remediating"

\* What a worker's second transaction, or its recovery, has read.
ReadWorker(p) ==
    /\ p.pc = "storing" =>
          /\ \A to \in Outcomes(job[p.job].kind) : <<state[job[p.job].v], to>> \in LifecycleSteps
          /\ job[p.job].kind = "remediate" => state[job[p.job].v + 1] = NONE
    /\ p.pc = "recovering" => <<state[job[p.job].v], RECOVERY[job[p.job].kind]>> \in LifecycleSteps

Serial ==
    /\ Alone
    /\ \A r \in Requests : ReadRequest(req[r])
    /\ \A w \in Workers : ReadWorker(worker[w])

\* An audit or a remediation that is still to be stored or given up, and the
\* state in which its version waits for it.
Busy == (Running \ {"finish"}) \cup Recovering

Due(j) ==
    /\ job[j].kind \in {"audit", "remediate"}
    /\ \/ job[j].status = "queued"
       \/ \E w \in Workers : worker[w].job = j /\ worker[w].pc \in Busy

WaitsIn(kind) == IF kind = "audit" THEN "auditing" ELSE "remediating"

DueWaits == \A j \in JobIds : Due(j) => state[job[j].v] = WaitsIn(job[j].kind)
DueOnce == \A i, j \in JobIds : Due(i) /\ Due(j) /\ job[i].v = job[j].v => i = j

LoadedCurrent ==
    \A w \in Workers : worker[w].pc \in {"loaded", "storing"} /\ JobOf(w).kind = "audit" =>
                          worker[w].artifact = artifact[JobOf(w).v]

Watched == Serial /\ DueWaits /\ DueOnce /\ LoadedCurrent /\ AuditedArtifact /\ SuccessorReplaces

\* Steps that persons may make, ...
LEMMA PersonStep ==
    ASSUME NEW from, NEW to, NEW who \in Callers, check(from, to, who)
    PROVE  /\ <<from, to>> \in LifecycleSteps /\ from \notin {"auditing", "remediating"}
           /\ to \in Cleared => from \in Cleared
<1>1. \A t \in TRANSITIONS : t[3] # SYSTEM_ONLY =>
         t[1] \notin {"auditing", "remediating"} /\ (t[2] \in Cleared => t[1] \in Cleared)
  BY DEF TRANSITIONS, KILLABLE, SYSTEM_ONLY, Cleared
<1>2. SYSTEM \notin Callers
  BY DEF SYSTEM, Callers, Roles, SUPER_ADMIN
<1>3. PICK t \in TRANSITIONS : t[1] = from /\ t[2] = to /\ (t[3] = SYSTEM_ONLY => who = SYSTEM)
  BY DEF check
<1>4. t[3] # SYSTEM_ONLY
  BY <1>2, <1>3
<1>5. QED
  BY <1>1, <1>3, <1>4 DEF LifecycleSteps

\* ... and what is known of the steps that workers make.
LEMMA StepFacts ==
    ASSUME NEW from, NEW to, <<from, to>> \in LifecycleSteps
    PROVE  /\ from \in States /\ to \in States /\ from # "superseded"
           /\ to = "auditing" => from \in {"registered", "clean", "findings"}
           /\ to \in {"superseded", "remediating"} => from \in {"remediating", "findings"}
           /\ to = "superseded" => from = "remediating"
           /\ to = "clean" => from = "auditing"
<1>1. \A t \in TRANSITIONS :
         /\ t[1] \in States /\ t[2] \in States /\ t[1] # "superseded"
         /\ t[2] = "auditing" => t[1] \in {"registered", "clean", "findings"}
         /\ t[2] \in {"superseded", "remediating"} => t[1] \in {"remediating", "findings"}
         /\ t[2] = "superseded" => t[1] = "remediating"
         /\ t[2] = "clean" => t[1] = "auditing"
  BY DEF TRANSITIONS, KILLABLE, States
<1>2. PICK t \in TRANSITIONS : <<from, to>> = <<t[1], t[2]>>
  BY DEF LifecycleSteps
<1>3. QED
  BY <1>1, <1>2

Commits == {"storing", "recovering"}

\* Who writes goes on as before, or nobody writes any more, ...
LEMMA StillSerial ==
    ASSUME Serial, state' = state,
           \A x \in Workers : worker'[x].pc \in Commits => worker'[x] = worker[x] /\ job'[worker[x].job] = job[worker[x].job],
           \A r \in Requests : req'[r].pc = "write" => req'[r] = req[r]
    PROVE  Serial'
<1>1. WritingWorkers' \subseteq WritingWorkers /\ WritingRequests' \subseteq WritingRequests
  BY DEF WritingWorkers, WritingRequests, Commits
<1>2. Alone'
  BY <1>1 DEF Serial, Alone
<1>3. ASSUME NEW r \in Requests PROVE ReadRequest(req[r])'
  BY DEF Serial, ReadRequest
<1>4. ASSUME NEW x \in Workers PROVE ReadWorker(worker[x])'
  <2>1. CASE worker'[x].pc \in Commits
    <3>1. worker'[x] = worker[x] /\ job'[worker'[x].job] = job[worker[x].job] /\ ReadWorker(worker[x])
      BY <2>1 DEF Serial
    <3>2. QED
      BY <3>1 DEF ReadWorker
  <2>2. CASE worker'[x].pc \notin Commits
    BY <2>2 DEF ReadWorker, Commits
  <2>3. QED
    BY <2>1, <2>2
<1>5. QED
  BY <1>2, <1>3, <1>4 DEF Serial

LEMMA NobodyWrites ==
    ASSUME \A x \in Workers : worker'[x].pc \notin Commits, \A r \in Requests : req'[r].pc # "write"
    PROVE  Serial'
BY DEF Serial, Alone, WritingWorkers, WritingRequests, ReadRequest, ReadWorker, Commits

\* ... or one transaction begins while there is no other.
LEMMA WorkerReads ==
    ASSUME ~Overlap, MayRead, NEW w \in Workers, \A x \in Workers : x # w => worker'[x] = worker[x],
           req' = req, ReadWorker(worker[w])'
    PROVE  Serial'
<1>1. /\ \A x \in Workers : x # w => worker'[x].pc \notin Commits
      /\ \A r \in Requests : req'[r].pc # "write"
  BY DEF MayRead, WritingWorkers, WritingRequests, Commits
<1>2. WritingWorkers' \subseteq {w} /\ WritingRequests' = {}
  BY <1>1 DEF WritingWorkers, WritingRequests, Commits
<1>3. Alone'
  BY <1>2 DEF Alone
<1>4. \A r \in Requests : ReadRequest(req[r])'
  BY <1>1 DEF ReadRequest
<1>5. ASSUME NEW x \in Workers PROVE ReadWorker(worker[x])'
  <2>1. CASE x = w
    BY <2>1
  <2>2. CASE x # w
    BY <1>1, <2>2 DEF ReadWorker, Commits
  <2>3. QED
    BY <2>1, <2>2
<1>6. QED
  BY <1>3, <1>4, <1>5 DEF Serial

LEMMA RequestReads ==
    ASSUME ~Overlap, MayRead, NEW r \in Requests, \A x \in Requests : x # r => req'[x] = req[x],
           worker' = worker, ReadRequest(req[r])'
    PROVE  Serial'
<1>1. /\ \A x \in Requests : x # r => req'[x].pc # "write"
      /\ \A w \in Workers : worker'[w].pc \notin Commits
  BY DEF MayRead, WritingWorkers, WritingRequests, Commits
<1>2. WritingRequests' \subseteq {r} /\ WritingWorkers' = {}
  BY <1>1 DEF WritingWorkers, WritingRequests, Commits
<1>3. Alone'
  BY <1>2 DEF Alone
<1>4. \A w \in Workers : ReadWorker(worker[w])'
  BY <1>1 DEF ReadWorker, Commits
<1>5. ASSUME NEW x \in Requests PROVE ReadRequest(req[x])'
  <2>1. CASE x = r
    BY <2>1
  <2>2. CASE x # r
    BY <1>1, <2>2 DEF ReadRequest
  <2>3. QED
    BY <2>1, <2>2
<1>6. QED
  BY <1>3, <1>4, <1>5 DEF Serial

\* Jobs that were due and wait as before, and one that is new.
LEMMA DueStill ==
    ASSUME DueWaits, DueOnce, NEW n, NEW v,
           \A j \in JobIds : Due(j)' =>
              \/ /\ Due(j) /\ job'[j].v = job[j].v /\ job'[j].kind = job[j].kind
                 /\ state'[job[j].v] = state[job[j].v]
              \/ /\ j = n /\ job'[j].v = v /\ state[v] \notin {"auditing", "remediating"}
                 /\ state'[v] = WaitsIn(job'[j].kind)
    PROVE  DueWaits' /\ DueOnce'
<1>1. DueWaits'
  BY DEF DueWaits, WaitsIn
<1>2. ASSUME NEW i \in JobIds, NEW j \in JobIds, Due(i)', Due(j)', job'[i].v = job'[j].v
      PROVE  i = j
  <2>1. \A k \in JobIds : Due(k) => state[job[k].v] \in {"auditing", "remediating"}
    BY DEF DueWaits, WaitsIn
  <2>2. QED
    BY <1>2, <2>1 DEF DueOnce
<1>3. QED
  BY <1>1, <1>2 DEF DueOnce

\* Audits in progress keep their checkpoint: only that of a version that waits
\* for no audit changes.
LEMMA LoadedStill ==
    ASSUME Inv, DueWaits, LoadedCurrent,
           \A x \in Versions : state[x] = "auditing" => artifact'[x] = artifact[x],
           \A w \in Workers : worker'[w].pc \in {"loaded", "storing"} =>
              /\ worker[w].pc \in {"loaded", "storing"} /\ worker'[w].job = worker[w].job
              /\ worker'[w].artifact = worker[w].artifact /\ job'[worker[w].job] = job[worker[w].job]
    PROVE  LoadedCurrent'
<1> SUFFICES ASSUME NEW w \in Workers, worker'[w].pc \in {"loaded", "storing"}, JobOf(w)'.kind = "audit"
             PROVE  worker'[w].artifact = artifact'[JobOf(w)'.v]
  BY DEF LoadedCurrent
<1>1. worker[w].pc \in {"loaded", "storing"} /\ JobOf(w)' = JobOf(w)
  BY DEF JobOf
<1>2. JobOf(w).v \in Versions /\ worker[w].job \in JobIds
  BY <1>1, JobVersion
<1>3. Due(worker[w].job)
  BY <1>1 DEF Due, JobOf, Busy, Running
<1>4. state[JobOf(w).v] = "auditing"
  BY <1>1, <1>2, <1>3 DEF DueWaits, WaitsIn, JobOf
<1>5. QED
  BY <1>1, <1>2, <1>4 DEF LoadedCurrent

\* A step that leaves the versions alone.
LEMMA QuietWatched ==
    ASSUME Inv, Watched, UNCHANGED versionVars, Serial', LoadedCurrent',
           \A j \in JobIds : Due(j)' => Due(j) /\ job'[j].v = job[j].v /\ job'[j].kind = job[j].kind
    PROVE  Watched'
<1>1. DueWaits' /\ DueOnce'
  <2>1. DueWaits /\ DueOnce /\ state' = state
    BY DEF Watched, versionVars
  <2>2. QED
    BY <2>1 DEF DueWaits, DueOnce
<1>2. AuditedArtifact' /\ SuccessorReplaces'
  BY DEF Watched, AuditedArtifact, SuccessorReplaces, versionVars
<1>3. QED
  BY <1>1, <1>2 DEF Watched

-----------------------------------------------------------------------------
(* Steps that leave the versions alone. *)

\* A worker moves and the queue stays: nothing new is due.
LEMMA WorkerDue ==
    ASSUME Inv, job' = job, NEW w \in Workers, NEW p, worker' = [worker EXCEPT ![w] = p],
           p.pc \in Busy => p.job = worker[w].job /\ worker[w].pc \in Busy
    PROVE  /\ worker'[w] = p /\ \A x \in Workers : x # w => worker'[x] = worker[x]
           /\ \A j \in JobIds : Due(j)' => Due(j)
<1>1. worker'[w] = p /\ \A x \in Workers : x # w => worker'[x] = worker[x]
  BY DEF Inv, Staff
<1>2. ASSUME NEW j \in JobIds, Due(j)' PROVE Due(j)
  <2>1. CASE job[j].status = "queued"
    BY <1>2, <2>1 DEF Due
  <2>2. CASE job[j].status # "queued"
    <3>1. PICK x \in Workers : worker'[x].job = j /\ worker'[x].pc \in Busy
      BY <1>2, <2>2 DEF Due
    <3>2. worker[x].job = j /\ worker[x].pc \in Busy
      BY <1>1, <3>1
    <3>3. QED
      BY <1>2, <3>2 DEF Due
  <2>3. QED
    BY <2>1, <2>2
<1>3. QED
  BY <1>1, <1>2

\* A worker changes the status of its own job: nothing new is due.
LEMMA JobDue ==
    ASSUME Inv, NEW w \in Workers, NEW p, NEW e, NEW k, k = worker[w].job, worker[w].pc # "idle",
           worker' = [worker EXCEPT ![w] = p], job' = [job EXCEPT ![k] = e],
           e.kind = job[k].kind, e.v = job[k].v, p.job \in {k, NONE},
           worker[w].pc \notin {"claiming", "failing"} => e.status # "queued" /\ p = IdleWorker
    PROVE  /\ worker'[w] = p /\ \A x \in Workers : x # w => worker'[x] = worker[x]
           /\ \A x \in Workers : x # w /\ worker[x].pc # "idle" => job'[worker[x].job] = job[worker[x].job]
           /\ \A j \in JobIds : Due(j)' => Due(j) /\ job'[j].v = job[j].v /\ job'[j].kind = job[j].kind
<1>0. /\ worker = [x \in Workers |-> worker[x]] /\ \A x \in Workers : Held(worker[x], job, njobs)
      /\ job = [j \in JobIds |-> job[j]]
  BY DEF Inv, Staff, Queue
<1>1. k \in JobIds /\ k # NONE /\ \A x \in Workers : x # w => worker[x].job # k
  <2>1. k \in JobIds
    BY JobVersion
  <2>2. k # NONE
    BY <2>1, NoneAssumption DEF JobIds
  <2>3. QED
    BY <2>1, <2>2 DEF Inv, Staff
<1>2. worker'[w] = p /\ \A x \in Workers : x # w => worker'[x] = worker[x]
  BY <1>0
<1>3. job'[k] = e /\ \A j \in JobIds : j # k => job'[j] = job[j]
  BY <1>0, <1>1
<1>4. ASSUME NEW x \in Workers, x # w, worker[x].pc # "idle" PROVE job'[worker[x].job] = job[worker[x].job]
  BY <1>1, <1>3, <1>4, JobVersion
<1>5. ASSUME NEW j \in JobIds, Due(j)' PROVE Due(j) /\ job'[j].v = job[j].v /\ job'[j].kind = job[j].kind
  <2>1. job'[j].v = job[j].v /\ job'[j].kind = job[j].kind
    BY <1>3
  <2>2. CASE j # k
    <3>1. job'[j] = job[j]
      BY <1>3, <2>2
    <3>2. CASE job[j].status = "queued"
      BY <1>5, <2>1, <3>2 DEF Due
    <3>3. CASE job[j].status # "queued"
      <4>1. PICK x \in Workers : worker'[x].job = j /\ worker'[x].pc \in Busy
        BY <1>5, <3>1, <3>3 DEF Due
      <4>2. j # NONE
        BY NoneAssumption DEF JobIds
      <4>3. x # w
        BY <1>2, <2>2, <4>1, <4>2
      <4>4. worker[x].job = j /\ worker[x].pc \in Busy
        BY <1>2, <4>1, <4>3
      <4>5. QED
        BY <1>5, <2>1, <4>4 DEF Due
    <3>4. QED
      BY <3>2, <3>3
  <2>3. CASE j = k
    <3>1. job[k].kind \in {"audit", "remediate"}
      BY <1>5, <2>1, <2>3 DEF Due
    <3>2. CASE worker[w].pc = "claiming"
      <4>1. job[k].status = "queued"
        BY <1>0, <3>2 DEF Held
      <4>2. QED
        BY <2>1, <2>3, <3>1, <4>1 DEF Due
    <3>3. CASE worker[w].pc = "failing"
      BY <2>1, <2>3, <3>1, <3>3 DEF Due, Busy, Running
    <3>4. CASE worker[w].pc \notin {"claiming", "failing"}
      <4>1. e.status # "queued" /\ p = IdleWorker
        BY <3>4
      <4>2. PICK x \in Workers : worker'[x].job = k /\ worker'[x].pc \in Busy
        BY <1>3, <1>5, <2>3, <4>1 DEF Due
      <4>3. x # w
        BY <1>1, <1>2, <4>1, <4>2, IdleHolds
      <4>4. QED
        BY <1>1, <1>2, <4>2, <4>3
    <3>5. QED
      BY <3>2, <3>3, <3>4
  <2>4. QED
    BY <2>2, <2>3
<1>6. QED
  BY <1>2, <1>4, <1>5

\* A worker moves without reading or writing a version.
LEMMA MovesWatched ==
    ASSUME Inv, Watched, UNCHANGED <<versionVars, job, req>>, NEW w \in Workers, NEW p,
           worker' = [worker EXCEPT ![w] = p], p.pc \notin Commits \cup {"loaded"},
           p.pc \in Busy => p.job = worker[w].job /\ worker[w].pc \in Busy
    PROVE  Watched'
<1>1. /\ worker'[w] = p /\ \A x \in Workers : x # w => worker'[x] = worker[x]
      /\ \A j \in JobIds : Due(j)' => Due(j)
  BY WorkerDue
<1>2. Serial /\ DueWaits /\ LoadedCurrent /\ state' = state /\ artifact' = artifact
  BY DEF Watched, versionVars
<1>3. Serial'
  BY <1>1, <1>2, StillSerial
<1>4. LoadedCurrent'
  BY <1>1, <1>2, LoadedStill DEF Commits
<1>5. QED
  BY <1>1, <1>3, <1>4, QuietWatched

\* A worker changes the status of its job.
LEMMA StatusWatched ==
    ASSUME Inv, Watched, UNCHANGED <<versionVars, req>>, NEW w \in Workers, NEW p, NEW e, NEW k,
           k = worker[w].job, worker[w].pc # "idle",
           worker' = [worker EXCEPT ![w] = p], job' = [job EXCEPT ![k] = e],
           e.kind = job[k].kind, e.v = job[k].v, p.job \in {k, NONE}, p.pc \notin Commits \cup {"loaded"},
           worker[w].pc \notin {"claiming", "failing"} => e.status # "queued" /\ p = IdleWorker
    PROVE  Watched'
<1>1. /\ worker'[w] = p /\ \A x \in Workers : x # w => worker'[x] = worker[x]
      /\ \A x \in Workers : x # w /\ worker[x].pc # "idle" => job'[worker[x].job] = job[worker[x].job]
      /\ \A j \in JobIds : Due(j)' => Due(j) /\ job'[j].v = job[j].v /\ job'[j].kind = job[j].kind
  BY JobDue
<1>2. Serial /\ DueWaits /\ LoadedCurrent /\ state' = state /\ artifact' = artifact
  BY DEF Watched, versionVars
<1>3. ASSUME NEW x \in Workers, worker'[x].pc \in Commits \cup {"loaded"}
      PROVE  worker'[x] = worker[x] /\ job'[worker[x].job] = job[worker[x].job]
  BY <1>1, <1>3 DEF Commits
<1>4. Serial'
  BY <1>2, <1>3, StillSerial
<1>5. LoadedCurrent'
  BY <1>2, <1>3, LoadedStill DEF Commits
<1>6. QED
  BY <1>1, <1>4, <1>5, QuietWatched

\* A worker that only moves on.
LEMMA WorkerGoes ==
    ASSUME Inv, NEW w \in Workers, NEW pc, Worker(w, pc)
    PROVE  \E p : /\ worker' = [worker EXCEPT ![w] = p]
                  /\ p.pc = pc /\ p.job = worker[w].job /\ p.artifact = worker[w].artifact
<1> DEFINE p == [worker[w] EXCEPT !.pc = pc]
<1>1. worker = [x \in Workers |-> worker[x]] /\ worker[w] \in WorkerRecord
  BY DEF Inv, Staff, Held
<1>2. worker' = [worker EXCEPT ![w] = p]
  BY <1>1 DEF Worker
<1>3. p.pc = pc /\ p.job = worker[w].job /\ p.artifact = worker[w].artifact
  BY <1>1 DEF WorkerRecord
<1>4. QED
  BY <1>2, <1>3

LEMMA GoesWatched ==
    ASSUME Inv, Watched, UNCHANGED <<versionVars, job, req>>, NEW w \in Workers, NEW pc, Worker(w, pc),
           pc \notin Commits \cup {"loaded"}, pc \in Busy => worker[w].pc \in Busy
    PROVE  Watched'
<1>1. PICK p : worker' = [worker EXCEPT ![w] = p] /\ p.pc = pc /\ p.job = worker[w].job
  BY WorkerGoes
<1>2. QED
  BY <1>1, MovesWatched

LEMMA IdlesWatched ==
    ASSUME Inv, Watched, UNCHANGED <<versionVars, job, req>>, NEW w \in Workers,
           worker' = [worker EXCEPT ![w] = IdleWorker]
    PROVE  Watched'
<1>1. IdleWorker.pc \notin Commits \cup {"loaded"} /\ IdleWorker.pc \notin Busy
  BY DEF IdleWorker, Commits, Busy, Running, Recovering
<1>2. QED
  BY <1>1, MovesWatched

\* A worker reads the version and goes on to write it.
LEMMA ReadsWatched ==
    ASSUME ~Overlap, MayRead, Inv, Watched, UNCHANGED <<versionVars, job, req>>, NEW w \in Workers,
           NEW pc, Worker(w, pc),
           worker[w].pc = "loaded" /\ pc = "storing" =>
              /\ \A to \in Outcomes(JobOf(w).kind) : <<state[JobOf(w).v], to>> \in LifecycleSteps
              /\ JobOf(w).kind = "remediate" => state[JobOf(w).v + 1] = NONE,
           worker[w].pc = "recover" /\ pc = "recovering" =>
              <<state[JobOf(w).v], RECOVERY[JobOf(w).kind]>> \in LifecycleSteps,
           <<worker[w].pc, pc>> \in {<<"loaded", "storing">>, <<"recover", "recovering">>}
    PROVE  Watched'
<1>1. PICK p : /\ worker' = [worker EXCEPT ![w] = p]
               /\ p.pc = pc /\ p.job = worker[w].job /\ p.artifact = worker[w].artifact
  BY WorkerGoes
<1>2. pc \in Busy /\ worker[w].pc \in Busy
  BY DEF Busy, Running, Recovering
<1>3. /\ worker'[w] = p /\ \A x \in Workers : x # w => worker'[x] = worker[x]
      /\ \A j \in JobIds : Due(j)' => Due(j)
  BY <1>1, <1>2, WorkerDue
<1>4. Serial /\ DueWaits /\ LoadedCurrent /\ state' = state /\ artifact' = artifact
  BY DEF Watched, versionVars
<1>5. ReadWorker(worker[w])'
  BY <1>1, <1>3, <1>4 DEF ReadWorker, JobOf
<1>6. Serial'
  BY <1>3, <1>5, WorkerReads
<1>7. LoadedCurrent'
  BY <1>1, <1>3, <1>4, LoadedStill
<1>8. QED
  BY <1>3, <1>6, <1>7, QuietWatched

\* The steps of a worker that leave the versions alone.
LEMMA WorkersWatched ==
    ASSUME ~Overlap, Inv, Watched, NEW w \in Workers,
           \/ Claim(w) \/ Load(w) \/ StoreRead(w) \/ Raise(w) \/ RecoverRead(w) \/ Crash(w)
    PROVE  Watched'
<1>0. UNCHANGED <<versionVars, job, req>>
  BY DEF Claim, Load, StoreRead, Raise, RecoverRead, Crash, queueVars
<1>00. worker = [x \in Workers |-> worker[x]] /\ worker[w] \in WorkerRecord
  BY DEF Inv, Staff, Held
<1>1. CASE Claim(w)
  <2>1. PICK j : worker' = [worker EXCEPT ![w].pc = "claiming", ![w].job = j]
    BY <1>1 DEF Claim
  <2> DEFINE p == [worker[w] EXCEPT !.pc = "claiming", !.job = j]
  <2>2. worker' = [worker EXCEPT ![w] = p] /\ p.pc = "claiming"
    BY <1>00, <2>1 DEF WorkerRecord
  <2> HIDE DEF p
  <2>3. p.pc \notin Commits \cup {"loaded"} /\ p.pc \notin Busy
    BY <2>2 DEF Commits, Busy, Running, Recovering
  <2>4. QED
    BY <1>0, <2>2, <2>3, MovesWatched
<1>2. CASE Load(w)
  <2>0. worker[w].pc = "load"
    BY <1>2 DEF Load
  <2>1. CASE Worker(w, "failing")
    BY <1>0, <2>0, <2>1, GoesWatched DEF Commits, Busy, Running
  <2>2. CASE worker' = [worker EXCEPT ![w].pc = "loaded", ![w].artifact = artifact[JobOf(w).v]]
    <3> DEFINE p == [worker[w] EXCEPT !.pc = "loaded", !.artifact = artifact[JobOf(w).v]]
    <3>1. /\ worker' = [worker EXCEPT ![w] = p]
          /\ p.pc = "loaded" /\ p.job = worker[w].job /\ p.artifact = artifact[JobOf(w).v]
      BY <1>00, <2>2 DEF WorkerRecord
    <3> HIDE DEF p
    <3>2. p.pc \in Busy /\ worker[w].pc \in Busy
      BY <2>0, <3>1 DEF Busy, Running
    <3>3. /\ worker'[w] = p /\ \A x \in Workers : x # w => worker'[x] = worker[x]
          /\ \A j \in JobIds : Due(j)' => Due(j)
      BY <1>0, <3>1, <3>2, WorkerDue
    <3>4. Serial /\ LoadedCurrent /\ state' = state /\ artifact' = artifact
      BY <1>0 DEF Watched, versionVars
    <3>5. Serial'
      BY <1>0, <3>1, <3>3, <3>4, StillSerial DEF Commits
    <3>6. LoadedCurrent'
      BY <1>0, <3>1, <3>3, <3>4 DEF LoadedCurrent, JobOf
    <3>7. QED
      BY <1>0, <3>3, <3>5, <3>6, QuietWatched
  <2>3. QED
    BY <1>2, <2>1, <2>2 DEF Load
<1>3. CASE StoreRead(w)
  <2>0. worker[w].pc = "loaded" /\ MayRead
    BY <1>3 DEF StoreRead
  <2>1. CASE Worker(w, "failing")
    BY <1>0, <2>0, <2>1, GoesWatched DEF Commits, Busy, Running
  <2>2. CASE /\ Worker(w, "storing")
             /\ \A to \in Outcomes(JobOf(w).kind) : check(state[JobOf(w).v], to, SYSTEM)
             /\ JobOf(w).kind = "remediate" => state[JobOf(w).v + 1] = NONE
    BY <1>0, <2>0, <2>2, CheckedStep, ReadsWatched
  <2>3. QED
    BY <1>3, <2>1, <2>2 DEF StoreRead
<1>4. CASE Raise(w)
  BY <1>0, <1>4, GoesWatched DEF Raise, Commits, Busy, Running
<1>5. CASE RecoverRead(w)
  <2>0. worker[w].pc = "recover" /\ MayRead
    BY <1>5 DEF RecoverRead
  <2>1. CASE worker' = [worker EXCEPT ![w] = IdleWorker]
    BY <1>0, <2>1, IdlesWatched
  <2>2. CASE Worker(w, "recovering") /\ <<state[JobOf(w).v], RECOVERY[JobOf(w).kind]>> \in LifecycleSteps
    BY <1>0, <2>0, <2>2, ReadsWatched
  <2>3. QED
    BY <1>5, <2>1, <2>2 DEF RecoverRead
<1>6. CASE Crash(w)
  BY <1>0, <1>6, IdlesWatched DEF Crash
<1>7. QED
  BY <1>1, <1>2, <1>3, <1>4, <1>5, <1>6

LEMMA StatusesWatched ==
    ASSUME Inv, Watched, NEW w \in Workers, ClaimCommit(w) \/ Finish(w) \/ Fail(w)
    PROVE  Watched'
<1> DEFINE k == worker[w].job
<1>0. UNCHANGED <<versionVars, req>> /\ worker[w].pc \in {"claiming", "finish", "failing"}
  BY DEF ClaimCommit, Finish, Fail
<1>1. k \in JobIds /\ job[k] \in Job
  BY <1>0, JobVersion DEF JobOf
<1>2. /\ worker = [x \in Workers |-> worker[x]] /\ worker[w] \in WorkerRecord
      /\ job = [j \in JobIds |-> job[j]]
  BY DEF Inv, Staff, Held, Queue
<1>3. CASE ClaimCommit(w)
  <2> DEFINE e == [job[k] EXCEPT !.status = "running", !.attempts = @ + 1]
             p == [worker[w] EXCEPT !.pc = "load"]
  <2>1. worker' = [worker EXCEPT ![w] = p] /\ job' = [job EXCEPT ![k] = e] /\ worker[w].pc = "claiming"
    BY <1>2, <1>3 DEF ClaimCommit, Worker
  <2>2. e.kind = job[k].kind /\ e.v = job[k].v /\ p.job = k /\ p.pc = "load"
    BY <1>1, <1>2 DEF Job, WorkerRecord
  <2> HIDE DEF e, p
  <2>3. p.pc \notin Commits \cup {"loaded"} /\ p.job \in {k, NONE}
    BY <2>2 DEF Commits
  <2>4. k = worker[w].job /\ worker[w].pc # "idle"
    BY <1>0
  <2> HIDE DEF k
  <2>5. QED
    BY <1>0, <2>1, <2>2, <2>3, <2>4, StatusWatched
<1>4. ASSUME NEW s, NEW p, job' = [job EXCEPT ![worker[w].job].status = s], worker' = [worker EXCEPT ![w] = p],
             p.job \in {k, NONE}, p.pc \notin Commits \cup {"loaded"},
             worker[w].pc # "failing" => s # "queued" /\ p = IdleWorker, worker[w].pc # "claiming"
      PROVE  Watched'
  <2> DEFINE e == [job[k] EXCEPT !.status = s]
  <2>1. job' = [job EXCEPT ![k] = e]
    BY <1>2, <1>4
  <2>2. e.kind = job[k].kind /\ e.v = job[k].v /\ e.status = s
    BY <1>1 DEF Job
  <2> HIDE DEF e
  <2>3. /\ k = worker[w].job /\ worker[w].pc # "idle" /\ UNCHANGED <<versionVars, req>>
        /\ worker[w].pc \notin {"claiming", "failing"} => e.status # "queued" /\ p = IdleWorker
        /\ worker' = [worker EXCEPT ![w] = p] /\ p.job \in {k, NONE} /\ p.pc \notin Commits \cup {"loaded"}
    BY <1>0, <1>4, <2>2
  <2> HIDE DEF k
  <2>4. QED
    BY <2>1, <2>2, <2>3, StatusWatched
<1>5. IdleWorker.pc \notin Commits \cup {"loaded"} /\ IdleWorker.job = NONE
  BY DEF IdleWorker, Commits
<1>6. CASE Finish(w)
  <2>1. PICK s : /\ worker[w].pc = "finish" /\ worker' = [worker EXCEPT ![w] = IdleWorker]
                 /\ job' = [job EXCEPT ![worker[w].job].status = s] /\ s # "queued"
    BY <1>6 DEF Finish
  <2>2. IdleWorker.job \in {k, NONE}
    BY <1>5
  <2>3. QED
    BY <1>4, <1>5, <2>1, <2>2
<1>7. CASE Fail(w)
  <2>0. PICK s : job' = [job EXCEPT ![worker[w].job].status = s] /\ worker[w].pc = "failing"
    BY <1>7 DEF Fail
  <2>1. CASE worker' = [worker EXCEPT ![w] = IdleWorker]
    BY <1>4, <1>5, <2>0, <2>1
  <2>2. CASE worker' = [worker EXCEPT ![w].pc = "recover"]
    <3>1. PICK p : worker' = [worker EXCEPT ![w] = p] /\ p.pc = "recover" /\ p.job = worker[w].job
      <4>1. Worker(w, "recover")
        BY <2>2 DEF Worker
      <4>2. QED
        BY <4>1, WorkerGoes
    <3>2. p.pc \notin Commits \cup {"loaded"}
      BY <3>1 DEF Commits
    <3>3. QED
      BY <1>4, <2>0, <3>1, <3>2
  <2>3. QED
    BY <1>7, <2>1, <2>2 DEF Fail
<1>8. QED
  BY <1>3, <1>6, <1>7

-----------------------------------------------------------------------------
(* Steps that write versions. *)

\* While one transaction writes there is no other.
LEMMA OnlyWriter ==
    ASSUME Serial
    PROVE  /\ \A w \in Workers : worker[w].pc \in Commits =>
                 /\ \A x \in Workers : x # w => worker[x].pc \notin Commits
                 /\ \A r \in Requests : req[r].pc # "write"
           /\ \A r \in Requests : req[r].pc = "write" =>
                 /\ \A q \in Requests : q # r => req[q].pc # "write"
                 /\ \A w \in Workers : worker[w].pc \notin Commits
BY DEF Serial, Alone, WritingWorkers, WritingRequests, Commits

\* A worker commits: it is no longer due, nor is anything else for its version.
LEMMA OwnDone ==
    ASSUME Inv, Watched, NEW w \in Workers, worker[w].pc \in Commits, NEW p, worker' = [worker EXCEPT ![w] = p],
           p.pc \notin Busy, req' = req
    PROVE  /\ Serial'
           /\ worker'[w] = p /\ \A x \in Workers : x # w => worker'[x] = worker[x]
           /\ \A j \in JobIds : job'[j] = job[j] /\ Due(j)' =>
                 /\ Due(j)
                 /\ JobOf(w).kind \in {"audit", "remediate"} => job[j].v # JobOf(w).v
           /\ JobOf(w).kind \in {"audit", "remediate"} => state[JobOf(w).v] = WaitsIn(JobOf(w).kind)
<1> DEFINE k == worker[w].job
<1>1. worker'[w] = p /\ \A x \in Workers : x # w => worker'[x] = worker[x]
  BY DEF Inv, Staff
<1>2. Serial /\ DueWaits /\ DueOnce
  BY DEF Watched
<1>3. Serial'
  BY <1>1, <1>2, OnlyWriter, NobodyWrites DEF Commits, Busy, Running, Recovering
<1>4. worker[w].pc # "idle" /\ worker[w].pc \in Busy
  BY DEF Commits, Busy, Running, Recovering
<1>5. k \in JobIds /\ k # NONE
  BY <1>4, JobVersion, NoneAssumption DEF JobIds
<1>6. job[k].status # "queued" /\ \A x \in Workers : x # w => worker[x].job # k
  <2>1. Held(worker[w], job, njobs)
    BY DEF Inv, Staff
  <2>2. QED
    BY <1>5, <2>1 DEF Inv, Staff, Held, Commits, Running, Recovering
<1>7. job[k].kind \in {"audit", "remediate"} => Due(k)
  BY <1>4 DEF Due
<1>8. ASSUME NEW j \in JobIds, job'[j] = job[j], Due(j)' PROVE Due(j) /\ j # k
  <2>1. job'[j] = job[j]
    BY <1>8
  <2>2. CASE job[j].status = "queued"
    BY <1>6, <1>8, <2>1, <2>2 DEF Due
  <2>3. CASE job[j].status # "queued"
    <3>1. PICK x \in Workers : worker'[x].job = j /\ worker'[x].pc \in Busy
      BY <1>8, <2>1, <2>3 DEF Due
    <3>2. x # w /\ worker[x].job = j /\ worker[x].pc \in Busy
      BY <1>1, <3>1
    <3>3. QED
      BY <1>6, <1>8, <2>1, <3>2 DEF Due
  <2>4. QED
    BY <2>2, <2>3
<1>9. ASSUME NEW j \in JobIds, job'[j] = job[j], Due(j)', JobOf(w).kind \in {"audit", "remediate"}
      PROVE  job[j].v # JobOf(w).v
  BY <1>2, <1>5, <1>7, <1>8, <1>9 DEF DueOnce, JobOf
<1>10. JobOf(w).kind \in {"audit", "remediate"} => state[JobOf(w).v] = WaitsIn(JobOf(w).kind)
  BY <1>2, <1>5, <1>7 DEF DueWaits, JobOf
<1>11. QED
  BY <1>1, <1>3, <1>8, <1>9, <1>10

LEMMA ParentsFine ==
    ASSUME Inv, SuccessorReplaces, parent' = parent,
           \A x \in Versions : state[x] = "superseded" => state'[x] = "superseded"
    PROVE  SuccessorReplaces'
<1>1. \A x \in Versions : parent[x] # NONE => parent[x] \in Versions
  BY DEF Inv, Tables
<1>2. QED
  BY <1>1 DEF SuccessorReplaces

LEMMA StoreAuditWatched ==
    ASSUME Inv, Watched, NEW w \in Workers, StoreAudit(w)
    PROVE  Watched'
<1> DEFINE v == JobOf(w).v
<1>0. /\ worker[w].pc \in Commits /\ worker[w].pc = "storing" /\ JobOf(w).kind = "audit" /\ req' = req
      /\ job' = job /\ artifact' = artifact /\ parent' = parent
      /\ audited' = [audited EXCEPT ![v] = worker[w].artifact]
  BY DEF StoreAudit, Commits, queueVars
<1>1. PICK bad \in BOOLEAN : /\ risky' = [risky EXCEPT ![v] = bad]
                             /\ state' = [state EXCEPT ![v] = IF bad THEN "findings" ELSE "clean"]
  BY DEF StoreAudit
<1>2. v \in Versions /\ Tables /\ worker[w].job \in JobIds /\ worker[w].job # NONE
  BY <1>0, JobVersion, NoneAssumption DEF Inv, JobIds
<1>3. PICK p : worker' = [worker EXCEPT ![w] = p] /\ p.pc = "finish" /\ p.job = worker[w].job
  BY WorkerGoes DEF StoreAudit
<1>4. p.pc \notin Busy /\ p.pc \notin {"loaded", "storing"}
  BY <1>3 DEF Busy, Recovering
<1>5. /\ Serial'
      /\ worker'[w] = p /\ \A x \in Workers : x # w => worker'[x] = worker[x]
      /\ \A j \in JobIds : Due(j)' => Due(j) /\ job[j].v # v
      /\ state[v] = "auditing"
  <2>1. worker' = [worker EXCEPT ![w] = p] /\ p.pc \notin Busy /\ req' = req /\ worker[w].pc \in Commits
    BY <1>0, <1>3, <1>4
  <2>2. /\ Serial'
        /\ worker'[w] = p /\ \A x \in Workers : x # w => worker'[x] = worker[x]
        /\ \A j \in JobIds : job'[j] = job[j] /\ Due(j)' =>
              /\ Due(j)
              /\ JobOf(w).kind \in {"audit", "remediate"} => job[j].v # JobOf(w).v
        /\ JobOf(w).kind \in {"audit", "remediate"} => state[JobOf(w).v] = WaitsIn(JobOf(w).kind)
    BY <2>1, OwnDone
  <2>3. QED
    BY <1>0, <2>2 DEF WaitsIn
<1>6. /\ \A x \in Versions : x # v => state'[x] = state[x] /\ audited'[x] = audited[x] /\ risky'[x] = risky[x]
      /\ state'[v] = IF bad THEN "findings" ELSE "clean"
      /\ audited'[v] = worker[w].artifact /\ risky'[v] = bad
  BY <1>0, <1>1, <1>2 DEF Tables
<1>7. ASSUME NEW j \in JobIds, Due(j) PROVE job[j].v \in Versions
  BY <1>7 DEF Inv, Queue, Queued, Due, NoJob, Job
<1>8. DueWaits' /\ DueOnce'
  <2>1. DueWaits /\ DueOnce
    BY DEF Watched
  <2>2. ASSUME NEW j \in JobIds, Due(j)'
        PROVE  Due(j) /\ job'[j].v = job[j].v /\ job'[j].kind = job[j].kind /\ state'[job[j].v] = state[job[j].v]
    BY <1>0, <1>5, <1>6, <1>7, <2>2
  <2>3. QED
    BY <2>1, <2>2, DueStill
<1>9. LoadedCurrent'
  <2>1. LoadedCurrent /\ DueWaits
    BY DEF Watched
  <2>2. QED
    BY <1>0, <1>4, <1>5, <2>1, LoadedStill
<1>10. AuditedArtifact'
  <2>1. worker[w].artifact = artifact[v]
    BY <1>0 DEF Watched, LoadedCurrent
  <2>2. QED
    BY <1>0, <1>6, <2>1 DEF Watched, AuditedArtifact, Cleared
<1>11. SuccessorReplaces'
  BY <1>0, <1>5, <1>6, ParentsFine DEF Watched
<1>12. QED
  BY <1>5, <1>8, <1>9, <1>10, <1>11 DEF Watched

LEMMA RecoverWriteWatched ==
    ASSUME Inv, Watched, NEW w \in Workers, RecoverWrite(w)
    PROVE  Watched'
<1> DEFINE v == JobOf(w).v
<1>0. /\ worker[w].pc \in Commits /\ worker[w].pc = "recovering" /\ req' = req
      /\ job' = job /\ UNCHANGED <<artifact, audited, risky, parent>>
      /\ worker' = [worker EXCEPT ![w] = IdleWorker]
      /\ state' = [state EXCEPT ![v] = RECOVERY[JobOf(w).kind]]
  BY DEF RecoverWrite, Commits, queueVars
<1>1. JobOf(w).kind \in {"audit", "remediate"}
  BY <1>0 DEF Inv, Staff, Held, Recovering, JobOf
<1>2. v \in Versions /\ Tables /\ worker[w].job \in JobIds /\ worker[w].job # NONE
  BY <1>0, JobVersion, NoneAssumption DEF Inv, JobIds
<1>4. IdleWorker.pc \notin Busy /\ IdleWorker.pc \notin {"loaded", "storing"}
  BY DEF IdleWorker, Busy, Running, Recovering
<1>5. /\ Serial'
      /\ worker'[w] = IdleWorker /\ \A x \in Workers : x # w => worker'[x] = worker[x]
      /\ \A j \in JobIds : Due(j)' => Due(j) /\ job[j].v # v
      /\ state[v] = WaitsIn(JobOf(w).kind)
  <2>1. worker' = [worker EXCEPT ![w] = IdleWorker] /\ IdleWorker.pc \notin Busy /\ req' = req /\ worker[w].pc \in Commits
    BY <1>0, <1>4
  <2>2. /\ Serial'
        /\ worker'[w] = IdleWorker /\ \A x \in Workers : x # w => worker'[x] = worker[x]
        /\ \A j \in JobIds : job'[j] = job[j] /\ Due(j)' =>
              /\ Due(j)
              /\ JobOf(w).kind \in {"audit", "remediate"} => job[j].v # JobOf(w).v
        /\ JobOf(w).kind \in {"audit", "remediate"} => state[JobOf(w).v] = WaitsIn(JobOf(w).kind)
    BY <2>1, OwnDone
  <2>3. QED
    BY <1>0, <2>2, <1>1
<1>6. /\ \A x \in Versions : x # v => state'[x] = state[x]
      /\ state'[v] \in {"registered", "findings"}
  BY <1>0, <1>1, <1>2 DEF Tables, RECOVERY
<1>7. ASSUME NEW j \in JobIds, Due(j) PROVE job[j].v \in Versions
  BY <1>7 DEF Inv, Queue, Queued, Due, NoJob, Job
<1>8. DueWaits' /\ DueOnce'
  <2>1. DueWaits /\ DueOnce
    BY DEF Watched
  <2>2. ASSUME NEW j \in JobIds, Due(j)'
        PROVE  Due(j) /\ job'[j].v = job[j].v /\ job'[j].kind = job[j].kind /\ state'[job[j].v] = state[job[j].v]
    BY <1>0, <1>5, <1>6, <1>7, <2>2
  <2>3. QED
    BY <2>1, <2>2, DueStill
<1>9. LoadedCurrent'
  <2>1. LoadedCurrent /\ DueWaits
    BY DEF Watched
  <2>2. QED
    BY <1>0, <1>4, <1>5, <2>1, LoadedStill
<1>10. AuditedArtifact'
  BY <1>0, <1>6 DEF Watched, AuditedArtifact, Cleared
<1>11. SuccessorReplaces'
  BY <1>0, <1>5, <1>6, ParentsFine DEF Watched, WaitsIn
<1>12. QED
  BY <1>5, <1>8, <1>9, <1>10, <1>11 DEF Watched

\* The queue after a job was added.
LEMMA NewJob ==
    ASSUME Inv, Inv', NEW kind \in Kinds, NEW v \in Versions, kind = "remediate" => v < MaxVersion,
           job' = Enqueue(job, njobs + 1, kind, v), njobs' = njobs + 1
    PROVE  /\ njobs + 1 \in JobIds
           /\ job'[njobs + 1] = [kind |-> kind, v |-> v, status |-> "queued", attempts |-> 0]
           /\ \A j \in JobIds : j # njobs + 1 => job'[j] = job[j]
           /\ \A x \in Workers : worker[x].pc # "idle" => worker[x].job # njobs + 1 /\ worker[x].job \in JobIds
<1>1. Queue /\ njobs \in Nat /\ njobs + 1 <= MaxJobs /\ njobs + 1 \in JobIds
  BY BoundsAssumption DEF Inv, Queue, JobIds
<1>2. /\ job'[njobs + 1] = [kind |-> kind, v |-> v, status |-> "queued", attempts |-> 0]
      /\ \A j \in JobIds : j # njobs + 1 => job'[j] = job[j]
  BY <1>1, Enqueued
<1>3. \A x \in Workers : worker[x].pc # "idle" => worker[x].job \in 1..njobs /\ worker[x].job \in JobIds
  BY JobVersion
<1>4. QED
  BY <1>1, <1>2, <1>3

\* A training or a remediation is stored with the audit of v.
LEMMA StoredWatched ==
    ASSUME Inv, Inv', Watched, NEW w \in Workers, worker[w].pc = "storing", Worker(w, "finish"),
           NEW v \in Versions, job' = Enqueue(job, njobs + 1, "audit", v), njobs' = njobs + 1, req' = req,
           state[v] \notin {"auditing", "remediating"}, state'[v] = "auditing",
           \A x \in Versions : x # v /\ state'[x] # state[x] =>
              x = JobOf(w).v /\ JobOf(w).kind = "remediate" /\ state'[x] \notin Cleared,
           \A x \in Versions : x # v => artifact'[x] = artifact[x], audited' = audited, risky' = risky
    PROVE  Serial' /\ DueWaits' /\ DueOnce' /\ LoadedCurrent' /\ AuditedArtifact'
<1>2. PICK n : n = njobs + 1
  OBVIOUS
<1>3. /\ n \in JobIds /\ job'[n] = [kind |-> "audit", v |-> v, status |-> "queued", attempts |-> 0]
      /\ \A j \in JobIds : j # n => job'[j] = job[j]
      /\ \A x \in Workers : worker[x].pc # "idle" => worker[x].job # n /\ worker[x].job \in JobIds
  BY <1>2, NewJob DEF Kinds
<1>4. PICK p : worker' = [worker EXCEPT ![w] = p] /\ p.pc = "finish"
  BY WorkerGoes
<1>5. /\ Serial'
      /\ worker'[w] = p /\ \A x \in Workers : x # w => worker'[x] = worker[x]
      /\ \A j \in JobIds : job'[j] = job[j] /\ Due(j)' =>
            /\ Due(j)
            /\ JobOf(w).kind \in {"audit", "remediate"} => job[j].v # JobOf(w).v
  <2>1. worker' = [worker EXCEPT ![w] = p] /\ p.pc \notin Busy /\ worker[w].pc \in Commits
    BY <1>4 DEF Commits, Busy, Recovering
  <2>2. QED
    BY <2>1, OwnDone
<1>6. DueWaits /\ DueOnce /\ LoadedCurrent /\ AuditedArtifact
  BY DEF Watched
<1>7. DueWaits' /\ DueOnce'
  <2>1. ASSUME NEW j \in JobIds, Due(j)', j # n
        PROVE  Due(j) /\ job'[j].v = job[j].v /\ job'[j].kind = job[j].kind /\ state'[job[j].v] = state[job[j].v]
    <3>1. Due(j) /\ job'[j] = job[j] /\ (JobOf(w).kind = "remediate" => job[j].v # JobOf(w).v)
      BY <1>3, <1>5, <2>1
    <3>2. job[j].v \in Versions
      BY <3>1 DEF Inv, Queue, Queued, Due, NoJob, Job
    <3>3. job[j].v # v
      BY <1>6, <3>1 DEF DueWaits, WaitsIn
    <3>4. QED
      BY <3>1, <3>2, <3>3
  <2>2. job'[n].v = v /\ state'[v] = WaitsIn(job'[n].kind)
    BY <1>3 DEF WaitsIn
  <2>3. QED
    BY <1>6, <2>1, <2>2, DueStill
<1>8. LoadedCurrent'
  <2>1. \A x \in Versions : state[x] = "auditing" => artifact'[x] = artifact[x]
    OBVIOUS
  <2>2. ASSUME NEW x \in Workers, worker'[x].pc \in {"loaded", "storing"}
        PROVE  /\ worker[x].pc \in {"loaded", "storing"} /\ worker'[x].job = worker[x].job
               /\ worker'[x].artifact = worker[x].artifact /\ job'[worker[x].job] = job[worker[x].job]
    <3>1. x # w /\ worker'[x] = worker[x]
      BY <1>4, <1>5, <2>2
    <3>2. QED
      BY <1>3, <2>2, <3>1
  <2>3. QED
    BY <1>6, <2>1, <2>2, LoadedStill
<1>9. AuditedArtifact'
  BY <1>6 DEF AuditedArtifact, Cleared
<1>10. QED
  BY <1>5, <1>7, <1>8, <1>9

LEMMA StoreTrainingWatched ==
    ASSUME Inv, Watched, NEW w \in Workers, StoreTraining(w)
    PROVE  Watched'
<1> DEFINE v == JobOf(w).v
<1>0. /\ worker[w].pc = "storing" /\ JobOf(w).kind = "train" /\ Worker(w, "finish")
      /\ artifact' = [artifact EXCEPT ![v] = @ + 1] /\ state' = [state EXCEPT ![v] = "auditing"]
      /\ job' = Enqueue(job, njobs + 1, "audit", v) /\ njobs' = njobs + 1
      /\ audited' = audited /\ risky' = risky /\ parent' = parent /\ req' = req
  BY DEF StoreTraining
<1>1. v \in Versions /\ Inv'
  BY <1>0, JobVersion, StoreTrainingKeeps
<1>2. state[v] \in {"registered", "clean", "findings"}
  <2>1. <<state[v], "auditing">> \in LifecycleSteps
    BY <1>0 DEF Watched, Serial, ReadWorker, Outcomes, JobOf
  <2>2. QED
    BY <2>1, StepFacts
<1>3. /\ state'[v] = "auditing"
      /\ \A x \in Versions : x # v => state'[x] = state[x] /\ artifact'[x] = artifact[x]
  BY <1>0, <1>1 DEF Inv, Tables
<1>4. Serial' /\ DueWaits' /\ DueOnce' /\ LoadedCurrent' /\ AuditedArtifact'
  BY <1>0, <1>1, <1>2, <1>3, StoredWatched
<1>5. SuccessorReplaces'
  BY <1>0, <1>2, <1>3, ParentsFine DEF Watched
<1>6. QED
  BY <1>4, <1>5 DEF Watched

LEMMA StoreRemediationWatched ==
    ASSUME Inv, Watched, NEW w \in Workers, StoreRemediation(w)
    PROVE  Watched'
<1> DEFINE v == JobOf(w).v
<1>0. worker[w].pc = "storing" /\ JobOf(w).kind = "remediate" /\ req' = req
  BY DEF StoreRemediation
<1>1. v \in Versions /\ v + 1 \in Versions /\ v + 1 # v /\ Inv'
  BY <1>0, JobVersion, StoreRemediationKeeps
<1>2. CASE state[v + 1] # NONE
  <2>1. Worker(w, "failing") /\ UNCHANGED <<versionVars, job, req>>
    BY <1>2 DEF StoreRemediation, queueVars
  <2>2. QED
    BY <1>0, <2>1, GoesWatched DEF Commits, Busy, Running
<1>3. CASE state[v + 1] = NONE
  <2>1. /\ state' = [state EXCEPT ![v] = "superseded", ![v + 1] = "auditing"]
        /\ artifact' = [artifact EXCEPT ![v + 1] = 1] /\ parent' = [parent EXCEPT ![v + 1] = v]
        /\ job' = Enqueue(job, njobs + 1, "audit", v + 1) /\ njobs' = njobs + 1
        /\ Worker(w, "finish") /\ audited' = audited /\ risky' = risky
    BY <1>3 DEF StoreRemediation
  <2>2. /\ state'[v] = "superseded" /\ state'[v + 1] = "auditing" /\ parent'[v + 1] = v
        /\ \A x \in Versions : x # v /\ x # v + 1 => state'[x] = state[x]
        /\ \A x \in Versions : x # v + 1 => artifact'[x] = artifact[x] /\ parent'[x] = parent[x]
    BY <1>1, <2>1 DEF Inv, Tables
  <2>3. NONE \notin {"auditing", "remediating", "superseded"}
    BY NoneAssumption DEF States
  <2>4. Serial' /\ DueWaits' /\ DueOnce' /\ LoadedCurrent' /\ AuditedArtifact'
    <3>1. PICK s : s = v + 1
      OBVIOUS
    <3>2. /\ s \in Versions /\ state[s] \notin {"auditing", "remediating"} /\ state'[s] = "auditing"
          /\ job' = Enqueue(job, njobs + 1, "audit", s)
      BY <1>1, <1>3, <2>1, <2>2, <2>3, <3>1
    <3>3. \A x \in Versions : x # s /\ state'[x] # state[x] =>
              x = JobOf(w).v /\ JobOf(w).kind = "remediate" /\ state'[x] \notin Cleared
      BY <1>0, <2>2, <3>1 DEF Cleared
    <3>4. \A x \in Versions : x # s => artifact'[x] = artifact[x]
      BY <2>2, <3>1
    <3>5. worker[w].pc = "storing" /\ Worker(w, "finish") /\ njobs' = njobs + 1 /\ req' = req
          /\ audited' = audited /\ risky' = risky
      BY <1>0, <2>1
    <3>6. QED
      BY <1>1, <3>2, <3>3, <3>4, <3>5, StoredWatched
  <2>5. SuccessorReplaces'
    <3>1. ASSUME NEW x \in Versions, parent'[x] # NONE PROVE state'[parent'[x]] = "superseded"
      <4>1. CASE x = v + 1
        BY <2>2, <4>1
      <4>2. CASE x # v + 1
        <5>1. parent'[x] = parent[x] /\ state[parent[x]] = "superseded" /\ parent[x] \in Versions
          BY <2>2, <3>1, <4>2 DEF Watched, SuccessorReplaces, Inv, Tables
        <5>2. QED
          BY <1>3, <2>2, <2>3, <5>1
      <4>3. QED
        BY <4>1, <4>2
    <3>2. QED
      BY <3>1 DEF SuccessorReplaces
  <2>6. QED
    BY <2>4, <2>5 DEF Watched
<1>4. QED
  BY <1>2, <1>3

\* A request reads the version it will write.
LEMMA BeginWatched ==
    ASSUME ~Overlap, MayRead, Inv, Watched, NEW r \in Requests, NEW q, ReadRequest(q),
           req' = [req EXCEPT ![r] = q], UNCHANGED <<versionVars, queueVars, worker>>
    PROVE  Watched'
<1>1. req'[r] = q /\ \A x \in Requests : x # r => req'[x] = req[x]
  BY DEF Inv, Asks
<1>2. state' = state /\ artifact' = artifact /\ job' = job /\ worker' = worker
  BY DEF versionVars, queueVars
<1>3. ReadRequest(req[r])'
  BY <1>1, <1>2 DEF ReadRequest
<1>4. Serial'
  BY <1>1, <1>3, RequestReads
<1>5. LoadedCurrent' /\ \A j \in JobIds : Due(j)' => Due(j)
  BY <1>2 DEF Watched, LoadedCurrent, JobOf, Due
<1>6. QED
  BY <1>2, <1>4, <1>5, QuietWatched

LEMMA BeginsWatched ==
    ASSUME ~Overlap, Inv, Watched, NEW r \in Requests,
           RegisterVersion(r) \/ StartAudit(r) \/ StartRemediation(r) \/ Transition(r)
    PROVE  Watched'
<1>1. ASSUME NEW op, NEW v, NEW to, Begin(r, op, v, to),
             ReadRequest([pc |-> "write", op |-> op, v |-> v, to |-> to])
      PROVE  Watched'
  <2>1. PICK q : q = [pc |-> "write", op |-> op, v |-> v, to |-> to]
    OBVIOUS
  <2>2. MayRead /\ ReadRequest(q) /\ req' = [req EXCEPT ![r] = q] /\ UNCHANGED <<versionVars, queueVars, worker>>
    BY <1>1, <2>1 DEF Begin
  <2>3. QED
    BY <2>2, BeginWatched
<1>2. CASE RegisterVersion(r)
  <2>1. PICK v \in Versions, op \in {"register", "train"} : state[v] = NONE /\ Begin(r, op, v, "registered")
    BY <1>2 DEF RegisterVersion
  <2>2. PICK to : to = "registered"
    OBVIOUS
  <2>3. ReadRequest([pc |-> "write", op |-> op, v |-> v, to |-> to]) /\ Begin(r, op, v, to)
    BY <2>1, <2>2 DEF ReadRequest
  <2>4. QED
    BY <1>1, <2>3
<1>3. ASSUME NEW op, NEW v \in Versions, NEW to, NEW role \in Callers, check(state[v], to, role),
             Begin(r, op, v, to), op = "audit" => to = "auditing", op = "remediate" => to = "remediating"
      PROVE  Watched'
  <2>1. /\ <<state[v], to>> \in LifecycleSteps /\ state[v] \notin {"auditing", "remediating"}
        /\ to \in Cleared => state[v] \in Cleared
    BY <1>3, PersonStep
  <2>2. ReadRequest([pc |-> "write", op |-> op, v |-> v, to |-> to])
    BY <1>3, <2>1 DEF ReadRequest
  <2>3. QED
    BY <1>1, <1>3, <2>2
<1>4. CASE StartAudit(r)
  <2>1. PICK op, to : op = "audit" /\ to = "auditing"
    OBVIOUS
  <2>2. PICK v \in Versions, role \in Callers : check(state[v], to, role) /\ Begin(r, op, v, to)
    BY <1>4, <2>1 DEF StartAudit
  <2>3. QED
    BY <1>3, <2>1, <2>2
<1>5. CASE StartRemediation(r)
  <2>1. PICK op, to : op = "remediate" /\ to = "remediating"
    OBVIOUS
  <2>2. PICK v \in Versions, role \in Callers : check(state[v], to, role) /\ Begin(r, op, v, to)
    BY <1>5, <2>1 DEF StartRemediation
  <2>3. QED
    BY <1>3, <2>1, <2>2
<1>6. CASE Transition(r)
  <2>1. PICK op : op = "transition"
    OBVIOUS
  <2>2. PICK v \in Versions, to \in Targets, role \in Callers : check(state[v], to, role) /\ Begin(r, op, v, to)
    BY <1>6, <2>1 DEF Transition
  <2>3. QED
    BY <1>3, <2>1, <2>2
<1>7. QED
  BY <1>2, <1>4, <1>5, <1>6

\* A request ends without writing a version.
LEMMA EndsWatched ==
    ASSUME Inv, Watched, NEW r \in Requests, req' = [req EXCEPT ![r] = IdleRequest],
           UNCHANGED <<versionVars, queueVars, worker>>
    PROVE  Watched'
<1>1. req'[r] = IdleRequest /\ \A x \in Requests : x # r => req'[x] = req[x]
  BY DEF Inv, Asks
<1>2. state' = state /\ artifact' = artifact /\ job' = job /\ worker' = worker
  BY DEF versionVars, queueVars
<1>3. \A x \in Requests : req'[x].pc = "write" => req'[x] = req[x]
  BY <1>1 DEF IdleRequest
<1>4. Serial'
  BY <1>2, <1>3, StillSerial DEF Watched
<1>5. LoadedCurrent' /\ \A j \in JobIds : Due(j)' => Due(j)
  BY <1>2 DEF Watched, LoadedCurrent, JobOf, Due
<1>6. QED
  BY <1>2, <1>4, <1>5, QuietWatched

LEMMA WriteRequestWatched ==
    ASSUME Inv, Watched, NEW r \in Requests, WriteRequest(r)
    PROVE  Watched'
<1> DEFINE q == req[r]
           v == q.v
           n == njobs + 1
           duplicate == q.to = "registered" /\ state[v] # NONE
<1>0. /\ q.pc = "write" /\ req' = [req EXCEPT ![r] = IdleRequest] /\ worker' = worker
      /\ v \in Versions /\ Inv'
  <2>1. q.pc = "write" /\ Asked(q)
    BY DEF WriteRequest, Inv, Asks
  <2>2. QED
    BY <2>1, WriteRequestKeeps DEF WriteRequest, Asked
<1>1. CASE duplicate
  BY <1>0, <1>1, EndsWatched DEF WriteRequest
<1>2. CASE ~duplicate
  <2>1. /\ state' = [state EXCEPT ![v] = q.to]
        /\ artifact' = artifact /\ audited' = audited /\ risky' = risky /\ parent' = parent
        /\ q.op \in Kinds => job' = Enqueue(job, n, q.op, v) /\ njobs' = n
        /\ q.op \notin Kinds => job' = job
    BY <1>2 DEF WriteRequest, queueVars
  <2>2. state'[v] = q.to /\ \A x \in Versions : x # v => state'[x] = state[x]
    BY <1>0, <2>1 DEF Inv, Tables
  <2>3. NONE \notin {"auditing", "remediating", "superseded"}
    BY NoneAssumption DEF States
  <2>4. /\ state[v] \notin {"auditing", "remediating", "superseded"}
        /\ q.to \in Cleared => state[v] \in Cleared
        /\ q.op \in {"audit", "remediate"} => q.to = WaitsIn(q.op)
    <3>1. ReadRequest(q)
      BY DEF Watched, Serial
    <3>2. CASE q.op \in {"register", "train"} /\ q.to = "registered" /\ state[v] = NONE
      BY <2>3, <3>2 DEF Cleared
    <3>3. CASE /\ <<state[v], q.to>> \in LifecycleSteps /\ state[v] \notin {"auditing", "remediating"}
               /\ q.to \in Cleared => state[v] \in Cleared
               /\ q.op = "audit" => q.to = "auditing"
               /\ q.op = "remediate" => q.to = "remediating"
      <4>1. state[v] # "superseded"
        BY <3>3, StepFacts
      <4>2. QED
        BY <3>3, <4>1 DEF WaitsIn
    <3>4. QED
      BY <1>0, <3>1, <3>2, <3>3 DEF ReadRequest
  <2>5. /\ \A j \in JobIds : job'[j] = job[j] \/ (j = n /\ job'[j].v = v /\ job'[j].kind = q.op)
        /\ \A x \in Workers : worker[x].pc # "idle" => job'[worker[x].job] = job[worker[x].job]
    <3>1. CASE q.op \notin Kinds
      BY <2>1, <3>1
    <3>2. CASE q.op \in Kinds
      <4>1. q.op = "remediate" => v < MaxVersion
        BY DEF Inv, Asks, Asked
      <4>2. /\ job'[n] = [kind |-> q.op, v |-> v, status |-> "queued", attempts |-> 0]
            /\ \A j \in JobIds : j # n => job'[j] = job[j]
            /\ \A x \in Workers : worker[x].pc # "idle" => worker[x].job # n /\ worker[x].job \in JobIds
        BY <1>0, <2>1, <3>2, <4>1, NewJob
      <4>3. QED
        BY <4>2
    <3>3. QED
      BY <3>1, <3>2
  <2>6. Serial /\ DueWaits /\ DueOnce /\ LoadedCurrent /\ AuditedArtifact
    BY DEF Watched
  <2>7. Serial'
    <3>1. /\ \A x \in Requests : x # r => req[x].pc # "write"
          /\ \A w \in Workers : worker[w].pc \notin Commits
      BY <1>0, <2>6, OnlyWriter
    <3>2. req'[r] = IdleRequest /\ \A x \in Requests : x # r => req'[x] = req[x]
      BY <1>0 DEF Inv, Asks
    <3>3. \A x \in Requests : req'[x].pc # "write"
      BY <3>1, <3>2 DEF IdleRequest
    <3>4. QED
      BY <1>0, <3>1, <3>3, NobodyWrites
  <2>8. DueWaits' /\ DueOnce'
    <3>1. ASSUME NEW j \in JobIds, Due(j)', job'[j] = job[j]
          PROVE  Due(j) /\ job'[j].v = job[j].v /\ job'[j].kind = job[j].kind /\ state'[job[j].v] = state[job[j].v]
      <4>1. Due(j)
        BY <1>0, <3>1 DEF Due
      <4>2. job[j].v \in Versions
        BY <4>1 DEF Inv, Queue, Queued, Due, NoJob, Job
      <4>3. job[j].v # v
        BY <2>4, <2>6, <4>1 DEF DueWaits, WaitsIn
      <4>4. QED
        BY <2>2, <3>1, <4>1, <4>2, <4>3
    <3>2. ASSUME NEW j \in JobIds, Due(j)', job'[j] # job[j]
          PROVE  /\ j = n /\ job'[j].v = v /\ state[v] \notin {"auditing", "remediating"}
                 /\ state'[v] = WaitsIn(job'[j].kind)
      <4>1. j = n /\ job'[j].v = v /\ job'[j].kind = q.op
        BY <2>5, <3>2
      <4>2. q.op \in {"audit", "remediate"}
        BY <3>2, <4>1 DEF Due
      <4>3. QED
        BY <2>2, <2>4, <4>1, <4>2
    <3> HIDE DEF n, v
    <3>3. QED
      BY <2>6, <3>1, <3>2, DueStill
  <2>9. LoadedCurrent'
    BY <1>0, <2>1, <2>5, <2>6, LoadedStill
  <2>10. AuditedArtifact'
    BY <2>1, <2>2, <2>4, <2>6 DEF AuditedArtifact
  <2>11. SuccessorReplaces'
    BY <2>1, <2>2, <2>4, ParentsFine DEF Watched
  <2>12. QED
    BY <2>7, <2>8, <2>9, <2>10, <2>11 DEF Watched
<1>3. QED
  BY <1>1, <1>2

-----------------------------------------------------------------------------
LEMMA InitWatched == Init => Watched
<1> SUFFICES ASSUME Init PROVE Watched
  OBVIOUS
<1>1. /\ \A w \in Workers : worker[w] = IdleWorker
      /\ \A r \in Requests : req[r] = IdleRequest
      /\ \A j \in JobIds : job[j] = NoJob
      /\ \A v \in Versions : state[v] = NONE /\ parent[v] = NONE
  BY DEF Init
<1>2. /\ IdleWorker.pc \notin {"loaded", "storing", "recovering"} /\ IdleRequest.pc # "write"
      /\ NoJob.kind \notin {"audit", "remediate"} /\ NONE \notin Cleared
  BY NoneAssumption DEF IdleWorker, IdleRequest, NoJob, Cleared, States
<1>3. Serial
  BY <1>1, <1>2 DEF Serial, Alone, WritingWorkers, WritingRequests, ReadRequest, ReadWorker
<1>4. \A j \in JobIds : ~Due(j)
  BY <1>1, <1>2 DEF Due
<1>5. LoadedCurrent
  BY <1>1, <1>2 DEF LoadedCurrent
<1>6. AuditedArtifact /\ SuccessorReplaces
  BY <1>1, <1>2 DEF AuditedArtifact, SuccessorReplaces
<1>7. QED
  BY <1>3, <1>4, <1>5, <1>6 DEF Watched, DueWaits, DueOnce

LEMMA NextWatched ==
    ASSUME ~Overlap, Inv, Watched, [Next]_vars
    PROVE  Watched'
<1>1. ASSUME NEW w \in Workers, RunOnce(w) \/ Raise(w) \/ Crash(w) PROVE Watched'
  BY <1>1, WorkersWatched, StatusesWatched, StoreTrainingWatched, StoreAuditWatched, StoreRemediationWatched,
     RecoverWriteWatched
  DEF RunOnce, Store
<1>2. ASSUME NEW r \in Requests, WriteRequest(r) \/ RequestFails(r) PROVE Watched'
  BY <1>2, WriteRequestWatched, EndsWatched DEF RequestFails
<1>3. ASSUME NEW r \in Requests, RegisterVersion(r) \/ StartAudit(r) \/ StartRemediation(r) \/ Transition(r)
      PROVE  Watched'
  BY <1>3, BeginsWatched
<1>4. CASE UNCHANGED vars
  <2>1. UNCHANGED versionVars /\ state' = state /\ artifact' = artifact /\ job' = job /\ worker' = worker /\ req' = req
    BY <1>4 DEF vars, versionVars, queueVars
  <2>2. Serial'
    BY <2>1, StillSerial DEF Watched
  <2>3. LoadedCurrent' /\ \A j \in JobIds : Due(j)' => Due(j)
    BY <2>1 DEF Watched, LoadedCurrent, JobOf, Due
  <2>4. QED
    BY <2>1, <2>2, <2>3, QuietWatched
<1>5. QED
  BY <1>1, <1>2, <1>3, <1>4 DEF Next

LEMMA AlwaysWatched ==
    ASSUME ~Overlap
    PROVE  Spec => [](Inv /\ Watched)
<1>1. Init => Inv /\ Watched
  BY InitInv, InitWatched
<1>2. Inv /\ Watched /\ [Next]_vars => (Inv /\ Watched)'
  BY NextKeeps, NextWatched
<1>3. QED
  BY <1>1, <1>2, PTL DEF Spec

\* Transactions that do not overlap: whatever crashes, fails and is retried, a
\* version that is cleared has a passing audit of the checkpoint it serves.
THEOREM Audited ==
    ASSUME ~Overlap
    PROVE  Spec => []AuditedArtifact
<1>1. Watched => AuditedArtifact
  BY DEF Watched
<1>2. QED
  BY <1>1, AlwaysWatched, PTL

\* Likewise: a version that was remediated is superseded, and stays so.
THEOREM Replaces ==
    ASSUME ~Overlap
    PROVE  Spec => []SuccessorReplaces
<1>1. Watched => SuccessorReplaces
  BY DEF Watched
<1>2. QED
  BY <1>1, AlwaysWatched, PTL

-----------------------------------------------------------------------------
(* Pipeline implements the lifecycle. *)

LEMMA SameLifecycle == Promise!LifecycleSteps = LifecycleSteps /\ Promise!States = States
BY DEF Promise!LifecycleSteps, Promise!TRANSITIONS, Promise!KILLABLE, Promise!SYSTEM_ONLY, Promise!States,
       LifecycleSteps, TRANSITIONS, KILLABLE, SYSTEM_ONLY, States

\* A state that changes takes a step of the lifecycle, or is that of a version
\* that was not registered.
LEMMA StateSteps ==
    ASSUME Inv, Watched, Next, NEW v \in Versions, state'[v] # state[v]
    PROVE  \/ <<state[v], state'[v]>> \in LifecycleSteps
           \/ state[v] = NONE /\ state'[v] \in {"registered", "auditing"}
<1> DEFINE Step == \/ <<state[v], state'[v]>> \in LifecycleSteps
                   \/ state[v] = NONE /\ state'[v] \in {"registered", "auditing"}
<1>0. /\ state \in [Versions -> States \cup {NONE}] /\ \A w \in Workers : ReadWorker(worker[w])
      /\ \A r \in Requests : ReadRequest(req[r])
  BY DEF Inv, Tables, Watched, Serial
<1>1. ASSUME NEW r \in Requests, WriteRequest(r) PROVE Step
  <2>1. req[r].v = v /\ req[r].to = state'[v] /\ req[r].pc = "write"
    BY <1>0, <1>1 DEF WriteRequest, versionVars
  <2>2. ReadRequest(req[r])
    BY <1>0
  <2>3. QED
    BY <2>1, <2>2 DEF ReadRequest
<1>2. ASSUME NEW w \in Workers, StoreTraining(w) PROVE Step
  <2>1. v = JobOf(w).v /\ state'[v] = "auditing" /\ worker[w].pc = "storing" /\ JobOf(w).kind = "train"
    BY <1>0, <1>2 DEF StoreTraining
  <2>2. QED
    BY <1>0, <2>1 DEF ReadWorker, Outcomes, JobOf
<1>3. ASSUME NEW w \in Workers, StoreAudit(w) PROVE Step
  <2>1. /\ v = JobOf(w).v /\ state'[v] \in {"findings", "clean"}
        /\ worker[w].pc = "storing" /\ JobOf(w).kind = "audit"
    BY <1>0, <1>3 DEF StoreAudit
  <2>2. QED
    BY <1>0, <2>1 DEF ReadWorker, Outcomes, JobOf
<1>4. ASSUME NEW w \in Workers, StoreRemediation(w) PROVE Step
  <2>1. worker[w].pc = "storing" /\ JobOf(w).kind = "remediate" /\ state[JobOf(w).v + 1] = NONE
    BY <1>4 DEF StoreRemediation, versionVars
  <2>2. CASE v = JobOf(w).v + 1
    BY <1>0, <1>4, <2>1, <2>2 DEF StoreRemediation
  <2>3. CASE v # JobOf(w).v + 1
    <3>1. v = JobOf(w).v /\ state'[v] = "superseded"
      BY <1>0, <1>4, <2>1, <2>3 DEF StoreRemediation
    <3>2. QED
      BY <1>0, <2>1, <3>1 DEF ReadWorker, Outcomes, JobOf
  <2>4. QED
    BY <2>2, <2>3
<1>5. ASSUME NEW w \in Workers, RecoverWrite(w) PROVE Step
  <2>1. v = JobOf(w).v /\ state'[v] = RECOVERY[JobOf(w).kind] /\ worker[w].pc = "recovering"
    BY <1>0, <1>5 DEF RecoverWrite
  <2>2. QED
    BY <1>0, <2>1 DEF ReadWorker, JobOf
<1>6. ASSUME NEW w \in Workers,
             \/ Claim(w) \/ ClaimCommit(w) \/ Load(w) \/ StoreRead(w) \/ Finish(w) \/ Fail(w)
             \/ RecoverRead(w) \/ Raise(w) \/ Crash(w)
      PROVE  FALSE
  BY <1>6 DEF Claim, ClaimCommit, Load, StoreRead, Finish, Fail, RecoverRead, Raise, Crash, versionVars
<1>7. ASSUME NEW r \in Requests,
             \/ RegisterVersion(r) \/ StartAudit(r) \/ StartRemediation(r) \/ Transition(r) \/ RequestFails(r)
      PROVE  FALSE
  BY <1>7 DEF RegisterVersion, StartAudit, StartRemediation, Transition, RequestFails, Begin, versionVars
<1> HIDE DEF Step
<1>8. Step
  BY <1>1, <1>2, <1>3, <1>4, <1>5, <1>6, <1>7 DEF Next, RunOnce, Store
<1>9. QED
  BY <1>8 DEF Step

\* Transactions that do not overlap: every step of the pipeline is a step of the
\* lifecycle for the versions that it moves, and none for the others.
THEOREM Implements ==
    ASSUME ~Overlap
    PROVE  Spec => ImplementsLifecycle
<1>1. Init => Promise!Init
  <2> SUFFICES ASSUME Init PROVE Promise!Init
    OBVIOUS
  <2>1. PICK first \in SUBSET Versions : first = {}
    OBVIOUS
  <2>2. state = [v \in Versions |-> IF v \in first THEN "registered" ELSE NONE]
    BY <2>1 DEF Init
  <2>3. \E f \in SUBSET Versions : state = [v \in Versions |-> IF v \in f THEN "registered" ELSE NONE]
    BY <2>2, Zenon
  <2>4. QED
    BY <2>3, Zenon DEF Promise!Init
<1>2. ASSUME Inv, Inv', Watched, Next PROVE Promise!Next
  <2>0. state \in [Versions -> States \cup {NONE}] /\ state' \in [Versions -> States \cup {NONE}]
    BY <1>2 DEF Inv, Tables
  <2> DEFINE moved == {v \in Versions : state'[v] # state[v]}
             new == [v \in moved |-> state'[v]]
  <2>1. ASSUME NEW v \in moved PROVE Promise!MayBecome(state[v], state'[v]) /\ state'[v] \in States
    <3>1. \/ <<state[v], state'[v]>> \in LifecycleSteps
          \/ state[v] = NONE /\ state'[v] \in {"registered", "auditing"}
      BY <1>2, <2>1, StateSteps
    <3>2. state'[v] \in States
      BY <3>1, StepFacts DEF States
    <3>3. QED
      BY <3>1, <3>2, SameLifecycle DEF Promise!MayBecome
  <2>2. moved \in SUBSET Versions /\ new \in [moved -> Promise!States]
    BY <2>1, SameLifecycle
  <2>3. \A v \in moved : Promise!MayBecome(state[v], new[v])
    BY <2>1
  <2>4. state' = [v \in Versions |-> IF v \in moved THEN new[v] ELSE state[v]]
    BY <2>0
  <2> HIDE DEF moved, new
  <2>5. QED
    BY <2>2, <2>3, <2>4 DEF Promise!Next
<1>3. Inv /\ Inv' /\ Watched /\ [Next]_vars => [Promise!Next]_state
  BY <1>2 DEF vars, versionVars
<1>4. QED
  BY <1>1, <1>3, AlwaysWatched, PTL DEF Spec, ImplementsLifecycle, Promise!Spec
=============================================================================
