--------------------------- MODULE ReleaseProofs ----------------------------
(***************************************************************************)
(* Theorems about Release, for any versions, any number of requests in     *)
(* flight, overlapping or not, any operations and any targets.             *)
(*                                                                         *)
(* ConsumerWasApproved is not inductive: a request carries a decision made *)
(* in an earlier transaction, so the invariant has to say what is known of *)
(* every request at every point.  A state that may serve consumers, a      *)
(* write of released that is still to come and a consumer deployment whose *)
(* row lock is held all go back to an approval.                            *)
(***************************************************************************)
EXTENDS Release, WellFoundedInduction, TLAPS

Request == [pc : PCs, v : Versions \cup {NONE}, from : States \cup {"none"},
            to : States \cup {"none"}, env : Environments \cup {"none"}, then : {"idle", "write"},
            at : 0..MaxDeploys, rows : SUBSET Stamps]

\* What a request in flight may count on, given the deployments d.
WellFormed(q, d) ==
    /\ q.pc # "idle" => q.v \in Versions
    /\ q.pc = "write" \/ q.then = "write" => /\ q.from \in States /\ q.to \in States
                                             /\ <<q.from, q.to>> \in LifecycleSteps
    /\ q.then = "write" => q.pc # "write"
    /\ q.pc \in {"deploy", "lock", "snapshot", "update", "commit"} => q.env \in Environments
    /\ q.pc \in {"lock", "snapshot", "update", "commit", "rollback"} => q.at \in Stamps
    /\ q.pc \in {"update", "commit", "rollback"} => \A n \in q.rows : d[n] \in Deployment
    /\ q.pc = "rollback" => d[q.at] \in Deployment

\* A request that will write released, or that deploys to consumers and has
\* passed the control plane's check, is about a version approved before.
Granted(q, a) ==
    /\ (q.pc = "write" \/ q.then = "write") /\ q.to = "released" => q.v \in a
    /\ q.pc \in {"snapshot", "update", "commit"} /\ q.env = "consumer" => q.v \in a

Tables ==
    /\ state \in [Versions -> States]
    /\ leaks \in [Versions -> BOOLEAN]
    /\ dep \in [Stamps -> Deployment \cup {NoDep}]
    /\ clock \in 0..MaxDeploys
    /\ approved \subseteq Versions /\ restored \subseteq Stamps /\ unseen \subseteq Stamps

StatesApproved == \A v \in Versions : state[v] \in consumerStates => v \in approved

Inv ==
    /\ Tables
    /\ req \in [Requests -> Request]
    /\ \A r \in Requests : WellFormed(req[r], dep) /\ Granted(req[r], approved)
    /\ StatesApproved
    /\ ConsumerWasApproved

-----------------------------------------------------------------------------
(* Facts about the lifecycle's table and about deployments. *)

\* Only an approved version is ever released; every step leads to a state.
LEMMA StepsIntoStates ==
    \A t \in TRANSITIONS : t[1] \in States /\ t[2] \in States /\ (t[2] = "released" => t[1] = "approved")
BY DEF TRANSITIONS, States, KILLABLE

\* lifecycle.check says the same of whoever asks.
LEMMA CheckedStep ==
    ASSUME NEW from, NEW to, NEW who, check(from, to, who)
    PROVE  /\ <<from, to>> \in LifecycleSteps /\ from \in States /\ to \in States
           /\ to = "released" => from = "approved"
<1>1. PICK t \in TRANSITIONS : <<from, to>> = <<t[1], t[2]>>
  BY DEF check
<1>2. <<from, to>> \in LifecycleSteps
  BY <1>1 DEF LifecycleSteps
<1>3. QED
  BY <1>1, <1>2, StepsIntoStates

\* A set of times that is not empty has a newest one.
LEMMA NewestIsIn ==
    ASSUME NEW ns \in SUBSET Stamps, ns # {}
    PROVE  Newest(ns) \in ns
<1> DEFINE ages == {MaxDeploys - n : n \in ns}
           less == {p \in Nat \X Nat : p[1] < p[2]}
<1>0. \A n \in ns : n \in Int /\ 1 <= n /\ n <= MaxDeploys
  BY MaxDeploysAssumption DEF Stamps
<1>1. ages \in SUBSET Nat /\ ages # {}
  BY <1>0, MaxDeploysAssumption
<1>2. PICK a \in ages : \A b \in ages : a <= b
  <2>1. IsWellFoundedOn(less, Nat)
    BY NatLessThanWellFounded, Zenon DEF OpToRel
  <2>2. PICK a \in ages : \A b \in ages : ~ (<<b, a>> \in less)
    <3> HIDE DEF less, ages
    <3> QED
      BY <1>1, <2>1, WFMin, Zenon
  <2>3. ASSUME NEW b \in ages PROVE a <= b
    <3>1. a \in Nat /\ b \in Nat /\ ~ (<<b, a>> \in less)
      BY <1>1, <2>2
    <3>2. ~ (b < a)
      BY <3>1
    <3>3. QED
      BY <3>1, <3>2
  <2>4. QED
    BY <2>3
<1>3. PICK n \in ns : a = MaxDeploys - n
  BY <1>2
<1>4. \A m \in ns : m <= n
  BY <1>0, <1>2, <1>3, MaxDeploysAssumption
<1>5. QED
  BY <1>4 DEF Newest

\* Marking deployments changes their status and nothing else.
LEMMA MarkKeeps ==
    ASSUME Tables, NEW ns \in SUBSET Stamps, \A n \in ns : dep[n] \in Deployment,
           NEW status \in Statuses
    PROVE  /\ Mark(ns, status) \in [Stamps -> Deployment \cup {NoDep}]
           /\ \A n \in Stamps :
                 /\ dep[n] \in Deployment => Mark(ns, status)[n] \in Deployment
                 /\ Mark(ns, status)[n].version = dep[n].version
                 /\ Mark(ns, status)[n].env = dep[n].env
BY DEF Mark, Tables, Deployment, NoDep

\* Active deployments are deployments.
LEMMA ActiveDeployed ==
    ASSUME Tables, NEW env
    PROVE  Active(env) \in SUBSET Stamps /\ \A n \in Active(env) : dep[n] \in Deployment
BY DEF Active, Tables, Deployment, NoDep

\* An idle request counts on nothing.
LEMMA IdleFine ==
    /\ Idle \in Request
    /\ \A d, a : WellFormed(Idle, d) /\ Granted(Idle, a)
BY MaxDeploysAssumption DEF Idle, Request, PCs, WellFormed, Granted

-----------------------------------------------------------------------------
(* Steps. *)

\* What a request counts on outlives other requests' steps: versions stay
\* approved and deployments stay.
LEMMA OutlivesOthers ==
    ASSUME NEW q, NEW d, NEW d2, NEW a, NEW a2,
           q \in Request, WellFormed(q, d), Granted(q, a),
           \A n \in Stamps : d[n] \in Deployment => d2[n] \in Deployment,
           a \subseteq a2
    PROVE  WellFormed(q, d2) /\ Granted(q, a2)
BY DEF WellFormed, Granted, Request

\* A step of one request that leaves the tables in order keeps the invariant.
LEMMA RequestKeeps ==
    ASSUME Inv, NEW r \in Requests, NEW q \in Request, Do(r, q),
           Tables', StatesApproved', ConsumerWasApproved',
           WellFormed(q, dep'), Granted(q, approved'),
           \A n \in Stamps : dep[n] \in Deployment => dep'[n] \in Deployment,
           approved \subseteq approved'
    PROVE  Inv'
<1>1. req' \in [Requests -> Request] /\ req'[r] = q /\ \A x \in Requests : x # r => req'[x] = req[x]
  BY DEF Inv, Do
<1>2. \A x \in Requests : WellFormed(req'[x], dep') /\ Granted(req'[x], approved')
  <2>1. SUFFICES ASSUME NEW x \in Requests, x # r
                 PROVE  WellFormed(req[x], dep') /\ Granted(req[x], approved')
    BY <1>1
  <2>2. req[x] \in Request /\ WellFormed(req[x], dep) /\ Granted(req[x], approved)
    BY DEF Inv
  <2>3. QED
    BY <2>2, OutlivesOthers
<1>3. QED
  BY <1>1, <1>2 DEF Inv

\* A step that changes nothing but the request (and the clock).
LEMMA QuietKeeps ==
    ASSUME Inv, NEW r \in Requests, NEW q \in Request, Do(r, q),
           UNCHANGED <<state, leaks, dep, approved, restored, unseen>>, clock' \in 0..MaxDeploys,
           WellFormed(q, dep), Granted(q, approved)
    PROVE  Inv'
<1>1. Tables' /\ StatesApproved' /\ ConsumerWasApproved'
  BY DEF Inv, Tables, StatesApproved, ConsumerWasApproved
<1>2. QED
  BY <1>1, RequestKeeps

\* A request that ends without writing.
LEMMA EndsKeeps ==
    ASSUME Inv, NEW r \in Requests, Ends(r),
           UNCHANGED <<state, leaks, dep, clock, approved, restored, unseen>>
    PROVE  Inv'
BY IdleFine, QuietKeeps DEF Ends, Inv, Tables

\* Empty tables.
LEMMA InitInv == Init => Inv
<1> SUFFICES ASSUME Init PROVE Inv
  OBVIOUS
<1>1. Tables /\ StatesApproved /\ ConsumerWasApproved
  BY InitStateAssumption, MaxDeploysAssumption
     DEF Init, Tables, StatesApproved, ConsumerWasApproved, States, consumerStates, NoDep, Deployment
<1>2. req \in [Requests -> Request] /\ \A r \in Requests : req[r] = Idle
  BY IdleFine DEF Init
<1>3. QED
  BY <1>1, <1>2, IdleFine DEF Inv

\* transition(): the request carries a step that the lifecycle allowed, and
\* released only from approved.
LEMMA TransitionKeeps ==
    ASSUME Inv, NEW r \in Requests, Transition(r)
    PROVE  Inv'
<1>1. PICK v \in Versions, to \in Targets, role \in Callers :
         /\ check(state[v], to, role)
         /\ IF to \in DOMAIN DEPLOYS
            THEN Do(r, [Idle EXCEPT !.pc = "deploy", !.v = v, !.from = state[v], !.to = to,
                                    !.env = DEPLOYS[to], !.then = "write"])
            ELSE Do(r, [Idle EXCEPT !.pc = "write", !.v = v, !.from = state[v], !.to = to])
  BY DEF Transition
<1>2. /\ <<state[v], to>> \in LifecycleSteps /\ state[v] \in States /\ to \in States
      /\ to = "released" => v \in approved
  BY <1>1, CheckedStep DEF Inv, StatesApproved, consumerStates
<1>3. CASE to \in DOMAIN DEPLOYS
  <2> DEFINE q == [Idle EXCEPT !.pc = "deploy", !.v = v, !.from = state[v], !.to = to, !.env = DEPLOYS[to], !.then = "write"]
  <2>1. DEPLOYS[to] \in Environments
    BY <1>3 DEF DEPLOYS, Environments
  <2>2. Do(r, q)
    BY <1>1, <1>3
  <2>3. q \in Request /\ WellFormed(q, dep) /\ Granted(q, approved)
    <3>1. q \in Request
      BY IdleFine, <1>2, <2>1 DEF Request, PCs
    <3>2. q.pc = "deploy" /\ q.v = v /\ q.from = state[v] /\ q.to = to /\ q.env = DEPLOYS[to] /\ q.then = "write"
      BY DEF Idle
    <3> HIDE DEF q
    <3>3. QED
      BY <1>2, <2>1, <3>1, <3>2 DEF WellFormed, Granted
  <2>4. QED
    BY <2>2, <2>3, QuietKeeps DEF Transition, Inv, Tables
<1>4. CASE to \notin DOMAIN DEPLOYS
  <2> DEFINE q == [Idle EXCEPT !.pc = "write", !.v = v, !.from = state[v], !.to = to]
  <2>1. Do(r, q)
    BY <1>1, <1>4
  <2>2. q \in Request /\ WellFormed(q, dep) /\ Granted(q, approved)
    <3>1. q \in Request
      BY IdleFine, <1>2 DEF Request, PCs
    <3>2. q.pc = "write" /\ q.v = v /\ q.from = state[v] /\ q.to = to /\ q.then = "idle"
      BY DEF Idle
    <3> HIDE DEF q
    <3>3. QED
      BY <1>2, <3>1, <3>2 DEF WellFormed, Granted
  <2>3. QED
    BY <2>1, <2>2, QuietKeeps DEF Transition, Inv, Tables
<1>5. QED
  BY <1>3, <1>4

\* decide(): the request carries approved or rejected.
LEMMA DecideKeeps ==
    ASSUME Inv, NEW r \in Requests, NEW decision, NEW to \in {"approved", "rejected"},
           Decide(r, decision, to)
    PROVE  Inv'
<1>1. PICK v \in Versions, role \in Callers :
         /\ check(state[v], to, role)
         /\ Do(r, [Idle EXCEPT !.pc = "write", !.v = v, !.from = state[v], !.to = to])
  BY DEF Decide
<1> DEFINE q == [Idle EXCEPT !.pc = "write", !.v = v, !.from = state[v], !.to = to]
<1>2. Do(r, q)
  BY <1>1
<1>0. /\ <<state[v], to>> \in LifecycleSteps /\ state[v] \in States /\ to \in States
      /\ to # "released"
  BY <1>1, CheckedStep
<1>3. q \in Request /\ WellFormed(q, dep) /\ Granted(q, approved)
  <2>1. q \in Request
    BY IdleFine, <1>0 DEF Request, PCs
  <2>2. q.pc = "write" /\ q.v = v /\ q.from = state[v] /\ q.to = to /\ q.then = "idle"
    BY DEF Idle
  <2> HIDE DEF q
  <2>3. QED
    BY <1>0, <2>1, <2>2 DEF WellFormed, Granted
<1>4. QED
  BY <1>2, <1>3, QuietKeeps DEF Decide, Inv, Tables

\* The backend's write: released was granted when the request was checked,
\* approved is an approval itself, and no other state serves consumers.
LEMMA WriteStateKeeps ==
    ASSUME Inv, NEW r \in Requests, WriteState(r)
    PROVE  Inv'
<1>1. /\ req[r].v \in Versions /\ req[r].to \in States
      /\ req[r].to = "released" => req[r].v \in approved
  BY DEF Inv, WriteState, WellFormed, Granted
<1>2. Tables' /\ approved \subseteq approved' /\ dep' = dep
  BY <1>1 DEF WriteState, Inv, Tables
<1>3. StatesApproved'
  BY <1>1 DEF WriteState, Inv, Tables, StatesApproved, consumerStates
<1>4. ConsumerWasApproved'
  BY <1>2 DEF Inv, ConsumerWasApproved
<1>5. QED
  BY <1>2, <1>3, <1>4, IdleFine, RequestKeeps DEF WriteState, Ends

\* submit_test_report(): about a version, and about nothing else.
LEMMA SubmitReportKeeps ==
    ASSUME Inv, NEW r \in Requests, SubmitReport(r)
    PROVE  Inv'
<1>1. PICK v \in Versions : Do(r, [Idle EXCEPT !.pc = "report", !.v = v])
  BY DEF SubmitReport
<1> DEFINE q == [Idle EXCEPT !.pc = "report", !.v = v]
<1>2. Do(r, q)
  BY <1>1
<1>3. q \in Request /\ WellFormed(q, dep) /\ Granted(q, approved)
  <2>1. q \in Request
    BY IdleFine DEF Request, PCs
  <2>2. q.pc = "report" /\ q.v = v /\ q.then = "idle"
    BY DEF Idle
  <2> HIDE DEF q
  <2>3. QED
    BY <2>1, <2>2 DEF WellFormed, Granted
<1>4. QED
  BY <1>2, <1>3, QuietKeeps DEF SubmitReport, Inv, Tables

\* The report's leaks do not touch states or deployments.
LEMMA WriteReportKeeps ==
    ASSUME Inv, NEW r \in Requests, WriteReport(r)
    PROVE  Inv'
<1>1. Tables' /\ StatesApproved' /\ ConsumerWasApproved'
  BY DEF WriteReport, Inv, Tables, StatesApproved, ConsumerWasApproved
<1>2. QED
  BY <1>1, IdleFine, RequestKeeps DEF WriteReport, Ends

\* mp deploy asks for any version and environment; nothing is decided yet.
LEMMA DeployKeeps ==
    ASSUME Inv, NEW r \in Requests, Deploy(r)
    PROVE  Inv'
<1>1. PICK v \in Versions, env \in Environments :
         Do(r, [Idle EXCEPT !.pc = "deploy", !.v = v, !.env = env])
  BY DEF Deploy
<1> DEFINE q == [Idle EXCEPT !.pc = "deploy", !.v = v, !.env = env]
<1>2. q \in Request
  BY IdleFine DEF Request, PCs
<1>3. q.pc = "deploy" /\ q.v = v /\ q.env = env /\ q.then = "idle"
  BY DEF Idle
<1> HIDE DEF q
<1>4. WellFormed(q, dep) /\ Granted(q, approved)
  BY <1>2, <1>3 DEF WellFormed, Granted
<1>5. QED
  BY <1>1, <1>2, <1>4, QuietKeeps DEF Deploy, Inv, Tables, q

\* The transaction gets its time.
LEMMA DeployBeginKeeps ==
    ASSUME Inv, NEW r \in Requests, DeployBegin(r)
    PROVE  Inv'
<1> DEFINE q == [req[r] EXCEPT !.pc = "lock", !.at = clock + 1]
<1>1. req[r] \in Request /\ WellFormed(req[r], dep) /\ Granted(req[r], approved)
  BY DEF Inv
<1>2. clock + 1 \in Stamps /\ clock + 1 \in 0..MaxDeploys /\ clock' \in 0..MaxDeploys
  BY MaxDeploysAssumption DEF DeployBegin, Inv, Tables, Stamps
<1>3. q \in Request
  <2> DEFINE next == clock + 1
  <2>1. next \in 0..MaxDeploys
    BY <1>2
  <2> HIDE DEF next
  <2>2. [req[r] EXCEPT !.pc = "lock", !.at = next] \in Request
    BY <1>1, <2>1 DEF Request, PCs
  <2>3. QED
    BY <2>2 DEF next
<1>4. /\ q.pc = "lock" /\ q.v = req[r].v /\ q.from = req[r].from /\ q.to = req[r].to /\ q.env = req[r].env
      /\ q.then = req[r].then
  BY <1>1 DEF Request
<1>5. q.at \in Stamps
  BY <1>1, <1>2 DEF Request
<1> HIDE DEF q
<1>6. WellFormed(q, dep) /\ Granted(q, approved)
  BY <1>1, <1>4, <1>5 DEF WellFormed, Granted, DeployBegin
<1>7. QED
  BY <1>2, <1>3, <1>6, QuietKeeps DEF DeployBegin, q

\* The check under the row lock: from here on a consumer deployment is one of
\* an approved version.
LEMMA DeployLockKeeps ==
    ASSUME Inv, NEW r \in Requests, DeployLock(r)
    PROVE  Inv'
<1>1. req[r] \in Request /\ WellFormed(req[r], dep) /\ Granted(req[r], approved)
  BY DEF Inv
<1>2. CASE state[req[r].v] \in DeployStates(req[r].env)
  <2> DEFINE q == [req[r] EXCEPT !.pc = "snapshot"]
  <2>1. Do(r, q)
    BY <1>2 DEF DeployLock, Goto, Do, Inv
  <2>2. q \in Request
    BY <1>1 DEF Request, PCs
  <2>3. /\ q.pc = "snapshot" /\ q.v = req[r].v /\ q.from = req[r].from /\ q.to = req[r].to /\ q.env = req[r].env
        /\ q.then = req[r].then /\ q.at = req[r].at
    BY <1>1 DEF Request
  <2>4. req[r].env = "consumer" => req[r].v \in approved
    BY <1>1, <1>2 DEF DeployLock, DeployStates, WellFormed, Inv, StatesApproved
  <2> HIDE DEF q
  <2>5. WellFormed(q, dep) /\ Granted(q, approved)
    BY <1>1, <2>3, <2>4 DEF WellFormed, Granted, DeployLock
  <2>6. QED
    BY <2>1, <2>2, <2>5, QuietKeeps DEF DeployLock, Inv, Tables
<1>3. CASE state[req[r].v] \notin DeployStates(req[r].env)
  BY <1>3, EndsKeeps DEF DeployLock
<1>4. QED
  BY <1>2, <1>3

\* The rows that the UPDATE sees.
LEMMA DeploySnapshotKeeps ==
    ASSUME Inv, NEW r \in Requests, DeploySnapshot(r)
    PROVE  Inv'
<1> DEFINE q == [req[r] EXCEPT !.pc = "update", !.rows = Active(req[r].env)]
<1>1. req[r] \in Request /\ WellFormed(req[r], dep) /\ Granted(req[r], approved) /\ Tables
  BY DEF Inv
<1>2. Active(req[r].env) \in SUBSET Stamps /\ \A n \in Active(req[r].env) : dep[n] \in Deployment
  BY <1>1, ActiveDeployed
<1>3. q \in Request
  BY <1>1, <1>2 DEF Request, PCs
<1>4. /\ q.pc = "update" /\ q.v = req[r].v /\ q.from = req[r].from /\ q.to = req[r].to /\ q.env = req[r].env
      /\ q.then = req[r].then /\ q.at = req[r].at /\ q.rows = Active(req[r].env)
  BY <1>1 DEF Request
<1> HIDE DEF q
<1>5. WellFormed(q, dep) /\ Granted(q, approved)
  BY <1>1, <1>2, <1>4 DEF WellFormed, Granted, DeploySnapshot
<1>6. QED
  BY <1>3, <1>5, QuietKeeps DEF DeploySnapshot, Inv, Tables, q

\* The rows that are still active when it gets them.
LEMMA DeployUpdateKeeps ==
    ASSUME Inv, NEW r \in Requests, DeployUpdate(r)
    PROVE  Inv'
<1> DEFINE q == [req[r] EXCEPT !.pc = "commit", !.rows = @ \cap Active(req[r].env)]
<1>1. req[r] \in Request /\ WellFormed(req[r], dep) /\ Granted(req[r], approved)
  BY DEF Inv
<1>2. q \in Request
  BY <1>1 DEF Request, PCs
<1>3. /\ q.pc = "commit" /\ q.v = req[r].v /\ q.from = req[r].from /\ q.to = req[r].to /\ q.env = req[r].env
      /\ q.then = req[r].then /\ q.at = req[r].at /\ q.rows = req[r].rows \cap Active(req[r].env)
  BY <1>1 DEF Request
<1> HIDE DEF q
<1>4. WellFormed(q, dep) /\ Granted(q, approved)
  BY <1>1, <1>3 DEF WellFormed, Granted, DeployUpdate
<1>5. QED
  BY <1>2, <1>4, QuietKeeps DEF DeployUpdate, Inv, Tables, q

\* The new deployment: of an approved version when it is for consumers.
LEMMA DeployCommitKeeps ==
    ASSUME Inv, NEW r \in Requests, DeployCommit(r)
    PROVE  Inv'
<1> DEFINE q == req[r]
           new == [version |-> q.v, env |-> q.env, status |-> "active"]
           old == Mark(q.rows, "superseded")
<1>1. q \in Request /\ WellFormed(q, dep) /\ Granted(q, approved) /\ q.pc = "commit" /\ Tables
  BY DEF Inv, DeployCommit
<1>2. new \in Deployment /\ q.at \in Stamps
  BY <1>1 DEF WellFormed, Deployment, Statuses
<1>3. /\ old \in [Stamps -> Deployment \cup {NoDep}]
      /\ \A n \in Stamps : /\ dep[n] \in Deployment => old[n] \in Deployment
                           /\ old[n].version = dep[n].version
                           /\ old[n].env = dep[n].env
  <2>1. q.rows \in SUBSET Stamps /\ \A n \in q.rows : dep[n] \in Deployment
    BY <1>1 DEF WellFormed, Request
  <2>2. "superseded" \in Statuses
    BY DEF Statuses
  <2>3. QED
    BY <1>1, <2>1, <2>2, MarkKeeps
<1>4. dep' = [old EXCEPT ![q.at] = new] /\ UNCHANGED <<state, leaks, clock, approved, restored>>
      /\ unseen' \in {unseen, unseen \cup {q.at}}
  BY DEF DeployCommit
<1>5. q.env = "consumer" => q.v \in approved
  BY <1>1 DEF Granted
<1> HIDE DEF old, new
<1>6. \A n \in Stamps : dep'[n] = IF n = q.at THEN new ELSE old[n]
  BY <1>2, <1>3, <1>4
<1>7. Tables' /\ StatesApproved'
  BY <1>2, <1>3, <1>4 DEF Inv, Tables, StatesApproved
<1>8. ConsumerWasApproved'
  <2>1. SUFFICES ASSUME NEW n \in Stamps, dep'[n].env = "consumer"
                 PROVE  dep'[n].version \in approved
    BY <1>4 DEF ConsumerWasApproved
  <2>2. new.env = q.env /\ new.version = q.v
    BY DEF new
  <2>3. QED
    BY <1>3, <1>5, <1>6, <2>1, <2>2 DEF Inv, ConsumerWasApproved
<1>9. \A n \in Stamps : dep[n] \in Deployment => dep'[n] \in Deployment
  BY <1>2, <1>3, <1>6
<1>10. CASE q.then = "idle"
  BY <1>4, <1>7, <1>8, <1>9, <1>10, IdleFine, RequestKeeps DEF DeployCommit, Ends
<1>11. CASE q.then # "idle"
  <2> DEFINE p == [Idle EXCEPT !.pc = q.then, !.v = q.v, !.from = q.from, !.to = q.to]
  <2>1. q.then = "write" /\ q.v \in Versions /\ q.from \in States /\ q.to \in States
        /\ <<q.from, q.to>> \in LifecycleSteps
        /\ (q.to = "released" => q.v \in approved)
    BY <1>1, <1>11 DEF Request, WellFormed, Granted
  <2>2. p \in Request
    BY <2>1, IdleFine DEF Request, PCs
  <2>3. p.pc = "write" /\ p.v = q.v /\ p.from = q.from /\ p.to = q.to /\ p.then = "idle"
    BY <2>1 DEF Idle
  <2>4. Do(r, p)
    BY <1>11 DEF DeployCommit
  <2> HIDE DEF p
  <2>5. WellFormed(p, dep') /\ Granted(p, approved')
    BY <1>4, <2>1, <2>3 DEF WellFormed, Granted
  <2>6. QED
    BY <1>4, <1>7, <1>8, <1>9, <2>2, <2>4, <2>5, RequestKeeps
<1>12. QED
  BY <1>10, <1>11

\* Rollback finds two deployments.
LEMMA RollbackKeeps ==
    ASSUME Inv, NEW r \in Requests, Rollback(r)
    PROVE  Inv'
<1> DEFINE current == Newest(Active("consumer"))
           earlier == {n \in Stamps : /\ n < current
                                      /\ dep[n].env = "consumer"
                                      /\ dep[n].status = "superseded"
                                      /\ dep[n].version # dep[current].version}
           found == Newest(earlier)
           q == [Idle EXCEPT !.pc = "rollback", !.v = dep[current].version,
                             !.at = found, !.rows = {current}]
<1>1. Active("consumer") # {} /\ earlier # {} /\ Do(r, q) /\ Tables
  BY DEF Rollback, Inv
<1>2. current \in Stamps /\ dep[current] \in Deployment
  BY <1>1, ActiveDeployed, NewestIsIn
<1>3. found \in Stamps /\ dep[found] \in Deployment
  <2>1. earlier \in SUBSET Stamps /\ found \in earlier
    BY <1>1, NewestIsIn
  <2>2. dep[found] \in Deployment \cup {NoDep} /\ dep[found].env = "consumer"
    BY <1>1, <2>1 DEF Tables
  <2>3. QED
    BY <2>1, <2>2 DEF NoDep
<1> HIDE DEF current, found
<1>4. dep[current].version \in Versions /\ found \in 0..MaxDeploys
  BY <1>2, <1>3, MaxDeploysAssumption DEF Deployment, Stamps
<1>5. q \in Request
  BY <1>2, <1>4, IdleFine DEF Request, PCs
<1>6. /\ q.pc = "rollback" /\ q.v = dep[current].version /\ q.then = "idle"
      /\ q.at = found /\ q.rows = {current}
  BY DEF Idle
<1>7. Do(r, q) /\ UNCHANGED <<state, leaks, dep, clock, approved, restored, unseen>> /\ clock \in 0..MaxDeploys
  BY <1>1 DEF Rollback, Tables
<1> HIDE DEF q
<1>8. WellFormed(q, dep) /\ Granted(q, approved)
  BY <1>2, <1>3, <1>4, <1>6 DEF WellFormed, Granted
<1>9. QED
  BY <1>5, <1>7, <1>8, QuietKeeps

\* Both deployments change their status only; rolled_back serves nobody.
LEMMA RollbackWriteKeeps ==
    ASSUME Inv, NEW r \in Requests, RollbackWrite(r)
    PROVE  Inv'
<1> DEFINE q == req[r]
           old == Mark(q.rows, "rolled_back")
<1>1. q \in Request /\ WellFormed(q, dep) /\ q.pc = "rollback" /\ Tables
  BY DEF Inv, RollbackWrite
<1>2. q.at \in Stamps /\ dep[q.at] \in Deployment /\ q.v \in Versions
  BY <1>1 DEF WellFormed
<1>3. /\ old \in [Stamps -> Deployment \cup {NoDep}]
      /\ \A n \in Stamps : /\ dep[n] \in Deployment => old[n] \in Deployment
                           /\ old[n].version = dep[n].version
                           /\ old[n].env = dep[n].env
  <2>1. q.rows \in SUBSET Stamps /\ \A n \in q.rows : dep[n] \in Deployment
    BY <1>1 DEF WellFormed, Request
  <2>2. "rolled_back" \in Statuses
    BY DEF Statuses
  <2>3. QED
    BY <1>1, <2>1, <2>2, MarkKeeps
<1> DEFINE new == [old[q.at] EXCEPT !.status = "active"]
<1>4. dep' = [old EXCEPT ![q.at] = new]
  BY <1>3 DEF RollbackWrite
<1>5. UNCHANGED <<leaks, clock, approved, unseen>> /\ Do(r, Idle) /\ restored' = restored \cup {q.at}
      /\ state' = IF state[q.v] = "released" THEN [state EXCEPT ![q.v] = "rolled_back"] ELSE state
  BY DEF RollbackWrite, Ends
<1> HIDE DEF old
<1>6. new \in Deployment /\ new.version = old[q.at].version /\ new.env = old[q.at].env
  BY <1>2, <1>3 DEF Deployment, Statuses
<1> HIDE DEF new
<1>7. \A n \in Stamps : dep'[n] = IF n = q.at THEN new ELSE old[n]
  BY <1>2, <1>3, <1>4
<1>8. Tables'
  <2>1. dep' \in [Stamps -> Deployment \cup {NoDep}]
    BY <1>2, <1>3, <1>4, <1>6
  <2>2. state' \in [Versions -> States]
    BY <1>1, <1>2, <1>5 DEF Tables, States
  <2>3. QED
    BY <1>1, <1>2, <1>5, <2>1, <2>2 DEF Tables
<1>9. StatesApproved'
  BY <1>1, <1>2, <1>5 DEF Inv, Tables, StatesApproved, consumerStates
<1>10. ConsumerWasApproved'
  BY <1>3, <1>5, <1>6, <1>7 DEF Inv, ConsumerWasApproved
<1>11. \A n \in Stamps : dep[n] \in Deployment => dep'[n] \in Deployment
  BY <1>3, <1>6, <1>7
<1>12. QED
  BY <1>5, <1>8, <1>9, <1>10, <1>11, IdleFine, RequestKeeps

\* The kill switch: killed serves nobody.
LEMMA KillKeeps ==
    ASSUME Inv, NEW v \in Versions, Kill(v)
    PROVE  Inv'
<1> DEFINE live == {n \in Stamps : dep[n].version = v /\ dep[n].status = "active"}
<1>1. /\ dep' = Mark(live, "killed") /\ state' = [state EXCEPT ![v] = "killed"]
      /\ UNCHANGED <<leaks, clock, req, approved, restored, unseen>> /\ Tables
  BY DEF Kill, Inv
<1>2. live \in SUBSET Stamps /\ \A n \in live : dep[n] \in Deployment
  BY <1>1 DEF Tables, NoDep
<1>3. "killed" \in Statuses
  BY DEF Statuses
<1> HIDE DEF live
<1>4. /\ dep' \in [Stamps -> Deployment \cup {NoDep}]
      /\ \A n \in Stamps : /\ dep[n] \in Deployment => dep'[n] \in Deployment
                           /\ dep'[n].version = dep[n].version
                           /\ dep'[n].env = dep[n].env
  BY <1>1, <1>2, <1>3, MarkKeeps
<1>5. Tables'
  BY <1>1, <1>4 DEF Tables, States
<1>6. StatesApproved' /\ ConsumerWasApproved'
  BY <1>1, <1>4 DEF Inv, Tables, StatesApproved, ConsumerWasApproved, consumerStates
<1>7. \A x \in Requests : WellFormed(req[x], dep') /\ Granted(req[x], approved)
  <2>1. SUFFICES ASSUME NEW x \in Requests
                 PROVE  WellFormed(req[x], dep') /\ Granted(req[x], approved)
    OBVIOUS
  <2>2. req[x] \in Request /\ WellFormed(req[x], dep) /\ Granted(req[x], approved)
    BY DEF Inv
  <2>3. QED
    BY <1>4, <2>2, OutlivesOthers
<1>8. QED
  BY <1>1, <1>5, <1>6, <1>7 DEF Inv

\* The backend gives up: what it was to write is forgotten.
LEMMA TimesOutKeeps ==
    ASSUME Inv, NEW r \in Requests, TimesOut(r)
    PROVE  Inv'
<1> DEFINE q == [req[r] EXCEPT !.then = "idle", !.from = "none", !.to = "none"]
<1>1. req[r] \in Request /\ WellFormed(req[r], dep) /\ Granted(req[r], approved)
  BY DEF Inv
<1>2. q \in Request
  BY <1>1 DEF Request
<1>3. /\ q.pc = req[r].pc /\ q.v = req[r].v /\ q.to = "none" /\ q.env = req[r].env
      /\ q.then = "idle" /\ q.at = req[r].at /\ q.rows = req[r].rows
  BY <1>1 DEF Request
<1>4. req[r].pc # "write"
  BY <1>1 DEF TimesOut, WellFormed
<1> HIDE DEF q
<1>5. WellFormed(q, dep) /\ Granted(q, approved)
  BY <1>1, <1>3, <1>4 DEF WellFormed, Granted
<1>6. QED
  BY <1>2, <1>5, QuietKeeps DEF TimesOut, Inv, Tables, q

-----------------------------------------------------------------------------
\* Every step of the two programs, and every failure, keeps the invariant.
LEMMA NextKeeps ==
    ASSUME Inv, [Next]_vars
    PROVE  Inv'
<1>1. CASE Next
  <2>1. ASSUME NEW r \in Requests,
               \/ Transition(r) \/ WriteState(r)
               \/ Decide(r, "approve", "approved") \/ Decide(r, "reject", "rejected")
               \/ SubmitReport(r) \/ WriteReport(r)
        PROVE  Inv'
    BY <2>1, TransitionKeeps, WriteStateKeeps, DecideKeeps, SubmitReportKeeps, WriteReportKeeps
  <2>2. ASSUME NEW r \in Requests,
               \/ Deploy(r) \/ DeployBegin(r) \/ DeployLock(r) \/ DeploySnapshot(r)
               \/ DeployUpdate(r) \/ DeployCommit(r)
        PROVE  Inv'
    BY <2>2, DeployKeeps, DeployBeginKeeps, DeployLockKeeps, DeploySnapshotKeeps,
       DeployUpdateKeeps, DeployCommitKeeps
  <2>3. ASSUME NEW r \in Requests, Rollback(r) \/ RollbackWrite(r) \/ TimesOut(r)
        PROVE  Inv'
    BY <2>3, RollbackKeeps, RollbackWriteKeeps, TimesOutKeeps
  <2>4. ASSUME NEW r \in Requests, Fails(r) PROVE Inv'
    BY <2>4, EndsKeeps DEF Fails
  <2>5. ASSUME NEW v \in Versions, Kill(v) PROVE Inv'
    BY <2>5, KillKeeps
  <2>6. QED
    BY <1>1, <2>1, <2>2, <2>3, <2>4, <2>5 DEF Next
<1>2. CASE UNCHANGED vars
  BY <1>2 DEF vars, Inv, Tables, StatesApproved, ConsumerWasApproved, WellFormed, Granted
<1>3. QED
  BY <1>1, <1>2

\* The invariant holds throughout, for every number of requests, overlapping
\* or not, and for every set of operations and targets.
THEOREM Invariance == Spec => []Inv
<1>1. Inv /\ [Next]_vars => Inv'
  BY NextKeeps
<1>2. QED
  BY InitInv, <1>1, PTL DEF Spec

\* The tables and the requests in flight keep their types: in particular a
\* rollback always writes deployments that exist.
THEOREM TypeCorrect == Spec => []TypeOK
<1>1. Inv => TypeOK
  <2> SUFFICES ASSUME Inv PROVE TypeOK
    OBVIOUS
  <2>1. req \in [Requests -> [pc : PCs, v : Versions \cup {NONE}, from : States \cup {"none"},
                              to : States \cup {"none"}, env : Environments \cup {"none"},
                              then : {"idle", "write"}, at : 0..MaxDeploys, rows : SUBSET Stamps]]
    BY DEF Inv, Request
  <2>2. QED
    BY <2>1 DEF Inv, Tables, TypeOK, WellFormed
<1>2. QED
  BY Invariance, <1>1, PTL

\* No interleaving of stale writes, deployments, rollbacks, kills, timeouts and
\* failures brings a version to consumers that was never approved.
THEOREM ApprovedBeforeConsumers == Spec => []ConsumerWasApproved
<1>1. Inv => ConsumerWasApproved
  BY DEF Inv
<1>2. QED
  BY Invariance, <1>1, PTL

-----------------------------------------------------------------------------
(* The row lock, with requests that overlap.  Between the control plane's  *)
(* check of a version and its commit the version keeps the state it was    *)
(* found in, because Kill and every write of a state wait for the row.     *)

StillFit(q, s) == q.pc \in {"snapshot", "update", "commit"} => s[q.v] \in DeployStates(q.env)

AllFit == \A r \in Requests : StillFit(req[r], state)

\* A step of a request leaves the states of locked versions alone.
LEMMA RequestFits ==
    ASSUME Inv, AllFit, NEW r \in Requests, NEW q, Do(r, q),
           \A v \in Versions : state'[v] = state[v] \/ Unlocked(v),
           StillFit(q, state')
    PROVE  AllFit'
<1> SUFFICES ASSUME NEW x \in Requests PROVE StillFit(req'[x], state')
  BY DEF AllFit
<1>1. CASE x = r
  BY <1>1 DEF Do, Inv
<1>2. CASE x # r
  <2>1. req'[x] = req[x]
    BY <1>2 DEF Do, Inv
  <2>2. req[x] \in Request /\ WellFormed(req[x], dep) /\ StillFit(req[x], state)
    BY DEF Inv, AllFit
  <2>3. req[x].pc \in {"snapshot", "update", "commit"} => req[x].v \in Versions
    BY <2>2 DEF WellFormed
  <2>4. QED
    BY <2>1, <2>2, <2>3 DEF StillFit, Unlocked, HoldsVersion
<1>3. QED
  BY <1>1, <1>2

\* An idle request holds nothing.
LEMMA IdleFits == \A s : StillFit(Idle, s)
BY DEF Idle, StillFit

\* The step that a request which begins, or goes on without writing, takes.
LEMMA QuietFits ==
    ASSUME Inv, AllFit, NEW r \in Requests, NEW q, Do(r, q), UNCHANGED state,
           StillFit(q, state)
    PROVE  AllFit'
BY RequestFits

\* A version that is about to be deployed stays fit to be.
LEMMA NextFits ==
    ASSUME Inv, AllFit, Next
    PROVE  AllFit'
<1>1. ASSUME NEW r \in Requests, Transition(r) PROVE AllFit'
  <2>1. PICK v \in Versions, to \in Targets :
          \/ to \in DOMAIN DEPLOYS
             /\ Do(r, [Idle EXCEPT !.pc = "deploy", !.v = v, !.from = state[v], !.to = to, !.env = DEPLOYS[to], !.then = "write"])
          \/ Do(r, [Idle EXCEPT !.pc = "write", !.v = v, !.from = state[v], !.to = to])
    BY <1>1 DEF Transition
  <2>2. UNCHANGED state
    BY <1>1 DEF Transition
  <2>3. CASE Do(r, [Idle EXCEPT !.pc = "write", !.v = v, !.from = state[v], !.to = to])
    <3>1. StillFit([Idle EXCEPT !.pc = "write", !.v = v, !.from = state[v], !.to = to], state)
      BY <2>2 DEF StillFit, Idle
    <3>2. QED
      BY <2>2, <2>3, <3>1, QuietFits
  <2>4. CASE Do(r, [Idle EXCEPT !.pc = "deploy", !.v = v, !.from = state[v], !.to = to, !.env = DEPLOYS[to], !.then = "write"])
    <3>1. StillFit([Idle EXCEPT !.pc = "deploy", !.v = v, !.from = state[v], !.to = to, !.env = DEPLOYS[to], !.then = "write"], state)
      BY <2>2 DEF StillFit, Idle
    <3>2. QED
      BY <2>2, <2>4, <3>1, QuietFits
  <2>5. QED
    BY <2>1, <2>3, <2>4
<1>2. ASSUME NEW r \in Requests, NEW decision, NEW to \in {"approved", "rejected"}, Decide(r, decision, to)
      PROVE  AllFit'
  <2>1. PICK v \in Versions : Do(r, [Idle EXCEPT !.pc = "write", !.v = v, !.from = state[v], !.to = to])
    BY <1>2 DEF Decide
  <2>2. StillFit([Idle EXCEPT !.pc = "write", !.v = v, !.from = state[v], !.to = to], state)
    BY DEF StillFit, Idle
  <2>3. QED
    BY <1>2, <2>1, <2>2, QuietFits DEF Decide
<1>3. ASSUME NEW r \in Requests, WriteState(r) PROVE AllFit'
  <2>1. req[r].v \in Versions /\ Unlocked(req[r].v)
    BY <1>3 DEF WriteState, Inv, WellFormed
  <2>2. \A v \in Versions : state'[v] = state[v] \/ Unlocked(v)
    BY <1>3, <2>1 DEF WriteState, Inv, Tables
  <2>3. QED
    BY <1>3, <2>2, IdleFits, RequestFits DEF WriteState, Ends
<1>4. ASSUME NEW r \in Requests, SubmitReport(r) PROVE AllFit'
  <2>1. PICK v \in Versions : Do(r, [Idle EXCEPT !.pc = "report", !.v = v])
    BY <1>4 DEF SubmitReport
  <2>2. StillFit([Idle EXCEPT !.pc = "report", !.v = v], state)
    BY DEF StillFit, Idle
  <2>3. QED
    BY <1>4, <2>1, <2>2, QuietFits DEF SubmitReport
<1>5. ASSUME NEW r \in Requests, WriteReport(r) \/ Fails(r) PROVE AllFit'
  BY <1>5, IdleFits, QuietFits DEF WriteReport, Fails, Ends
<1>6. ASSUME NEW r \in Requests, Deploy(r) PROVE AllFit'
  <2>1. PICK v \in Versions, env \in Environments :
          Do(r, [Idle EXCEPT !.pc = "deploy", !.v = v, !.env = env])
    BY <1>6 DEF Deploy
  <2>2. StillFit([Idle EXCEPT !.pc = "deploy", !.v = v, !.env = env], state)
    BY DEF StillFit, Idle
  <2>3. QED
    BY <1>6, <2>1, <2>2, QuietFits DEF Deploy
<1>7. ASSUME NEW r \in Requests,
             DeployBegin(r) \/ DeploySnapshot(r) \/ DeployUpdate(r) \/ TimesOut(r)
      PROVE  AllFit'
  <2>1. req[r] \in Request /\ StillFit(req[r], state) /\ UNCHANGED state
    BY <1>7 DEF Inv, AllFit, DeployBegin, DeploySnapshot, DeployUpdate, TimesOut
  <2>2. CASE DeployBegin(r)
    <3>1. StillFit([req[r] EXCEPT !.pc = "lock", !.at = clock + 1], state)
      BY <2>1 DEF StillFit, Request
    <3>2. QED
      BY <2>1, <2>2, <3>1, QuietFits DEF DeployBegin
  <2>3. CASE DeploySnapshot(r)
    <3>1. StillFit([req[r] EXCEPT !.pc = "update", !.rows = Active(req[r].env)], state)
      BY <2>1, <2>3 DEF StillFit, Request, DeploySnapshot
    <3>2. QED
      BY <2>1, <2>3, <3>1, QuietFits DEF DeploySnapshot
  <2>4. CASE DeployUpdate(r)
    <3>1. StillFit([req[r] EXCEPT !.pc = "commit", !.rows = @ \cap Active(req[r].env)], state)
      BY <2>1, <2>4 DEF StillFit, Request, DeployUpdate
    <3>2. QED
      BY <2>1, <2>4, <3>1, QuietFits DEF DeployUpdate
  <2>5. CASE TimesOut(r)
    <3>1. StillFit([req[r] EXCEPT !.then = "idle", !.from = "none", !.to = "none"], state)
      BY <2>1, <2>5 DEF StillFit, Request, TimesOut
    <3>2. QED
      BY <2>1, <2>5, <3>1, QuietFits DEF TimesOut
  <2>6. QED
    BY <1>7, <2>2, <2>3, <2>4, <2>5
<1>8. ASSUME NEW r \in Requests, DeployLock(r) PROVE AllFit'
  <2>1. req[r] \in Request /\ StillFit(req[r], state) /\ UNCHANGED state
    BY <1>8 DEF Inv, AllFit, DeployLock
  <2>2. CASE state[req[r].v] \in DeployStates(req[r].env)
    <3>1. Do(r, [req[r] EXCEPT !.pc = "snapshot"])
      BY <1>8, <2>2 DEF DeployLock, Goto, Do, Inv
    <3>2. StillFit([req[r] EXCEPT !.pc = "snapshot"], state)
      BY <2>1, <2>2 DEF StillFit, Request
    <3>3. QED
      BY <2>1, <3>1, <3>2, QuietFits
  <2>3. CASE state[req[r].v] \notin DeployStates(req[r].env)
    BY <1>8, <2>1, <2>3, IdleFits, QuietFits DEF DeployLock, Ends
  <2>4. QED
    BY <2>2, <2>3
<1>9. ASSUME NEW r \in Requests, DeployCommit(r) PROVE AllFit'
  <2>1. req[r] \in Request /\ StillFit(req[r], state) /\ UNCHANGED state
    BY <1>9 DEF Inv, AllFit, DeployCommit
  <2>2. CASE req[r].then = "idle"
    BY <1>9, <2>1, <2>2, IdleFits, QuietFits DEF DeployCommit, Ends
  <2>3. CASE req[r].then # "idle"
    <3>1. req[r].then = "write"
      BY <2>1, <2>3 DEF Request
    <3>2. StillFit([Idle EXCEPT !.pc = req[r].then, !.v = req[r].v, !.from = req[r].from, !.to = req[r].to], state)
      BY <2>1, <3>1 DEF StillFit, Idle
    <3>3. QED
      BY <1>9, <2>1, <2>3, <3>2, QuietFits DEF DeployCommit
  <2>4. QED
    BY <2>2, <2>3
<1>10. ASSUME NEW r \in Requests, Rollback(r) PROVE AllFit'
  <2>1. PICK v, at, rows :
          Do(r, [Idle EXCEPT !.pc = "rollback", !.v = v, !.at = at, !.rows = rows])
    BY <1>10 DEF Rollback
  <2>2. StillFit([Idle EXCEPT !.pc = "rollback", !.v = v, !.at = at, !.rows = rows], state)
    BY DEF StillFit, Idle
  <2>3. QED
    BY <1>10, <2>1, <2>2, QuietFits DEF Rollback
<1>11. ASSUME NEW r \in Requests, RollbackWrite(r) PROVE AllFit'
  <2>1. req[r].v \in Versions /\ Unlocked(req[r].v)
    BY <1>11 DEF RollbackWrite, Inv, WellFormed
  <2>2. \A v \in Versions : state'[v] = state[v] \/ Unlocked(v)
    BY <1>11, <2>1 DEF RollbackWrite, Inv, Tables
  <2>3. QED
    BY <1>11, <2>2, IdleFits, RequestFits DEF RollbackWrite, Ends
<1>12. ASSUME NEW v \in Versions, Kill(v) PROVE AllFit'
  <2>1. req' = req /\ \A r \in Requests : ~HoldsVersion(r, v)
    BY <1>12 DEF Kill, Unlocked
  <2>2. \A x \in Versions : x # v => state'[x] = state[x]
    BY <1>12 DEF Kill, Inv, Tables
  <2>3. SUFFICES ASSUME NEW r \in Requests PROVE StillFit(req[r], state')
    BY <2>1 DEF AllFit
  <2>4. WellFormed(req[r], dep) /\ StillFit(req[r], state)
    BY DEF Inv, AllFit
  <2>5. QED
    BY <2>1, <2>2, <2>4 DEF WellFormed, StillFit, HoldsVersion
<1>13. QED
  BY <1>1, <1>2, <1>3, <1>4, <1>5, <1>6, <1>7, <1>8, <1>9, <1>10, <1>11, <1>12 DEF Next

\* The invariant of the row lock holds throughout.
LEMMA FitThroughout == Spec => []AllFit
<1>1. Init => AllFit
  BY IdleFits DEF Init, AllFit
<1>2. Inv /\ AllFit /\ [Next]_vars => AllFit'
  <2>1. UNCHANGED vars /\ AllFit => AllFit'
    BY DEF vars, AllFit
  <2>2. QED
    BY <2>1, NextFits
<1>3. QED
  BY <1>1, <1>2, Invariance, PTL DEF Spec

\* Which steps change deployments, and to what: a deployment that is live
\* afterwards was live before, is a new one, or is restored by a rollback.
LEMMA LiveAgain ==
    ASSUME Inv, AllFit, Next, NEW n \in Stamps, LiveKilled(n)', ~LiveKilled(n)
    PROVE  \E r \in Requests : \/ req[r].pc = "rollback" /\ req[r].at = n
                               \/ req[r].pc = "write" /\ req[r].to = "killed"
                                  /\ req[r].v = dep[n].version
<1> DEFINE same == dep'[n] = dep[n] /\ (state'[dep[n].version] = "killed" => state[dep[n].version] = "killed")
<1>0. dep'[n].status = "active" /\ state'[dep'[n].version] = "killed" /\ ~same
  BY DEF LiveKilled
<1>1. dep[n] \in Deployment \cup {NoDep} /\ dep \in [Stamps -> Deployment \cup {NoDep}]
      /\ state \in [Versions -> States] /\ NONE \notin Versions
  BY VersionsAssumption DEF Inv, Tables
<1>2. ASSUME NEW r \in Requests, WriteState(r)
      PROVE  req[r].pc = "write" /\ req[r].to = "killed" /\ req[r].v = dep[n].version
  <2>1. req[r].pc = "write" /\ dep' = dep /\ state' = [state EXCEPT ![req[r].v] = req[r].to]
    BY <1>2 DEF WriteState
  <2>2. dep[n].version \in Versions
    BY <1>0, <1>1, <2>1 DEF Deployment, NoDep
  <2>3. QED
    BY <1>0, <1>1, <2>1, <2>2
<1>3. ASSUME NEW r \in Requests, DeployCommit(r) PROVE FALSE
  <2> DEFINE q == req[r]
             old == Mark(q.rows, "superseded")
             new == [version |-> q.v, env |-> q.env, status |-> "active"]
  <2>1. q.at \in Stamps /\ state' = state /\ state[q.v] # "killed"
    BY <1>3 DEF DeployCommit, Inv, WellFormed, AllFit, StillFit, DeployStates, devStates, consumerStates
  <2>2. dep' = [old EXCEPT ![q.at] = new]
    BY <1>3 DEF DeployCommit
  <2>3. old \in [Stamps -> {IF m \in q.rows THEN [dep[m] EXCEPT !.status = "superseded"] ELSE dep[m] : m \in Stamps}]
        /\ old[n] = IF n \in q.rows THEN [dep[n] EXCEPT !.status = "superseded"] ELSE dep[n]
    BY DEF Mark
  <2>4. new.version = q.v
    OBVIOUS
  <2>5. n \in q.rows => [dep[n] EXCEPT !.status = "superseded"].status = "superseded"
    BY <1>1 DEF Deployment, NoDep
  <2> HIDE DEF old, new
  <2>6. dep'[n] = IF n = q.at THEN new ELSE old[n]
    BY <2>1, <2>2, <2>3
  <2>7. n # q.at
    BY <1>0, <2>1, <2>4, <2>6
  <2>8. QED
    BY <1>0, <2>1, <2>3, <2>5, <2>6, <2>7
<1>4. ASSUME NEW r \in Requests, RollbackWrite(r)
      PROVE  req[r].pc = "rollback" /\ req[r].at = n
  <2> DEFINE q == req[r]
             old == Mark(q.rows, "rolled_back")
             new == [old[q.at] EXCEPT !.status = "active"]
  <2>1. q.at \in Stamps /\ q.pc = "rollback" /\ q.v \in Versions
    BY <1>4 DEF RollbackWrite, Inv, WellFormed
  <2>2. dep' = [old EXCEPT ![q.at].status = "active"]
    BY <1>4 DEF RollbackWrite
  <2>3. old \in [Stamps -> {IF m \in q.rows THEN [dep[m] EXCEPT !.status = "rolled_back"] ELSE dep[m] : m \in Stamps}]
        /\ old[n] = IF n \in q.rows THEN [dep[n] EXCEPT !.status = "rolled_back"] ELSE dep[n]
    BY DEF Mark
  <2>4. n \in q.rows => [dep[n] EXCEPT !.status = "rolled_back"].status = "rolled_back"
    BY <1>1 DEF Deployment, NoDep
  <2> HIDE DEF old
  <2>5. n # q.at => dep'[n] = old[n]
    BY <2>1, <2>2, <2>3
  <2>6. state'[dep[n].version] = "killed" => state[dep[n].version] = "killed"
    BY <1>1, <1>4, <2>1 DEF RollbackWrite
  <2>7. QED
    BY <1>0, <2>1, <2>3, <2>4, <2>5, <2>6
<1>5. ASSUME NEW v \in Versions, Kill(v) PROVE FALSE
  <2> DEFINE live == {m \in Stamps : dep[m].version = v /\ dep[m].status = "active"}
  <2>1. dep' = Mark(live, "killed") /\ state' = [state EXCEPT ![v] = "killed"]
    BY <1>5 DEF Kill
  <2>2. dep'[n] = IF n \in live THEN [dep[n] EXCEPT !.status = "killed"] ELSE dep[n]
    BY <2>1 DEF Mark
  <2>3. n \in live => [dep[n] EXCEPT !.status = "killed"].status = "killed"
    BY <1>1 DEF Deployment, NoDep
  <2>4. dep'[n] = dep[n] /\ dep[n].status = "active" /\ dep[n].version # v
    BY <1>0, <2>2, <2>3
  <2>5. dep[n].version \in Versions
    BY <1>1, <2>4 DEF Deployment, NoDep
  <2>6. QED
    BY <1>0, <1>1, <2>1, <2>4, <2>5
<1>6. ASSUME UNCHANGED <<state, dep>> PROVE FALSE
  BY <1>0, <1>6
<1>7. ASSUME NEW r \in Requests,
             \/ Transition(r) \/ Decide(r, "approve", "approved") \/ Decide(r, "reject", "rejected")
             \/ SubmitReport(r) \/ WriteReport(r) \/ Deploy(r) \/ DeployBegin(r) \/ DeployLock(r)
             \/ DeploySnapshot(r) \/ DeployUpdate(r) \/ Rollback(r) \/ Fails(r) \/ TimesOut(r)
      PROVE  UNCHANGED <<state, dep>>
  BY <1>7 DEF Transition, Decide, SubmitReport, WriteReport, Deploy, DeployBegin, DeployLock,
              DeploySnapshot, DeployUpdate, Rollback, Fails, TimesOut
<1>8. QED
  BY <1>2, <1>3, <1>4, <1>5, <1>6, <1>7 DEF Next

\* The row lock that Deploy and Kill share keeps killed versions down, however
\* many requests overlap: only a rollback makes a deployment of one live again,
\* and only a transition to killed leaves one live.
THEOREM KilledStays == Spec => KilledStaysDown
<1>1. Inv /\ AllFit /\ [Next]_vars =>
        [\A n \in Stamps :
           LiveKilled(n)' =>
             \/ LiveKilled(n)
             \/ \E r \in Requests : req[r].pc = "rollback" /\ req[r].at = n
             \/ \E r \in Requests : req[r].pc = "write" /\ req[r].to = "killed"
                                     /\ req[r].v = dep[n].version]_vars
  BY LiveAgain
<1>2. QED
  BY <1>1, Invariance, FitThroughout, PTL DEF Spec, KilledStaysDown

-----------------------------------------------------------------------------
(* Deploys that overlap.  The row lock lets one Deploy of a version in at  *)
(* a time, so the rows its UPDATE saw are still all the live ones of that  *)
(* version when it commits, and all that committed before it looked; only  *)
(* a rollback can have added one meanwhile.                                *)

\* The deployments live in env that a deploy of v can see, if no rollback made them.
Own(v, env, d, back, late) ==
    {n \in Stamps : /\ d[n].status = "active" /\ d[n].env = env
                    /\ n \notin back
                    /\ d[n].version = v \/ n \notin late}

\* A deploy that has seen what it replaces replaces all it can see.
Replaces(q, d, back, late) ==
    q.pc \in {"update", "commit"} => Own(q.v, q.env, d, back, late) \subseteq q.rows

LockedOnce ==
    \A q, r \in Requests : \A v \in Versions : HoldsVersion(q, v) /\ HoldsVersion(r, v) => q = r

Single ==
    /\ LockedOnce
    /\ \A r \in Requests : Replaces(req[r], dep, restored, unseen)
    /\ OneActive

\* A step that locks nothing new and gives no version a live deployment of its own.
LEMMA SingleQuiet ==
    ASSUME Inv, Single, NEW r \in Requests, NEW q \in Request, Do(r, q),
           \A v \in Versions : q.v = v /\ q.pc \in {"snapshot", "update", "commit"} =>
                                 HoldsVersion(r, v) \/ Unlocked(v),
           \A v, env : Own(v, env, dep', restored', unseen') \subseteq Own(v, env, dep, restored, unseen),
           Replaces(q, dep', restored', unseen'), OneActive'
    PROVE  Single'
<1>1. req'[r] = q /\ \A x \in Requests : x # r => req'[x] = req[x]
  BY DEF Inv, Do
<1>2. LockedOnce'
  <2> SUFFICES ASSUME NEW x \in Requests, NEW y \in Requests, NEW v \in Versions,
                      HoldsVersion(x, v)', HoldsVersion(y, v)'
               PROVE  x = y
    BY DEF LockedOnce
  <2>1. ASSUME NEW z \in Requests, HoldsVersion(z, v)'
        PROVE  \/ HoldsVersion(z, v)
               \/ z = r /\ Unlocked(v)
    BY <1>1, <2>1 DEF HoldsVersion
  <2>2. QED
    BY <1>1, <2>1 DEF Single, LockedOnce, Unlocked, HoldsVersion
<1>3. \A x \in Requests : Replaces(req'[x], dep', restored', unseen')
  BY <1>1 DEF Single, Replaces
<1>4. QED
  BY <1>2, <1>3 DEF Single

\* The same when the deployments stay as they are.
LEMMA SingleStill ==
    ASSUME Inv, Single, NEW r \in Requests, NEW q \in Request, Do(r, q),
           UNCHANGED <<dep, restored, unseen>>,
           \A v \in Versions : q.v = v /\ q.pc \in {"snapshot", "update", "commit"} =>
                                 HoldsVersion(r, v) \/ Unlocked(v),
           Replaces(q, dep, restored, unseen)
    PROVE  Single'
<1>1. OneActive'
  BY DEF Single, OneActive
<1>2. QED
  BY <1>1, SingleQuiet

\* A step after which the request is one that neither locks nor replaces.
LEMMA SingleFree ==
    ASSUME Inv, Single, NEW r \in Requests, NEW q \in Request, Do(r, q),
           UNCHANGED <<dep, restored, unseen>>, q.pc \notin {"snapshot", "update", "commit"}
    PROVE  Single'
BY SingleStill DEF Replaces

\* Requests that begin, end or go on without a lock.
LEMMA UnlockedSingle ==
    ASSUME Inv, Inv', Single, NEW r \in Requests,
           \/ Transition(r) \/ WriteState(r)
           \/ Decide(r, "approve", "approved") \/ Decide(r, "reject", "rejected")
           \/ SubmitReport(r) \/ WriteReport(r) \/ Deploy(r) \/ DeployBegin(r)
           \/ Rollback(r) \/ Fails(r)
    PROVE  Single'
<1>1. UNCHANGED <<dep, restored, unseen>>
  BY DEF Transition, WriteState, Decide, SubmitReport, WriteReport, Deploy, DeployBegin, Rollback,
         Fails
<1>2. PICK q : Do(r, q) /\ q.pc \notin {"snapshot", "update", "commit"}
  <2>1. CASE Transition(r)
    <3>1. PICK v \in Versions, to \in Targets :
            \/ Do(r, [Idle EXCEPT !.pc = "deploy", !.v = v, !.from = state[v], !.to = to,
                                  !.env = DEPLOYS[to], !.then = "write"])
            \/ Do(r, [Idle EXCEPT !.pc = "write", !.v = v, !.from = state[v], !.to = to])
      BY <2>1 DEF Transition
    <3>2. /\ [Idle EXCEPT !.pc = "deploy", !.v = v, !.from = state[v], !.to = to,
                          !.env = DEPLOYS[to], !.then = "write"].pc = "deploy"
          /\ [Idle EXCEPT !.pc = "write", !.v = v, !.from = state[v], !.to = to].pc = "write"
      BY DEF Idle
    <3>3. QED
      BY <3>1, <3>2
  <2>2. CASE Decide(r, "approve", "approved") \/ Decide(r, "reject", "rejected")
    <3>1. PICK v, to : Do(r, [Idle EXCEPT !.pc = "write", !.v = v, !.from = state[v], !.to = to])
      BY <2>2 DEF Decide
    <3>2. [Idle EXCEPT !.pc = "write", !.v = v, !.from = state[v], !.to = to].pc = "write"
      BY DEF Idle
    <3>3. QED
      BY <3>1, <3>2
  <2>3. CASE SubmitReport(r)
    <3>1. PICK v \in Versions : Do(r, [Idle EXCEPT !.pc = "report", !.v = v])
      BY <2>3 DEF SubmitReport
    <3>2. [Idle EXCEPT !.pc = "report", !.v = v].pc = "report"
      BY DEF Idle
    <3>3. QED
      BY <3>1, <3>2
  <2>4. CASE Deploy(r)
    <3>1. PICK v \in Versions, env \in Environments : Do(r, [Idle EXCEPT !.pc = "deploy", !.v = v, !.env = env])
      BY <2>4 DEF Deploy
    <3>2. [Idle EXCEPT !.pc = "deploy", !.v = v, !.env = env].pc = "deploy"
      BY DEF Idle
    <3>3. QED
      BY <3>1, <3>2
  <2>5. CASE DeployBegin(r)
    <3>1. [req[r] EXCEPT !.pc = "lock", !.at = clock + 1].pc = "lock"
      BY DEF Inv, Request
    <3>2. QED
      BY <2>5, <3>1 DEF DeployBegin
  <2>6. CASE Rollback(r)
    <3>1. PICK v, at, rows :
            Do(r, [Idle EXCEPT !.pc = "rollback", !.v = v, !.at = at, !.rows = rows])
      BY <2>6 DEF Rollback
    <3>2. [Idle EXCEPT !.pc = "rollback", !.v = v, !.at = at, !.rows = rows].pc = "rollback"
      BY DEF Idle
    <3>3. QED
      BY <3>1, <3>2
  <2>7. CASE WriteState(r) \/ WriteReport(r) \/ Fails(r)
    BY <2>7 DEF WriteState, WriteReport, Fails, Ends, Idle
  <2>8. QED
    BY <2>1, <2>2, <2>3, <2>4, <2>5, <2>6, <2>7
<1>3. q \in Request
  BY <1>2 DEF Inv, Do
<1>4. QED
  BY <1>1, <1>2, <1>3, SingleFree

\* Deploys take the lock when it is free and then see what they replace.
LEMMA LockedSingle ==
    ASSUME Inv, Inv', Single, NEW r \in Requests,
           DeployLock(r) \/ DeploySnapshot(r) \/ DeployUpdate(r) \/ TimesOut(r)
    PROVE  Single'
<1>0. req[r] \in Request /\ WellFormed(req[r], dep) /\ UNCHANGED <<dep, restored, unseen>>
  BY DEF Inv, DeployLock, DeploySnapshot, DeployUpdate, TimesOut
<1>1. CASE DeployLock(r)
  <2>1. CASE state[req[r].v] \in DeployStates(req[r].env)
    <3> DEFINE q == [req[r] EXCEPT !.pc = "snapshot"]
    <3>1. Do(r, q)
      BY <1>1, <2>1 DEF DeployLock, Goto, Do, Inv
    <3>2. q \in Request /\ q.pc = "snapshot" /\ q.v = req[r].v
      BY <1>0 DEF Request, PCs
    <3> HIDE DEF q
    <3>3. QED
      BY <1>0, <1>1, <3>1, <3>2, SingleStill DEF Replaces, DeployLock
  <2>2. CASE state[req[r].v] \notin DeployStates(req[r].env)
    BY <1>0, <1>1, <2>2, IdleFine, SingleFree DEF DeployLock, Ends, Idle
  <2>3. QED
    BY <2>1, <2>2
<1>2. CASE DeploySnapshot(r)
  <2> DEFINE q == [req[r] EXCEPT !.pc = "update", !.rows = Active(req[r].env)]
  <2>1. Do(r, q) /\ req[r].pc = "snapshot"
    BY <1>2 DEF DeploySnapshot
  <2>2. q.pc = "update" /\ q.v = req[r].v /\ q.env = req[r].env /\ q.rows = Active(req[r].env)
    BY <1>0 DEF Request
  <2>3. q \in Request
    BY <2>1 DEF Inv, Do
  <2> HIDE DEF q
  <2>4. Replaces(q, dep, restored, unseen)
    BY <2>2 DEF Replaces, Own, Active
  <2>5. QED
    BY <1>0, <2>1, <2>2, <2>3, <2>4, SingleStill DEF HoldsVersion
<1>3. CASE DeployUpdate(r)
  <2> DEFINE q == [req[r] EXCEPT !.pc = "commit", !.rows = @ \cap Active(req[r].env)]
  <2>1. Do(r, q) /\ req[r].pc = "update"
    BY <1>3 DEF DeployUpdate
  <2>2. q.pc = "commit" /\ q.v = req[r].v /\ q.env = req[r].env
        /\ q.rows = req[r].rows \cap Active(req[r].env)
    BY <1>0 DEF Request
  <2>3. q \in Request
    BY <2>1 DEF Inv, Do
  <2> HIDE DEF q
  <2>4. Replaces(q, dep, restored, unseen)
    BY <2>1, <2>2 DEF Single, Replaces, Own, Active
  <2>5. QED
    BY <1>0, <2>1, <2>2, <2>3, <2>4, SingleStill DEF HoldsVersion
<1>4. CASE TimesOut(r)
  <2> DEFINE q == [req[r] EXCEPT !.then = "idle", !.from = "none", !.to = "none"]
  <2>1. Do(r, q)
    BY <1>4 DEF TimesOut
  <2>2. q.pc = req[r].pc /\ q.v = req[r].v /\ q.env = req[r].env /\ q.rows = req[r].rows
    BY <1>0 DEF Request
  <2>3. q \in Request
    BY <2>1 DEF Inv, Do
  <2> HIDE DEF q
  <2>4. Replaces(q, dep, restored, unseen)
    BY <2>2 DEF Single, Replaces
  <2>5. QED
    BY <1>0, <2>1, <2>2, <2>3, <2>4, SingleStill DEF HoldsVersion
<1>5. QED
  BY <1>1, <1>2, <1>3, <1>4

\* What marking does to one deployment.
LEMMA MarkedStatus ==
    ASSUME Tables, NEW ns \in SUBSET Stamps, NEW status, NEW n \in Stamps
    PROVE  /\ n \in ns => Mark(ns, status)[n].status = status
           /\ n \notin ns => Mark(ns, status)[n] = dep[n]
           /\ Mark(ns, status)[n].env = dep[n].env
           /\ Mark(ns, status)[n].version = dep[n].version
BY DEF Mark, Tables, Deployment, NoDep

\* Marking leaves a table of the same keys.
LEMMA MarkedTable ==
    ASSUME NEW ns, NEW status
    PROVE  Mark(ns, status) = [m \in Stamps |-> Mark(ns, status)[m]]
BY DEF Mark

\* A deployment that a kill leaves live is another version's.
LEMMA KillLeaves ==
    ASSUME Inv, NEW v \in Versions, Kill(v), NEW n \in Stamps, dep'[n].status = "active"
    PROVE  dep'[n] = dep[n] /\ dep[n].version # v
<1> DEFINE live == {m \in Stamps : dep[m].version = v /\ dep[m].status = "active"}
<1>1. dep' = Mark(live, "killed") /\ Tables /\ live \in SUBSET Stamps
  BY DEF Kill, Inv
<1>2. n \notin live /\ dep'[n] = dep[n]
  BY <1>1, MarkedStatus
<1>3. QED
  BY <1>2

\* The commit replaces every live deployment it can see, and is replaced in turn
\* unless another deploy has looked already.
LEMMA CommitSingle ==
    ASSUME Inv, Inv', Single, NEW r \in Requests, DeployCommit(r)
    PROVE  Single'
<1> DEFINE q == req[r]
           old == Mark(q.rows, "superseded")
           new == [version |-> q.v, env |-> q.env, status |-> "active"]
<1>1. /\ q \in Request /\ q.at \in Stamps /\ q.rows \in SUBSET Stamps /\ Tables /\ q.v \in Versions
      /\ dep' = [old EXCEPT ![q.at] = new] /\ restored' = restored /\ q.pc = "commit"
      /\ Own(q.v, q.env, dep, restored, unseen) \subseteq q.rows
      /\ unseen \subseteq unseen'
      /\ \A x \in Requests \ {r} : req[x].pc \in {"update", "commit"} /\ req[x].env = q.env =>
            q.at \in unseen'
  BY DEF DeployCommit, Inv, Single, Replaces, WellFormed, Request
<1>2. ASSUME NEW n \in Stamps
      PROVE  /\ n \in q.rows => old[n].status = "superseded"
             /\ n \notin q.rows => old[n] = dep[n]
  BY <1>1, MarkedStatus
<1>3. old = [m \in Stamps |-> old[m]]
  BY MarkedTable
<1>4. new.version = q.v /\ new.env = q.env
  OBVIOUS
<1> HIDE DEF old, new
<1>5. \A n \in Stamps : dep'[n] = IF n = q.at THEN new ELSE old[n]
  BY <1>1, <1>3
<1>6. ASSUME NEW n \in Stamps, n # q.at, dep'[n].status = "active"
      PROVE  dep'[n] = dep[n] /\ n \notin Own(q.v, q.env, dep, restored, unseen)
  BY <1>1, <1>2, <1>5, <1>6
<1>7. OneActive'
  <2> SUFFICES ASSUME NEW m \in Stamps, NEW n \in Stamps,
                      dep'[m].status = "active", dep'[n].status = "active",
                      dep'[m].env = dep'[n].env, m # n, m \notin restored, n \notin restored
               PROVE  dep'[m].version # dep'[n].version /\ (m \in unseen' \/ n \in unseen')
    BY <1>1 DEF OneActive
  <2>1. CASE m # q.at /\ n # q.at
    BY <1>1, <1>6, <2>1 DEF Single, OneActive
  <2>2. CASE m = q.at
    BY <1>1, <1>4, <1>5, <1>6, <2>2 DEF Own
  <2>3. CASE n = q.at
    BY <1>1, <1>4, <1>5, <1>6, <2>3 DEF Own
  <2>4. QED
    BY <2>1, <2>2, <2>3
<1>8. PICK p : Do(r, p) /\ p.pc \notin {"snapshot", "update", "commit"}
  <2>1. CASE q.then = "idle"
    BY <2>1 DEF DeployCommit, Ends, Idle
  <2>2. CASE q.then # "idle"
    <3>1. q.then = "write"
      BY <1>1, <2>2 DEF Request
    <3>2. [Idle EXCEPT !.pc = q.then, !.v = q.v, !.from = q.from, !.to = q.to].pc = "write"
      BY <3>1 DEF Idle
    <3>3. QED
      BY <2>2, <3>2 DEF DeployCommit
  <2>3. QED
    BY <2>1, <2>2
<1>9. req'[r] = p /\ \A x \in Requests : x # r => req'[x] = req[x]
  BY <1>8 DEF Inv, Do
<1>10. LockedOnce'
  BY <1>8, <1>9 DEF Single, LockedOnce, HoldsVersion
<1>11. ASSUME NEW x \in Requests PROVE Replaces(req'[x], dep', restored', unseen')
  <2>1. CASE x = r
    BY <1>8, <1>9, <2>1 DEF Replaces
  <2>2. CASE x # r
    <3>1. SUFFICES ASSUME req[x].pc \in {"update", "commit"},
                          NEW n \in Own(req[x].v, req[x].env, dep', restored, unseen')
                   PROVE  n \in req[x].rows
      BY <1>1, <1>9, <2>2 DEF Replaces
    <3>2. req[x].v \in Versions /\ Own(req[x].v, req[x].env, dep, restored, unseen) \subseteq req[x].rows
      BY <3>1 DEF Inv, WellFormed, Single, Replaces
    <3>3. req[x].v # q.v
      BY <1>1, <2>2, <3>1, <3>2 DEF Single, LockedOnce, HoldsVersion
    <3>4. n \in Stamps /\ dep'[n].status = "active" /\ dep'[n].env = req[x].env /\ n \notin restored
          /\ (dep'[n].version = req[x].v \/ n \notin unseen')
      BY <3>1 DEF Own
    <3>5. n # q.at
      BY <1>1, <1>4, <1>5, <2>2, <3>1, <3>3, <3>4
    <3>6. n \in Own(req[x].v, req[x].env, dep, restored, unseen)
      BY <1>1, <1>6, <3>4, <3>5 DEF Own
    <3>7. QED
      BY <3>2, <3>6
  <2>3. QED
    BY <2>1, <2>2
<1>12. QED
  BY <1>7, <1>10, <1>11 DEF Single

\* A rollback adds only deployments that it restored, ...
LEMMA RollbackSingle ==
    ASSUME Inv, Single, NEW r \in Requests, RollbackWrite(r)
    PROVE  Single'
<1> DEFINE q == req[r]
           old == Mark(q.rows, "rolled_back")
<1>1. /\ q \in Request /\ q.at \in Stamps /\ q.rows \in SUBSET Stamps /\ Tables
      /\ dep' = [old EXCEPT ![q.at].status = "active"] /\ restored' = restored \cup {q.at}
      /\ unseen' = unseen /\ Do(r, Idle)
  BY DEF RollbackWrite, Inv, WellFormed, Request, Ends
<1>2. ASSUME NEW n \in Stamps
      PROVE  /\ n \in q.rows => old[n].status = "rolled_back"
             /\ n \notin q.rows => old[n] = dep[n]
  BY <1>1, MarkedStatus
<1>3. old = [m \in Stamps |-> old[m]]
  BY MarkedTable
<1> HIDE DEF old
<1>4. \A n \in Stamps : n # q.at => dep'[n] = old[n]
  BY <1>1, <1>3
<1>5. ASSUME NEW n \in Stamps, n \notin restored', dep'[n].status = "active"
      PROVE  dep'[n] = dep[n] /\ n \notin restored
  BY <1>1, <1>2, <1>4, <1>5
<1>6. \A v, env : Own(v, env, dep', restored', unseen') \subseteq Own(v, env, dep, restored, unseen)
  BY <1>1, <1>5 DEF Own
<1>7. OneActive'
  BY <1>1, <1>5 DEF Single, OneActive
<1>8. QED
  BY <1>1, <1>6, <1>7, IdleFine, SingleQuiet DEF Idle, Replaces

\* ... and a kill none.
LEMMA KillSingle ==
    ASSUME Inv, Single, NEW v \in Versions, Kill(v)
    PROVE  Single'
<1>1. req' = req /\ restored' = restored /\ unseen' = unseen
  BY DEF Kill
<1>2. \A n \in Stamps : dep'[n].status = "active" => dep'[n] = dep[n]
  BY KillLeaves
<1>3. \A x, env : Own(x, env, dep', restored', unseen') \subseteq Own(x, env, dep, restored, unseen)
  BY <1>1, <1>2 DEF Own
<1>4. OneActive'
  BY <1>1, <1>2 DEF Single, OneActive
<1>5. QED
  BY <1>1, <1>3, <1>4 DEF Single, LockedOnce, HoldsVersion, Replaces

\* However many deploys overlap, they leave one live deployment of a version in an
\* environment, for the row lock makes the later one see the earlier one's; and one
\* of all versions, unless a rollback brought one back or one was committed when
\* the other deploy had already looked.
THEOREM OneLive == Spec => []OneActive
<1>1. Init => Single
  <2> SUFFICES ASSUME Init PROVE Single
    OBVIOUS
  <2>1. \A r \in Requests : req[r].pc = "idle"
    BY DEF Init, Idle
  <2>2. OneActive
    BY DEF Init, OneActive, NoDep
  <2>3. QED
    BY <2>1, <2>2 DEF Single, LockedOnce, HoldsVersion, Replaces
<1>2. Inv /\ Inv' /\ Single /\ [Next]_vars => Single'
  <2> SUFFICES ASSUME Inv, Inv', Single, [Next]_vars PROVE Single'
    OBVIOUS
  <2>1. CASE Next
    BY <2>1, UnlockedSingle, LockedSingle, CommitSingle, RollbackSingle, KillSingle DEF Next
  <2>2. CASE UNCHANGED vars
    BY <2>2 DEF vars, Single, LockedOnce, HoldsVersion, Replaces, OneActive
  <2>3. QED
    BY <2>1, <2>2
<1>3. Single => OneActive
  BY DEF Single
<1>4. QED
  BY <1>1, <1>2, <1>3, Invariance, PTL DEF Spec

-----------------------------------------------------------------------------
(* What becomes of the states, and what customers reach. *)

\* The lifecycle that Release promises is the one it checks against.
LEMMA SameLifecycle == Promise!LifecycleSteps = LifecycleSteps
BY DEF Promise!LifecycleSteps, Promise!TRANSITIONS, Promise!KILLABLE, Promise!SYSTEM_ONLY,
       LifecycleSteps, TRANSITIONS, KILLABLE, SYSTEM_ONLY

\* Steps of the lifecycle that matter here: out of a state that may be killed,
\* out of released, out of those that serve customers, and none out of killed.
LEMMA SomeSteps ==
    /\ \A s \in killableStates : <<s, "killed">> \in LifecycleSteps
    /\ <<"released", "rolled_back">> \in LifecycleSteps
    /\ \A s : <<"killed", s>> \notin LifecycleSteps
    /\ \A s, t : <<s, t>> \in LifecycleSteps /\ s \in consumerStates =>
                    t \in {"rejected", "rolled_back", "killed"} \cup consumerStates
<1>1. \A t \in TRANSITIONS : /\ t[1] # "killed"
                             /\ t[1] \in consumerStates =>
                                  t[2] \in {"rejected", "rolled_back", "killed"} \cup consumerStates
  BY DEF TRANSITIONS, KILLABLE, consumerStates
<1>2. ASSUME NEW s, NEW t, <<s, t>> \in LifecycleSteps
      PROVE  s # "killed" /\ (s \in consumerStates =>
                                t \in {"rejected", "rolled_back", "killed"} \cup consumerStates)
  <2>1. PICK u \in TRANSITIONS : <<s, t>> = <<u[1], u[2]>>
    BY <1>2 DEF LifecycleSteps
  <2>2. QED
    BY <1>1, <2>1
<1>3. ASSUME NEW s \in killableStates PROVE <<s, "killed">> \in LifecycleSteps
  <2>1. <<s, "killed", "killswitch.activate">> \in TRANSITIONS
    BY DEF killableStates, TRANSITIONS, KILLABLE
  <2>2. QED
    BY <2>1 DEF LifecycleSteps
<1>4. <<"released", "rolled_back">> \in LifecycleSteps
  <2>1. <<"released", "rolled_back", "releases.manage">> \in TRANSITIONS
    BY DEF TRANSITIONS
  <2>2. QED
    BY <2>1 DEF LifecycleSteps
<1>5. QED
  BY <1>2, <1>3, <1>4

\* A state that changes takes a step of the lifecycle, unless the request that
\* writes it was overtaken.
LEMMA StateSteps ==
    ASSUME Inv, Next, NEW v \in Versions, state'[v] # state[v], \A r \in Requests : ~Overtaken(r, v)
    PROVE  <<state[v], state'[v]>> \in LifecycleSteps
<1>0. state \in [Versions -> States]
  BY DEF Inv, Tables
<1>1. ASSUME NEW r \in Requests, WriteState(r) PROVE <<state[v], state'[v]>> \in LifecycleSteps
  <2>1. req[r].v = v /\ req[r].to = state'[v] /\ req[r].pc = "write"
    BY <1>0, <1>1 DEF WriteState
  <2>2. req[r].from = state[v]
    BY <2>1 DEF Overtaken
  <2>3. QED
    BY <2>1, <2>2 DEF Inv, WellFormed
<1>2. ASSUME NEW r \in Requests, RollbackWrite(r) PROVE <<state[v], state'[v]>> \in LifecycleSteps
  <2>1. state[v] = "released" /\ state'[v] = "rolled_back"
    BY <1>0, <1>2 DEF RollbackWrite
  <2>2. QED
    BY <2>1, SomeSteps
<1>3. ASSUME NEW x \in Versions, Kill(x) PROVE <<state[v], state'[v]>> \in LifecycleSteps
  <2>1. state[v] \in killableStates /\ state'[v] = "killed"
    BY <1>0, <1>3 DEF Kill
  <2>2. QED
    BY <2>1, SomeSteps
<1>4. QED
  BY <1>1, <1>2, <1>3
  DEF Next, Transition, Decide, SubmitReport, WriteReport, Deploy, DeployBegin, DeployLock,
      DeploySnapshot, DeployUpdate, DeployCommit, Rollback, Fails, TimesOut

\* However requests overlap, every change of a version's state is a step of the
\* lifecycle from the state there is, unless it is the write of a request that
\* another one overtook: the backend writes what it was granted, and the control
\* plane checks the state under the lock.
THEOREM StepsOfLifecycle == Spec => OnlyLifecycleSteps
<1>1. Inv /\ [Next]_vars =>
        [\A v \in Versions : \/ state'[v] = state[v]
                             \/ Promise!MayBecome(state[v], state'[v])
                             \/ \E r \in Requests : Overtaken(r, v)]_vars
  BY StateSteps, SameLifecycle DEF Promise!MayBecome
<1>2. QED
  BY <1>1, Invariance, PTL DEF Spec, OnlyLifecycleSteps

\* What it takes for customers to reach a version that is not approved, ...
LEMMA UnapprovedLive ==
    Tables /\ ServedUnapproved =>
      \E n \in Stamps : /\ dep[n] \in Deployment /\ dep[n].env = "consumer" /\ dep[n].status = "active"
                        /\ state[dep[n].version] \notin consumerStates \cup {"killed"}
<1> SUFFICES ASSUME Tables, ServedUnapproved
             PROVE  \E n \in Stamps :
                       /\ dep[n] \in Deployment /\ dep[n].env = "consumer" /\ dep[n].status = "active"
                       /\ state[dep[n].version] \notin consumerStates \cup {"killed"}
  OBVIOUS
<1> DEFINE n == Newest(Active("consumer"))
<1>1. Active("consumer") # {}
  BY DEF ServedUnapproved, Served
<1>2. n \in Active("consumer") /\ Active("consumer") \in SUBSET Stamps
  BY <1>1, ActiveDeployed, NewestIsIn
<1>3. state[dep[n].version] # "killed" /\ Served("consumer") = dep[n].version
  BY <1>1 DEF ServedUnapproved, Served
<1> HIDE DEF n
<1>4. dep[n] \in Deployment /\ dep[n].env = "consumer" /\ dep[n].status = "active" /\ n \in Stamps
  BY <1>2 DEF Active, Tables, NoDep
<1>5. QED
  BY <1>3, <1>4 DEF ServedUnapproved

\* ... and what they reach while one deployment is live.
LEMMA LiveServed ==
    ASSUME Tables, ~Crowded, NEW n \in Stamps, dep[n].env = "consumer", dep[n].status = "active",
           state[dep[n].version] # "killed"
    PROVE  dep[n].version \in Versions /\ Served("consumer") = dep[n].version
<1>1. n \in Active("consumer")
  BY DEF Active
<1>2. Newest(Active("consumer")) = n
  <2>1. Newest(Active("consumer")) \in Active("consumer")
    BY <1>1, ActiveDeployed, NewestIsIn
  <2>2. QED
    BY <1>1, <2>1 DEF Crowded
<1>3. QED
  BY <1>1, <1>2 DEF Served, Tables, Deployment, NoDep

\* What a commit makes live is fit to be, and what else is live was so before.
LEMMA CommitFits ==
    ASSUME Inv, AllFit, NEW r \in Requests, DeployCommit(r), NEW n \in Stamps, dep'[n].status = "active"
    PROVE  /\ state' = state
           /\ \/ dep'[n] = dep[n]
              \/ dep'[n].env = req[r].env /\ state[dep'[n].version] \in DeployStates(req[r].env)
<1> DEFINE q == req[r]
           old == Mark(q.rows, "superseded")
           new == [version |-> q.v, env |-> q.env, status |-> "active"]
<1>1. /\ q \in Request /\ q.at \in Stamps /\ q.rows \in SUBSET Stamps /\ Tables
      /\ dep' = [old EXCEPT ![q.at] = new] /\ state' = state
      /\ state[q.v] \in DeployStates(q.env)
  BY DEF DeployCommit, Inv, AllFit, StillFit, WellFormed, Request
<1>2. /\ n \in q.rows => old[n].status = "superseded"
      /\ n \notin q.rows => old[n] = dep[n]
  BY <1>1, MarkedStatus
<1>3. old = [m \in Stamps |-> old[m]]
  BY MarkedTable
<1>4. new.version = q.v /\ new.env = q.env
  OBVIOUS
<1> HIDE DEF old, new
<1>5. dep'[n] = IF n = q.at THEN new ELSE old[n]
  BY <1>1, <1>3
<1>6. QED
  BY <1>1, <1>2, <1>4, <1>5

\* However requests overlap, customers who are served from one live deployment
\* reach only approved and released versions until the one that serves is
\* withdrawn, a rollback is made, or an overtaken request writes a state.
THEOREM ServedApproved == Spec => ServedUnlessWithdrawn
<1>1. ASSUME Inv, AllFit, Next, Tables', ServedUnapproved', ~ServedUnapproved, ~Crowded,
             \A r \in Requests : ~RollbackWrite(r),
             \A r \in Requests, v \in Versions : Overtaken(r, v) => state'[v] = state[v]
      PROVE  /\ dep' = dep /\ Served("consumer") # NONE
             /\ state'[Served("consumer")] \in {"rejected", "rolled_back"}
  <2>0. Tables /\ state \in [Versions -> States]
    BY <1>1 DEF Inv, Tables
  <2>1. PICK n \in Stamps :
          /\ dep'[n] \in Deployment /\ dep'[n].env = "consumer" /\ dep'[n].status = "active"
          /\ state'[dep'[n].version] \notin consumerStates \cup {"killed"}
    <3>1. (Tables /\ ServedUnapproved =>
             \E n \in Stamps :
               /\ dep[n] \in Deployment /\ dep[n].env = "consumer" /\ dep[n].status = "active"
               /\ state[dep[n].version] \notin consumerStates \cup {"killed"})'
      BY UnapprovedLive, PTL
    <3>2. QED
      BY <1>1, <3>1
  <2>2. PICK v \in Versions : v = dep'[n].version
    BY <2>1 DEF Deployment
  <2>3. ASSUME dep'[n] = dep[n], state'[v] = state[v] PROVE FALSE
    <3>1. Served("consumer") = v
      BY <1>1, <2>0, <2>1, <2>2, <2>3, LiveServed
    <3>2. QED
      BY <1>1, <2>1, <2>2, <2>3, <3>1, VersionsAssumption DEF ServedUnapproved
  <2>4. ASSUME NEW r \in Requests, WriteState(r)
        PROVE  /\ dep' = dep /\ Served("consumer") # NONE
               /\ state'[Served("consumer")] \in {"rejected", "rolled_back"}
    <3>1. dep' = dep /\ state'[v] # state[v]
      BY <2>3, <2>4 DEF WriteState
    <3>2. <<state[v], state'[v]>> \in LifecycleSteps /\ state[v] # "killed"
      BY <1>1, <3>1, StateSteps, SomeSteps
    <3>3. Served("consumer") = v
      BY <1>1, <2>0, <2>1, <2>2, <3>1, <3>2, LiveServed
    <3>4. state[v] \in consumerStates
      BY <1>1, <3>3, VersionsAssumption DEF ServedUnapproved
    <3>5. QED
      BY <2>1, <2>2, <3>1, <3>2, <3>3, <3>4, SomeSteps, VersionsAssumption
  <2>5. ASSUME NEW r \in Requests, DeployCommit(r) PROVE FALSE
    <3>1. /\ state' = state
          /\ \/ dep'[n] = dep[n]
             \/ dep'[n].env = req[r].env /\ state[dep'[n].version] \in DeployStates(req[r].env)
      BY <1>1, <2>1, <2>5, CommitFits
    <3>2. CASE dep'[n] = dep[n]
      BY <2>3, <3>1, <3>2
    <3>3. CASE dep'[n].env = req[r].env /\ state[dep'[n].version] \in DeployStates(req[r].env)
      BY <2>1, <3>1, <3>3 DEF DeployStates
    <3>4. QED
      BY <3>1, <3>2, <3>3
  <2>6. ASSUME NEW x \in Versions, Kill(x) PROVE FALSE
    <3>1. dep'[n] = dep[n] /\ dep[n].version # x
      BY <1>1, <2>1, <2>6, KillLeaves
    <3>2. QED
      BY <2>0, <2>2, <2>3, <2>6, <3>1 DEF Kill
  <2>7. ASSUME UNCHANGED <<state, dep>> PROVE FALSE
    BY <2>3, <2>7
  <2>8. QED
    BY <1>1, <2>4, <2>5, <2>6, <2>7
    DEF Next, Transition, Decide, SubmitReport, WriteReport, Deploy, DeployBegin, DeployLock,
        DeploySnapshot, DeployUpdate, Rollback, Fails, TimesOut
<1>2. Inv' => Tables'
  BY DEF Inv
<1>3. Inv /\ AllFit /\ Inv' /\ [Next]_vars =>
        [ServedUnapproved' =>
            \/ ServedUnapproved \/ Crowded
            \/ /\ dep' = dep /\ Served("consumer") # NONE
               /\ state'[Served("consumer")] \in {"rejected", "rolled_back"}
            \/ \E r \in Requests : RollbackWrite(r)
            \/ \E r \in Requests, v \in Versions : Overtaken(r, v) /\ state'[v] # state[v]]_vars
  BY <1>1, <1>2
<1>4. QED
  BY <1>3, Invariance, FitThroughout, PTL DEF Spec, ServedUnlessWithdrawn
=============================================================================
