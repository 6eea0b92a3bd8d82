------------------------------ MODULE Release -------------------------------
(***************************************************************************)
(* Approving, deploying, rolling back and killing the versions of one      *)
(* model.                                                                  *)
(*                                                                         *)
(* Two programs write the same tables.  The Python backend                 *)
(* (platform/api/routes_tenant.py) reads a version without locking it,     *)
(* decides, and writes the new state by primary key when the request ends. *)
(* The Go control plane (internal/server) decides which deployment serves, *)
(* in transactions that lock the version's row.  A transition to canary or *)
(* released calls the control plane before the backend writes the state.   *)
(* Transactions run at READ COMMITTED.                                     *)
(*                                                                         *)
(* The caller of an operation is named where it takes more than one        *)
(* permission; a single permission always has somebody who holds it.       *)
(***************************************************************************)
EXTENDS Integers, FiniteSets, Lifecycle

CONSTANTS
    Versions,    \* versions of the model, each with a clean audit behind it
    Requests,    \* requests that may be in flight at the same time
    NONE,        \* no version
    InitState,   \* the versions' state at first: clean, or further on when they
                 \* were tested before the control plane was set up
    Ops,         \* the operations used: a subset of AllOps
    Targets,     \* the states POST /versions/{id}/transition is asked for
    MaxDeploys   \* bound: deployments ever begun

AllOps == {"transition", "approve", "reject", "report", "deploy", "rollback", "kill"}

ASSUME VersionsAssumption == NONE \notin Versions
ASSUME InitStateAssumption == InitState \in {"clean", "canary", "verifying"}
ASSUME OpsAssumption == Ops \subseteq AllOps
ASSUME TargetsAssumption == Targets \subseteq States
ASSUME MaxDeploysAssumption == MaxDeploys \in Nat

VARIABLES
    state,     \* model_versions.state
    leaks,     \* whether test reports on the version counted a leak
    dep,       \* deployments, by created_at
    clock,     \* created_at of the transaction that began last
    req,       \* requests in flight
    approved,  \* history: versions that have been in state approved
    restored,  \* history: deployments that a rollback made active again
    unseen     \* history: deployments committed after another deploy to the same
               \* environment had seen what it replaces

vars == <<state, leaks, dep, clock, req, approved, restored, unseen>>

Environments == {"dev", "consumer"}
Statuses == {"active", "superseded", "rolled_back", "killed"}
Stamps == 1..MaxDeploys
NoDep == [version |-> NONE, env |-> "none", status |-> "none"]
Deployment == [version : Versions, env : Environments, status : Statuses]

devStates == {"clean", "canary", "verifying"}
consumerStates == {"approved", "released"}
killableStates == {"findings", "clean", "canary", "verifying", "approved", "released"}

\* Faulty DeployStates: the environment is ignored.
DeployStatesAny(env) == devStates \cup consumerStates

DeployStates(env) == IF env = "dev" THEN devStates ELSE consumerStates
DeployPermission(env) == IF env = "dev" THEN "endpoints.dev" ELSE "releases.manage"

\* DEPLOYS: the environment that a transition to a state deploys to.
DEPLOYS == [canary |-> "dev", released |-> "consumer"]

-----------------------------------------------------------------------------
(* Requests.  The fields: pc, where it stands; v, its version; from, the   *)
(* state it has loaded and to, the one it will write; env, where it        *)
(* deploys; then, what follows the call of the control plane; at, the      *)
(* deployment to make active; rows, the deployments to retire.             *)

Idle == [pc |-> "idle", v |-> NONE, from |-> "none", to |-> "none", env |-> "none",
         then |-> "idle", at |-> 0, rows |-> {}]

Do(r, q) == req' = [req EXCEPT ![r] = q]
Goto(r, p) == req' = [req EXCEPT ![r].pc = p]
Ends(r) == Do(r, Idle)

Starts(r, op) == op \in Ops /\ req[r] = Idle

\* Faulty Unlocked: GetVersion without FOR UPDATE.
UnlockedAlways(v) == TRUE

\* The control plane's SELECT ... FOR UPDATE holds the row until its commit.
HoldsVersion(r, v) == req[r].v = v /\ req[r].pc \in {"snapshot", "update", "commit"}
Unlocked(v) == \A r \in Requests : ~HoldsVersion(r, v)

\* Deployments that an uncommitted Deploy has already marked superseded.
RowsUnlocked(rows) == \A r \in Requests : req[r].pc = "commit" => req[r].rows \cap rows = {}

Active(env) == {n \in Stamps : dep[n].env = env /\ dep[n].status = "active"}
Newest(ns) == CHOOSE n \in ns : \A m \in ns : m <= n

\* The deployments ns get this status.
Mark(ns, status) == [n \in Stamps |-> IF n \in ns THEN [dep[n] EXCEPT !.status = status] ELSE dep[n]]

-----------------------------------------------------------------------------
Init ==
    /\ state = [v \in Versions |-> InitState]
    /\ leaks = [v \in Versions |-> FALSE]
    /\ dep = [n \in Stamps |-> NoDep]
    /\ clock = 0
    /\ req = [r \in Requests |-> Idle]
    /\ approved = {}
    /\ restored = {}
    /\ unseen = {}

(* The backend. *)

\* transition(): load the version, lifecycle.check, then _deploy_first.  The
\* control plane applies the same person's role.
Transition(r) ==
    /\ Starts(r, "transition")
    /\ \E v \in Versions, to \in Targets, role \in Callers :
         /\ check(state[v], to, role)
         /\ IF to \in DOMAIN DEPLOYS
            THEN /\ Allowed(role, DeployPermission(DEPLOYS[to]))
                 /\ Do(r, [Idle EXCEPT !.pc = "deploy", !.v = v, !.from = state[v], !.to = to,
                                       !.env = DEPLOYS[to], !.then = "write"])
            ELSE Do(r, [Idle EXCEPT !.pc = "write", !.v = v, !.from = state[v], !.to = to])
    /\ UNCHANGED <<state, leaks, dep, clock, approved, restored, unseen>>

\* The versions here have a passing audit without findings, so what is left to
\* check is leaks.
check_approvable(v) == ~leaks[v]

\* decide(): approve (after _check_approvable) or reject.
Decide(r, decision, to) ==
    /\ Starts(r, decision)
    /\ \E v \in Versions, role \in Callers :
         /\ allowed(role, "approvals.decide")
         /\ decision = "approve" => check_approvable(v)
         /\ check(state[v], to, role)
         /\ Do(r, [Idle EXCEPT !.pc = "write", !.v = v, !.from = state[v], !.to = to])
    /\ UNCHANGED <<state, leaks, dep, clock, approved, restored, unseen>>

\* lifecycle.move on the version as it was loaded, and the commit: UPDATE by
\* primary key, after any transaction that holds the row.
WriteState(r) ==
    /\ req[r].pc = "write"
    /\ Unlocked(req[r].v)
    /\ state' = [state EXCEPT ![req[r].v] = req[r].to]
    /\ approved' = IF req[r].to = "approved" THEN approved \cup {req[r].v} ELSE approved
    /\ Ends(r)
    /\ UNCHANGED <<leaks, dep, clock, restored, unseen>>

\* submit_test_report(): only for a version on developer endpoints.
SubmitReport(r) ==
    /\ Starts(r, "report")
    /\ \E v \in Versions :
         /\ state[v] \in {"canary", "verifying"}
         /\ Do(r, [Idle EXCEPT !.pc = "report", !.v = v])
    /\ UNCHANGED <<state, leaks, dep, clock, approved, restored, unseen>>

\* The report with at least one leak is committed (one without changes nothing).
WriteReport(r) ==
    /\ req[r].pc = "report"
    /\ leaks' = [leaks EXCEPT ![req[r].v] = TRUE]
    /\ Ends(r)
    /\ UNCHANGED <<state, dep, clock, approved, restored, unseen>>

(* The control plane. *)

\* mp deploy: the control plane called by hand.
Deploy(r) ==
    /\ Starts(r, "deploy")
    /\ \E v \in Versions, env \in Environments, role \in Callers :
         /\ Allowed(role, DeployPermission(env))
         /\ Do(r, [Idle EXCEPT !.pc = "deploy", !.v = v, !.env = env])
    /\ UNCHANGED <<state, leaks, dep, clock, approved, restored, unseen>>

\* Deploy opens its transaction: now() of its INSERT is this moment.
DeployBegin(r) ==
    /\ req[r].pc = "deploy"
    /\ clock < MaxDeploys
    /\ clock' = clock + 1
    /\ Do(r, [req[r] EXCEPT !.pc = "lock", !.at = clock + 1])
    /\ UNCHANGED <<state, leaks, dep, approved, restored, unseen>>

\* GetVersion locks the row; a state that may not serve there is refused.
DeployLock(r) ==
    /\ req[r].pc = "lock"
    /\ Unlocked(req[r].v)
    /\ IF state[req[r].v] \in DeployStates(req[r].env) THEN Goto(r, "snapshot") ELSE Ends(r)
    /\ UNCHANGED <<state, leaks, dep, clock, approved, restored, unseen>>

\* Faulty DeploySnapshot: replaces deployments of the version, not of the model.
DeploySnapshotOfVersion(r) ==
    /\ req[r].pc = "snapshot"
    /\ Do(r, [req[r] EXCEPT !.pc = "update",
                            !.rows = {n \in Active(req[r].env) : dep[n].version = req[r].v}])
    /\ UNCHANGED <<state, leaks, dep, clock, approved, restored, unseen>>

\* UPDATE deployments ... WHERE status = 'active': the rows this statement sees.
DeploySnapshot(r) ==
    /\ req[r].pc = "snapshot"
    /\ Do(r, [req[r] EXCEPT !.pc = "update", !.rows = Active(req[r].env)])
    /\ UNCHANGED <<state, leaks, dep, clock, approved, restored, unseen>>

\* It waits for rows that others have changed and skips those no longer active.
DeployUpdate(r) ==
    /\ req[r].pc = "update"
    /\ RowsUnlocked(req[r].rows)
    /\ Do(r, [req[r] EXCEPT !.pc = "commit", !.rows = @ \cap Active(req[r].env)])
    /\ UNCHANGED <<state, leaks, dep, clock, approved, restored, unseen>>

DeployCommit(r) ==
    LET q == req[r] IN
    /\ q.pc = "commit"
    /\ dep' = [Mark(q.rows, "superseded") EXCEPT
                 ![q.at] = [version |-> q.v, env |-> q.env, status |-> "active"]]
    /\ IF q.then = "idle" THEN Ends(r)
       ELSE Do(r, [Idle EXCEPT !.pc = q.then, !.v = q.v, !.from = q.from, !.to = q.to])
    /\ unseen' = IF \E x \in Requests \ {r} : req[x].pc \in {"update", "commit"} /\ req[x].env = q.env
                 THEN unseen \cup {q.at} ELSE unseen
    /\ UNCHANGED <<state, leaks, clock, approved, restored>>

\* The newest active consumer deployment, and the next older superseded one
\* of another version; nothing is locked while they are chosen.
Rollback(r) ==
    /\ Starts(r, "rollback")
    /\ Active("consumer") # {}
    /\ LET current == Newest(Active("consumer"))
           earlier == {n \in Stamps : /\ n < current
                                      /\ dep[n].env = "consumer"
                                      /\ dep[n].status = "superseded"
                                      /\ dep[n].version # dep[current].version}
       IN  /\ earlier # {}
           /\ Do(r, [Idle EXCEPT !.pc = "rollback", !.v = dep[current].version,
                                 !.at = Newest(earlier), !.rows = {current}])
    /\ UNCHANGED <<state, leaks, dep, clock, approved, restored, unseen>>

\* Faulty RollbackWrite: the retired version moves whatever its state.
RollbackWriteAnyState(r) ==
    LET q == req[r] IN
    /\ q.pc = "rollback"
    /\ Unlocked(q.v) /\ RowsUnlocked(q.rows \cup {q.at})
    /\ dep' = [Mark(q.rows, "rolled_back") EXCEPT ![q.at].status = "active"]
    /\ state' = [state EXCEPT ![q.v] = "rolled_back"]
    /\ restored' = restored \cup {q.at}
    /\ Ends(r)
    /\ UNCHANGED <<leaks, clock, approved, unseen>>

\* Both deployments are updated by id, whatever became of them; a released
\* version that is retired moves to rolled_back.
RollbackWrite(r) ==
    LET q == req[r] IN
    /\ q.pc = "rollback"
    /\ Unlocked(q.v) /\ RowsUnlocked(q.rows \cup {q.at})
    /\ dep' = [Mark(q.rows, "rolled_back") EXCEPT ![q.at].status = "active"]
    /\ state' = IF state[q.v] = "released" THEN [state EXCEPT ![q.v] = "rolled_back"] ELSE state
    /\ restored' = restored \cup {q.at}
    /\ Ends(r)
    /\ UNCHANGED <<leaks, clock, approved, unseen>>

\* The kill switch, from either door: one transaction of the control plane.
Kill(v) ==
    LET live == {n \in Stamps : dep[n].version = v /\ dep[n].status = "active"} IN
    /\ "kill" \in Ops
    /\ Unlocked(v) /\ RowsUnlocked(live)
    /\ state[v] \in killableStates \cup {"killed"}
    /\ dep' = Mark(live, "killed")
    /\ state' = [state EXCEPT ![v] = "killed"]
    /\ UNCHANGED <<leaks, clock, req, approved, restored, unseen>>

(* Failures. *)

\* The request or the transaction it waits for fails: nothing of it is written
\* (a deployment that the control plane has committed stays).
Fails(r) ==
    /\ req[r] # Idle
    /\ Ends(r)
    /\ UNCHANGED <<state, leaks, dep, clock, approved, restored, unseen>>

\* Faulty TimesOut: the request is still to write when the call returns.
TimesOutStillWrites(r) ==
    /\ req[r].then = "write"
    /\ Do(r, [req[r] EXCEPT !.to = "none"])
    /\ UNCHANGED <<state, leaks, dep, clock, approved, restored, unseen>>

\* The backend gives up waiting (TIMEOUT); the control plane goes on.
TimesOut(r) ==
    /\ req[r].then = "write"
    /\ Do(r, [req[r] EXCEPT !.then = "idle", !.from = "none", !.to = "none"])
    /\ UNCHANGED <<state, leaks, dep, clock, approved, restored, unseen>>

Next ==
    \/ \E r \in Requests :
          \/ Transition(r) \/ WriteState(r)
          \/ Decide(r, "approve", "approved") \/ Decide(r, "reject", "rejected")
          \/ SubmitReport(r) \/ WriteReport(r)
          \/ Deploy(r) \/ DeployBegin(r) \/ DeployLock(r) \/ DeploySnapshot(r)
          \/ DeployUpdate(r) \/ DeployCommit(r)
          \/ Rollback(r) \/ RollbackWrite(r)
          \/ Fails(r) \/ TimesOut(r)
    \/ \E v \in Versions : Kill(v)

Spec == Init /\ [][Next]_vars

-----------------------------------------------------------------------------
(* Properties. *)

PCs == {"idle", "write", "report", "deploy", "lock", "snapshot", "update", "commit", "rollback"}

\* Types; a request in flight always knows its version, a deployment that is
\* to become active its time, and a rollback the deployment it restores.
TypeOK ==
    /\ state \in [Versions -> States]
    /\ leaks \in [Versions -> BOOLEAN]
    /\ dep \in [Stamps -> Deployment \cup {NoDep}]
    /\ clock \in 0..MaxDeploys
    /\ approved \subseteq Versions /\ restored \subseteq Stamps /\ unseen \subseteq Stamps
    /\ req \in [Requests -> [pc : PCs, v : Versions \cup {NONE}, from : States \cup {"none"},
                             to : States \cup {"none"}, env : Environments \cup {"none"}, then : {"idle", "write"},
                             at : 0..MaxDeploys, rows : SUBSET Stamps]]
    /\ \A r \in Requests :
          /\ req[r].pc # "idle" => req[r].v \in Versions
          /\ req[r].pc = "write" => req[r].from \in States /\ req[r].to \in States
          /\ req[r].then = "write" => req[r].from \in States /\ req[r].to \in States
          /\ req[r].pc \in {"deploy", "lock", "snapshot", "update", "commit"} =>
                req[r].env \in Environments
          /\ req[r].pc \in {"lock", "snapshot", "update", "commit"} => req[r].at \in Stamps
          /\ req[r].pc = "rollback" =>
                /\ req[r].at \in Stamps
                /\ \A n \in req[r].rows \cup {req[r].at} : dep[n] \in Deployment

\* However requests overlap, fail or time out: a version is only ever deployed
\* to consumers after it was approved.  The control plane's check under the row
\* lock and the lifecycle's steps of the backend's stale writes add up to it.
ConsumerWasApproved ==
    \A n \in Stamps : dep[n].env = "consumer" => dep[n].version \in approved

\* Deployment n is live although its version is killed.
LiveKilled(n) == dep[n].status = "active" /\ state[dep[n].version] = "killed"

\* Nothing deploys a killed version, although deploys and kills overlap and the
\* backend's state writes are blind: the row lock of Deploy and Kill leaves a
\* killed version without a live deployment.  Only a rollback, which looks at no
\* version's state, gives it one again, and the transition endpoint, which takes
\* "killed" for any other state, leaves it the one it has.
KilledStaysDown ==
    [][\A n \in Stamps :
          LiveKilled(n)' =>
             \/ LiveKilled(n)
             \/ \E r \in Requests : req[r].pc = "rollback" /\ req[r].at = n
             \/ \E r \in Requests : req[r].pc = "write" /\ req[r].to = "killed"
                                     /\ req[r].v = dep[n].version]_vars

\* One deployment is live in an environment, however deploys, kills, failures and
\* timeouts overlap, but for two cases.  A rollback locks no version, and what it
\* brings back may stay beside another.  And of two deploys of different versions
\* neither need see the other: one that commits after the other's snapshot is not
\* replaced by it.  Deploys of one version are never in that case, for the second
\* takes its snapshot under the row lock, when it can see the first.
OneActive ==
    \A m, n \in Stamps :
        /\ dep[m].status = "active" /\ dep[n].status = "active" /\ dep[m].env = dep[n].env
        => \/ m = n
           \/ {m, n} \cap restored # {}
           \/ dep[m].version # dep[n].version /\ {m, n} \cap unseen # {}

\* Resolve and the gateway: the version whose endpoint answers, NONE when
\* nothing is deployed (404) or the version is killed (423).
Served(env) ==
    IF Active(env) = {} THEN NONE
    ELSE LET v == dep[Newest(Active(env))].version
         IN  IF state[v] = "killed" THEN NONE ELSE v

\* Consumers reach a version that is neither approved nor released.
ServedUnapproved ==
    /\ Served("consumer") # NONE
    /\ state[Served("consumer")] \notin consumerStates

Promise == INSTANCE VersionLifecycle WITH Absent <- NONE

\* A write of request r will change version v, which was written since r loaded it.
Overtaken(r, v) == req[r].pc = "write" /\ req[r].v = v /\ req[r].from # state[v]

\* Every change of a version's state, by whichever program and however requests
\* overlap, is a step of the lifecycle from the state there is; only a request
\* that was overtaken by another between its read and its write makes any other.
OnlyLifecycleSteps ==
    [][\A v \in Versions : \/ state'[v] = state[v]
                           \/ Promise!MayBecome(state[v], state'[v])
                           \/ \E r \in Requests : Overtaken(r, v)]_vars

\* More than one deployment is live for consumers.
Crowded == \E m, n \in Active("consumer") : m # n

\* However deployments, releases, kills, failures and timeouts overlap, customers
\* who are served from one live deployment reach only approved and released
\* versions, until a person withdraws the very version that serves (no endpoint
\* takes it down) or rolls back, or a request that was overtaken writes its state.
ServedUnlessWithdrawn ==
    [][ServedUnapproved' =>
          \/ ServedUnapproved \/ Crowded
          \/ /\ dep' = dep /\ Served("consumer") # NONE
             /\ state'[Served("consumer")] \in {"rejected", "rolled_back"}
          \/ \E r \in Requests : RollbackWrite(r)
          \/ \E r \in Requests, v \in Versions : Overtaken(r, v) /\ state'[v] # state[v]]_vars

\* The kill switch is final: no step leads out of killed.
KillIsFinal == [][\A v \in Versions : state[v] = "killed" => state'[v] = "killed"]_vars
=============================================================================
