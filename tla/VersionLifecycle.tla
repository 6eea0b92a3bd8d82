-------------------------- MODULE VersionLifecycle --------------------------
(***************************************************************************)
(* What the platform promises about the state of every version, whoever    *)
(* drives it: versions appear as registered, and from then on each change  *)
(* is one step of the lifecycle.                                           *)
(***************************************************************************)
EXTENDS Lifecycle

CONSTANTS Versions, Absent  \* Absent: the version is not registered (yet)

VARIABLE state

Init == \E first \in SUBSET Versions :
            state = [v \in Versions |-> IF v \in first THEN "registered" ELSE Absent]

\* What a version's state may become in one transaction: a new version is
\* registered, and a successor also sent to its audit at once.
MayBecome(from, to) ==
    \/ <<from, to>> \in LifecycleSteps
    \/ from = Absent /\ to \in {"registered", "auditing"}

\* A transaction moves one version, or a version and its successor.
Next ==
    \E moved \in SUBSET Versions :
        \E new \in [moved -> States] :
            /\ \A v \in moved : MayBecome(state[v], new[v])
            /\ state' = [v \in Versions |-> IF v \in moved THEN new[v] ELSE state[v]]

Spec == Init /\ [][Next]_state

\* The same for a system observed from versions that are already on their way.
Steps == [][\A v \in Versions : state'[v] = state[v] \/ MayBecome(state[v], state'[v])]_state
=============================================================================
