----------------------------- MODULE Lifecycle ------------------------------
(***************************************************************************)
(* The lifecycle of a model version (platform/lifecycle.py): its states,   *)
(* the steps between them and the permission each step needs.              *)
(***************************************************************************)
EXTENDS Rbac

States == {"registered", "auditing", "findings", "clean", "remediating", "superseded",
           "canary", "verifying", "approved", "rejected", "released", "rolled_back", "killed"}

SYSTEM_ONLY == "system_only"  \* steps made by workers, never by a person
SYSTEM == "system"            \* the worker, among those who ask for a step

KILLABLE == {"findings", "clean", "canary", "verifying", "approved", "released"}

TRANSITIONS ==
    {<<"registered", "auditing", "audits.run">>,
     <<"clean", "auditing", "audits.run">>,
     <<"findings", "auditing", "audits.run">>,
     <<"auditing", "findings", SYSTEM_ONLY>>,
     <<"auditing", "clean", SYSTEM_ONLY>>,
     <<"auditing", "registered", SYSTEM_ONLY>>,
     <<"findings", "remediating", "remediation.run">>,
     <<"remediating", "superseded", SYSTEM_ONLY>>,
     <<"remediating", "findings", SYSTEM_ONLY>>,
     <<"clean", "canary", "endpoints.dev">>,
     <<"canary", "verifying", "endpoints.dev">>,
     <<"verifying", "findings", "approvals.decide">>,
     <<"verifying", "approved", "approvals.decide">>,
     <<"verifying", "rejected", "approvals.decide">>,
     <<"approved", "rejected", "approvals.decide">>,
     <<"approved", "released", "releases.manage">>,
     <<"released", "rolled_back", "releases.manage">>}
    \cup {<<s, "killed", "killswitch.activate">> : s \in KILLABLE}

\* The steps themselves, whoever makes them: the keys of TRANSITIONS.
LifecycleSteps == {<<t[1], t[2]>> : t \in TRANSITIONS}

\* lifecycle.check: who, a caller or SYSTEM, may take a version from one state to another.
check(from, to, who) ==
    \E t \in TRANSITIONS :
        /\ t[1] = from /\ t[2] = to
        /\ IF t[3] = SYSTEM_ONLY THEN who = SYSTEM
           ELSE who = SYSTEM \/ allowed(who, t[3])
=============================================================================
