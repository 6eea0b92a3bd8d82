-------------------------------- MODULE Rbac --------------------------------
(***************************************************************************)
(* Who may do what: the roles of platform/rbac.py, and the shorter table   *)
(* the Go control plane keeps of the permissions it checks itself.         *)
(***************************************************************************)

Roles == {"org_admin", "ml_engineer", "compliance_auditor", "canary_tester",
          "end_consumer", "external_reviewer"}

SUPER_ADMIN == "super_admin"  \* User.is_super_admin: not a role of any organization
Callers == Roles \cup {SUPER_ADMIN}

Reading == {"models.read", "findings.read", "analytics.read", "provenance.read", "jobs.read"}

ROLE_PERMISSIONS ==
    [org_admin |-> Reading \cup
        {"members.manage", "approvals.decide", "releases.manage", "killswitch.activate",
         "auditlog.read", "reports.read", "guard.manage", "guard.read"},
     ml_engineer |-> Reading \cup
        {"models.write", "audits.run", "remediation.run", "endpoints.dev",
         "guard.manage", "guard.read"},
     compliance_auditor |-> Reading \cup
        {"approvals.decide", "killswitch.activate", "auditlog.read", "reports.read",
         "guard.read"},
     canary_tester |-> {"models.read", "endpoints.dev", "testreports.submit"},
     end_consumer |-> {"endpoints.consumer"},
     external_reviewer |-> {"reports.read", "provenance.read"}]

allowed(role, permission) == IF role = SUPER_ADMIN THEN TRUE ELSE permission \in ROLE_PERMISSIONS[role]

\* auth.go
rolePermissions ==
    [org_admin |-> {"models.read", "releases.manage", "killswitch.activate", "approvals.decide"},
     ml_engineer |-> {"models.read", "endpoints.dev"},
     compliance_auditor |-> {"models.read", "killswitch.activate", "approvals.decide"},
     canary_tester |-> {"models.read", "endpoints.dev"},
     end_consumer |-> {"endpoints.consumer"},
     external_reviewer |-> {}]

Allowed(role, permission) == IF role = SUPER_ADMIN THEN TRUE ELSE permission \in rolePermissions[role]
=============================================================================
