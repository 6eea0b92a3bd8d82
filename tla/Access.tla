------------------------------- MODULE Access -------------------------------
(***************************************************************************)
(* Signing in, and who belongs to which organization: the login throttle   *)
(* and session tokens (platform/security.py), the authorization of every   *)
(* request (platform/api/deps.py), and the handlers that change members    *)
(* and organizations (routes_admin.py, routes_tenant.py, services.py).     *)
(*                                                                         *)
(* A request reads the account, the organization and the membership, with  *)
(* a SELECT each; the handler's transaction reads the row it changes and   *)
(* writes it, with the audit event, when it commits.                       *)
(***************************************************************************)
EXTENDS Integers, Sequences, FiniteSets, FiniteSetsExt, Rbac

CONSTANTS
    Users,        \* people, by email address
    Supers,       \* the super admins among them
    Admin,        \* the first admin of FirstTenant
    Tenants, FirstTenant,
    Granted,      \* the roles that are given in the instance
    Procs,        \* requests in flight
    Limit,        \* per_account
    Window,       \* window of the throttle
    Minutes,      \* life of a token
    MaxClock, MaxCalls,
    NONE

\* Rows of different tables have different names.
ASSUME NamesAssumption == Users \cap Tenants = {} /\ NONE \notin Users \cup Tenants
ASSUME PeopleAssumption == Supers \subseteq Users /\ Admin \in Users /\ FirstTenant \in Tenants
ASSUME GrantedAssumption == Granted \subseteq Roles /\ "org_admin" \in Granted
ASSUME ThrottleAssumption == Limit \in Nat \ {0} /\ Window \in Nat /\ Minutes \in Nat
ASSUME ProcsAssumption == IsFiniteSet(Procs)

VARIABLES
    clock,
    accounts,   \* users
    disabled,   \* users.disabled, set in the database: no handler writes it
    failures,   \* LoginThrottle._failures of every account
    token,      \* when the newest token of each user expires, 0 if there is none
    status,     \* tenants.status, NONE while the organization does not exist
    member,     \* memberships: a row [role, id] or NONE
    log,        \* audit events about members and organizations, of all chains
    req,        \* what each request is doing
    calls,      \* how many there have been
    raced       \* rows written while another request was about to write them

tables == <<accounts, disabled, status, member, log>>
vars == <<clock, failures, token, tables, req, calls, raced>>

Idle == [at |-> "idle"]
Active == "active"
Suspended == "suspended"
Row(role, id) == [role |-> role, id |-> id]
ASSUME NoneAssumption == NONE \notin Roles \cup {Active, Suspended} /\ NONE \notin [role : Granted, id : Nat]
Event(t, target, to) == [tenant |-> t, target |-> target, to |-> to]

\* An organization with its first admin.
Init ==
    /\ clock = 1
    /\ accounts = Supers \cup {Admin}
    /\ disabled = {}
    /\ failures = [u \in Users |-> <<>>]
    /\ token = [u \in Users |-> IF u \in accounts THEN 1 + Minutes ELSE 0]
    /\ status = [t \in Tenants |-> IF t = FirstTenant THEN Active ELSE NONE]
    /\ member = [t \in Tenants |-> [u \in Users |->
          IF t = FirstTenant /\ u = Admin THEN Row("org_admin", 2) ELSE NONE]]
    /\ log = <<Event(FirstTenant, FirstTenant, Active), Event(FirstTenant, Admin, "org_admin")>>
    /\ req = [p \in Procs |-> Idle]
    /\ calls = 0
    /\ raced = {}

Goes(p, r) == req' = [req EXCEPT ![p] = r]

-----------------------------------------------------------------------------
(* Signing in. *)

Tick ==
    /\ clock < MaxClock
    /\ clock' = clock + 1
    /\ UNCHANGED <<tables, failures, token, req, calls, raced>>

\* Failures leave the deque from its front, up to the first recent one.
pruned(s) ==
    LET recent == {i \in DOMAIN s : s[i] > clock - Window} IN
    IF recent = {} THEN <<>> ELSE SubSeq(s, Min(recent), Len(s))

\* Faulty retry_after: one failure too many.
retry_after_late(u) == Len(pruned(failures[u])) > Limit

\* Whether another attempt has to wait.
retry_after(u) == Len(pruned(failures[u])) >= Limit

\* login: the throttle is asked first (429), and the password looked at later.
LoginCheck(p, u) ==
    /\ req[p].at = "idle" /\ calls < MaxCalls
    /\ calls' = calls + 1
    /\ failures' = [failures EXCEPT ![u] = pruned(@)]
    /\ IF retry_after(u) THEN UNCHANGED req ELSE Goes(p, [at |-> "verify", user |-> u])
    /\ UNCHANGED <<clock, tables, token, raced>>

issue_token == clock + Minutes

\* The password is right: the account's failures are forgotten.
LoginSucceeds(p) ==
    LET u == req[p].user IN
    /\ req[p].at = "verify" /\ u \in accounts \ disabled
    /\ failures' = [failures EXCEPT ![u] = <<>>]
    /\ token' = [token EXCEPT ![u] = issue_token]
    /\ Goes(p, Idle)
    /\ UNCHANGED <<clock, tables, calls, raced>>

\* It is wrong, or there is no account or a disabled one: failed() reads the
\* clock ...
LoginFails(p) ==
    /\ req[p].at = "verify"
    /\ Goes(p, [at |-> "failed", user |-> req[p].user, now |-> clock])
    /\ UNCHANGED <<clock, tables, failures, token, calls, raced>>

\* ... and then waits for the lock of the throttle (401).
LoginFailed(p) ==
    /\ req[p].at = "failed"
    /\ failures' = [failures EXCEPT ![req[p].user] = Append(@, req[p].now)]
    /\ Goes(p, Idle)
    /\ UNCHANGED <<clock, tables, token, calls, raced>>

\* External: whoever runs the platform disables an account or enables it.
SetDisabled(u) ==
    /\ calls < MaxCalls /\ u \in accounts
    /\ calls' = calls + 1
    /\ disabled' = IF u \in disabled THEN disabled \ {u} ELSE disabled \cup {u}
    /\ UNCHANGED <<clock, accounts, status, member, log, failures, token, req, raced>>

-----------------------------------------------------------------------------
(* Authorization. *)

\* What a request asks for: kind, organization, and the person and role or
\* the status.
Asked ==
    [op : {"add", "change", "admin"}, tenant : Tenants, target : Users \ Supers, to : Granted]
    \cup [op : {"remove"}, tenant : Tenants, target : Users \ Supers, to : {NONE}]
    \cup [op : {"create"}, tenant : Tenants, target : {NONE}, to : {Active}]
    \cup [op : {"update"}, tenant : Tenants, target : {NONE}, to : {Active, Suspended}]

PlatformOps == {"create", "update", "admin"}

\* read_token and _user: a token that has not expired, of an account that
\* exists and is not disabled.  Handlers of the platform are for super admins
\* only.
Authenticate(p, u, a) ==
    /\ req[p].at = "idle" /\ calls < MaxCalls
    /\ clock < token[u] /\ u \in accounts \ disabled
    /\ a.op \in PlatformOps => u \in Supers
    /\ a.op = "admin" => a.to = "org_admin"
    /\ calls' = calls + 1
    /\ Goes(p, [at |-> IF a.op \in PlatformOps THEN "read" ELSE "authorize",
                user |-> u, asked |-> a, since |-> Len(log)])
    /\ UNCHANGED <<clock, tables, failures, token, raced>>

\* The first SELECT of _membership: the organization exists (404) and is not
\* suspended (403).
_tenant_open(u, t) == status[t] # NONE /\ (u \in Supers \/ status[t] # Suspended)

AuthorizeTenant(p) ==
    /\ req[p].at = "authorize"
    /\ IF _tenant_open(req[p].user, req[p].asked.tenant)
       THEN Goes(p, [req[p] EXCEPT !.at = "member"])
       ELSE Goes(p, Idle)
    /\ UNCHANGED <<clock, tables, failures, token, calls, raced>>

\* Faulty _membership: the token is enough.
_membership_trusted(u, t) == TRUE

\* The second one, which sees what others committed after the first, and
\* allowed: the caller's role there has the permission (403).
_membership(u, t) ==
    \/ u \in Supers
    \/ member[t][u] # NONE /\ allowed(member[t][u].role, "members.manage")

Authorize(p) ==
    /\ req[p].at = "member"
    /\ IF _membership(req[p].user, req[p].asked.tenant)
       THEN Goes(p, [req[p] EXCEPT !.at = "read"])
       ELSE Goes(p, Idle)
    /\ UNCHANGED <<clock, tables, failures, token, calls, raced>>

-----------------------------------------------------------------------------
(* Handlers. *)

\* The row a request is about: an organization or a membership.
key(a) == <<a.tenant, a.target>>
row(a) == IF a.target = NONE THEN status[a.tenant] ELSE member[a.tenant][a.target]

\* 404, or 400 for who removes himself, creates what exists, or names a new
\* person without a password.
Refused(u, a) ==
    \/ a.op = "create" /\ status[a.tenant] # NONE
    \/ a.op \in {"update", "admin"} /\ status[a.tenant] = NONE
    \/ a.op = "remove" /\ a.target = u
    \/ a.op \in {"change", "remove"} /\ member[a.tenant][a.target] = NONE

\* _tenant, find_or_create_user, _membership and add_member's first SELECT:
\* what the transaction decides by.
HandlerReads(p) ==
    LET a == req[p].asked IN
    /\ req[p].at = "read"
    /\ \/ /\ Refused(req[p].user, a)
          /\ Goes(p, Idle)
       \/ /\ ~Refused(req[p].user, a)
          /\ Goes(p, [at |-> "commit", user |-> req[p].user, asked |-> a, since |-> req[p].since,
                      seen |-> row(a), known |-> a.target \in accounts])
       \/ /\ a.op \in {"add", "admin"} /\ a.target \notin accounts  \* no password given
          /\ Goes(p, Idle)
    /\ UNCHANGED <<clock, tables, failures, token, calls, raced>>

Write(a, new) ==
    IF a.target = NONE
    THEN status' = [status EXCEPT ![a.tenant] = new] /\ UNCHANGED member
    ELSE member' = [member EXCEPT ![a.tenant][a.target] = new] /\ UNCHANGED status

\* record: in the transaction that makes the change.
record(a) == log' = Append(log, Event(a.tenant, IF a.target = NONE THEN a.tenant ELSE a.target, a.to))

\* Unique constraints on addresses, slugs and memberships; an UPDATE of a row
\* that is gone.  Both roll the transaction back.
Conflicts(r) ==
    LET a == r.asked IN
    \/ a.target # NONE /\ ~r.known /\ a.target \in accounts
    \/ r.seen = NONE /\ row(a) # NONE
    \/ a.op \in {"add", "change", "admin"} /\ r.seen # NONE /\ r.seen.role # a.to
       /\ r.seen.id \notin {x.id : x \in {row(a)} \ {NONE}}

CommitConflict(p) ==
    /\ req[p].at = "commit" /\ Conflicts(req[p])
    /\ Goes(p, Idle)
    /\ UNCHANGED <<clock, tables, failures, token, calls, raced>>

MayCommit(p) ==
    /\ req[p].at = "commit" /\ ~Conflicts(req[p])
    /\ Goes(p, Idle)
    /\ raced' = raced \cup {key(req[q].asked) : q \in {x \in Procs \ {p} :
          req[x].at = "commit" /\ key(req[x].asked) = key(req[p].asked)}}
    /\ UNCHANGED <<clock, disabled, failures, token, calls>>

\* Faulty add_member: only new memberships are recorded.
add_member_unrecorded(p) ==
    LET r == req[p] a == r.asked IN
    /\ MayCommit(p)
    /\ a.op \in {"add", "change", "admin"}
    /\ accounts' = accounts \cup {a.target}
    /\ IF r.seen = NONE THEN record(a) ELSE UNCHANGED log
    /\ CASE r.seen = NONE -> Write(a, Row(a.to, Len(log) + 1))
         [] r.seen # NONE /\ r.seen.role # a.to -> Write(a, [r.seen EXCEPT !.role = a.to])
         [] OTHER -> UNCHANGED <<status, member>>

\* add_member, for add_member, change_role and add_org_admin: the role of the
\* row that was read is set, which writes nothing when it is the same.
add_member(p) ==
    LET r == req[p] a == r.asked IN
    /\ MayCommit(p)
    /\ a.op \in {"add", "change", "admin"}
    /\ accounts' = accounts \cup {a.target}
    /\ record(a)
    /\ CASE r.seen = NONE -> Write(a, Row(a.to, Len(log) + 1))
         [] r.seen # NONE /\ r.seen.role # a.to -> Write(a, [r.seen EXCEPT !.role = a.to])
         [] OTHER -> UNCHANGED <<status, member>>

\* A DELETE of a row that is gone changes nothing.
remove_member(p) ==
    LET r == req[p] a == r.asked IN
    /\ MayCommit(p)
    /\ a.op = "remove"
    /\ record(a)
    /\ IF r.seen.id \in {x.id : x \in {row(a)} \ {NONE}} THEN Write(a, NONE) ELSE UNCHANGED <<status, member>>
    /\ UNCHANGED accounts

\* create_tenant, and update_tenant if the status is another than the one read.
write_tenant(p) ==
    LET r == req[p] a == r.asked IN
    /\ MayCommit(p)
    /\ a.target = NONE
    /\ IF a.to = r.seen THEN UNCHANGED <<status, member, log>> ELSE Write(a, a.to) /\ record(a)
    /\ UNCHANGED accounts

Next ==
    \/ Tick
    \/ \E u \in Users : SetDisabled(u)
    \/ \E p \in Procs :
          \/ \E u \in Users : LoginCheck(p, u)
          \/ LoginSucceeds(p) \/ LoginFails(p) \/ LoginFailed(p)
          \/ \E u \in Users, a \in Asked : Authenticate(p, u, a)
          \/ AuthorizeTenant(p) \/ Authorize(p) \/ HandlerReads(p) \/ CommitConflict(p)
          \/ add_member(p) \/ remove_member(p) \/ write_tenant(p)

Spec == Init /\ [][Next]_vars

-----------------------------------------------------------------------------
(* Properties. *)

\* Types; a token outlives its sign-in by Minutes at most.
TypeOK ==
    /\ accounts \subseteq Users /\ Supers \subseteq accounts /\ disabled \subseteq Users
    /\ \A u \in Users : failures[u] \in Seq(1..clock) /\ token[u] \in 0..(clock + Minutes)
    /\ \A t \in Tenants : status[t] \in {NONE, Active, Suspended}
    /\ \A t \in Tenants, u \in Users : member[t][u] # NONE =>
          u \in accounts /\ status[t] # NONE /\ member[t][u].role \in Granted
    /\ \A i \in DOMAIN log : log[i].tenant \in Tenants

\* Passwords tried in parallel get past the throttle, but no more than there
\* are requests at the same time: since the last successful sign-in no window
\* has held more than Limit - 1 + |Procs| wrong ones.
GuessesBounded ==
    \A u \in Users : Cardinality({i \in DOMAIN failures[u] : failures[u][i] > clock - Window})
                     < Limit + Cardinality(Procs)

\* What the first n events say of a membership or, for u = t, of an
\* organization.
logged(n, t, u) ==
    LET about == {i \in 1..n : log[i].tenant = t /\ log[i].target = u} IN
    IF about = {} THEN NONE ELSE log[Max(about)].to

\* "the log and the data can never disagree" (services.py): the newest events
\* give every membership and every status, unless requests on the same row
\* overlapped.  Members have accounts and belong to existing organizations
\* (TypeOK).
LogMatchesMembers ==
    TypeOK /\ \A t \in Tenants :
        /\ <<t, NONE>> \notin raced => logged(Len(log), t, t) = status[t]
        /\ \A u \in Users : <<t, u>> \notin raced =>
              logged(Len(log), t, u) = IF member[t][u] = NONE THEN NONE ELSE member[t][u].role

\* "tenant access is always re-checked against the database, never trusted from
\* the token" (security.py): since a request that reaches its handler began,
\* the organization was open at some moment, and at that moment or a later one
\* the caller was a member with the permission.  Two SELECTs do not make them
\* one moment: an organization may have been suspended before the role that is
\* used was given.
AllowedSinceItBegan ==
    \A p \in Procs : req[p].at \in {"read", "commit"} /\ req[p].user \notin Supers =>
        LET t == req[p].asked.tenant
            u == req[p].user IN
        (<<t, u>> \notin raced /\ <<t, NONE>> \notin raced) =>
            \E n \in req[p].since..Len(log) :
                /\ logged(n, t, t) = Active
                /\ \E m \in n..Len(log) :
                      logged(m, t, u) \in Roles /\ allowed(logged(m, t, u), "members.manage")
=============================================================================
