---------------------------- MODULE AccessProofs -----------------------------
(***************************************************************************)
(* Theorems about Access, for any number of people, organizations and      *)
(* requests in flight, and any limit and window of the throttle.           *)
(***************************************************************************)
EXTENDS Access, FiniteSetTheorems, SequenceTheorems, WellFoundedInduction, TLAPS

Statuses == {NONE, Active, Suspended}
Rows == [role : Granted, id : Nat]
Events == [tenant : Tenants, target : Users \cup Tenants, to : Roles \cup Statuses]

Pending(u) == {p \in Procs : req[p].at \in {"verify", "failed"} /\ req[p].user = u}
Recent(u) == {i \in DOMAIN failures[u] : failures[u][i] > clock - Window}

\* An attempt that passed the throttle counts as a failure in advance.
Guesses == \A u \in Users : Cardinality(Recent(u)) + Cardinality(Pending(u)) < Limit + Cardinality(Procs)

Signins ==
    /\ clock \in Nat \ {0}
    /\ failures = [u \in Users |-> failures[u]] /\ token = [u \in Users |-> token[u]]
    /\ \A u \in Users : failures[u] \in Seq(1..clock) /\ token[u] \in 0..(clock + Minutes)

Tables ==
    /\ accounts \subseteq Users /\ Supers \subseteq accounts /\ disabled \subseteq Users
    /\ status \in [Tenants -> Statuses]
    /\ member = [t \in Tenants |-> [u \in Users |-> member[t][u]]]
    /\ \A t \in Tenants, u \in Users : member[t][u] # NONE =>
          member[t][u] \in Rows /\ u \in accounts /\ status[t] # NONE
    /\ log \in Seq(Events)

Checked == {"member", "read", "commit"}
Asking == {"authorize"} \cup Checked

\* Past the first SELECT the organization exists, for good.
Admitted(r) ==
    /\ r.user \in Users /\ r.asked \in Asked /\ r.since \in 0..Len(log)
    /\ r.user \notin Supers => r.asked.op \notin PlatformOps
    /\ r.at # "authorize" /\ r.asked.op \notin PlatformOps => status[r.asked.tenant] # NONE

\* What a transaction has seen of the row it is about.
Decided(r) ==
    /\ r = [at |-> "commit", user |-> r.user, asked |-> r.asked, since |-> r.since, seen |-> r.seen, known |-> r.known]
    /\ r.asked.op = "admin" => status[r.asked.tenant] # NONE
    /\ r.seen \in (IF r.asked.target = NONE THEN Statuses ELSE IF r.asked.op = "remove" THEN Rows ELSE Rows \cup {NONE})

Fits(r) ==
    /\ r.at \in {"idle", "verify", "failed"} \cup Asking
    /\ r.at = "idle" => r = Idle
    /\ r.at = "verify" => r \in [at : {"verify"}, user : Users]
    /\ r.at = "failed" => r \in [at : {"failed"}, user : Users, now : 1..clock]
    /\ r.at \in {"authorize", "member", "read"} => r = [at |-> r.at, user |-> r.user, asked |-> r.asked, since |-> r.since]
    /\ r.at \in Asking => Admitted(r)
    /\ r.at = "commit" => Decided(r)

Requests == req = [p \in Procs |-> req[p]] /\ \A p \in Procs : Fits(req[p])

\* Unless requests on a row overlapped, who is about to write it knows it.
UpToDate == \A p \in Procs : req[p].at = "commit" /\ key(req[p].asked) \notin raced => req[p].seen = row(req[p].asked)

Matches ==
    \A t \in Tenants :
        /\ <<t, NONE>> \notin raced => logged(Len(log), t, t) = status[t]
        /\ \A u \in Users : <<t, u>> \notin raced =>
              logged(Len(log), t, u) = IF member[t][u] = NONE THEN NONE ELSE member[t][u].role

\* The log shows that, since r began, its organization was open, and then its
\* caller allowed.
Opened(r) ==
    <<r.asked.tenant, NONE>> \notin raced =>
        \E n \in r.since..Len(log) : logged(n, r.asked.tenant, r.asked.tenant) = Active

Permitted(r) ==
    (<<r.asked.tenant, r.user>> \notin raced /\ <<r.asked.tenant, NONE>> \notin raced) =>
        \E n \in r.since..Len(log) :
            /\ logged(n, r.asked.tenant, r.asked.tenant) = Active
            /\ \E m \in n..Len(log) :
                  /\ logged(m, r.asked.tenant, r.user) \in Roles
                  /\ allowed(logged(m, r.asked.tenant, r.user), "members.manage")

Vouched(r) == IF r.at = "member" THEN Opened(r) ELSE Permitted(r)
AllVouched == \A p \in Procs : req[p].at \in Checked /\ req[p].user \notin Supers => Vouched(req[p])

Inv == Guesses /\ Signins /\ Tables /\ Requests /\ UpToDate /\ Matches /\ AllVouched

-----------------------------------------------------------------------------
(* The log and the throttle. *)

LEMMA Least ==
    ASSUME NEW T, T \subseteq Nat, T # {}
    PROVE  \E i \in T : \A j \in T : i <= j
<1>1. PICK i \in T : \A j \in T : ~ (<<j, i>> \in OpToRel(<, Nat))
  BY WFMin, NatLessThanWellFounded
<1>2. \A j \in T : ~ (j < i)
  BY <1>1 DEF OpToRel
<1>3. QED
  BY <1>2

LEMMA MinFacts ==
    ASSUME NEW T, T \subseteq Nat, T # {}
    PROVE  Min(T) \in T /\ \A j \in T : Min(T) <= j
BY Least DEF Min

LEMMA MaxFacts ==
    ASSUME NEW n \in Nat, NEW T \in SUBSET (1..n), T # {}
    PROVE  Max(T) \in T /\ \A j \in T : Max(T) >= j
<1>1. PICK D : D = {n - i : i \in T}
  OBVIOUS
<1>2. D \subseteq Nat /\ D # {}
  <2>1. \A i \in T : i \in Nat /\ i <= n
    OBVIOUS
  <2>2. \A i \in T : n - i \in Nat
    BY <2>1
  <2>3. QED
    BY <1>1, <2>2
<1>3. PICK d \in D : \A e \in D : d <= e
  BY <1>2, Least
<1>4. PICK i \in T : d = n - i
  BY <1>1, <1>3
<1>5. \A j \in T : i >= j
  BY <1>1, <1>3, <1>4
<1>6. QED
  BY <1>4, <1>5 DEF Max

\* What was logged stays so when more is logged.
LEMMA LoggedStays ==
    ASSUME log \in Seq(Events), \A i \in 1..Len(log) : log'[i] = log[i], NEW n \in 0..Len(log), NEW t, NEW u
    PROVE  logged(n, t, u)' = logged(n, t, u)
<1>1. \A i \in 1..n : log'[i] = log[i]
  OBVIOUS
<1>2. PICK A : A = {i \in 1..n : log[i].tenant = t /\ log[i].target = u}
  OBVIOUS
<1>3. {i \in 1..n : log'[i].tenant = t /\ log'[i].target = u} = A
  BY <1>1, <1>2
<1>4. CASE A = {}
  BY <1>2, <1>3, <1>4 DEF logged
<1>5. CASE A # {}
  <2>1. A \in SUBSET (1..n) /\ n \in Nat
    BY <1>2
  <2>2. Max(A) \in A
    BY <1>5, <2>1, MaxFacts
  <2>3. log'[Max(A)] = log[Max(A)]
    BY <1>1, <2>1, <2>2
  <2>4. QED
    BY <1>2, <1>3, <1>5, <2>3 DEF logged
<1>6. QED
  BY <1>4, <1>5

\* An event is the newest about what it names, and says nothing of the rest.
LEMMA LoggedNow ==
    ASSUME log \in Seq(Events), NEW e, log' = Append(log, e), NEW t, NEW u
    PROVE  logged(Len(log), t, u)' = IF e.tenant = t /\ e.target = u THEN e.to ELSE logged(Len(log), t, u)
<1>1. PICK n \in Nat : n = Len(log)
  OBVIOUS
<1>2. Len(log') = n + 1 /\ log'[n + 1] = e /\ \A i \in 1..n : log'[i] = log[i]
  BY <1>1
<1>3. PICK B : B = {i \in 1..(n + 1) : log'[i].tenant = t /\ log'[i].target = u}
  OBVIOUS
<1>4. logged(Len(log), t, u)' = IF B = {} THEN NONE ELSE log'[Max(B)].to
  BY <1>2, <1>3 DEF logged
<1>5. PICK A : A = {i \in 1..n : log[i].tenant = t /\ log[i].target = u}
  OBVIOUS
<1>6. logged(Len(log), t, u) = IF A = {} THEN NONE ELSE log[Max(A)].to
  BY <1>1, <1>5 DEF logged
<1>7. CASE e.tenant = t /\ e.target = u
  <2>1. n + 1 \in B /\ B \in SUBSET (1..(n + 1)) /\ n + 1 \in Nat
    BY <1>2, <1>3, <1>7
  <2>2. Max(B) \in B /\ \A j \in B : Max(B) >= j
    BY <2>1, MaxFacts
  <2>3. Max(B) = n + 1
    <3>1. Max(B) \in 1..(n + 1) /\ Max(B) >= n + 1
      BY <2>1, <2>2
    <3>2. QED
      BY <3>1
  <2>4. QED
    BY <1>2, <1>4, <1>7, <2>1, <2>3
<1>8. CASE ~ (e.tenant = t /\ e.target = u)
  <2>1. \A i \in 1..(n + 1) : i \in 1..n \/ i = n + 1
    OBVIOUS
  <2>2. B = A
    BY <1>2, <1>3, <1>5, <1>8, <2>1
  <2>3. CASE A # {}
    <3>1. A \in SUBSET (1..n)
      BY <1>5
    <3>2. Max(A) \in A
      BY <2>3, <3>1, MaxFacts
    <3>3. log'[Max(A)] = log[Max(A)]
      BY <1>2, <3>1, <3>2
    <3>4. QED
      BY <1>4, <1>6, <1>8, <2>2, <2>3, <3>3
  <2>4. CASE A = {}
    BY <1>4, <1>6, <1>8, <2>2, <2>4
  <2>5. QED
    BY <2>3, <2>4
<1>9. QED
  BY <1>7, <1>8

LEMMA AskedFacts ==
    ASSUME NEW a \in Asked
    PROVE  /\ a.tenant \in Tenants
           /\ \/ a.target = NONE /\ a.op \in {"create", "update"} /\ a.to \in {Active, Suspended}
              \/ a.target \in Users /\ a.target # NONE /\ a.op \in {"add", "change", "admin"} /\ a.to \in Granted
              \/ a.target \in Users /\ a.target # NONE /\ a.op = "remove" /\ a.to = NONE
BY NamesAssumption DEF Asked

\* Pruning forgets what is too old, from the front, and nothing recent.
LEMMA PrunedFacts ==
    ASSUME clock \in Nat, NEW s \in Seq(1..clock),
           NEW R, R = {i \in DOMAIN s : s[i] > clock - Window},
           NEW P, P = {i \in DOMAIN pruned(s) : pruned(s)[i] > clock - Window}
    PROVE  /\ pruned(s) \in Seq(1..clock) /\ IsFiniteSet(R) /\ IsFiniteSet(P)
           /\ Cardinality(P) <= Cardinality(R) /\ Cardinality(P) <= Len(pruned(s))
<1>1. Len(s) \in Nat /\ DOMAIN s = 1..Len(s) /\ R \subseteq 1..Len(s)
  OBVIOUS
<1>2. IsFiniteSet(R) /\ R \subseteq Nat
  <2>1. IsFiniteSet(1..Len(s))
    BY <1>1, FS_Interval
  <2>2. QED
    BY <1>1, <2>1, FS_Subset
<1>3. CASE R = {}
  <2>1. pruned(s) = <<>>
    BY <1>3 DEF pruned
  <2>2. P = {} /\ pruned(s) \in Seq(1..clock) /\ Len(pruned(s)) = 0
    BY <2>1
  <2>3. QED
    BY <1>2, <1>3, <2>2, FS_EmptySet
<1>4. CASE R # {}
  <2>1. PICK m : m = Min(R)
    OBVIOUS
  <2>2. m \in R /\ \A i \in R : m <= i
    BY <1>2, <1>4, <2>1, MinFacts
  <2>3. m \in 1..Len(s)
    BY <1>1, <2>2
  <2>4. PICK q : q = SubSeq(s, m, Len(s))
    OBVIOUS
  <2>5. q \in Seq(1..clock) /\ Len(q) = Len(s) - m + 1 /\ \A i \in 1..(Len(s) - m + 1) : q[i] = s[m + i - 1]
    BY <1>1, <2>3, <2>4, SubSeqProperties
  <2>6. pruned(s) = q
    BY <1>4, <2>1, <2>4 DEF pruned
  <2>7. DOMAIN q = 1..Len(q) /\ Len(q) \in Nat
    BY <2>5
  <2>8. P \subseteq 1..Len(q)
    BY <2>6, <2>7
  <2>9. IsFiniteSet(1..Len(q)) /\ Cardinality(1..Len(q)) = Len(q)
    <3>1. PICK n \in Nat : n = Len(q)
      BY <2>7
    <3>2. IsFiniteSet(1..n) /\ Cardinality(1..n) = IF 1 > n THEN 0 ELSE n - 1 + 1
      BY FS_Interval
    <3>3. QED
      BY <3>1, <3>2
  <2>10. IsFiniteSet(P) /\ Cardinality(P) <= Len(q)
    BY <2>8, <2>9, FS_Subset
  <2>11. PICK f : f = [i \in R |-> i - m + 1]
    OBVIOUS
  <2>12. ASSUME NEW i \in R PROVE i - m + 1 \in P
    <3>1. i \in 1..Len(s) /\ s[i] > clock - Window /\ m <= i
      BY <1>1, <2>2
    <3>2. i - m + 1 \in 1..(Len(s) - m + 1) /\ m + (i - m + 1) - 1 = i
      BY <1>1, <2>3, <3>1
    <3>3. q[i - m + 1] = s[i]
      BY <2>5, <3>2
    <3>4. QED
      BY <2>5, <2>6, <2>7, <3>1, <3>2, <3>3
  <2>13. ASSUME NEW j \in P PROVE \E i \in R : f[i] = j
    <3>1. j \in 1..(Len(s) - m + 1) /\ q[j] = s[m + j - 1] /\ q[j] > clock - Window
      BY <2>5, <2>6, <2>7, <2>8
    <3>2. m + j - 1 \in 1..Len(s) /\ (m + j - 1) - m + 1 = j
      BY <1>1, <2>3, <3>1
    <3>3. m + j - 1 \in R
      BY <1>1, <3>1, <3>2
    <3>4. QED
      BY <2>11, <3>2, <3>3
  <2>14. f \in Surjection(R, P)
    BY <2>11, <2>12, <2>13 DEF Surjection
  <2>15. Cardinality(P) <= Cardinality(R)
    BY <1>2, <2>14, FS_Surjection
  <2>16. QED
    BY <1>2, <2>5, <2>6, <2>10, <2>15
<1>5. QED
  BY <1>3, <1>4

-----------------------------------------------------------------------------
(* What steps have in common. *)

LEMMA NoneFacts ==
    /\ NONE \notin Users /\ NONE \notin Tenants /\ NONE \notin Roles /\ NONE \notin Granted /\ NONE \notin Rows
    /\ NONE # Active /\ NONE # Suspended
BY NamesAssumption, GrantedAssumption, NoneAssumption DEF Rows

LEMMA FiniteCounts ==
    ASSUME Signins, NEW u \in Users
    PROVE  /\ IsFiniteSet(Recent(u)) /\ IsFiniteSet(Pending(u))
           /\ Cardinality(Recent(u)) \in Nat /\ Cardinality(Pending(u)) \in Nat
           /\ Cardinality(Pending(u)) <= Cardinality(Procs) /\ Cardinality(Procs) \in Nat
<1>1. Pending(u) \in SUBSET Procs
  BY DEF Pending
<1>2. /\ IsFiniteSet(Pending(u)) /\ Cardinality(Pending(u)) <= Cardinality(Procs)
      /\ Cardinality(Pending(u)) \in Nat /\ Cardinality(Procs) \in Nat
  BY <1>1, ProcsAssumption, FS_Subset, FS_CardinalityType
<1>3. PICK n \in Nat : n = Len(failures[u])
  BY DEF Signins
<1>4. Recent(u) \in SUBSET (1..n)
  BY <1>3 DEF Signins, Recent
<1>5. IsFiniteSet(1..n)
  BY FS_Interval
<1>6. IsFiniteSet(Recent(u)) /\ Cardinality(Recent(u)) \in Nat
  BY <1>4, <1>5, FS_Subset, FS_CardinalityType
<1>7. QED
  BY <1>2, <1>6

LEMMA GuessesKeep ==
    ASSUME Guesses, Signins,
           \A u \in Users : Recent(u)' \subseteq Recent(u) /\ Pending(u)' \subseteq Pending(u)
    PROVE  Guesses'
<1> SUFFICES ASSUME NEW u \in Users
             PROVE  Cardinality(Recent(u)') + Cardinality(Pending(u)') < Limit + Cardinality(Procs)
  BY DEF Guesses
<1>1. PICK A, B : A = Recent(u) /\ B = Pending(u)
  OBVIOUS
<1>2. PICK C, D : C = Recent(u)' /\ D = Pending(u)'
  OBVIOUS
<1>3. /\ IsFiniteSet(A) /\ IsFiniteSet(B) /\ Cardinality(A) \in Nat /\ Cardinality(B) \in Nat
      /\ Cardinality(Procs) \in Nat
  BY <1>1, FiniteCounts
<1>4. C \in SUBSET A /\ D \in SUBSET B
  BY <1>1, <1>2
<1>5. /\ Cardinality(C) <= Cardinality(A) /\ Cardinality(D) <= Cardinality(B)
      /\ Cardinality(C) \in Nat /\ Cardinality(D) \in Nat
  BY <1>3, <1>4, FS_Subset, FS_CardinalityType
<1>6. Cardinality(A) + Cardinality(B) < Limit + Cardinality(Procs)
  BY <1>1 DEF Guesses
<1>7. Cardinality(C) + Cardinality(D) < Limit + Cardinality(Procs)
  BY <1>3, <1>5, <1>6, ThrottleAssumption
<1>8. QED
  BY <1>2, <1>7

\* Requests stay as they may be when time goes on, the log grows and
\* organizations are created.
LEMMA FitsKeeps ==
    ASSUME NEW r, Fits(r), clock \in Nat, clock' \in Nat, clock <= clock',
           Len(log) \in Nat, Len(log') \in Nat, Len(log) <= Len(log'),
           \A t \in Tenants : status[t] # NONE => status'[t] # NONE
    PROVE  Fits(r)'
<1>1. \A n \in 0..Len(log) : n \in 0..Len(log')
  OBVIOUS
<1>2. \A n \in 1..clock : n \in 1..clock'
  OBVIOUS
<1>3. r.at \in Asking => Admitted(r)'
  <2>1. SUFFICES ASSUME r.at \in Asking PROVE Admitted(r)'
    OBVIOUS
  <2>2. Admitted(r)
    BY <2>1 DEF Fits
  <2>3. r.asked.tenant \in Tenants
    BY <2>2, AskedFacts DEF Admitted
  <2>4. QED
    BY <1>1, <2>2, <2>3 DEF Admitted
<1>4. r.at = "commit" => Decided(r)'
  <2>1. SUFFICES ASSUME r.at = "commit" PROVE Decided(r)'
    OBVIOUS
  <2>2. Admitted(r) /\ Decided(r)
    BY <2>1 DEF Fits, Asking, Checked
  <2>3. r.asked.tenant \in Tenants
    BY <2>2, AskedFacts DEF Admitted
  <2>4. QED
    BY <2>2, <2>3 DEF Decided
<1>5. r.at = "failed" => r \in [at : {"failed"}, user : Users, now : 1..clock']
  <2>1. SUFFICES ASSUME r.at = "failed" PROVE r \in [at : {"failed"}, user : Users, now : 1..clock']
    OBVIOUS
  <2>2. r \in [at : {"failed"}, user : Users, now : 1..clock]
    BY <2>1 DEF Fits
  <2>3. QED
    BY <1>2, <2>2
<1>6. QED
  BY <1>3, <1>4, <1>5 DEF Fits

LEMMA RequestsKeep ==
    ASSUME Requests, NEW p \in Procs, NEW r, Goes(p, r), Fits(r), clock \in Nat, clock' = clock,
           Len(log) \in Nat, Len(log') \in Nat, Len(log) <= Len(log'),
           \A t \in Tenants : status[t] # NONE => status'[t] # NONE
    PROVE  Requests' /\ req'[p] = r /\ \A q \in Procs : q # p => req'[q] = req[q]
<1>1. req'[p] = r /\ \A q \in Procs : q # p => req'[q] = req[q]
  BY DEF Requests, Goes
<1>2. req' = [q \in Procs |-> req'[q]]
  BY DEF Requests, Goes
<1>3. \A s : Fits(s) => Fits(s)'
  BY FitsKeeps
<1>4. ASSUME NEW q \in Procs PROVE Fits(req[q])'
  <2>1. PICK s : s = req'[q]
    OBVIOUS
  <2>2. Fits(s)
    BY <1>1, <2>1 DEF Requests
  <2>3. Fits(s)'
    BY <1>3, <2>2
  <2>4. QED
    BY <2>1, <2>3 DEF Fits, Admitted, Decided
<1>5. QED
  BY <1>1, <1>2, <1>4 DEF Requests

LEMMA VouchedStays ==
    ASSUME log \in Seq(Events), \A i \in 1..Len(log) : log'[i] = log[i], Len(log') >= Len(log), Len(log') \in Nat,
           raced \subseteq raced', NEW r, Vouched(r), r.since \in Nat
    PROVE  Vouched(r)'
<1>1. PICK t, u : t = r.asked.tenant /\ u = r.user
  OBVIOUS
<1>2. ASSUME NEW n \in r.since..Len(log)
      PROVE  /\ n \in 0..Len(log) /\ n \in r.since..Len(log')
             /\ logged(n, t, u)' = logged(n, t, u) /\ logged(n, t, t)' = logged(n, t, t)
  <2>1. n \in 0..Len(log) /\ n \in r.since..Len(log')
    OBVIOUS
  <2>2. QED
    BY <2>1, LoggedStays
<1>3. CASE r.at = "member"
  <2>1. SUFFICES ASSUME <<t, NONE>> \notin raced'
                 PROVE  \E n \in r.since..Len(log') : logged(n, t, t)' = Active
    BY <1>1, <1>3 DEF Vouched, Opened
  <2>2. PICK n \in r.since..Len(log) : logged(n, t, t) = Active
    BY <1>1, <1>3, <2>1 DEF Vouched, Opened
  <2>3. QED
    BY <1>2, <2>2
<1>4. CASE r.at # "member"
  <2>1. SUFFICES ASSUME <<t, u>> \notin raced', <<t, NONE>> \notin raced'
                 PROVE  \E n \in r.since..Len(log') :
                           /\ logged(n, t, t)' = Active
                           /\ \E m \in n..Len(log') :
                                 logged(m, t, u)' \in Roles /\ allowed(logged(m, t, u)', "members.manage")
    BY <1>1, <1>4 DEF Vouched, Permitted
  <2>2. PICK n \in r.since..Len(log) :
           /\ logged(n, t, t) = Active
           /\ \E m \in n..Len(log) : logged(m, t, u) \in Roles /\ allowed(logged(m, t, u), "members.manage")
    BY <1>1, <1>4, <2>1 DEF Vouched, Permitted
  <2>3. PICK m \in n..Len(log) : logged(m, t, u) \in Roles /\ allowed(logged(m, t, u), "members.manage")
    BY <2>2
  <2>4. m \in r.since..Len(log) /\ m \in n..Len(log')
    OBVIOUS
  <2>5. logged(n, t, t)' = Active /\ n \in r.since..Len(log') /\ logged(m, t, u)' = logged(m, t, u)
    BY <1>2, <2>2, <2>4
  <2>6. QED
    BY <2>3, <2>4, <2>5
<1>5. QED
  BY <1>3, <1>4

LEMMA TablesKeep ==
    ASSUME Tables, Matches, UNCHANGED <<accounts, status, member, log>>, disabled' \subseteq Users, raced \subseteq raced'
    PROVE  Tables' /\ Matches'
<1>1. Tables' /\ log \in Seq(Events)
  BY DEF Tables
<1>2. PICK n \in Nat : n = Len(log) /\ n = Len(log)'
  BY <1>1
<1>3. n \in 0..Len(log) /\ \A i \in 1..Len(log) : log'[i] = log[i]
  BY <1>2
<1>4. \A t, u : logged(n, t, u)' = logged(n, t, u)
  BY <1>1, <1>3, LoggedStays
<1>5. \A t, u : logged(Len(log), t, u)' = logged(Len(log), t, u)
  BY <1>2, <1>4 DEF logged
<1>6. QED
  BY <1>1, <1>5 DEF Matches

\* One request goes on, and nothing is written to the tables.
LEMMA QuietKeeps ==
    ASSUME Inv, NEW p \in Procs, NEW r, Goes(p, r), Fits(r), UNCHANGED <<clock, tables, raced>>, Signins', Guesses',
           r.at = "commit" /\ key(r.asked) \notin raced => r.seen = row(r.asked),
           r.at \in Checked /\ r.user \notin Supers => Vouched(r)
    PROVE  Inv'
<1>1. UNCHANGED <<accounts, status, member, log>> /\ disabled' \subseteq Users
  BY DEF tables, Inv, Tables
<1>2. log \in Seq(Events) /\ Len(log) \in Nat /\ clock \in Nat
  BY DEF Inv, Tables, Signins
<1>3. Requests' /\ req'[p] = r /\ \A q \in Procs : q # p => req'[q] = req[q]
  BY <1>1, <1>2, RequestsKeep DEF Inv
<1>4. Tables' /\ Matches'
  BY <1>1, TablesKeep DEF Inv
<1>5. UpToDate'
  <2>1. ASSUME NEW q \in Procs, req'[q].at = "commit", key(req'[q].asked) \notin raced
        PROVE  req'[q].seen = row(req'[q].asked)
    BY <1>3, <2>1 DEF Inv, UpToDate
  <2>2. QED
    BY <1>1, <2>1 DEF UpToDate, key, row
<1>6. AllVouched'
  <2>1. ASSUME NEW q \in Procs, req'[q].at \in Checked, req'[q].user \notin Supers
        PROVE  Vouched(req[q])'
    <3>1. PICK s : s = req'[q]
      OBVIOUS
    <3>2. Vouched(s) /\ s.since \in Nat
      BY <1>3, <2>1, <3>1 DEF Inv, AllVouched, Requests, Fits, Admitted, Asking, Checked
    <3>3. \A i \in 1..Len(log) : log'[i] = log[i]
      BY <1>1
    <3>4. Vouched(s)'
      BY <1>1, <1>2, <3>2, <3>3, VouchedStays
    <3>5. QED
      BY <3>1, <3>4 DEF Vouched, Opened, Permitted
  <2>2. QED
    BY <2>1 DEF AllVouched
<1>7. QED
  BY <1>3, <1>4, <1>5, <1>6 DEF Inv

LEMMA FitsIdle == Fits(Idle) /\ Idle.at = "idle"
BY DEF Fits, Idle, Asking, Checked

\* An answer ends a request.
LEMMA EndKeeps ==
    ASSUME Inv, NEW p \in Procs, Goes(p, Idle), UNCHANGED <<clock, tables, raced, failures, token>>
    PROVE  Inv'
<1>1. req'[p] = Idle /\ \A q \in Procs : q # p => req'[q] = req[q]
  BY DEF Goes, Inv, Requests
<1>2. \A u \in Users : Recent(u)' \subseteq Recent(u) /\ Pending(u)' \subseteq Pending(u)
  BY <1>1, FitsIdle DEF Recent, Pending
<1>3. Guesses' /\ Signins'
  BY <1>2, GuessesKeep DEF Inv, Signins
<1>4. QED
  BY <1>3, FitsIdle, QuietKeeps DEF Checked

LEMMA TickKeeps ==
    ASSUME Inv, Tick
    PROVE  Inv'
<1>1. clock \in Nat \ {0} /\ clock' = clock + 1 /\ UNCHANGED <<accounts, status, member, log, failures, token, req, raced>>
      /\ disabled' \subseteq Users
  BY DEF Tick, Inv, Signins, tables, Tables
<1>2. \A i : i \in 1..clock => i \in 1..clock'
  BY <1>1
<1>3. Signins'
  <2>1. ASSUME NEW u \in Users PROVE failures[u] \in Seq(1..clock') /\ token[u] \in 0..(clock' + Minutes)
    <3>1. failures[u] \in Seq(1..clock) /\ token[u] \in 0..(clock + Minutes)
      BY DEF Inv, Signins
    <3>2. failures[u] \in Seq(1..clock')
      <4>1. 1..clock \subseteq 1..clock'
        BY <1>2
      <4>2. QED
        BY <3>1, <4>1, SeqMonotonic
    <3>3. QED
      BY <1>1, <3>1, <3>2, ThrottleAssumption
  <2>2. QED
    BY <1>1, <2>1 DEF Inv, Signins
<1>4. Guesses'
  <2>1. ASSUME NEW u \in Users PROVE Recent(u)' \subseteq Recent(u) /\ Pending(u)' \subseteq Pending(u)
    <3>1. \A i \in DOMAIN failures[u] : failures[u][i] \in Nat
      BY DEF Inv, Signins
    <3>2. QED
      BY <1>1, <3>1, ThrottleAssumption DEF Recent, Pending
  <2>2. QED
    BY <2>1, GuessesKeep DEF Inv
<1>5. Requests'
  <2>1. Len(log) \in Nat
    BY DEF Inv, Tables
  <2>2. \A r : Fits(r) => Fits(r)'
    BY <1>1, <2>1, FitsKeeps
  <2>3. ASSUME NEW p \in Procs PROVE Fits(req[p])'
    <3>1. PICK r : r = req[p] /\ r = req'[p]
      BY <1>1
    <3>2. Fits(r)'
      BY <2>2, <3>1 DEF Inv, Requests
    <3>3. QED
      BY <3>1, <3>2 DEF Fits, Admitted, Decided
  <2>4. QED
    BY <1>1, <2>3 DEF Inv, Requests
<1>6. Tables' /\ Matches' /\ UpToDate'
  BY <1>1, TablesKeep DEF Inv, UpToDate, key, row
<1>7. AllVouched'
  <2>1. log \in Seq(Events) /\ Len(log') \in Nat /\ Len(log') >= Len(log) /\ \A i \in 1..Len(log) : log'[i] = log[i]
    BY <1>1 DEF Inv, Tables
  <2>2. ASSUME NEW q \in Procs, req[q].at \in Checked, req[q].user \notin Supers
        PROVE  Vouched(req[q])'
    <3>1. PICK s : s = req[q] /\ s = req'[q]
      BY <1>1
    <3>2. Vouched(s) /\ s.since \in Nat
      BY <2>1, <2>2, <3>1 DEF Inv, AllVouched, Requests, Fits, Admitted, Asking, Checked
    <3>3. Vouched(s)'
      BY <1>1, <2>1, <3>2, VouchedStays
    <3>4. QED
      BY <3>1, <3>3 DEF Vouched, Opened, Permitted
  <2>3. QED
    BY <1>1, <2>2 DEF AllVouched
<1>8. QED
  BY <1>3, <1>4, <1>5, <1>6, <1>7 DEF Inv

LEMMA LoginFailsKeeps ==
    ASSUME Inv, NEW p \in Procs, LoginFails(p)
    PROVE  Inv'
<1>1. PICK r : r = [at |-> "failed", user |-> req[p].user, now |-> clock]
  OBVIOUS
<1>2. /\ req[p].at = "verify" /\ Goes(p, r) /\ UNCHANGED <<clock, tables, failures, token, raced>>
  BY <1>1 DEF LoginFails
<1>3. req[p] \in [at : {"verify"}, user : Users] /\ clock \in Nat \ {0}
  BY <1>2 DEF Inv, Requests, Fits, Signins
<1>4. r \in [at : {"failed"}, user : Users, now : 1..clock] /\ r.at = "failed" /\ r.user = req[p].user
  BY <1>1, <1>3
<1>5. Fits(r)
  BY <1>4 DEF Fits, Asking, Checked
<1>6. req'[p] = r /\ \A q \in Procs : q # p => req'[q] = req[q]
  BY <1>2 DEF Goes, Inv, Requests
<1>7. \A u \in Users : Recent(u)' \subseteq Recent(u) /\ Pending(u)' \subseteq Pending(u)
  BY <1>2, <1>4, <1>6 DEF Recent, Pending
<1>8. Guesses' /\ Signins'
  BY <1>2, <1>7, GuessesKeep DEF Inv, Signins
<1>9. QED
  BY <1>2, <1>4, <1>5, <1>8, QuietKeeps DEF Checked

LEMMA LoginSucceedsKeeps ==
    ASSUME Inv, NEW p \in Procs, LoginSucceeds(p)
    PROVE  Inv'
<1>1. PICK u : u = req[p].user
  OBVIOUS
<1>2. /\ req[p].at = "verify" /\ Goes(p, Idle) /\ UNCHANGED <<clock, tables, raced>>
      /\ failures' = [failures EXCEPT ![u] = <<>>] /\ token' = [token EXCEPT ![u] = clock + Minutes]
  BY <1>1 DEF LoginSucceeds, issue_token
<1>3. u \in Users /\ clock \in Nat \ {0}
  BY <1>1, <1>2 DEF Inv, Requests, Fits, Signins
<1>4. /\ failures = [x \in Users |-> failures[x]] /\ token = [x \in Users |-> token[x]]
      /\ \A x \in Users : failures[x] \in Seq(1..clock) /\ token[x] \in 0..(clock + Minutes)
  BY DEF Inv, Signins
<1>5. /\ failures'[u] = <<>> /\ \A x \in Users : x # u => failures'[x] = failures[x]
      /\ failures' = [x \in Users |-> failures'[x]] /\ token' = [x \in Users |-> token'[x]]
      /\ token'[u] = clock + Minutes /\ \A x \in Users : x # u => token'[x] = token[x]
  BY <1>2, <1>3, <1>4
<1>6. Signins'
  <2>1. clock + Minutes \in 0..(clock + Minutes) /\ <<>> \in Seq(1..clock)
    BY <1>3, ThrottleAssumption
  <2>2. \A x \in Users : failures'[x] \in Seq(1..clock) /\ token'[x] \in 0..(clock + Minutes)
    BY <1>4, <1>5, <2>1
  <2>3. QED
    BY <1>2, <1>3, <1>5, <2>2 DEF Signins
<1>7. req'[p] = Idle /\ \A q \in Procs : q # p => req'[q] = req[q]
  BY <1>2 DEF Goes, Inv, Requests
<1>8. \A x \in Users : Recent(x)' \subseteq Recent(x) /\ Pending(x)' \subseteq Pending(x)
  BY <1>2, <1>5, <1>7, FitsIdle DEF Recent, Pending
<1>9. Guesses'
  BY <1>8, GuessesKeep DEF Inv
<1>10. QED
  BY <1>2, <1>6, <1>9, FitsIdle, QuietKeeps DEF Checked

\* The failures of one account change: to these others nothing happens.
LEMMA FailuresChange ==
    ASSUME Inv, NEW u \in Users, NEW s, failures' = [failures EXCEPT ![u] = s], s \in Seq(1..clock),
           UNCHANGED <<clock, token>>
    PROVE  Signins' /\ failures'[u] = s /\ \A x \in Users : x # u => failures'[x] = failures[x]
<1>1. /\ failures = [x \in Users |-> failures[x]] /\ token = [x \in Users |-> token[x]]
      /\ \A x \in Users : failures[x] \in Seq(1..clock) /\ token[x] \in 0..(clock + Minutes)
      /\ clock \in Nat \ {0}
  BY DEF Inv, Signins
<1>2. /\ failures'[u] = s /\ \A x \in Users : x # u => failures'[x] = failures[x]
      /\ failures' = [x \in Users |-> failures'[x]]
  BY <1>1
<1>3. \A x \in Users : failures'[x] \in Seq(1..clock) /\ token[x] \in 0..(clock + Minutes)
  BY <1>1, <1>2
<1>4. QED
  BY <1>1, <1>2, <1>3 DEF Signins

\* It is enough to look at this account.
LEMMA GuessesOf ==
    ASSUME Inv, NEW u \in Users, UNCHANGED clock, \A x \in Users : x # u => failures'[x] = failures[x],
           NEW p \in Procs, \A q \in Procs : q # p => req'[q] = req[q],
           req'[p].at \in {"verify", "failed"} => req'[p].user = u,
           Cardinality(Recent(u)') + Cardinality(Pending(u)') < Limit + Cardinality(Procs)
    PROVE  Guesses'
<1> SUFFICES ASSUME NEW x \in Users
             PROVE  Cardinality(Recent(x)') + Cardinality(Pending(x)') < Limit + Cardinality(Procs)
  BY DEF Guesses
<1>1. CASE x = u
  BY <1>1
<1>2. CASE x # u
  <2>1. PICK A, B : A = Recent(x) /\ B = Pending(x)
    OBVIOUS
  <2>2. PICK D : D = Pending(x)'
    OBVIOUS
  <2>3. Recent(x)' = A /\ D \in SUBSET B
    BY <1>2, <2>1, <2>2 DEF Recent, Pending
  <2>4. /\ IsFiniteSet(B) /\ Cardinality(A) \in Nat /\ Cardinality(B) \in Nat /\ Cardinality(Procs) \in Nat
        /\ Cardinality(A) + Cardinality(B) < Limit + Cardinality(Procs)
    BY <2>1, FiniteCounts DEF Inv, Guesses
  <2>5. Cardinality(D) <= Cardinality(B) /\ Cardinality(D) \in Nat
    BY <2>3, <2>4, FS_Subset, FS_CardinalityType
  <2>6. Cardinality(A) + Cardinality(D) < Limit + Cardinality(Procs)
    BY <2>4, <2>5, ThrottleAssumption
  <2>7. QED
    BY <2>2, <2>3, <2>6
<1>3. QED
  BY <1>1, <1>2

LEMMA LoginCheckKeeps ==
    ASSUME Inv, NEW p \in Procs, NEW u \in Users, LoginCheck(p, u)
    PROVE  Inv'
<1>1. PICK s : s = pruned(failures[u])
  OBVIOUS
<1>2. PICK r : r = IF retry_after(u) THEN req[p] ELSE [at |-> "verify", user |-> u]
  OBVIOUS
<1>3. /\ req[p].at = "idle" /\ failures' = [failures EXCEPT ![u] = s]
      /\ UNCHANGED <<clock, tables, token, raced>>
  BY <1>1 DEF LoginCheck, Inv, Signins
<1>4. Goes(p, r)
  <2>1. req = [q \in Procs |-> req[q]]
    BY DEF Inv, Requests
  <2>2. CASE retry_after(u)
    <3>1. req' = req /\ r = req[p]
      BY <1>2, <2>2 DEF LoginCheck
    <3>2. QED
      BY <2>1, <3>1 DEF Goes
  <2>3. CASE ~ retry_after(u)
    BY <1>2, <2>3 DEF LoginCheck
  <2>4. QED
    BY <2>2, <2>3
<1>5. Fits(r) /\ r.at \in {"idle", "verify"} /\ (r.at = "verify" => r.user = u)
  <2>1. CASE retry_after(u)
    BY <1>2, <1>3, <2>1 DEF Inv, Requests
  <2>2. CASE ~ retry_after(u)
    BY <1>2, <2>2 DEF Fits, Asking, Checked
  <2>3. QED
    BY <2>1, <2>2
<1>6. req'[p] = r /\ \A q \in Procs : q # p => req'[q] = req[q]
  BY <1>4 DEF Goes, Inv, Requests
<1>7. failures[u] \in Seq(1..clock) /\ clock \in Nat
  BY DEF Inv, Signins
<1>8. PICK R, P : R = Recent(u) /\ P = {i \in DOMAIN s : s[i] > clock - Window}
  OBVIOUS
<1>9. s \in Seq(1..clock) /\ IsFiniteSet(P) /\ Cardinality(P) <= Cardinality(R) /\ Cardinality(P) <= Len(s)
  BY <1>1, <1>7, <1>8, PrunedFacts DEF Recent
<1>10. Signins' /\ failures'[u] = s /\ \A x \in Users : x # u => failures'[x] = failures[x]
  BY <1>3, <1>9, FailuresChange
<1>11. Recent(u)' = P
  BY <1>3, <1>8, <1>10 DEF Recent
<1>12. /\ Cardinality(Procs) \in Nat /\ Cardinality(R) \in Nat /\ Cardinality(P) \in Nat
       /\ Cardinality(Pending(u)) \in Nat /\ Cardinality(R) + Cardinality(Pending(u)) < Limit + Cardinality(Procs)
  BY <1>8, <1>9, FiniteCounts, FS_CardinalityType DEF Inv, Guesses
<1>13. Cardinality(P) + Cardinality(Pending(u)') < Limit + Cardinality(Procs)
  <2>1. CASE retry_after(u)
    <3>1. Pending(u)' = Pending(u)
      BY <1>2, <1>6, <2>1 DEF Pending
    <3>2. QED
      BY <1>9, <1>12, <3>1, ThrottleAssumption
  <2>2. CASE ~ retry_after(u)
    <3>1. Len(s) < Limit
      BY <1>1, <1>9, <2>2, ThrottleAssumption DEF retry_after
    <3>2. PICK D : D = Pending(u)'
      OBVIOUS
    <3>3. D \in SUBSET Procs
      BY <3>2 DEF Pending
    <3>4. Cardinality(D) <= Cardinality(Procs) /\ Cardinality(D) \in Nat
      BY <3>3, ProcsAssumption, FS_Subset, FS_CardinalityType
    <3>5. Cardinality(P) + Cardinality(D) < Limit + Cardinality(Procs)
      BY <1>9, <1>12, <3>1, <3>4, ThrottleAssumption
    <3>6. QED
      BY <3>2, <3>5
  <2>3. QED
    BY <2>1, <2>2
<1>14. Guesses'
  <2>1. Cardinality(Recent(u)') + Cardinality(Pending(u)') < Limit + Cardinality(Procs)
    BY <1>11, <1>13
  <2>2. req'[p].at \in {"verify", "failed"} => req'[p].user = u
    BY <1>5, <1>6
  <2>3. QED
    BY <1>3, <1>6, <1>10, <2>1, <2>2, GuessesOf
<1>15. QED
  BY <1>3, <1>4, <1>5, <1>10, <1>14, QuietKeeps DEF Checked

LEMMA LoginFailedKeeps ==
    ASSUME Inv, NEW p \in Procs, LoginFailed(p)
    PROVE  Inv'
<1>1. PICK u, now : u = req[p].user /\ now = req[p].now
  OBVIOUS
<1>2. /\ req[p].at = "failed" /\ Goes(p, Idle) /\ UNCHANGED <<clock, tables, token, raced>>
  BY DEF LoginFailed
<1>3. u \in Users /\ now \in 1..clock
  BY <1>1, <1>2 DEF Inv, Requests, Fits
<1>4. failures[u] \in Seq(1..clock) /\ clock \in Nat /\ failures = [x \in Users |-> failures[x]]
  BY <1>3 DEF Inv, Signins
<1>5. PICK f : f = failures[u]
  OBVIOUS
<1>6. PICK s : s = Append(f, now)
  OBVIOUS
<1>7. failures' = [failures EXCEPT ![u] = s]
  BY <1>1, <1>3, <1>4, <1>5, <1>6 DEF LoginFailed
<1>8. /\ s \in Seq(1..clock) /\ Len(s) = Len(f) + 1 /\ Len(f) \in Nat
      /\ DOMAIN f = 1..Len(f) /\ DOMAIN s = 1..(Len(f) + 1) /\ \A i \in 1..Len(f) : s[i] = f[i]
  BY <1>3, <1>4, <1>5, <1>6
<1>9. Signins' /\ failures'[u] = s /\ \A x \in Users : x # u => failures'[x] = failures[x]
  BY <1>2, <1>3, <1>7, <1>8, FailuresChange
<1>10. req'[p] = Idle /\ \A q \in Procs : q # p => req'[q] = req[q]
  BY <1>2 DEF Goes, Inv, Requests
<1>11. PICK A, B : A = Recent(u) /\ B = Pending(u)
  OBVIOUS
<1>12. /\ IsFiniteSet(A) /\ IsFiniteSet(B) /\ Cardinality(A) \in Nat /\ Cardinality(B) \in Nat
       /\ Cardinality(Procs) \in Nat /\ Cardinality(A) + Cardinality(B) < Limit + Cardinality(Procs)
  BY <1>3, <1>11, FiniteCounts DEF Inv, Guesses
<1>13. PICK C : C = Recent(u)'
  OBVIOUS
<1>14. C \in SUBSET (A \cup {Len(f) + 1})
  <2>1. C = {i \in DOMAIN s : s[i] > clock - Window}
    BY <1>2, <1>9, <1>13 DEF Recent
  <2>2. A = {i \in DOMAIN f : f[i] > clock - Window}
    BY <1>5, <1>11 DEF Recent
  <2>3. \A i \in DOMAIN s : i \in DOMAIN f \/ i = Len(f) + 1
    BY <1>8
  <2>4. QED
    BY <1>8, <2>1, <2>2, <2>3
<1>15. Cardinality(C) <= Cardinality(A) + 1 /\ Cardinality(C) \in Nat
  <2>1. /\ IsFiniteSet(A \cup {Len(f) + 1})
        /\ Cardinality(A \cup {Len(f) + 1}) = IF Len(f) + 1 \in A THEN Cardinality(A) ELSE Cardinality(A) + 1
    BY <1>12, FS_AddElement
  <2>2. Cardinality(C) <= Cardinality(A \cup {Len(f) + 1}) /\ IsFiniteSet(C)
    BY <1>14, <2>1, FS_Subset
  <2>3. Cardinality(C) \in Nat
    BY <2>2, FS_CardinalityType
  <2>4. QED
    BY <1>12, <2>1, <2>2, <2>3
<1>16. Pending(u)' = B \ {p} /\ p \in B
  BY <1>1, <1>2, <1>10, <1>11, FitsIdle DEF Pending
<1>17. Cardinality(B \ {p}) = Cardinality(B) - 1
  BY <1>12, <1>16, FS_RemoveElement
<1>18. Cardinality(Recent(u)') + Cardinality(Pending(u)') < Limit + Cardinality(Procs)
  <2>1. Cardinality(C) + Cardinality(B \ {p}) < Limit + Cardinality(Procs)
    BY <1>12, <1>15, <1>17, ThrottleAssumption
  <2>2. QED
    BY <1>13, <1>16, <2>1
<1>19. Guesses'
  BY <1>2, <1>3, <1>9, <1>10, <1>18, FitsIdle, GuessesOf
<1>20. QED
  BY <1>2, <1>9, <1>19, FitsIdle, QuietKeeps DEF Checked

-----------------------------------------------------------------------------
(* Requests that change members and organizations. *)

LEMMA AskKeeps ==
    ASSUME Inv, NEW p \in Procs, NEW r, Goes(p, r), Fits(r), r.at \in Asking,
           UNCHANGED <<clock, tables, raced, failures, token>>,
           r.at = "commit" /\ key(r.asked) \notin raced => r.seen = row(r.asked),
           r.at \in Checked /\ r.user \notin Supers => Vouched(r)
    PROVE  Inv'
<1>1. req'[p] = r /\ \A q \in Procs : q # p => req'[q] = req[q]
  BY DEF Goes, Inv, Requests
<1>2. \A u \in Users : Recent(u)' \subseteq Recent(u) /\ Pending(u)' \subseteq Pending(u)
  BY <1>1 DEF Recent, Pending, Asking, Checked
<1>3. Guesses' /\ Signins'
  BY <1>2, GuessesKeep DEF Inv, Signins
<1>4. QED
  BY <1>3, QuietKeeps DEF Checked

LEMMA AuthenticateKeeps ==
    ASSUME Inv, NEW p \in Procs, NEW u \in Users, NEW a \in Asked, Authenticate(p, u, a)
    PROVE  Inv'
<1>1. PICK r : r = [at |-> IF a.op \in PlatformOps THEN "read" ELSE "authorize",
                    user |-> u, asked |-> a, since |-> Len(log)]
  OBVIOUS
<1>2. /\ Goes(p, r) /\ UNCHANGED <<clock, tables, raced, failures, token>>
      /\ a.op \in PlatformOps => u \in Supers
  BY <1>1 DEF Authenticate
<1>3. Len(log) \in 0..Len(log)
  BY DEF Inv, Tables
<1>4. /\ r.at = IF a.op \in PlatformOps THEN "read" ELSE "authorize"
      /\ r.user = u /\ r.asked = a /\ r.since = Len(log)
      /\ r = [at |-> r.at, user |-> r.user, asked |-> r.asked, since |-> r.since]
  BY <1>1
<1>5. Admitted(r)
  BY <1>2, <1>3, <1>4 DEF Admitted
<1>6. Fits(r) /\ r.at \in Asking /\ r.at # "commit"
  BY <1>4, <1>5 DEF Fits, Asking, Checked
<1>7. r.at \in Checked => r.user \in Supers
  BY <1>2, <1>4 DEF Checked
<1>8. QED
  BY <1>2, <1>6, <1>7, AskKeeps

LEMMA AuthorizeTenantKeeps ==
    ASSUME Inv, NEW p \in Procs, AuthorizeTenant(p)
    PROVE  Inv'
<1>1. PICK s : s = req[p]
  OBVIOUS
<1>2. s.at = "authorize" /\ UNCHANGED <<clock, tables, raced, failures, token>>
  BY <1>1 DEF AuthorizeTenant
<1>3. Fits(s) /\ Admitted(s) /\ s = [at |-> "authorize", user |-> s.user, asked |-> s.asked, since |-> s.since]
  BY <1>1, <1>2 DEF Inv, Requests, Fits, Asking, Checked
<1>4. CASE ~ _tenant_open(s.user, s.asked.tenant)
  <2>1. Goes(p, Idle)
    BY <1>1, <1>4 DEF AuthorizeTenant
  <2>2. QED
    BY <1>2, <2>1, EndKeeps
<1>5. CASE _tenant_open(s.user, s.asked.tenant)
  <2>1. PICK t, u : t = s.asked.tenant /\ u = s.user
    OBVIOUS
  <2>2. t \in Tenants /\ u \in Users /\ status[t] # NONE
    BY <1>3, <1>5, <2>1, AskedFacts DEF Admitted, _tenant_open
  <2>3. PICK r : r = [s EXCEPT !.at = "member"]
    OBVIOUS
  <2>4. r = [at |-> "member", user |-> u, asked |-> s.asked, since |-> s.since]
    BY <1>3, <2>1, <2>3
  <2>5. r.at = "member" /\ r.user = u /\ r.asked = s.asked /\ r.since = s.since
        /\ r = [at |-> r.at, user |-> r.user, asked |-> r.asked, since |-> r.since]
    BY <2>4
  <2>6. Admitted(r)
    BY <1>3, <2>1, <2>2, <2>5 DEF Admitted
  <2>7. Fits(r) /\ r.at \in Asking
    BY <2>5, <2>6 DEF Fits, Asking, Checked
  <2>8. Goes(p, r)
    BY <1>1, <1>5, <2>3 DEF AuthorizeTenant
  <2>9. ASSUME r.user \notin Supers, <<t, NONE>> \notin raced
        PROVE  \E n \in r.since..Len(log) : logged(n, t, t) = Active
    <3>1. status[t] # Suspended
      BY <1>5, <2>1, <2>5, <2>9 DEF _tenant_open
    <3>2. status[t] = Active
      BY <2>2, <3>1 DEF Inv, Tables, Statuses
    <3>3. logged(Len(log), t, t) = Active
      BY <2>2, <2>9, <3>2 DEF Inv, Matches
    <3>4. Len(log) \in r.since..Len(log)
      BY <2>6 DEF Admitted, Inv, Tables
    <3>5. QED
      BY <3>3, <3>4
  <2>10. r.user \notin Supers => Vouched(r)
    BY <2>1, <2>5, <2>9 DEF Vouched, Opened
  <2>11. QED
    BY <1>2, <2>5, <2>7, <2>8, <2>10, AskKeeps
<1>6. QED
  BY <1>4, <1>5

LEMMA AuthorizeKeeps ==
    ASSUME Inv, NEW p \in Procs, Authorize(p)
    PROVE  Inv'
<1>1. PICK s : s = req[p]
  OBVIOUS
<1>2. s.at = "member" /\ UNCHANGED <<clock, tables, raced, failures, token>>
  BY <1>1 DEF Authorize
<1>3. Fits(s) /\ Admitted(s) /\ s = [at |-> "member", user |-> s.user, asked |-> s.asked, since |-> s.since]
  BY <1>1, <1>2 DEF Inv, Requests, Fits, Asking, Checked
<1>4. CASE ~ _membership(s.user, s.asked.tenant)
  <2>1. Goes(p, Idle)
    BY <1>1, <1>4 DEF Authorize
  <2>2. QED
    BY <1>2, <2>1, EndKeeps
<1>5. CASE _membership(s.user, s.asked.tenant)
  <2>1. PICK t, u : t = s.asked.tenant /\ u = s.user
    OBVIOUS
  <2>2. t \in Tenants /\ u \in Users
    BY <1>3, <2>1, AskedFacts DEF Admitted
  <2>3. PICK r : r = [s EXCEPT !.at = "read"]
    OBVIOUS
  <2>4. r = [at |-> "read", user |-> u, asked |-> s.asked, since |-> s.since]
    BY <1>3, <2>1, <2>3
  <2>5. r.at = "read" /\ r.user = u /\ r.asked = s.asked /\ r.since = s.since
        /\ r = [at |-> r.at, user |-> r.user, asked |-> r.asked, since |-> r.since]
    BY <2>4
  <2>6. Admitted(r)
    BY <1>2, <1>3, <2>1, <2>5 DEF Admitted
  <2>7. Fits(r) /\ r.at \in Asking
    BY <2>5, <2>6 DEF Fits, Asking, Checked
  <2>8. Goes(p, r)
    BY <1>1, <1>5, <2>3 DEF Authorize
  <2>9. ASSUME r.user \notin Supers, <<t, u>> \notin raced, <<t, NONE>> \notin raced
        PROVE  \E n \in r.since..Len(log) :
                  /\ logged(n, t, t) = Active
                  /\ \E m \in n..Len(log) : logged(m, t, u) \in Roles /\ allowed(logged(m, t, u), "members.manage")
    <3>1. member[t][u] # NONE /\ allowed(member[t][u].role, "members.manage")
      BY <1>5, <2>1, <2>5, <2>9 DEF _membership
    <3>2. member[t][u].role \in Roles
      BY <2>2, <3>1, GrantedAssumption DEF Rows, Inv, Tables
    <3>3. logged(Len(log), t, u) = member[t][u].role
      BY <2>2, <2>9, <3>1 DEF Inv, Matches
    <3>4. Vouched(s)
      BY <1>1, <1>2, <2>1, <2>5, <2>9 DEF Inv, AllVouched, Checked
    <3>5. PICK n \in r.since..Len(log) : logged(n, t, t) = Active
      BY <1>2, <2>1, <2>5, <2>9, <3>4 DEF Vouched, Opened
    <3>6. Len(log) \in n..Len(log)
      BY <2>6 DEF Admitted, Inv, Tables
    <3>7. QED
      BY <3>1, <3>2, <3>3, <3>5, <3>6
  <2>10. r.user \notin Supers => Vouched(r)
    BY <2>1, <2>5, <2>9 DEF Vouched, Permitted
  <2>11. QED
    BY <1>2, <2>5, <2>7, <2>8, <2>10, AskKeeps
<1>6. QED
  BY <1>4, <1>5

LEMMA HandlerReadsKeeps ==
    ASSUME Inv, NEW p \in Procs, HandlerReads(p)
    PROVE  Inv'
<1>1. PICK s, a : s = req[p] /\ a = s.asked
  OBVIOUS
<1>2. s.at = "read" /\ UNCHANGED <<clock, tables, raced, failures, token>>
  BY <1>1 DEF HandlerReads
<1>3. Admitted(s) /\ a \in Asked
  BY <1>1, <1>2 DEF Inv, Requests, Fits, Asking, Checked, Admitted
<1>4. CASE Goes(p, Idle)
  BY <1>2, <1>4, EndKeeps
<1>5. CASE /\ ~ Refused(s.user, a)
           /\ Goes(p, [at |-> "commit", user |-> s.user, asked |-> a, since |-> s.since,
                       seen |-> row(a), known |-> a.target \in accounts])
  <2>1. PICK r : r = [at |-> "commit", user |-> s.user, asked |-> a, since |-> s.since,
                      seen |-> row(a), known |-> a.target \in accounts]
    OBVIOUS
  <2>2. /\ r.at = "commit" /\ r.user = s.user /\ r.asked = a /\ r.since = s.since /\ r.seen = row(a)
        /\ r = [at |-> "commit", user |-> r.user, asked |-> r.asked, since |-> r.since, seen |-> r.seen, known |-> r.known]
    BY <2>1
  <2>3. Admitted(r)
    BY <1>1, <1>2, <1>3, <2>2 DEF Admitted
  <2>4. a.op = "admin" => status[a.tenant] # NONE
    BY <1>5 DEF Refused
  <2>5. row(a) \in (IF a.target = NONE THEN Statuses ELSE IF a.op = "remove" THEN Rows ELSE Rows \cup {NONE})
    <3>1. CASE a.target = NONE
      BY <1>3, <3>1, AskedFacts DEF row, Inv, Tables
    <3>2. CASE a.target # NONE
      <4>1. a.tenant \in Tenants /\ a.target \in Users
        BY <1>3, <3>2, AskedFacts
      <4>2. row(a) = member[a.tenant][a.target]
        BY <3>2 DEF row
      <4>3. row(a) \in Rows \cup {NONE}
        BY <4>1, <4>2 DEF Inv, Tables
      <4>4. a.op = "remove" => row(a) # NONE
        BY <1>5, <4>2 DEF Refused
      <4>5. QED
        BY <3>2, <4>3, <4>4
    <3>3. QED
      BY <3>1, <3>2
  <2>6. Decided(r)
    BY <2>2, <2>4, <2>5 DEF Decided
  <2>7. Fits(r) /\ r.at \in Asking
    BY <2>2, <2>3, <2>6 DEF Fits, Asking, Checked
  <2>8. r.user \notin Supers => Vouched(r)
    <3>1. r.user \notin Supers => Vouched(s)
      BY <1>1, <1>2, <2>2 DEF Inv, AllVouched, Checked
    <3>2. QED
      BY <1>1, <1>2, <2>2, <3>1 DEF Vouched, Permitted
  <2>9. Goes(p, r)
    BY <1>5, <2>1
  <2>10. QED
    BY <1>2, <2>2, <2>7, <2>8, <2>9, AskKeeps
<1>6. QED
  BY <1>1, <1>4, <1>5 DEF HandlerReads

LEMMA CommitConflictKeeps ==
    ASSUME Inv, NEW p \in Procs, CommitConflict(p)
    PROVE  Inv'
<1>1. Goes(p, Idle) /\ UNCHANGED <<clock, tables, raced, failures, token>>
  BY DEF CommitConflict
<1>2. QED
  BY <1>1, EndKeeps

\* A transaction commits: requests that are about to write the same row are
\* noted, and what they have seen may be out of date.
LEMMA CommitFacts ==
    ASSUME Inv, NEW p \in Procs, MayCommit(p)
    PROVE  /\ Goes(p, Idle) /\ UNCHANGED <<clock, failures, token>> /\ raced \subseteq raced'
           /\ req[p].at = "commit" /\ Fits(req[p]) /\ Admitted(req[p]) /\ Decided(req[p])
           /\ req'[p] = Idle /\ \A q \in Procs : q # p => req'[q] = req[q]
           /\ \A q \in Procs : q # p /\ req[q].at = "commit" /\ key(req[q].asked) \notin raced' =>
                 key(req[q].asked) # key(req[p].asked)
           /\ Guesses' /\ Signins'
<1>1. Goes(p, Idle) /\ UNCHANGED <<clock, failures, token>> /\ raced \subseteq raced' /\ req[p].at = "commit"
  BY DEF MayCommit
<1>2. req'[p] = Idle /\ \A q \in Procs : q # p => req'[q] = req[q]
  BY <1>1 DEF Goes, Inv, Requests
<1>3. Fits(req[p]) /\ Admitted(req[p]) /\ Decided(req[p])
  BY <1>1 DEF Inv, Requests, Fits, Asking, Checked
<1>4. \A q \in Procs : q # p /\ req[q].at = "commit" /\ key(req[q].asked) \notin raced' =>
         key(req[q].asked) # key(req[p].asked)
  BY DEF MayCommit
<1>5. \A u \in Users : Recent(u)' \subseteq Recent(u) /\ Pending(u)' \subseteq Pending(u)
  BY <1>1, <1>2, FitsIdle DEF Recent, Pending
<1>6. Guesses' /\ Signins'
  BY <1>1, <1>5, GuessesKeep DEF Inv, Signins
<1>7. QED
  BY <1>1, <1>2, <1>3, <1>4, <1>6

\* The row of the request a is written, or none, and logged or not: whoever
\* else has seen a row has seen another, or is noted as overlapping.
LEMMA CommitKeeps ==
    ASSUME Inv, NEW p \in Procs, MayCommit(p), NEW a, a = req[p].asked, Tables',
           \A t \in Tenants : status[t] # NONE => status'[t] # NONE,
           \A t \in Tenants : <<t, NONE>> # key(a) => status'[t] = status[t],
           \A t \in Tenants, u \in Users : <<t, u>> # key(a) => member'[t][u] = member[t][u],
           Len(log') >= Len(log), \A i \in 1..Len(log) : log'[i] = log[i],
           Matches'
    PROVE  Inv'
<1>1. /\ Goes(p, Idle) /\ UNCHANGED <<clock, failures, token>> /\ raced \subseteq raced' /\ Guesses' /\ Signins'
      /\ req'[p] = Idle /\ \A q \in Procs : q # p => req'[q] = req[q]
      /\ \A q \in Procs : q # p /\ req[q].at = "commit" /\ key(req[q].asked) \notin raced' =>
            key(req[q].asked) # key(a)
  BY CommitFacts
<1>2. log \in Seq(Events) /\ Len(log) \in Nat /\ Len(log') \in Nat /\ clock \in Nat
  BY DEF Inv, Tables, Signins
<1>3. Requests'
  BY <1>1, <1>2, FitsIdle, RequestsKeep DEF Inv
<1>4. UpToDate'
  <2>1. ASSUME NEW q \in Procs, req'[q].at = "commit", key(req'[q].asked) \notin raced'
        PROVE  req'[q].seen = row(req[q].asked)'
    <3>1. q # p /\ req'[q] = req[q] /\ req[q].at = "commit" /\ key(req[q].asked) \notin raced
      BY <1>1, <2>1, FitsIdle
    <3>2. PICK b : b = req[q].asked /\ b = req'[q].asked
      BY <3>1
    <3>3. key(b) # key(a) /\ req[q].seen = row(b)
      BY <1>1, <2>1, <3>1, <3>2 DEF Inv, UpToDate
    <3>4. b \in Asked
      BY <3>1, <3>2 DEF Inv, Requests, Fits, Asking, Checked, Admitted
    <3>5. row(b)' = row(b)
      <4>1. CASE b.target = NONE
        <5>1. b.tenant \in Tenants /\ key(b) = <<b.tenant, NONE>>
          BY <3>4, <4>1, AskedFacts DEF key
        <5>2. status'[b.tenant] = status[b.tenant]
          BY <3>3, <5>1
        <5>3. QED
          BY <4>1, <5>2 DEF row
      <4>2. CASE b.target # NONE
        <5>1. b.tenant \in Tenants /\ b.target \in Users /\ key(b) = <<b.tenant, b.target>>
          BY <3>4, <4>2, AskedFacts DEF key
        <5>2. member'[b.tenant][b.target] = member[b.tenant][b.target]
          BY <3>3, <5>1
        <5>3. QED
          BY <4>2, <5>2 DEF row
      <4>3. QED
        BY <4>1, <4>2
    <3>6. QED
      BY <3>1, <3>2, <3>3, <3>5 DEF row
  <2>2. QED
    BY <2>1 DEF UpToDate, key
<1>5. AllVouched'
  <2>1. ASSUME NEW q \in Procs, req'[q].at \in Checked, req'[q].user \notin Supers
        PROVE  Vouched(req[q])'
    <3>1. q # p /\ req'[q] = req[q]
      BY <1>1, <2>1, FitsIdle DEF Checked
    <3>2. PICK s : s = req[q] /\ s = req'[q]
      BY <3>1
    <3>3. Vouched(s) /\ s.since \in Nat
      BY <1>2, <2>1, <3>2 DEF Inv, AllVouched, Requests, Fits, Admitted, Asking, Checked
    <3>4. Vouched(s)'
      BY <1>1, <1>2, <3>3, VouchedStays
    <3>5. QED
      BY <3>2, <3>4 DEF Vouched, Opened, Permitted
  <2>2. QED
    BY <2>1 DEF AllVouched
<1>6. QED
  BY <1>1, <1>3, <1>4, <1>5 DEF Inv

\* The event of a change says what its row has become, and nothing of others.
LEMMA MatchesKeeps ==
    ASSUME Inv, NEW a \in Asked, record(a), raced \subseteq raced',
           \A t \in Tenants : <<t, NONE>> # key(a) => status'[t] = status[t],
           \A t \in Tenants, u \in Users : <<t, u>> # key(a) => member'[t][u] = member[t][u],
           a.target = NONE /\ key(a) \notin raced' => status'[a.tenant] = a.to,
           a.target # NONE /\ key(a) \notin raced' =>
              a.to = IF member'[a.tenant][a.target] = NONE THEN NONE ELSE member'[a.tenant][a.target].role
    PROVE  Matches'
<1>1. PICK x : x = IF a.target = NONE THEN a.tenant ELSE a.target
  OBVIOUS
<1>2. PICK e : e = Event(a.tenant, x, a.to)
  OBVIOUS
<1>3. log \in Seq(Events) /\ log' = Append(log, e) /\ e.tenant = a.tenant /\ e.target = x /\ e.to = a.to
  BY <1>1, <1>2 DEF Inv, Tables, record, Event
<1>4. \A t, u : logged(Len(log), t, u)' = IF e.tenant = t /\ e.target = u THEN e.to ELSE logged(Len(log), t, u)
  BY <1>3, LoggedNow
<1>5. a.tenant \in Tenants /\ (a.target # NONE => a.target \in Users)
  BY AskedFacts
<1>6. ASSUME NEW t \in Tenants, <<t, NONE>> \notin raced' PROVE logged(Len(log), t, t)' = status'[t]
  <2>1. CASE <<t, NONE>> = key(a)
    <3>1. a.tenant = t /\ a.target = NONE
      BY <2>1 DEF key
    <3>2. QED
      BY <1>1, <1>3, <1>4, <1>6, <2>1, <3>1
  <2>2. CASE <<t, NONE>> # key(a)
    <3>1. ~ (e.tenant = t /\ e.target = t)
      BY <1>1, <1>3, <1>5, <2>2, NamesAssumption DEF key
    <3>2. status'[t] = status[t] /\ <<t, NONE>> \notin raced
      BY <1>6, <2>2
    <3>3. logged(Len(log), t, t) = status[t]
      BY <3>2 DEF Inv, Matches
    <3>4. QED
      BY <1>4, <3>1, <3>2, <3>3
  <2>3. QED
    BY <2>1, <2>2
<1>7. ASSUME NEW t \in Tenants, NEW u \in Users, <<t, u>> \notin raced'
      PROVE  logged(Len(log), t, u)' = IF member'[t][u] = NONE THEN NONE ELSE member'[t][u].role
  <2>1. CASE <<t, u>> = key(a)
    <3>1. a.tenant = t /\ a.target = u /\ a.target # NONE
      BY <2>1, NoneFacts DEF key
    <3>2. QED
      BY <1>1, <1>3, <1>4, <1>7, <2>1, <3>1
  <2>2. CASE <<t, u>> # key(a)
    <3>1. ~ (e.tenant = t /\ e.target = u)
      BY <1>1, <1>3, <1>5, <2>2, NamesAssumption DEF key
    <3>2. member'[t][u] = member[t][u] /\ <<t, u>> \notin raced
      BY <1>7, <2>2
    <3>3. logged(Len(log), t, u) = IF member[t][u] = NONE THEN NONE ELSE member[t][u].role
      BY <3>2 DEF Inv, Matches
    <3>4. QED
      BY <1>4, <3>1, <3>2, <3>3
  <2>3. QED
    BY <2>1, <2>2
<1>8. QED
  BY <1>6, <1>7 DEF Matches

\* A membership row is written, or left as it is.
LEMMA MemberWritten ==
    ASSUME Tables, NEW a \in Asked, a.target # NONE, NEW x \in Rows \cup {NONE}, UNCHANGED status,
           accounts \subseteq accounts', accounts' \subseteq Users, disabled' \subseteq Users, log' \in Seq(Events),
           x # NONE => a.target \in accounts' /\ status[a.tenant] # NONE,
           \/ member' = [member EXCEPT ![a.tenant][a.target] = x]
           \/ member' = member /\ x = member[a.tenant][a.target]
    PROVE  /\ Tables' /\ member'[a.tenant][a.target] = x
           /\ \A t \in Tenants : <<t, NONE>> # key(a) => status'[t] = status[t]
           /\ \A t \in Tenants, u \in Users : <<t, u>> # key(a) => member'[t][u] = member[t][u]
<1>1. a.tenant \in Tenants /\ a.target \in Users
  BY AskedFacts
<1>2. /\ member = [t \in Tenants |-> [u \in Users |-> member[t][u]]]
      /\ \A t \in Tenants, u \in Users : member[t][u] # NONE =>
            member[t][u] \in Rows /\ u \in accounts /\ status[t] # NONE
  BY DEF Tables
<1>3. /\ member'[a.tenant][a.target] = x
      /\ \A t \in Tenants, u \in Users : t # a.tenant \/ u # a.target => member'[t][u] = member[t][u]
      /\ member' = [t \in Tenants |-> [u \in Users |-> member'[t][u]]]
  <2>1. CASE member' = [member EXCEPT ![a.tenant][a.target] = x]
    <3>1. member' = [t \in Tenants |-> IF t = a.tenant THEN [member[t] EXCEPT ![a.target] = x] ELSE member[t]]
      BY <1>1, <1>2, <2>1
    <3>2. \A t \in Tenants : member[t] = [u \in Users |-> member[t][u]]
      BY <1>2
    <3>3. \A t \in Tenants : member'[t] = IF t = a.tenant THEN [member[t] EXCEPT ![a.target] = x] ELSE member[t]
      BY <3>1
    <3>4. \A t \in Tenants : member'[t] = [u \in Users |-> IF t = a.tenant /\ u = a.target THEN x ELSE member[t][u]]
      BY <3>2, <3>3
    <3>5. ASSUME NEW t \in Tenants, NEW u \in Users
          PROVE  member'[t][u] = IF t = a.tenant /\ u = a.target THEN x ELSE member[t][u]
      <4>1. member'[t] = [v \in Users |-> IF t = a.tenant /\ v = a.target THEN x ELSE member[t][v]]
        BY <3>4
      <4>2. QED
        BY <4>1
    <3>6. \A t \in Tenants : member'[t] = [u \in Users |-> member'[t][u]]
      BY <3>4
    <3>7. member' = [t \in Tenants |-> member'[t]]
      BY <3>1
    <3>8. QED
      BY <1>1, <3>5, <3>6, <3>7
  <2>2. CASE member' = member /\ x = member[a.tenant][a.target]
    BY <1>2, <2>2
  <2>3. QED
    BY <2>1, <2>2
<1>4. ASSUME NEW t \in Tenants, NEW u \in Users, member'[t][u] # NONE
      PROVE  member'[t][u] \in Rows /\ u \in accounts' /\ status'[t] # NONE
  <2>1. CASE t = a.tenant /\ u = a.target
    BY <1>3, <1>4, <2>1
  <2>2. CASE t # a.tenant \/ u # a.target
    BY <1>2, <1>3, <1>4, <2>2
  <2>3. QED
    BY <2>1, <2>2
<1>5. Tables'
  <2>1. Supers \subseteq accounts' /\ status' \in [Tenants -> Statuses]
    BY DEF Tables
  <2>2. QED
    BY <1>3, <1>4, <2>1 DEF Tables
<1>6. \A t \in Tenants, u \in Users : <<t, u>> # key(a) => member'[t][u] = member[t][u]
  BY <1>3 DEF key
<1>7. QED
  BY <1>3, <1>5, <1>6

LEMMA RecordFacts ==
    ASSUME Tables, NEW a \in Asked, record(a)
    PROVE  /\ log' \in Seq(Events) /\ Len(log') >= Len(log)
           /\ \A i \in 1..Len(log) : log'[i] = log[i]
<1>1. PICK x : x = IF a.target = NONE THEN a.tenant ELSE a.target
  OBVIOUS
<1>2. PICK e : e = Event(a.tenant, x, a.to)
  OBVIOUS
<1>3. a.to \in Roles \cup Statuses /\ a.tenant \in Tenants /\ x \in Users \cup Tenants
  BY <1>1, AskedFacts, GrantedAssumption DEF Statuses
<1>4. e \in Events
  BY <1>2, <1>3 DEF Event, Events
<1>5. log \in Seq(Events) /\ log' = Append(log, e)
  BY <1>1, <1>2 DEF record, Tables
<1>6. QED
  BY <1>4, <1>5

LEMMA add_memberKeeps ==
    ASSUME Inv, NEW p \in Procs, add_member(p)
    PROVE  Inv'
<1>1. PICK r, a : r = req[p] /\ a = r.asked
  OBVIOUS
<1>2. /\ MayCommit(p) /\ a.op \in {"add", "change", "admin"} /\ accounts' = accounts \cup {a.target} /\ record(a)
      /\ CASE r.seen = NONE -> Write(a, Row(a.to, Len(log) + 1))
           [] r.seen # NONE /\ r.seen.role # a.to -> Write(a, [r.seen EXCEPT !.role = a.to])
           [] OTHER -> UNCHANGED <<status, member>>
  BY <1>1 DEF add_member
<1>3. /\ r.at = "commit" /\ Fits(r) /\ Admitted(r) /\ Decided(r) /\ raced \subseteq raced'
  BY <1>1, <1>2, CommitFacts
<1>4. a \in Asked /\ a.tenant \in Tenants /\ a.target \in Users /\ a.target # NONE /\ a.to \in Granted
  BY <1>1, <1>2, <1>3, AskedFacts DEF Admitted
<1>5. status[a.tenant] # NONE
  BY <1>1, <1>2, <1>3 DEF Admitted, Decided, PlatformOps
<1>6. r.seen \in Rows \cup {NONE} /\ (key(a) \notin raced' => r.seen = member[a.tenant][a.target])
  BY <1>1, <1>2, <1>3, <1>4 DEF Decided, Inv, UpToDate, row
<1>7. Tables /\ log \in Seq(Events) /\ accounts' \subseteq Users /\ a.target \in accounts' /\ disabled' \subseteq Users
  BY <1>2, <1>4 DEF Inv, Tables, MayCommit
<1>8. PICK x : x = IF r.seen = NONE THEN Row(a.to, Len(log) + 1)
                   ELSE IF r.seen.role # a.to THEN [r.seen EXCEPT !.role = a.to]
                   ELSE member[a.tenant][a.target]
  OBVIOUS
<1>9. /\ x \in Rows \cup {NONE} /\ UNCHANGED status
      /\ \/ member' = [member EXCEPT ![a.tenant][a.target] = x]
         \/ member' = member /\ x = member[a.tenant][a.target]
      /\ key(a) \notin raced' => x # NONE /\ x.role = a.to
  <2>1. CASE r.seen = NONE
    <3>1. x = [role |-> a.to, id |-> Len(log) + 1] /\ Len(log) + 1 \in Nat
      BY <1>7, <1>8, <2>1 DEF Row
    <3>2. x \in Rows /\ x.role = a.to
      BY <1>4, <3>1 DEF Rows
    <3>3. Write(a, x)
      BY <1>2, <1>8, <2>1
    <3>4. QED
      BY <1>4, <3>2, <3>3, NoneFacts DEF Write
  <2>2. CASE r.seen # NONE /\ r.seen.role # a.to
    <3>1. x = [r.seen EXCEPT !.role = a.to] /\ r.seen \in Rows
      BY <1>6, <1>8, <2>2
    <3>2. x \in Rows /\ x.role = a.to
      BY <1>4, <3>1 DEF Rows
    <3>3. Write(a, x)
      BY <1>2, <2>2, <3>1
    <3>4. QED
      BY <1>4, <3>2, <3>3, NoneFacts DEF Write
  <2>3. CASE r.seen # NONE /\ r.seen.role = a.to
    <3>1. x = member[a.tenant][a.target] /\ UNCHANGED <<status, member>>
      BY <1>2, <1>8, <2>3
    <3>2. x \in Rows \cup {NONE}
      BY <1>4, <1>7, <3>1 DEF Tables
    <3>3. QED
      BY <1>6, <2>3, <3>1, <3>2
  <2>4. QED
    BY <2>1, <2>2, <2>3
<1>10. log' \in Seq(Events) /\ Len(log') >= Len(log) /\ \A i \in 1..Len(log) : log'[i] = log[i]
  BY <1>2, <1>4, <1>7, RecordFacts
<1>11. /\ Tables' /\ member'[a.tenant][a.target] = x
       /\ \A t \in Tenants : <<t, NONE>> # key(a) => status'[t] = status[t]
       /\ \A t \in Tenants, u \in Users : <<t, u>> # key(a) => member'[t][u] = member[t][u]
  BY <1>2, <1>4, <1>5, <1>7, <1>9, <1>10, MemberWritten
<1>12. Matches'
  BY <1>2, <1>3, <1>4, <1>9, <1>11, MatchesKeeps
<1>13. \A t \in Tenants : status[t] # NONE => status'[t] # NONE
  BY <1>9
<1>14. QED
  BY <1>1, <1>2, <1>10, <1>11, <1>12, <1>13, CommitKeeps

LEMMA remove_memberKeeps ==
    ASSUME Inv, NEW p \in Procs, remove_member(p)
    PROVE  Inv'
<1>1. PICK r, a : r = req[p] /\ a = r.asked
  OBVIOUS
<1>2. /\ MayCommit(p) /\ a.op = "remove" /\ record(a) /\ UNCHANGED accounts
      /\ IF r.seen.id \in {y.id : y \in {row(a)} \ {NONE}} THEN Write(a, NONE) ELSE UNCHANGED <<status, member>>
  BY <1>1 DEF remove_member
<1>3. /\ r.at = "commit" /\ Fits(r) /\ Admitted(r) /\ Decided(r) /\ raced \subseteq raced'
  BY <1>1, <1>2, CommitFacts
<1>4. a \in Asked /\ a.tenant \in Tenants /\ a.target \in Users /\ a.target # NONE /\ a.to = NONE
  BY <1>1, <1>2, <1>3, AskedFacts DEF Admitted
<1>5. row(a) = member[a.tenant][a.target]
  BY <1>4 DEF row
<1>6. r.seen \in Rows /\ (key(a) \notin raced' => r.seen = member[a.tenant][a.target])
  BY <1>1, <1>2, <1>3, <1>4, <1>5 DEF Decided, Inv, UpToDate
<1>7. Tables /\ log \in Seq(Events) /\ accounts' \subseteq Users /\ disabled' \subseteq Users
  BY <1>2 DEF Inv, Tables, MayCommit
<1>8. PICK x : x = IF r.seen.id \in {y.id : y \in {row(a)} \ {NONE}} THEN NONE ELSE member[a.tenant][a.target]
  OBVIOUS
<1>9. /\ x \in Rows \cup {NONE} /\ UNCHANGED status /\ (x # NONE => a.target \in accounts' /\ status[a.tenant] # NONE)
      /\ \/ member' = [member EXCEPT ![a.tenant][a.target] = x]
         \/ member' = member /\ x = member[a.tenant][a.target]
      /\ key(a) \notin raced' => x = NONE
  <2>1. CASE r.seen.id \in {y.id : y \in {row(a)} \ {NONE}}
    BY <1>2, <1>4, <1>8, <2>1 DEF Write
  <2>2. CASE r.seen.id \notin {y.id : y \in {row(a)} \ {NONE}}
    <3>1. x = member[a.tenant][a.target] /\ UNCHANGED <<status, member>>
      BY <1>2, <1>8, <2>2
    <3>2. x # NONE => x \in Rows /\ a.target \in accounts /\ status[a.tenant] # NONE
      BY <1>4, <1>7, <3>1 DEF Tables
    <3>3. key(a) \in raced'
      BY <1>5, <1>6, <2>2, NoneFacts
    <3>4. QED
      BY <1>2, <3>1, <3>2, <3>3
  <2>3. QED
    BY <2>1, <2>2
<1>10. log' \in Seq(Events) /\ Len(log') >= Len(log) /\ \A i \in 1..Len(log) : log'[i] = log[i]
  BY <1>2, <1>4, <1>7, RecordFacts
<1>11. /\ Tables' /\ member'[a.tenant][a.target] = x
       /\ \A t \in Tenants : <<t, NONE>> # key(a) => status'[t] = status[t]
       /\ \A t \in Tenants, u \in Users : <<t, u>> # key(a) => member'[t][u] = member[t][u]
  BY <1>2, <1>4, <1>7, <1>9, <1>10, MemberWritten
<1>12. Matches'
  BY <1>2, <1>3, <1>4, <1>9, <1>11, MatchesKeeps
<1>13. \A t \in Tenants : status[t] # NONE => status'[t] # NONE
  BY <1>9
<1>14. QED
  BY <1>1, <1>2, <1>10, <1>11, <1>12, <1>13, CommitKeeps

LEMMA write_tenantKeeps ==
    ASSUME Inv, NEW p \in Procs, write_tenant(p)
    PROVE  Inv'
<1>1. PICK r, a : r = req[p] /\ a = r.asked
  OBVIOUS
<1>2. /\ MayCommit(p) /\ a.target = NONE /\ UNCHANGED accounts
      /\ IF a.to = r.seen THEN UNCHANGED <<status, member, log>> ELSE Write(a, a.to) /\ record(a)
  BY <1>1 DEF write_tenant
<1>3. /\ r.at = "commit" /\ Admitted(r) /\ raced \subseteq raced'
  BY <1>1, <1>2, CommitFacts
<1>4. a \in Asked /\ a.tenant \in Tenants /\ a.to \in {Active, Suspended}
  BY <1>1, <1>2, <1>3, AskedFacts DEF Admitted
<1>5. Tables /\ log \in Seq(Events) /\ Matches /\ disabled' \subseteq Users
  BY <1>2 DEF Inv, Tables, MayCommit
<1>6. CASE a.to = r.seen
  <2>1. UNCHANGED <<accounts, status, member, log>>
    BY <1>2, <1>6
  <2>2. Tables' /\ Matches'
    BY <1>3, <1>5, <2>1, TablesKeep
  <2>3. Len(log') >= Len(log) /\ \A i \in 1..Len(log) : log'[i] = log[i]
    BY <1>5, <2>1
  <2>4. QED
    BY <1>1, <1>2, <2>1, <2>2, <2>3, CommitKeeps
<1>7. CASE a.to # r.seen
  <2>1. status' = [status EXCEPT ![a.tenant] = a.to] /\ UNCHANGED member /\ record(a)
    BY <1>2, <1>7 DEF Write
  <2>2. /\ status'[a.tenant] = a.to /\ \A t \in Tenants : t # a.tenant => status'[t] = status[t]
        /\ status' \in [Tenants -> Statuses]
    BY <1>4, <1>5, <2>1 DEF Tables, Statuses
  <2>3. /\ \A t \in Tenants : status[t] # NONE => status'[t] # NONE
        /\ \A t \in Tenants : <<t, NONE>> # key(a) => status'[t] = status[t]
        /\ \A t \in Tenants, u \in Users : <<t, u>> # key(a) => member'[t][u] = member[t][u]
    BY <1>2, <1>4, <2>1, <2>2, NoneFacts DEF key
  <2>4. log' \in Seq(Events) /\ Len(log') >= Len(log) /\ \A i \in 1..Len(log) : log'[i] = log[i]
    BY <1>4, <1>5, <2>1, RecordFacts
  <2>5. Tables'
    BY <1>2, <1>5, <2>1, <2>2, <2>3, <2>4 DEF Tables
  <2>6. Matches'
    BY <1>2, <1>3, <1>4, <2>1, <2>2, <2>3, MatchesKeeps
  <2>7. QED
    BY <1>1, <1>2, <2>3, <2>4, <2>5, <2>6, CommitKeeps
<1>8. QED
  BY <1>6, <1>7

-----------------------------------------------------------------------------
(* The invariant, and what it means. *)

\* No attempt is under way and no failure is counted.
LEMMA InitGuesses ==
    ASSUME Init
    PROVE  Guesses /\ Signins
<1>1. failures = [u \in Users |-> <<>>] /\ clock = 1 /\ req = [p \in Procs |-> Idle]
      /\ token = [u \in Users |-> IF u \in accounts THEN 1 + Minutes ELSE 0]
  BY DEF Init
<1>2. \A u \in Users : Recent(u) = {} /\ Pending(u) = {}
  BY <1>1, FitsIdle DEF Recent, Pending
<1>3. Cardinality(Procs) \in Nat /\ Cardinality({}) = 0
  BY ProcsAssumption, FS_CardinalityType, FS_EmptySet
<1>4. Guesses
  BY <1>2, <1>3, ThrottleAssumption DEF Guesses
<1>5. ASSUME NEW u \in Users
      PROVE  failures[u] \in Seq(1..clock) /\ token[u] \in 0..(clock + Minutes)
  BY <1>1, ThrottleAssumption
<1>6. failures = [u \in Users |-> failures[u]] /\ token = [u \in Users |-> token[u]] /\ clock \in Nat \ {0}
  BY <1>1
<1>7. QED
  BY <1>4, <1>5, <1>6 DEF Signins

\* The first organization and its admin are in the log.
LEMMA InitTables ==
    ASSUME Init
    PROVE  Tables /\ Matches
<1>1. PICK d, e : d = Event(FirstTenant, FirstTenant, Active) /\ e = Event(FirstTenant, Admin, "org_admin")
  OBVIOUS
<1>2. /\ d.tenant = FirstTenant /\ d.target = FirstTenant /\ d.to = Active
      /\ e.tenant = FirstTenant /\ e.target = Admin /\ e.to = "org_admin"
      /\ FirstTenant # Admin /\ Admin \in Users /\ FirstTenant \in Tenants
  BY <1>1, NamesAssumption, PeopleAssumption DEF Event
<1>3. d \in Events /\ e \in Events
  BY <1>1, <1>2, GrantedAssumption DEF Event, Events, Statuses
<1>4. log = <<d, e>> /\ accounts = Supers \cup {Admin} /\ status = [t \in Tenants |-> IF t = FirstTenant THEN Active ELSE NONE]
      /\ member = [t \in Tenants |-> [u \in Users |-> IF t = FirstTenant /\ u = Admin THEN Row("org_admin", 2) ELSE NONE]]
  BY <1>1 DEF Init
<1>5. log \in Seq(Events) /\ Len(log) = 2 /\ log[1] = d /\ log[2] = e
  BY <1>3, <1>4
<1>6. Row("org_admin", 2) \in Rows /\ Row("org_admin", 2).role = "org_admin" /\ Row("org_admin", 2) # NONE
  BY GrantedAssumption, NoneFacts DEF Row, Rows
<1>7. Tables
  <2>1. status \in [Tenants -> Statuses]
    BY <1>4 DEF Statuses
  <2>2. \A t \in Tenants, u \in Users : member[t][u] # NONE =>
           member[t][u] \in Rows /\ u \in accounts /\ status[t] # NONE
    BY <1>4, <1>6, NoneFacts
  <2>3. member = [t \in Tenants |-> [u \in Users |-> member[t][u]]]
    BY <1>4
  <2>4. accounts \subseteq Users /\ Supers \subseteq accounts /\ disabled \subseteq Users
    BY <1>2, <1>4, PeopleAssumption DEF Init
  <2>5. QED
    BY <1>5, <2>1, <2>2, <2>3, <2>4 DEF Tables
<1>8. ASSUME NEW t, NEW u
      PROVE  logged(Len(log), t, u) = IF t = FirstTenant /\ u = FirstTenant THEN Active
                                      ELSE IF t = FirstTenant /\ u = Admin THEN "org_admin" ELSE NONE
  <2>1. PICK A : A = {i \in 1..2 : log[i].tenant = t /\ log[i].target = u}
    OBVIOUS
  <2>2. logged(Len(log), t, u) = IF A = {} THEN NONE ELSE log[Max(A)].to
    BY <1>5, <2>1 DEF logged
  <2>3. \A i \in 1..2 : i = 1 \/ i = 2
    OBVIOUS
  <2>4. CASE t = FirstTenant /\ (u = FirstTenant \/ u = Admin)
    <3>1. A # {} /\ A \in SUBSET (1..2)
      BY <1>2, <1>5, <2>1, <2>4
    <3>2. Max(A) \in A
      BY <3>1, MaxFacts
    <3>3. Max(A) = IF u = FirstTenant THEN 1 ELSE 2
      BY <1>2, <1>5, <2>1, <2>3, <2>4, <3>2
    <3>4. QED
      BY <1>2, <1>5, <2>2, <2>4, <3>1, <3>3
  <2>5. CASE ~ (t = FirstTenant /\ (u = FirstTenant \/ u = Admin))
    <3>1. A = {}
      BY <1>2, <1>5, <2>1, <2>3, <2>5
    <3>2. QED
      BY <2>2, <2>5, <3>1
  <2>6. QED
    BY <2>4, <2>5
<1>9. ASSUME NEW t \in Tenants PROVE logged(Len(log), t, t) = status[t]
  <2>1. t # Admin
    BY <1>2, NamesAssumption
  <2>2. QED
    BY <1>4, <1>8, <2>1
<1>10. ASSUME NEW t \in Tenants, NEW u \in Users
       PROVE  logged(Len(log), t, u) = IF member[t][u] = NONE THEN NONE ELSE member[t][u].role
  <2>1. u # FirstTenant
    BY <1>2, NamesAssumption
  <2>2. member[t][u] = IF t = FirstTenant /\ u = Admin THEN Row("org_admin", 2) ELSE NONE
    BY <1>4
  <2>3. QED
    BY <1>6, <1>8, <2>1, <2>2
<1>11. QED
  BY <1>7, <1>9, <1>10 DEF Matches

LEMMA InitInv == Init => Inv
<1> SUFFICES ASSUME Init PROVE Inv
  OBVIOUS
<1>1. Guesses /\ Signins /\ Tables /\ Matches
  BY InitGuesses, InitTables
<1>2. req = [p \in Procs |-> Idle]
  BY DEF Init
<1>3. Requests
  BY <1>2, FitsIdle DEF Requests
<1>4. UpToDate /\ AllVouched
  BY <1>2, FitsIdle DEF UpToDate, AllVouched, Checked
<1>5. QED
  BY <1>1, <1>3, <1>4 DEF Inv

\* A step that changes nothing, or only who is disabled.
LEMMA StutterKeeps ==
    ASSUME Inv, UNCHANGED <<clock, failures, token, accounts, status, member, log, req, raced>>, disabled' \subseteq Users
    PROVE  Inv'
<1>1. UNCHANGED <<clock, failures, token, accounts, status, member, log, req, raced>>
  OBVIOUS
<1>2. Guesses' /\ Signins'
  BY <1>1 DEF Inv, Guesses, Signins, Recent, Pending
<1>3. Tables' /\ Matches'
  BY <1>1, TablesKeep DEF Inv
<1>4. Requests'
  BY <1>1 DEF Inv, Requests, Fits, Admitted, Decided
<1>5. UpToDate'
  BY <1>1 DEF Inv, UpToDate, key, row
<1>6. AllVouched'
  <2>1. log \in Seq(Events) /\ Len(log) \in Nat /\ \A i \in 1..Len(log) : log'[i] = log[i]
    BY <1>1 DEF Inv, Tables
  <2>2. ASSUME NEW q \in Procs, req'[q].at \in Checked, req'[q].user \notin Supers
        PROVE  Vouched(req[q])'
    <3>1. PICK s : s = req[q] /\ s = req'[q]
      BY <1>1
    <3>2. Vouched(s) /\ s.since \in Nat
      BY <2>2, <3>1 DEF Inv, AllVouched, Requests, Fits, Admitted, Asking, Checked
    <3>3. Vouched(s)'
      BY <1>1, <2>1, <3>2, VouchedStays
    <3>4. QED
      BY <3>1, <3>3 DEF Vouched, Opened, Permitted
  <2>3. QED
    BY <2>2 DEF AllVouched
<1>7. QED
  BY <1>2, <1>3, <1>4, <1>5, <1>6 DEF Inv

LEMMA NextKeeps == Inv /\ [Next]_vars => Inv'
<1> SUFFICES ASSUME Inv, [Next]_vars PROVE Inv'
  OBVIOUS
<1>1. CASE Tick
  BY <1>1, TickKeeps
<1>2. ASSUME NEW p \in Procs, NEW u \in Users, LoginCheck(p, u) PROVE Inv'
  BY <1>2, LoginCheckKeeps
<1>3. ASSUME NEW p \in Procs, LoginSucceeds(p) \/ LoginFails(p) \/ LoginFailed(p) PROVE Inv'
  BY <1>3, LoginSucceedsKeeps, LoginFailsKeeps, LoginFailedKeeps
<1>4. ASSUME NEW p \in Procs, NEW u \in Users, NEW a \in Asked, Authenticate(p, u, a) PROVE Inv'
  BY <1>4, AuthenticateKeeps
<1>5. ASSUME NEW p \in Procs, AuthorizeTenant(p) \/ Authorize(p) \/ HandlerReads(p) \/ CommitConflict(p) PROVE Inv'
  BY <1>5, AuthorizeTenantKeeps, AuthorizeKeeps, HandlerReadsKeeps, CommitConflictKeeps
<1>6. ASSUME NEW p \in Procs, add_member(p) \/ remove_member(p) \/ write_tenant(p) PROVE Inv'
  BY <1>6, add_memberKeeps, remove_memberKeeps, write_tenantKeeps
<1>7. CASE UNCHANGED vars
  BY <1>7, StutterKeeps DEF vars, tables, Inv, Tables
<1>9. ASSUME NEW u \in Users, SetDisabled(u) PROVE Inv'
  BY <1>9, StutterKeeps DEF SetDisabled, Inv, Tables
<1>8. QED
  BY <1>1, <1>2, <1>3, <1>4, <1>5, <1>6, <1>7, <1>9 DEF Next

LEMMA Invariance == Spec => []Inv
<1>1. QED
  BY InitInv, NextKeeps, PTL DEF Spec

\* Passwords tried in parallel never get further past the throttle than the
\* number of requests in flight (LoginThrottle.retry_after and failed,
\* platform/security.py): attempts that passed it are counted in advance.
THEOREM Throttled == Spec => []GuessesBounded
<1>1. Inv => GuessesBounded
  <2>1. SUFFICES ASSUME Inv, NEW u \in Users PROVE Cardinality(Recent(u)) < Limit + Cardinality(Procs)
    BY DEF GuessesBounded, Recent
  <2>2. PICK a, b, c : a = Cardinality(Recent(u)) /\ b = Cardinality(Pending(u)) /\ c = Cardinality(Procs)
    OBVIOUS
  <2>3. a \in Nat /\ b \in Nat /\ c \in Nat
    BY <2>1, <2>2, FiniteCounts DEF Inv
  <2>4. a + b < Limit + c
    BY <2>1, <2>2 DEF Inv, Guesses
  <2>5. QED
    BY <2>2, <2>3, <2>4, ThrottleAssumption
<1>2. QED
  BY <1>1, Invariance, PTL

\* The newest events of the log give every membership and the status of every
\* organization whose requests did not overlap (record, services.py: in the
\* transaction that makes the change), members have accounts, and the state is
\* well typed.
THEOREM LogGivesMembers == Spec => []LogMatchesMembers
<1>1. Inv => TypeOK
  <2>1. SUFFICES ASSUME Signins, Tables PROVE TypeOK
    BY DEF Inv
  <2>2. \A t \in Tenants : status[t] \in {NONE, Active, Suspended}
    BY <2>1 DEF Tables, Statuses
  <2>3. \A t \in Tenants, u \in Users : member[t][u] # NONE =>
           u \in accounts /\ status[t] # NONE /\ member[t][u].role \in Granted
    BY <2>1 DEF Tables, Rows
  <2>4. \A i \in DOMAIN log : log[i].tenant \in Tenants
    <3>1. \A i \in DOMAIN log : log[i] \in Events
      BY <2>1 DEF Tables
    <3>2. QED
      BY <3>1 DEF Events
  <2>5. QED
    BY <2>1, <2>2, <2>3, <2>4 DEF Signins, Tables, TypeOK
<1>2. Inv => LogMatchesMembers
  BY <1>1 DEF Inv, Matches, LogMatchesMembers
<1>3. QED
  BY <1>2, Invariance, PTL

\* Since the request of whoever gets to a handler began, the organization was
\* open at some moment, and then or later the caller was a member with the
\* permission (_membership and require, platform/api/deps.py), whatever the
\* token says.
THEOREM Rechecked == Spec => []AllowedSinceItBegan
<1>1. Inv => AllowedSinceItBegan
  <2>1. SUFFICES ASSUME AllVouched PROVE AllowedSinceItBegan
    BY DEF Inv
  <2>2. \A p \in Procs : req[p].at \in {"read", "commit"} /\ req[p].user \notin Supers => Permitted(req[p])
    BY <2>1 DEF AllVouched, Vouched, Checked
  <2>3. QED
    BY <2>2 DEF AllowedSinceItBegan, Permitted
<1>2. QED
  BY <1>1, Invariance, PTL
=============================================================================
