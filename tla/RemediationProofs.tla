-------------------------- MODULE RemediationProofs --------------------------
(***************************************************************************)
(* Theorems about Remediation, and about the algorithms it composes, for   *)
(* any corpus, scores, sites and policy.                                   *)
(***************************************************************************)
EXTENDS Remediation, FiniteSetTheorems, SequenceTheorems, WellFoundedInduction, TLAPS

-----------------------------------------------------------------------------
(* The history. *)

Steps == {"idle", "run", "audited", "built", "chosen", "copied", "written"}

\* Where the data of the passport p is: under its version, or still in use.
Found(p) ==
    IF p.version = version /\ pc # "written" THEN p.data = train
    ELSE p.version \in DOMAIN history /\ p.data = history[p.version]

\* A round keeps the data before it changes them, and only the current version
\* can get passports.
Kept ==
    /\ version \in Nat /\ pc \in Steps
    /\ pc \in {"copied", "written"} => version \in DOMAIN history
    /\ pc = "copied" => history[version] = train
    /\ \A p \in passports : p.version \in 0..version /\ (p.version \notin torn => Found(p))

LEMMA InitKept == Init => Kept
BY DEF Init, Kept, Steps

\* Steps that leave the files and the passports alone, and do not end a round.
LEMMA StaysKept ==
    ASSUME Kept, UNCHANGED <<files, passports>>, torn \subseteq torn', pc' \in Steps \ {"copied", "written"},
           pc # "written" \/ version \in torn'
    PROVE  Kept'
<1>1. version' = version /\ train' = train /\ history' = history /\ passports' = passports
  BY DEF files
<1>2. ASSUME NEW p \in passports, p.version \notin torn' PROVE Found(p)'
  BY <1>1, <1>2 DEF Kept, Found, Steps
<1>3. QED
  BY <1>1, <1>2 DEF Kept, Steps

LEMMA BuildKeeps == ASSUME Kept, Build PROVE Kept'
<1>1. version' = version /\ train' = train /\ history' = history /\ pc' = "built" /\ pc = "audited" /\ torn' = torn
  BY DEF Build, files
<1>2. passports' = passports \cup {[version |-> version, data |-> train]}
  BY DEF Build
<1>3. ASSUME NEW p \in passports', p.version \notin torn' PROVE p.version \in 0..version /\ Found(p)'
  BY <1>1, <1>2, <1>3 DEF Kept, Found, Steps
<1>4. ASSUME NEW p \in passports' PROVE p.version \in 0..version
  BY <1>1, <1>2, <1>3 DEF Kept, Found, Steps
<1>5. QED
  BY <1>1, <1>3, <1>4 DEF Kept, Steps

LEMMA KeepHistoryKeeps == ASSUME Kept, KeepHistory PROVE Kept'
<1>1. version' = version /\ train' = train /\ pc = "chosen" /\ pc' = "copied" /\ torn' = torn /\ passports' = passports
  BY DEF KeepHistory
<1>2. history' = [v \in DOMAIN history \cup {version} |-> IF v = version THEN train ELSE history[v]]
  BY DEF KeepHistory
<1>3. ASSUME NEW p \in passports, p.version \notin torn PROVE Found(p)'
  BY <1>1, <1>2, <1>3 DEF Kept, Found, Steps
<1>4. QED
  BY <1>1, <1>2, <1>3 DEF Kept, Steps

LEMMA WriteTrainKeeps == ASSUME Kept, WriteTrain PROVE Kept'
<1>1. version' = version /\ history' = history /\ pc = "copied" /\ pc' = "written" /\ torn' = torn /\ passports' = passports
  BY DEF WriteTrain
<1>2. ASSUME NEW p \in passports, p.version \notin torn PROVE Found(p)'
  BY <1>1, <1>2 DEF Kept, Found, Steps
<1>3. QED
  BY <1>1, <1>2 DEF Kept, Steps

LEMMA SetVersionKeeps == ASSUME Kept, SetVersion PROVE Kept'
<1>1. version' = version + 1 /\ history' = history /\ pc = "written" /\ pc' = "run" /\ torn' = torn /\ passports' = passports
  BY DEF SetVersion, bump_minor
<1>2. ASSUME NEW p \in passports, p.version \notin torn PROVE Found(p)'
  BY <1>1, <1>2 DEF Kept, Found, Steps
<1>3. QED
  BY <1>1, <1>2 DEF Kept, Steps

LEMMA CrashWritingKeeps == ASSUME Kept, CrashWriting PROVE Kept'
<1>1. version' = version /\ history' = history /\ pc = "copied" /\ pc' = "idle" /\ torn' = torn \cup {version}
      /\ passports' = passports
  BY DEF CrashWriting, Ends
<1>2. ASSUME NEW p \in passports, p.version \notin torn' PROVE Found(p)'
  BY <1>1, <1>2 DEF Kept, Found, Steps
<1>3. QED
  BY <1>1, <1>2 DEF Kept, Steps

LEMMA NextKept == ASSUME Kept, [Next]_vars PROVE Kept'
<1>1. CASE Start \/ RunPipeline \/ BuildFails \/ Finish \/ Choose
  BY <1>1, StaysKept DEF Start, RunPipeline, BuildFails, Finish, Choose, Ends, Steps
<1>2. CASE Build
  BY <1>2, BuildKeeps
<1>3. CASE KeepHistory
  BY <1>3, KeepHistoryKeeps
<1>4. CASE WriteTrain
  BY <1>4, WriteTrainKeeps
<1>5. CASE SetVersion
  BY <1>5, SetVersionKeeps
<1>6. CASE Crash
  BY <1>6, StaysKept DEF Crash, Ends, Steps
<1>7. CASE CrashWriting
  BY <1>7, CrashWritingKeeps
<1>8. CASE UNCHANGED vars
  <2>1. version' = version /\ train' = train /\ history' = history /\ passports' = passports /\ pc' = pc /\ torn' = torn
    BY <1>8 DEF vars, files
  <2>2. \A p : Found(p)' <=> Found(p)
    BY <2>1 DEF Found
  <2>3. QED
    BY <2>1, <2>2 DEF Kept
<1>9. QED
  BY <1>1, <1>2, <1>3, <1>4, <1>5, <1>6, <1>7, <1>8 DEF Next

\* The data behind every passport stays to be found, through any rounds and
\* crashes (llm/remediate.py: the data are copied to data/history before they
\* are replaced, and the version is raised after), and a version means one
\* data; except for a version whose round was cut between data and number.
THEOREM DataKept == Spec => []HistoryKept
<1>1. Kept => HistoryKept
  BY DEF Kept, Found, HistoryKept
<1>2. Kept /\ [Next]_vars => Kept'
  BY NextKept
<1>3. QED
  BY <1>1, <1>2, InitKept, PTL DEF Spec

-----------------------------------------------------------------------------
(* The gates. *)

\* The rules about entities read the audit alone.
LEMMA EntityEvidence ==
    ASSUME NEW p, NEW q, p.privacy.entity_audit = q.privacy.entity_audit, NEW r \in P!ENTITY_RULES
    PROVE  P!RULES(r, p) = P!RULES(r, q) /\ P!KindOf(r) = "max"
<1>1. CASE r = "entity_critical_max"
  BY <1>1 DEF P!RULES, P!KindOf, P!_entities_at
<1>2. CASE r = "entity_high_max"
  BY <1>2 DEF P!RULES, P!KindOf, P!_entities_at
<1>3. CASE r = "el_mia_auc_max"
  BY <1>3 DEF P!RULES, P!KindOf, P!_entity_auc
<1>4. CASE r = "el_mia_tpr_at_1pct_fpr_max"
  BY <1>4 DEF P!RULES, P!KindOf, P!_entity_tpr
<1>5. QED
  BY <1>1, <1>2, <1>3, <1>4 DEF P!ENTITY_RULES

Verdicts == {"pass", "warn", "fail"}

\* A rule about entities gives a verdict, the same for the same audit.
LEMMA EntityVerdict ==
    ASSUME NEW p, NEW q, p.privacy.entity_audit = q.privacy.entity_audit, NEW r \in P!ENTITY_RULES,
           NEW threshold, NEW missing \in Verdicts
    PROVE  /\ P!evaluate_rule(r, threshold, p, missing) = P!evaluate_rule(r, threshold, q, missing)
           /\ P!evaluate_rule(r, threshold, p, missing) \in Verdicts
<1>1. PICK v : v = P!RULES(r, p) /\ v = P!RULES(r, q)
  BY EntityEvidence
<1>2. P!KindOf(r) = "max"
  BY EntityEvidence
<1>3. P!evaluate_rule(r, threshold, p, missing) = P!evaluate_rule(r, threshold, q, missing)
  BY <1>1 DEF P!evaluate_rule
<1>4. P!evaluate_rule(r, threshold, p, missing) \in Verdicts
  <2>1. PICK f, w : f = P!_violates("max", v, threshold.fail) /\ w = P!_violates("max", v, threshold.warn)
    OBVIOUS
  <2>2. P!evaluate_rule(r, threshold, p, missing) =
          CASE v = NONE -> missing
            [] v # NONE /\ "max" = "flag" -> IF v > 0 THEN threshold ELSE "pass"
            [] v # NONE /\ "max" # "flag" /\ f -> "fail"
            [] v # NONE /\ "max" # "flag" /\ ~ f -> IF w THEN "warn" ELSE "pass"
    BY <1>1, <1>2, <2>1 DEF P!evaluate_rule
  <2>3. CASE v = NONE
    BY <2>2, <2>3
  <2>4. CASE v # NONE /\ f
    BY <2>2, <2>4 DEF Verdicts
  <2>5. CASE v # NONE /\ ~ f
    BY <2>2, <2>5 DEF Verdicts
  <2>6. QED
    BY <2>3, <2>4, <2>5
<1>5. QED
  BY <1>3, <1>4

LEMMA WorstFails ==
    ASSUME NEW S \in SUBSET Verdicts
    PROVE  P!worst(S) = "fail" <=> "fail" \in S
<1>1. P!VERDICT_ORDER("pass") = 1 /\ P!VERDICT_ORDER("warn") = 2 /\ P!VERDICT_ORDER("fail") = 3
  BY DEF P!VERDICT_ORDER
<1>2. CASE S = {}
  BY <1>2 DEF P!worst
<1>3. CASE S # {}
  <2> DEFINE Worst(v) == v \in S /\ \A w \in S : P!VERDICT_ORDER(w) <= P!VERDICT_ORDER(v)
  <2>1. ASSUME NEW v \in S PROVE P!VERDICT_ORDER(v) = IF v = "pass" THEN 1 ELSE IF v = "warn" THEN 2 ELSE 3
    BY <1>1 DEF Verdicts
  <2>2. \E v : Worst(v)
    <3>1. CASE "fail" \in S
      BY <2>1, <3>1
    <3>2. CASE "fail" \notin S /\ "warn" \in S
      BY <2>1, <3>2 DEF Verdicts
    <3>3. CASE "fail" \notin S /\ "warn" \notin S
      BY <2>1, <3>3, <1>3 DEF Verdicts
    <3>4. QED
      BY <3>1, <3>2, <3>3
  <2>3. P!worst(S) = CHOOSE v \in S : \A w \in S : P!VERDICT_ORDER(w) <= P!VERDICT_ORDER(v)
    BY <1>3 DEF P!worst
  <2>4. PICK v : v = P!worst(S)
    OBVIOUS
  <2>5. Worst(v)
    BY <2>2, <2>3, <2>4
  <2>6. v = "fail" <=> "fail" \in S
    BY <2>1, <2>5 DEF Verdicts
  <2>7. QED
    BY <2>4, <2>6
<1>4. QED
  BY <1>2, <1>3

\* The platform's check of an audit fails exactly when some rule about
\* entities fails in the evaluation of a passport with that audit.
LEMMA GatesOf ==
    ASSUME NEW a, NEW p, p.privacy.entity_audit = a
    PROVE  P!blocking(P!check(a, P!default_policy(Template))) <=>
             \E r \in P!ENTITY_RULES : P!evaluate(Template, p).rules[r] = "fail"
<1>1. PICK q : q = [privacy |-> [datasets_scanned |-> {}, data_findings |-> {}, reidentification |-> {},
                                 leakage |-> NONE, entity_audit |-> a], security |-> NONE]
  OBVIOUS
<1>2. q.privacy.entity_audit = a
  BY <1>1
<1>3. PICK m, R : m = Template.missing_evidence /\ R = Template.rules
  OBVIOUS
<1>4. m \in Verdicts /\ P!ENTITY_RULES \subseteq DOMAIN R /\ Template = [missing_evidence |-> m, rules |-> R]
  BY <1>3, TemplateAssumption DEF Verdicts
<1>5. PICK s : s = [r \in DOMAIN R \cap P!ENTITY_RULES |-> R[r]]
  OBVIOUS
<1>6. P!default_policy(Template) = [missing_evidence |-> m, rules |-> s]
  BY <1>3, <1>4, <1>5 DEF P!default_policy
<1>7. DOMAIN s = P!ENTITY_RULES /\ \A r \in P!ENTITY_RULES : s[r] = R[r]
  BY <1>4, <1>5
<1>8. PICK results : results = [r \in DOMAIN s |-> P!evaluate_rule(r, s[r], q, m)]
  OBVIOUS
<1>9. P!check(a, P!default_policy(Template)).verdict = P!worst({results[r] : r \in DOMAIN results})
  BY <1>1, <1>6, <1>8 DEF P!check, P!evaluate
<1>10. DOMAIN results = P!ENTITY_RULES /\ \A r \in P!ENTITY_RULES : results[r] = P!evaluate_rule(r, R[r], q, m)
  BY <1>7, <1>8
<1>11. \A r \in P!ENTITY_RULES : results[r] \in Verdicts /\ results[r] = P!evaluate_rule(r, R[r], p, m)
  BY <1>2, <1>4, <1>10, EntityVerdict
<1>12. \A r \in P!ENTITY_RULES : P!evaluate(Template, p).rules[r] = P!evaluate_rule(r, R[r], p, m)
  BY <1>3, <1>4 DEF P!evaluate
<1>13. PICK S : S = {results[r] : r \in DOMAIN results}
  OBVIOUS
<1>14. S \subseteq Verdicts
  BY <1>10, <1>11, <1>13
<1>15. "fail" \in S <=> \E r \in P!ENTITY_RULES : results[r] = "fail"
  BY <1>10, <1>13
<1>16. QED
  BY <1>9, <1>11, <1>12, <1>13, <1>14, <1>15, WorstFails DEF P!blocking

\* A build that there is came from its site and from the audit that is there.
Evaluated ==
    /\ pc # "built" => build = NONE
    /\ build # NONE => LET result == P!evaluate(Template, Report(build.site))
                       IN  /\ build.rules = result.rules /\ X!_run_checks(build.site) # X!Failed
                           /\ build.site \in Sites \cup LaterSites

LEMMA InitEvaluated == Init => Evaluated
BY DEF Init, Evaluated

LEMMA NextEvaluated == ASSUME Evaluated, [Next]_vars PROVE Evaluated'
<1>1. CASE Build
  <2>1. PICK s \in Site : /\ X!_run_checks(s) # X!Failed
                         /\ LET result == P!evaluate(Template, Report(s))
                            IN  build' = [site |-> s, rules |-> result.rules, verdict |-> result.verdict]
    BY <1>1 DEF Build
  <2>2. pc' = "built" /\ audit' = audit
    BY <1>1 DEF Build
  <2>3. Report(s)' = Report(s)
    BY <2>2 DEF Report
  <2>4. build'.site = s /\ build'.rules = P!evaluate(Template, Report(s)).rules /\ s \in Sites \cup LaterSites
    BY <2>1 DEF Site
  <2>5. QED
    BY <2>1, <2>2, <2>3, <2>4 DEF Evaluated
<1>2. CASE BuildFails \/ Finish \/ Choose \/ SetVersion \/ Crash \/ CrashWriting
  <2>1. build' = NONE
    BY <1>2 DEF BuildFails, Finish, Choose, SetVersion, Crash, CrashWriting, Ends, Forget
  <2>2. QED
    BY <2>1 DEF Evaluated
<1>3. CASE Start \/ RunPipeline \/ KeepHistory \/ WriteTrain
  <2>1. pc # "built" /\ build' = build
    BY <1>3 DEF Start, RunPipeline, KeepHistory, WriteTrain, round
  <2>2. QED
    BY <2>1 DEF Evaluated
<1>4. CASE UNCHANGED vars
  <2>1. build' = build /\ audit' = audit /\ pc' = pc
    BY <1>4 DEF vars, round
  <2>2. \A s : Report(s)' = Report(s)
    BY <2>1 DEF Report
  <2>3. QED
    BY <2>1, <2>2 DEF Evaluated
<1>5. QED
  BY <1>1, <1>2, <1>3, <1>4 DEF Next

\* The report of a build is what the scanners and the policy make of its site
\* and of the audit before it (core/assess.py, policy/engine.py), until the next.
THEOREM Evaluation == Spec => []Evaluated
<1>1. Evaluated /\ [Next]_vars => Evaluated'
  BY NextEvaluated
<1>2. QED
  BY <1>1, InitEvaluated, PTL DEF Spec

\* The platform's release gate (platform/gate.py) and the project's build
\* (policy/engine.py) agree on every audit: the first blocks exactly when a
\* rule about entities fails the second, whatever else is in the project.
THEOREM OneGate == Spec => []GatesAgree
<1>1. Evaluated => GatesAgree
  <2> SUFFICES ASSUME Evaluated, build # NONE
               PROVE  P!blocking(P!check(audit, P!default_policy(Template))) <=>
                        \E r \in P!ENTITY_RULES : build.rules[r] = "fail"
    BY DEF GatesAgree, P!ENTITY_RULES
  <2>1. PICK p : p = Report(build.site)
    OBVIOUS
  <2>2. p.privacy.entity_audit = audit
    BY <2>1 DEF Report
  <2>3. build.rules = P!evaluate(Template, p).rules
    BY <2>1 DEF Evaluated
  <2>4. QED
    BY <2>2, <2>3, GatesOf
<1>2. QED
  BY <1>1, Evaluation, PTL

-----------------------------------------------------------------------------
(* Numbers. *)

LEMMA Least ==
    ASSUME NEW T, T \subseteq Nat, T # {}
    PROVE  \E i \in T : \A j \in T : i <= j
<1>1. PICK i \in T : \A j \in T : ~ (<<j, i>> \in OpToRel(<, Nat))
  BY WFMin, NatLessThanWellFounded
<1>2. \A j \in T : ~ (j < i)
  BY <1>1 DEF OpToRel
<1>3. QED
  BY <1>2

-----------------------------------------------------------------------------
(* Texts. *)

\* What was written stays when more is written after it.
LEMMA SubSeqStays ==
    ASSUME NEW A, NEW x \in Seq(A), NEW z \in Seq(A), NEW a \in Nat \ {0}, NEW b \in Nat, b <= Len(x)
    PROVE  SubSeq(x \o z, a, b) = SubSeq(x, a, b)
<1>1. \A i \in a..b : x[i] \in A /\ (x \o z)[i] = x[i]
  OBVIOUS
<1>2. PICK p, q : p = SubSeq(x \o z, a, b) /\ q = SubSeq(x, a, b)
  OBVIOUS
<1>3. /\ q \in Seq(A) /\ Len(q) = (IF a <= b THEN b - a + 1 ELSE 0)
      /\ \A i \in 1..(b - a + 1) : q[i] = x[a + i - 1]
  BY <1>1, <1>2, SubSeqProperties
<1>4. /\ p \in Seq(A) /\ Len(p) = (IF a <= b THEN b - a + 1 ELSE 0)
      /\ \A i \in 1..(b - a + 1) : p[i] = (x \o z)[a + i - 1]
  BY <1>1, <1>2, SubSeqProperties
<1>5. \A i \in 1..Len(p) : p[i] = q[i]
  BY <1>1, <1>3, <1>4
<1>6. p = q
  BY <1>3, <1>4, <1>5, SeqEqual
<1>7. QED
  BY <1>2, <1>6

\* A piece is found where it was written.
LEMMA SubSeqFound ==
    ASSUME NEW A, NEW x \in Seq(A), NEW g \in Seq(A)
    PROVE  SubSeq(x \o g, Len(x) + 1, Len(x) + Len(g)) = g
<1>1. PICK m \in Nat, n \in Nat : m = Len(x) /\ n = Len(g)
  OBVIOUS
<1>2. PICK y : y = x \o g
  OBVIOUS
<1>3. \A j \in 1..n : y[m + j] = g[j] /\ g[j] \in A
  BY <1>1, <1>2
<1>4. \A i \in (m + 1)..(m + n) : y[i] \in A
  <2>1. \A i \in (m + 1)..(m + n) : i - m \in 1..n /\ i = m + (i - m)
    OBVIOUS
  <2>2. QED
    BY <1>3, <2>1
<1>5. PICK p : p = SubSeq(y, m + 1, m + n)
  OBVIOUS
<1>6. PICK a \in Int, b \in Int : a = m + 1 /\ b = m + n
  OBVIOUS
<1>7. /\ p \in Seq(A) /\ Len(p) = (IF a <= b THEN b - a + 1 ELSE 0)
      /\ \A i \in 1..(b - a + 1) : p[i] = y[a + i - 1]
  BY <1>4, <1>5, <1>6, SubSeqProperties
<1>8. Len(p) = n
  BY <1>6, <1>7
<1>9. \A i \in 1..n : p[i] = y[m + i]
  <2>1. \A i \in 1..n : a + i - 1 = m + i /\ i \in 1..(b - a + 1)
    BY <1>6
  <2>2. QED
    BY <1>7, <2>1
<1>10. p = g
  BY <1>1, <1>3, <1>7, <1>8, <1>9, SeqEqual
<1>11. QED
  BY <1>1, <1>2, <1>5, <1>10

\* The same with something after it.
LEMMA SubSeqBetween ==
    ASSUME NEW A, NEW x \in Seq(A), NEW g \in Seq(A), NEW z \in Seq(A)
    PROVE  SubSeq((x \o g) \o z, Len(x) + 1, Len(x) + Len(g)) = g
<1>1. PICK y : y = x \o g
  OBVIOUS
<1>2. y \in Seq(A) /\ Len(y) = Len(x) + Len(g) /\ Len(x) \in Nat /\ Len(g) \in Nat
  BY <1>1
<1>3. SubSeq(y \o z, Len(x) + 1, Len(x) + Len(g)) = SubSeq(y, Len(x) + 1, Len(x) + Len(g))
  BY <1>2, SubSeqStays
<1>4. QED
  BY <1>1, <1>3, SubSeqFound

LEMMA SliceTyped ==
    ASSUME NEW A, NEW t \in Seq(A), NEW a \in Nat, NEW b \in Nat, a <= b, b <= Len(t)
    PROVE  SubSeq(t, a + 1, b) \in Seq(A) /\ Len(SubSeq(t, a + 1, b)) = b - a
<1>1. \A i \in (a + 1)..b : t[i] \in A
  OBVIOUS
<1>2. QED
  BY <1>1, SubSeqProperties

\* Where the span before a place ends.
EndOf(e, j) == IF j = 0 THEN 0 ELSE e[j].end

\* The text before the j-th span, after the one before it.
Gap(t, e, j) == SubSeq(t, EndOf(e, j - 1) + 1, e[j].start)

\* The spans e are in order and within the text t.
Orderly(t, e) ==
    /\ t \in Seq(Atoms) /\ e \in Seq(Spans)
    /\ \A i \in 1..Len(e) : e[i].start < e[i].end /\ e[i].end <= Len(t)
    /\ \A i, j \in 1..Len(e) : i < j => e[i].end <= e[j].start

\* The text x, with the spans S, is a copy of t up to the end of its i-th span,
\* with the values N in the place of the spans e.
Copied(t, e, N, i, x, S) ==
    /\ x \in Seq(Atoms) /\ S \in Seq(Spans) /\ Len(S) = i
    /\ \A j \in 1..i :
          /\ S[j].entity_type = e[j].entity_type
          /\ EndOf(S, j - 1) <= S[j].start /\ S[j].start < S[j].end /\ S[j].end <= Len(x)
          /\ SubSeq(x, S[j].start + 1, S[j].end) = N[j]
          /\ SubSeq(x, EndOf(S, j - 1) + 1, S[j].start) = Gap(t, e, j)
    /\ EndOf(S, i) = Len(x)

LEMMA SpanTyped ==
    ASSUME NEW s \in Spans
    PROVE  s.start \in Nat /\ s.end \in Nat /\ s.entity_type \in DOMAIN Impact
BY DEF Spans

LEMMA EndOfTyped ==
    ASSUME NEW S \in Seq(Spans), NEW j \in 0..Len(S)
    PROVE  EndOf(S, j) \in Nat
<1>1. CASE j = 0
  BY <1>1 DEF EndOf
<1>2. CASE j # 0
  <2>1. j \in 1..Len(S)
    BY <1>2
  <2>2. S[j] \in Spans
    BY <2>1
  <2>3. EndOf(S, j) = S[j].end
    BY <1>2 DEF EndOf
  <2>4. QED
    BY <2>2, <2>3, SpanTyped
<1>3. QED
  BY <1>1, <1>2

\* A text that is written on with a gap and a value, and what of it stays.
Joined(x, g, m) == (x \o g) \o m

Prolongs(y, x) == \A k \in Nat \ {0}, l \in Nat : l <= Len(x) => SubSeq(y, k, l) = SubSeq(x, k, l)

Wrote(y, x, g, m) ==
    /\ y \in Seq(Atoms) /\ Len(y) = Len(x) + Len(g) + Len(m)
    /\ SubSeq(y, Len(x) + 1, Len(x) + Len(g)) = g
    /\ SubSeq(y, Len(x) + Len(g) + 1, Len(y)) = m
    /\ Prolongs(y, x)

LEMMA Pieces ==
    ASSUME NEW x \in Seq(Atoms), NEW g \in Seq(Atoms), NEW m \in Seq(Atoms)
    PROVE  Wrote(Joined(x, g, m), x, g, m)
<1>1. PICK z, y : z = x \o g /\ y = z \o m
  OBVIOUS
<1>2. z \in Seq(Atoms) /\ Len(z) = Len(x) + Len(g) /\ Len(x) \in Nat /\ Len(g) \in Nat /\ Len(m) \in Nat
  BY <1>1
<1>3. y = Joined(x, g, m)
  BY <1>1 DEF Joined
<1>4. y \in Seq(Atoms) /\ Len(y) = Len(z) + Len(m)
  BY <1>1, <1>2, ConcatProperties
<1>5. SubSeq(y, Len(x) + 1, Len(x) + Len(g)) = g
  BY <1>1, SubSeqBetween
<1>6. SubSeq(y, Len(z) + 1, Len(z) + Len(m)) = m
  BY <1>1, <1>2, SubSeqFound
<1>7. ASSUME NEW k \in Nat \ {0}, NEW l \in Nat, l <= Len(x) PROVE SubSeq(y, k, l) = SubSeq(x, k, l)
  <2>1. l <= Len(z)
    BY <1>2, <1>7
  <2>2. SubSeq(z \o m, k, l) = SubSeq(z, k, l)
    BY <1>2, <2>1, SubSeqStays
  <2>3. SubSeq(x \o g, k, l) = SubSeq(x, k, l)
    BY <1>7, SubSeqStays
  <2>4. QED
    BY <1>1, <2>2, <2>3
<1>8. Prolongs(y, x)
  BY <1>7 DEF Prolongs
<1>9. SubSeq(y, Len(x) + Len(g) + 1, Len(y)) = m
  BY <1>2, <1>4, <1>6
<1>10. Len(y) = Len(x) + Len(g) + Len(m)
  BY <1>2, <1>4
<1>11. Wrote(y, x, g, m)
  BY <1>4, <1>5, <1>8, <1>9, <1>10 DEF Wrote
<1>12. QED
  BY <1>3, <1>11

\* Spans with one more.
Grown(R, S, s) ==
    /\ R \in Seq(Spans) /\ Len(R) = Len(S) + 1 /\ R[Len(S) + 1] = s
    /\ \A j \in 1..Len(S) : R[j] = S[j]
    /\ \A j \in 0..Len(S) : EndOf(R, j) = EndOf(S, j)
    /\ EndOf(R, Len(S) + 1) = s.end

LEMMA AppendedSpans ==
    ASSUME NEW S \in Seq(Spans), NEW s \in Spans
    PROVE  Grown(Append(S, s), S, s)
<1> DEFINE R == Append(S, s)
<1>1. R \in Seq(Spans) /\ Len(R) = Len(S) + 1 /\ R[Len(S) + 1] = s /\ \A j \in 1..Len(S) : R[j] = S[j]
  BY AppendProperties
<1>2. Len(S) \in Nat
  OBVIOUS
<1> HIDE DEF R
<1>3. \A j \in 0..Len(S) : EndOf(R, j) = EndOf(S, j)
  <2>1. ASSUME NEW j \in 0..Len(S) PROVE EndOf(R, j) = EndOf(S, j)
    <3>1. CASE j = 0
      BY <3>1 DEF EndOf
    <3>2. CASE j # 0
      <4>1. j \in 1..Len(S)
        BY <1>2, <3>2
      <4>2. R[j] = S[j]
        BY <1>1, <4>1
      <4>3. QED
        BY <3>2, <4>2 DEF EndOf
    <3>3. QED
      BY <3>1, <3>2
  <2>2. QED
    BY <2>1
<1>4. EndOf(R, Len(S) + 1) = s.end
  BY <1>1, <1>2 DEF EndOf
<1>5. Grown(R, S, s)
  BY <1>1, <1>3, <1>4 DEF Grown
<1>6. QED
  BY <1>5 DEF R

\* The j-th span of a copy, and the copy.
CopiedAt(t, e, N, j, x, S) ==
    /\ S[j].entity_type = e[j].entity_type
    /\ EndOf(S, j - 1) <= S[j].start /\ S[j].start < S[j].end /\ S[j].end <= Len(x)
    /\ SubSeq(x, S[j].start + 1, S[j].end) = N[j]
    /\ SubSeq(x, EndOf(S, j - 1) + 1, S[j].start) = Gap(t, e, j)

LEMMA CopyStays ==
    ASSUME NEW t, NEW e, NEW N, NEW x \in Seq(Atoms), NEW y \in Seq(Atoms), Prolongs(y, x), Len(x) <= Len(y),
           NEW S \in Seq(Spans), NEW R, NEW j \in 1..Len(S),
           R[j] = S[j], EndOf(R, j - 1) = EndOf(S, j - 1), CopiedAt(t, e, N, j, x, S)
    PROVE  CopiedAt(t, e, N, j, y, R)
<1>1. S[j] \in Spans /\ j - 1 \in 0..Len(S)
  OBVIOUS
<1>2. PICK a \in Nat, b \in Nat, c \in Nat : a = S[j].start /\ b = S[j].end /\ c = EndOf(S, j - 1)
  BY <1>1, SpanTyped, EndOfTyped
<1>3. /\ S[j].entity_type = e[j].entity_type /\ c <= a /\ a < b /\ b <= Len(x)
      /\ SubSeq(x, a + 1, b) = N[j] /\ SubSeq(x, c + 1, a) = Gap(t, e, j)
  BY <1>2 DEF CopiedAt
<1>4. Len(x) \in Nat /\ Len(y) \in Nat
  OBVIOUS
<1>5. a <= Len(x) /\ b <= Len(y) /\ a + 1 \in Nat \ {0} /\ c + 1 \in Nat \ {0}
  BY <1>3, <1>4
<1>6. SubSeq(y, a + 1, b) = N[j]
  BY <1>3, <1>5 DEF Prolongs
<1>7. SubSeq(y, c + 1, a) = Gap(t, e, j)
  BY <1>3, <1>5 DEF Prolongs
<1>8. R[j].start = a /\ R[j].end = b /\ R[j].entity_type = e[j].entity_type /\ EndOf(R, j - 1) = c
  BY <1>2, <1>3
<1>9. QED
  BY <1>3, <1>5, <1>6, <1>7, <1>8 DEF CopiedAt

LEMMA CopyNext ==
    ASSUME NEW t, NEW e, NEW i \in Nat \ {0}, NEW N, NEW x, NEW S, Copied(t, e, N, i - 1, x, S),
           NEW y \in Seq(Atoms), Prolongs(y, x), Len(x) <= Len(y),
           NEW s, NEW R, Grown(R, S, s), CopiedAt(t, e, N, i, y, R), s.end = Len(y)
    PROVE  Copied(t, e, N, i, y, R)
<1>1. x \in Seq(Atoms) /\ S \in Seq(Spans) /\ Len(S) = i - 1 /\ EndOf(S, i - 1) = Len(x)
  BY DEF Copied
<1>2. /\ R \in Seq(Spans) /\ Len(R) = Len(S) + 1
      /\ \A j \in 1..Len(S) : R[j] = S[j]
      /\ \A j \in 0..Len(S) : EndOf(R, j) = EndOf(S, j)
      /\ EndOf(R, Len(S) + 1) = s.end
  BY DEF Grown
<1>3. Len(S) + 1 = i
  BY <1>1
<1>4. ASSUME NEW j \in 1..(i - 1) PROVE CopiedAt(t, e, N, j, y, R)
  <2>1. CopiedAt(t, e, N, j, x, S)
    BY DEF Copied, CopiedAt
  <2>2. j \in 1..Len(S) /\ j - 1 \in 0..Len(S)
    BY <1>1
  <2>3. R[j] = S[j] /\ EndOf(R, j - 1) = EndOf(S, j - 1)
    BY <1>2, <2>2
  <2>4. QED
    BY <1>1, <2>1, <2>2, <2>3, CopyStays
<1>5. ASSUME NEW j \in 1..i PROVE CopiedAt(t, e, N, j, y, R)
  <2>1. CASE j = i
    BY <2>1
  <2>2. CASE j # i
    <3>1. j \in 1..(i - 1)
      BY <2>2
    <3>2. QED
      BY <1>4, <3>1
  <2>3. QED
    BY <2>1, <2>2
<1>6. EndOf(R, i) = Len(y) /\ Len(R) = i
  BY <1>2, <1>3
<1>7. QED
  BY <1>2, <1>5, <1>6 DEF Copied, CopiedAt

LEMMA CopyAt ==
    ASSUME NEW t, NEW e, NEW i \in Nat \ {0}, NEW N, NEW y,
           NEW R, NEW a \in Nat, NEW b \in Nat, NEW c \in Nat,
           EndOf(R, i - 1) = a, R[i].start = b, R[i].end = c, R[i].entity_type = e[i].entity_type,
           a <= b, b < c, c = Len(y), SubSeq(y, a + 1, b) = Gap(t, e, i), SubSeq(y, b + 1, c) = N[i]
    PROVE  CopiedAt(t, e, N, i, y, R)
<1>1. EndOf(R, i - 1) <= R[i].start /\ R[i].start < R[i].end /\ R[i].end <= Len(y)
  OBVIOUS
<1>2. SubSeq(y, R[i].start + 1, R[i].end) = N[i]
  OBVIOUS
<1>3. SubSeq(y, EndOf(R, i - 1) + 1, R[i].start) = Gap(t, e, i)
  OBVIOUS
<1>4. QED
  BY <1>1, <1>2, <1>3 DEF CopiedAt

\* A gap and a value written after a copy of what is before them.
LEMMA CopyOn ==
    ASSUME NEW t, NEW e, NEW i \in Nat \ {0}, NEW N, NEW x, NEW S, Copied(t, e, N, i - 1, x, S),
           NEW g \in Seq(Atoms), g = Gap(t, e, i), NEW m \in Seq(Atoms), m = N[i], m # <<>>,
           NEW y, Wrote(y, x, g, m),
           NEW s \in Spans, s.start = Len(x) + Len(g), s.end = Len(y), s.entity_type = e[i].entity_type,
           NEW R, Grown(R, S, s)
    PROVE  Copied(t, e, N, i, y, R)
<1>1. x \in Seq(Atoms) /\ S \in Seq(Spans) /\ Len(S) = i - 1 /\ EndOf(S, i - 1) = Len(x)
  BY DEF Copied
<1>2. /\ y \in Seq(Atoms) /\ Len(y) = Len(x) + Len(g) + Len(m)
      /\ SubSeq(y, Len(x) + 1, Len(x) + Len(g)) = g
      /\ SubSeq(y, Len(x) + Len(g) + 1, Len(y)) = m
      /\ Prolongs(y, x)
  BY DEF Wrote
<1>3. Len(x) \in Nat /\ Len(g) \in Nat /\ Len(m) \in Nat /\ Len(m) # 0
  BY <1>1, EmptySeq
<1>4. PICK a \in Nat, b \in Nat, c \in Nat : a = Len(x) /\ b = Len(x) + Len(g) /\ c = Len(y)
                                          /\ a <= b /\ b < c
  <2>1. PICK p, q, r, l : /\ p \in Nat /\ q \in Nat /\ r \in Nat
                        /\ p = Len(x) /\ q = Len(g) /\ r = Len(m) /\ l = Len(y)
    BY <1>3
  <2>2. l = p + q + r /\ r # 0
    BY <1>2, <1>3, <2>1
  <2>3. p + q \in Nat /\ l \in Nat /\ p <= p + q /\ p + q < l
    <3>1. p \in Nat /\ q \in Nat /\ r \in Nat
      BY <2>1
    <3>2. QED
      BY <2>2, <3>1
  <2>4. QED
    BY <2>1, <2>3
<1>5. a <= b /\ b < c
  BY <1>4
<1>6. R[Len(S) + 1] = s /\ \A j \in 0..Len(S) : EndOf(R, j) = EndOf(S, j)
  BY DEF Grown
<1>7. Len(S) + 1 = i /\ i - 1 \in 0..Len(S)
  BY <1>1
<1>8. R[i] = s /\ EndOf(R, i - 1) = a
  BY <1>1, <1>4, <1>6, <1>7
<1>9. R[i].start = b /\ R[i].end = c /\ R[i].entity_type = e[i].entity_type
  BY <1>4, <1>8
<1>10. SubSeq(y, a + 1, b) = Gap(t, e, i) /\ SubSeq(y, b + 1, c) = N[i]
  BY <1>2, <1>4
<1>11. CopiedAt(t, e, N, i, y, R)
  BY <1>4, <1>5, <1>8, <1>9, <1>10, CopyAt
<1>12. Len(x) <= Len(y)
  BY <1>4, <1>5
<1>13. QED
  BY <1>2, <1>11, <1>12, CopyNext

-----------------------------------------------------------------------------
(* The loop of _rewrite. *)

Nothing == [text |-> <<>>, cursor |-> 0, shift |-> 0, spans |-> <<>>]

\* What the first k passes of the loop give.
Passes(r, T, R, k, f) ==
    f = [i \in 0..k |-> IF i = 0 THEN Nothing ELSE Z!Advance(r, T, R, f[i - 1], r.entities[i])]

LEMMA PassesExist ==
    ASSUME NEW r, NEW T, NEW R, NEW n \in Nat
    PROVE  \E f : Passes(r, T, R, n, f)
<1> DEFINE Missing == {k \in Nat : ~ \E f : Passes(r, T, R, k, f)}
<1>1. SUFFICES ASSUME Missing # {} PROVE FALSE
  OBVIOUS
<1>2. PICK k \in Missing : \A j \in Missing : k <= j
  <2>1. Missing \subseteq Nat
    OBVIOUS
  <2> HIDE DEF Missing
  <2>2. QED
    BY <1>1, <2>1, Least
<1>3. CASE k = 0
  <2>1. Passes(r, T, R, 0, [i \in 0..0 |-> Nothing])
    BY DEF Passes
  <2>2. QED
    BY <1>3, <2>1
<1>4. CASE k # 0
  <2>1. k \in Nat /\ k - 1 \in Nat /\ k - 1 \notin Missing
    BY <1>2, <1>4
  <2>2. PICK f : Passes(r, T, R, k - 1, f)
    BY <2>1
  <2>3. PICK a : a = Z!Advance(r, T, R, f[k - 1], r.entities[k])
    OBVIOUS
  <2>4. PICK g : g = [i \in 0..k |-> IF i = k THEN a ELSE f[i]]
    OBVIOUS
  <2>5. ASSUME NEW i \in 0..k
        PROVE  g[i] = IF i = 0 THEN Nothing ELSE Z!Advance(r, T, R, g[i - 1], r.entities[i])
    <3>1. CASE i = k
      <4>1. g[k] = a /\ g[k - 1] = f[k - 1]
        BY <2>1, <2>4
      <4>2. QED
        BY <1>4, <2>3, <3>1, <4>1
    <3>2. CASE i # k
      <4>1. i \in 0..(k - 1) /\ g[i] = f[i]
        BY <2>1, <2>4, <3>2
      <4>2. f[i] = IF i = 0 THEN Nothing ELSE Z!Advance(r, T, R, f[i - 1], r.entities[i])
        BY <2>2, <4>1 DEF Passes
      <4>3. i # 0 => g[i - 1] = f[i - 1]
        BY <2>1, <2>4, <4>1
      <4>4. QED
        BY <4>1, <4>2, <4>3
    <3>3. QED
      BY <3>1, <3>2
  <2>6. Passes(r, T, R, k, g)
    <3>1. g = [i \in 0..k |-> g[i]]
      BY <2>4
    <3>2. [i \in 0..k |-> g[i]] = [i \in 0..k |-> IF i = 0 THEN Nothing ELSE Z!Advance(r, T, R, g[i - 1], r.entities[i])]
      BY <2>5
    <3>3. QED
      BY <3>1, <3>2 DEF Passes
  <2>7. QED
    BY <2>6
<1>5. QED
  BY <1>3, <1>4

LEMMA ProgressOf ==
    ASSUME NEW r, NEW T, NEW R, Len(r.entities) \in Nat
    PROVE  LET A == Z!Progress(r, T, R)
           IN  /\ A[0] = Nothing
               /\ \A i \in 1..Len(r.entities) : A[i] = Z!Advance(r, T, R, A[i - 1], r.entities[i])
<1>1. PICK n \in Nat : n = Len(r.entities)
  OBVIOUS
<1>2. PICK A : A = Z!Progress(r, T, R)
  OBVIOUS
<1>3. A = CHOOSE f : Passes(r, T, R, n, f)
  BY <1>1, <1>2 DEF Z!Progress, Passes, Nothing
<1>4. Passes(r, T, R, n, A)
  BY <1>3, PassesExist
<1>5. A[0] = Nothing
  BY <1>4 DEF Passes
<1>6. ASSUME NEW i \in 1..n PROVE A[i] = Z!Advance(r, T, R, A[i - 1], r.entities[i])
  BY <1>4 DEF Passes
<1>7. QED
  BY <1>1, <1>2, <1>5, <1>6

\* How far the loop is after i spans, with the values N in their places.
Stage(t, e, N, i, acc) ==
    /\ Copied(t, e, N, i, acc.text, acc.spans)
    /\ acc.cursor = EndOf(e, i) /\ acc.shift \in Int
    /\ Len(acc.text) = acc.cursor + acc.shift

Moved(s, a, b) == [s EXCEPT !.start = a, !.end = b]

LEMMA MovedSpan ==
    ASSUME NEW s \in Spans, NEW a \in Nat, NEW b \in Nat
    PROVE  /\ Moved(s, a, b) \in Spans /\ Moved(s, a, b).start = a /\ Moved(s, a, b).end = b
           /\ Moved(s, a, b).entity_type = s.entity_type
BY DEF Spans, Moved

LEMMA OrderlyAt ==
    ASSUME NEW t, NEW e, Orderly(t, e), NEW i \in 1..Len(e)
    PROVE  /\ e[i] \in Spans /\ e[i].start \in Nat /\ e[i].end \in Nat /\ EndOf(e, i - 1) \in Nat
           /\ EndOf(e, i - 1) <= e[i].start /\ e[i].start < e[i].end /\ e[i].end <= Len(t) /\ Len(t) \in Nat
           /\ i \in Nat \ {0} /\ i - 1 \in 0..Len(e) /\ EndOf(e, i) = e[i].end
           /\ Gap(t, e, i) \in Seq(Atoms) /\ Len(Gap(t, e, i)) = e[i].start - EndOf(e, i - 1)
<1>1. t \in Seq(Atoms) /\ e \in Seq(Spans)
  BY DEF Orderly
<1>2. e[i] \in Spans /\ Len(t) \in Nat /\ i \in Nat \ {0} /\ i - 1 \in 0..Len(e)
  BY <1>1
<1>3. e[i].start \in Nat /\ e[i].end \in Nat /\ EndOf(e, i - 1) \in Nat
  BY <1>1, <1>2, SpanTyped, EndOfTyped
<1>4. e[i].start < e[i].end /\ e[i].end <= Len(t)
  BY DEF Orderly
<1>5. EndOf(e, i - 1) <= e[i].start
  <2>1. CASE i = 1
    BY <1>3, <2>1 DEF EndOf
  <2>2. CASE i # 1
    <3>1. i - 1 \in 1..Len(e) /\ i - 1 < i /\ i - 1 # 0
      BY <1>2, <2>2
    <3>2. e[i - 1].end <= e[i].start
      BY <3>1 DEF Orderly
    <3>3. QED
      BY <3>1, <3>2 DEF EndOf
  <2>3. QED
    BY <2>1, <2>2
<1>6. EndOf(e, i) = e[i].end
  BY <1>2 DEF EndOf
<1>7. Gap(t, e, i) \in Seq(Atoms) /\ Len(Gap(t, e, i)) = e[i].start - EndOf(e, i - 1)
  <2>1. PICK a \in Nat, b \in Nat : a = EndOf(e, i - 1) /\ b = e[i].start
    BY <1>3
  <2>2. a <= b /\ b <= Len(t)
    BY <1>2, <1>3, <1>4, <1>5, <2>1
  <2>3. SubSeq(t, a + 1, b) \in Seq(Atoms) /\ Len(SubSeq(t, a + 1, b)) = b - a
    BY <1>1, <2>2, SliceTyped
  <2>4. QED
    BY <2>1, <2>3 DEF Gap
<1>8. QED
  BY <1>2, <1>3, <1>4, <1>5, <1>6, <1>7

\* The value that the loop writes for a span.
New(r, T, R, s) == IF s \in Z!Wanted(r, T) THEN R[Z!Key(r, s)] ELSE Z!value(r, s)

LEMMA AdvanceFields ==
    ASSUME NEW r, NEW T, NEW R, NEW acc, NEW s
    PROVE  LET a == Z!Advance(r, T, R, acc, s)
               new == New(r, T, R, s)
           IN  /\ a.text = Joined(acc.text, SubSeq(r.text, acc.cursor + 1, s.start), new)
               /\ a.cursor = s.end
               /\ a.shift = acc.shift + Len(new) - (s.end - s.start)
               /\ a.spans = Append(acc.spans, Moved(s, s.start + acc.shift, s.start + acc.shift + Len(new)))
BY DEF Z!Advance, Z!Slice, New, Joined, Moved

LEMMA StageNext ==
    ASSUME NEW t, NEW e, Orderly(t, e), NEW i \in 1..Len(e), NEW N,
           NEW m \in Seq(Atoms), m # <<>>, m = N[i],
           NEW acc, Stage(t, e, N, i - 1, acc), NEW a,
           a.text = Joined(acc.text, SubSeq(t, acc.cursor + 1, e[i].start), m),
           a.cursor = e[i].end, a.shift = acc.shift + Len(m) - (e[i].end - e[i].start),
           a.spans = Append(acc.spans, Moved(e[i], e[i].start + acc.shift, e[i].start + acc.shift + Len(m)))
    PROVE  Stage(t, e, N, i, a)
<1>1. /\ e[i] \in Spans /\ e[i].start \in Nat /\ e[i].end \in Nat /\ EndOf(e, i - 1) \in Nat
      /\ EndOf(e, i - 1) <= e[i].start /\ e[i].start < e[i].end
      /\ i \in Nat \ {0} /\ EndOf(e, i) = e[i].end
      /\ Gap(t, e, i) \in Seq(Atoms) /\ Len(Gap(t, e, i)) = e[i].start - EndOf(e, i - 1)
  BY OrderlyAt
<1>2. PICK x, S, h, g : x = acc.text /\ S = acc.spans /\ h = acc.shift /\ g = Gap(t, e, i)
  OBVIOUS
<1>3. /\ Copied(t, e, N, i - 1, x, S) /\ h \in Int /\ acc.cursor = EndOf(e, i - 1)
      /\ Len(x) = EndOf(e, i - 1) + h
  BY <1>2 DEF Stage
<1>4. a.text = Joined(x, g, m)
  BY <1>2, <1>3 DEF Gap
<1>5. x \in Seq(Atoms) /\ S \in Seq(Spans)
  BY <1>3 DEF Copied
<1>6. g \in Seq(Atoms) /\ Len(g) = e[i].start - EndOf(e, i - 1)
  BY <1>1, <1>2
<1>7. Wrote(a.text, x, g, m)
  BY <1>4, <1>5, <1>6, Pieces
<1>8. Len(a.text) = Len(x) + Len(g) + Len(m)
  BY <1>7 DEF Wrote
<1>9. Len(x) \in Nat /\ Len(g) \in Nat /\ Len(m) \in Nat
  BY <1>5, <1>6
<1>10. PICK b \in Nat, c \in Nat : /\ b = e[i].start + h /\ c = e[i].start + h + Len(m)
                                   /\ b = Len(x) + Len(g) /\ c = Len(a.text)
  <2>1. PICK p \in Nat, q \in Nat, l \in Nat, st \in Nat, ce \in Nat :
          p = Len(x) /\ q = Len(g) /\ l = Len(m) /\ st = e[i].start /\ ce = EndOf(e, i - 1)
    BY <1>1, <1>9
  <2>2. p = ce + h /\ q = st - ce /\ Len(a.text) = p + q + l
    BY <1>3, <1>6, <1>8, <2>1
  <2>3. st + h = p + q /\ st + h + l = p + q + l /\ p + q \in Nat /\ p + q + l \in Nat
    BY <1>3, <2>2
  <2>4. QED
    BY <2>1, <2>2, <2>3
<1>11. PICK s : s = Moved(e[i], b, c)
  OBVIOUS
<1>12. s \in Spans /\ s.start = b /\ s.end = c /\ s.entity_type = e[i].entity_type
  <2>1. e[i] \in Spans
    BY <1>1
  <2>2. b \in Nat /\ c \in Nat
    OBVIOUS
  <2>3. QED
    BY <1>11, <2>1, <2>2, MovedSpan, Zenon
<1>13. a.spans = Append(S, s)
  BY <1>2, <1>10, <1>11
<1>14. Grown(a.spans, S, s)
  BY <1>5, <1>12, <1>13, AppendedSpans
<1>15. PICK y, Q : y = a.text /\ Q = a.spans
  OBVIOUS
<1>16. /\ s.start = Len(x) + Len(g) /\ s.end = Len(y) /\ Wrote(y, x, g, m) /\ Grown(Q, S, s)
  BY <1>7, <1>10, <1>12, <1>14, <1>15
<1>17. Copied(t, e, N, i, y, Q)
  BY <1>1, <1>2, <1>3, <1>6, <1>12, <1>16, CopyOn
<1>18. a.cursor = EndOf(e, i) /\ a.shift \in Int /\ Len(a.text) = a.cursor + a.shift
  <2>1. PICK p \in Int, l \in Nat, st \in Nat, en \in Nat : p = h /\ l = Len(m) /\ st = e[i].start /\ en = e[i].end
    BY <1>1, <1>3, <1>9
  <2>2. a.cursor = en /\ a.shift = p + l - (en - st) /\ Len(a.text) = st + p + l
    BY <1>2, <1>10, <2>1
  <2>3. p + l - (en - st) \in Int /\ st + p + l = en + (p + l - (en - st))
    OBVIOUS
  <2>4. QED
    BY <1>1, <2>1, <2>2, <2>3
<1>19. QED
  BY <1>15, <1>17, <1>18 DEF Stage

LEMMA WellFormedParts ==
    ASSUME NEW r, WellFormed(r)
    PROVE  /\ r \in Records /\ r.text \in Seq(Atoms) /\ r.entities \in Seq(Spans)
           /\ Len(r.entities) \in Nat /\ DOMAIN r.entities = 1..Len(r.entities)
           /\ Orderly(r.text, r.entities)
<1>1. r \in Records /\ r.text \in Seq(Atoms) /\ r.entities \in Seq(Spans)
  BY DEF WellFormed, Records
<1>2. Len(r.entities) \in Nat /\ DOMAIN r.entities = 1..Len(r.entities)
  BY <1>1
<1>3. Orderly(r.text, r.entities)
  BY <1>1, <1>2 DEF WellFormed, Orderly
<1>4. QED
  BY <1>1, <1>2, <1>3

LEMMA Stages ==
    ASSUME NEW r, WellFormed(r), NEW T, NEW R, NEW N,
           \A i \in 1..Len(r.entities) : N[i] = New(r, T, R, r.entities[i]) /\ N[i] \in Seq(Atoms) /\ N[i] # <<>>,
           NEW k \in 0..Len(r.entities)
    PROVE  Stage(r.text, r.entities, N, k, Z!Progress(r, T, R)[k])
<1>1. PICK n, e, t, A : n \in Nat /\ n = Len(r.entities) /\ e = r.entities /\ t = r.text /\ A = Z!Progress(r, T, R)
  BY WellFormedParts
<1>2. Orderly(t, e) /\ t \in Seq(Atoms) /\ e \in Seq(Spans) /\ n = Len(e)
  BY <1>1, WellFormedParts
<1>3. A[0] = Nothing /\ \A i \in 1..n : A[i] = Z!Advance(r, T, R, A[i - 1], e[i])
  BY <1>1, ProgressOf
<1> DEFINE Bad == {j \in 0..n : ~ Stage(t, e, N, j, A[j])}
<1>4. SUFFICES ASSUME Bad # {} PROVE FALSE
  BY <1>1
<1>5. PICK j \in Bad : \A l \in Bad : j <= l
  <2>1. Bad \subseteq Nat
    OBVIOUS
  <2> HIDE DEF Bad
  <2>2. QED
    BY <1>4, <2>1, Least
<1>6. CASE j = 0
  <2>1. Nothing.text = <<>> /\ Nothing.spans = <<>> /\ Nothing.cursor = 0 /\ Nothing.shift = 0
    BY DEF Nothing
  <2>2. Copied(t, e, N, 0, <<>>, <<>>)
    <3>1. <<>> \in Seq(Atoms) /\ <<>> \in Seq(Spans) /\ Len(<<>>) = 0 /\ EndOf(<<>>, 0) = 0
      BY DEF EndOf
    <3>2. QED
      BY <3>1 DEF Copied
  <2>3. EndOf(e, 0) = 0 /\ Len(<<>>) = 0
    BY DEF EndOf
  <2>4. Stage(t, e, N, 0, Nothing)
    BY <2>1, <2>2, <2>3 DEF Stage
  <2>5. QED
    BY <1>3, <1>6, <2>4
<1>7. CASE j # 0
  <2>1. j \in 1..n /\ j - 1 \in 0..n /\ j - 1 < j
    BY <1>1, <1>7
  <2>2. Stage(t, e, N, j - 1, A[j - 1])
    BY <1>5, <2>1
  <2>3. PICK m : m = N[j]
    OBVIOUS
  <2>4. m \in Seq(Atoms) /\ m # <<>> /\ m = New(r, T, R, e[j])
    BY <1>1, <2>1, <2>3
  <2>5. PICK acc, a, s : acc = A[j - 1] /\ a = A[j] /\ s = e[j]
    OBVIOUS
  <2>6. a = Z!Advance(r, T, R, acc, s)
    BY <1>3, <2>1, <2>5
  <2>7. /\ a.text = Joined(acc.text, SubSeq(r.text, acc.cursor + 1, s.start), m)
        /\ a.cursor = s.end /\ a.shift = acc.shift + Len(m) - (s.end - s.start)
        /\ a.spans = Append(acc.spans, Moved(s, s.start + acc.shift, s.start + acc.shift + Len(m)))
    BY <2>4, <2>5, <2>6, AdvanceFields
  <2>8. Stage(t, e, N, j, a)
    BY <1>1, <1>2, <2>1, <2>2, <2>3, <2>4, <2>5, <2>7, StageNext
  <2>9. QED
    BY <2>5, <2>8
<1>8. QED
  BY <1>6, <1>7

\* Spans that follow each other are all in order.
LEMMA OrderSpreads ==
    ASSUME NEW S \in Seq(Spans), NEW l \in Nat,
           \A j \in 1..Len(S) : EndOf(S, j - 1) <= S[j].start /\ S[j].start < S[j].end /\ S[j].end <= l,
           NEW i \in 1..Len(S), NEW k \in 1..Len(S), i < k
    PROVE  S[i].end <= S[k].start
<1> DEFINE Bad == {j \in 1..Len(S) : i < j /\ ~ S[i].end <= S[j].start}
<1>1. SUFFICES ASSUME Bad # {} PROVE FALSE
  OBVIOUS
<1>2. Len(S) \in Nat
  OBVIOUS
<1>3. PICK j \in Bad : \A m \in Bad : j <= m
  <2>1. Bad \subseteq Nat
    OBVIOUS
  <2> HIDE DEF Bad
  <2>2. QED
    BY <1>1, <2>1, Least
<1>4. j \in 1..Len(S) /\ i < j /\ j - 1 \in 1..Len(S) /\ j - 1 # 0
  BY <1>2
<1>5. EndOf(S, j - 1) = S[j - 1].end
  BY <1>4 DEF EndOf
<1>6. S[j - 1].end <= S[j].start /\ S[j - 1].start < S[j - 1].end
  BY <1>4, <1>5
<1>7. S[i] \in Spans /\ S[j] \in Spans /\ S[j - 1] \in Spans
  BY <1>4
<1>8. PICK a \in Nat, b \in Nat, c \in Nat, d \in Nat : a = S[i].end /\ b = S[j - 1].start /\ c = S[j - 1].end /\ d = S[j].start
  BY <1>7, SpanTyped
<1>9. c <= d /\ b < c /\ ~ a <= d
  BY <1>6, <1>8
<1>10. i = j - 1 \/ i < j - 1
  BY <1>4
<1>11. CASE i = j - 1
  BY <1>8, <1>9, <1>11
<1>12. CASE i < j - 1
  <2>1. j - 1 \notin Bad
    BY <1>3, <1>4
  <2>2. a <= b
    BY <1>4, <1>8, <1>12, <2>1
  <2>3. QED
    BY <1>9, <2>2
<1>13. QED
  BY <1>10, <1>11, <1>12

-----------------------------------------------------------------------------
(* Copies of a record. *)

\* The text after the last span.
Rest(t, e) == SubSeq(t, EndOf(e, Len(e)) + 1, Len(t))

\* The text x with the spans S is a copy of t to its end.
Whole(t, e, N, x, S) ==
    /\ x \in Seq(Atoms) /\ S \in Seq(Spans) /\ Len(S) = Len(e)
    /\ \A j \in 1..Len(e) : CopiedAt(t, e, N, j, x, S)
    /\ Rest(x, S) = Rest(t, e)

\* The record c is r with the values N for its entities.
Copy(r, c, N) ==
    /\ WellFormed(c) /\ c.id = r.id /\ Gaps(c) = Gaps(r) /\ Len(c.entities) = Len(r.entities)
    /\ \A i \in 1..Len(r.entities) :
          /\ c.entities[i].entity_type = r.entities[i].entity_type
          /\ Z!value(c, c.entities[i]) = N[i]

LEMMA RestTyped ==
    ASSUME NEW t, NEW e, Orderly(t, e)
    PROVE  Rest(t, e) \in Seq(Atoms)
<1>1. t \in Seq(Atoms) /\ e \in Seq(Spans) /\ Len(e) \in Nat /\ Len(t) \in Nat
  BY DEF Orderly
<1>2. EndOf(e, Len(e)) \in Nat
  BY <1>1, EndOfTyped
<1>3. EndOf(e, Len(e)) <= Len(t)
  <2>1. CASE Len(e) = 0
    BY <1>1, <2>1 DEF EndOf
  <2>2. CASE Len(e) # 0
    <3>1. Len(e) \in 1..Len(e)
      BY <1>1, <2>2
    <3>2. QED
      BY <3>1, OrderlyAt
  <2>3. QED
    BY <2>1, <2>2
<1>4. QED
  BY <1>1, <1>2, <1>3, SliceTyped DEF Rest

LEMMA ConcatPieces ==
    ASSUME NEW x \in Seq(Atoms), NEW z \in Seq(Atoms), NEW y, y = x \o z
    PROVE  /\ y \in Seq(Atoms) /\ Len(y) = Len(x) + Len(z) /\ Prolongs(y, x) /\ Len(x) <= Len(y)
           /\ SubSeq(y, Len(x) + 1, Len(y)) = z
<1>1. y \in Seq(Atoms) /\ Len(y) = Len(x) + Len(z) /\ Len(x) \in Nat /\ Len(z) \in Nat
  BY ConcatProperties
<1>2. Len(x) <= Len(y)
  BY <1>1
<1>3. Prolongs(y, x)
  <2>1. ASSUME NEW k \in Nat \ {0}, NEW l \in Nat, l <= Len(x) PROVE SubSeq(y, k, l) = SubSeq(x, k, l)
    BY <2>1, SubSeqStays
  <2>2. QED
    BY <2>1 DEF Prolongs
<1>4. SubSeq(y, Len(x) + 1, Len(x) + Len(z)) = z
  BY SubSeqFound
<1>5. QED
  BY <1>1, <1>2, <1>3, <1>4

LEMMA CopyEnds ==
    ASSUME NEW t, NEW e, Orderly(t, e), NEW N, NEW x, NEW S, Copied(t, e, N, Len(e), x, S),
           NEW y, y = x \o Rest(t, e)
    PROVE  Whole(t, e, N, y, S)
<1>1. PICK z \in Seq(Atoms) : z = Rest(t, e)
  BY RestTyped
<1>2. x \in Seq(Atoms) /\ S \in Seq(Spans) /\ Len(S) = Len(e) /\ EndOf(S, Len(e)) = Len(x)
  BY DEF Copied
<1>3. y = x \o z
  BY <1>1
<1>4. y \in Seq(Atoms) /\ Prolongs(y, x) /\ Len(x) <= Len(y) /\ SubSeq(y, Len(x) + 1, Len(y)) = z
  BY <1>2, <1>3, ConcatPieces
<1>5. Rest(y, S) = Rest(t, e)
  BY <1>1, <1>2, <1>4 DEF Rest
<1>6. ASSUME NEW j \in 1..Len(e) PROVE CopiedAt(t, e, N, j, y, S)
  <2>1. CopiedAt(t, e, N, j, x, S)
    BY DEF Copied, CopiedAt
  <2>2. j \in 1..Len(S)
    BY <1>2
  <2>3. QED
    BY <1>2, <1>4, <2>1, <2>2, CopyStays
<1>7. QED
  BY <1>2, <1>4, <1>5, <1>6 DEF Whole

LEMMA GapsOf ==
    ASSUME NEW r, Len(r.entities) \in Nat
    PROVE  Gaps(r) = [i \in 1..(Len(r.entities) + 1) |->
                        IF i > Len(r.entities) THEN Rest(r.text, r.entities) ELSE Gap(r.text, r.entities, i)]
<1>1. PICK n \in Nat : n = Len(r.entities)
  OBVIOUS
<1>2. ASSUME NEW i \in 1..(n + 1)
      PROVE  Z!Slice(r.text, IF i = 1 THEN 0 ELSE r.entities[i - 1].end,
                     IF i > n THEN Len(r.text) ELSE r.entities[i].start)
             = IF i > n THEN Rest(r.text, r.entities) ELSE Gap(r.text, r.entities, i)
  <2>1. EndOf(r.entities, i - 1) = IF i = 1 THEN 0 ELSE r.entities[i - 1].end
    BY DEF EndOf
  <2>2. CASE i > n
    <3>1. i - 1 = n
      BY <2>2
    <3>2. QED
      BY <1>1, <2>1, <2>2, <3>1 DEF Rest, Z!Slice
  <2>3. CASE ~ i > n
    BY <2>1, <2>3 DEF Gap, Z!Slice
  <2>4. QED
    BY <2>2, <2>3
<1>3. QED
  BY <1>1, <1>2 DEF Gaps

LEMMA WholeCopy ==
    ASSUME NEW r, WellFormed(r), NEW c, NEW N, c.id = r.id, c = [id |-> c.id, text |-> c.text, entities |-> c.entities],
           Whole(r.text, r.entities, N, c.text, c.entities)
    PROVE  Copy(r, c, N)
<1>1. PICK t, e, x, S : t = r.text /\ e = r.entities /\ x = c.text /\ S = c.entities
  OBVIOUS
<1>2. /\ x \in Seq(Atoms) /\ S \in Seq(Spans) /\ Len(S) = Len(e) /\ Rest(x, S) = Rest(t, e)
      /\ \A j \in 1..Len(e) : CopiedAt(t, e, N, j, x, S)
  BY <1>1 DEF Whole
<1>3. Len(x) \in Nat /\ Len(S) \in Nat /\ DOMAIN S = 1..Len(S)
  BY <1>2
<1>4. \A j \in 1..Len(S) : EndOf(S, j - 1) <= S[j].start /\ S[j].start < S[j].end /\ S[j].end <= Len(x)
  BY <1>2 DEF CopiedAt
<1>5. \A i, j \in 1..Len(S) : i < j => S[i].end <= S[j].start
  BY <1>2, <1>3, <1>4, OrderSpreads
<1>6. c \in Records
  <2>1. r.id \in {o.id : o \in ToSet(raw)}
    BY WellFormedParts DEF Records
  <2>2. QED
    BY <1>1, <1>2, <2>1 DEF Records
<1>7. WellFormed(c)
  BY <1>1, <1>3, <1>4, <1>5, <1>6 DEF WellFormed
<1>8. \A j \in 1..Len(e) : Gap(x, S, j) = Gap(t, e, j)
  BY <1>2 DEF CopiedAt, Gap
<1>9. Gaps(c) = Gaps(r)
  <2>1. Len(r.entities) = Len(S) /\ Len(c.entities) = Len(S)
    BY <1>1, <1>2
  <2>2. /\ Gaps(c) = [i \in 1..(Len(S) + 1) |-> IF i > Len(S) THEN Rest(x, S) ELSE Gap(x, S, i)]
        /\ Gaps(r) = [i \in 1..(Len(S) + 1) |-> IF i > Len(S) THEN Rest(t, e) ELSE Gap(t, e, i)]
    BY <1>1, <1>3, <2>1, GapsOf
  <2>3. \A i \in 1..(Len(S) + 1) : ~ i > Len(S) => i \in 1..Len(e)
    BY <1>2, <1>3
  <2>4. QED
    BY <1>2, <1>8, <2>2, <2>3
<1>10. \A i \in 1..Len(e) : S[i].entity_type = e[i].entity_type /\ Z!value(c, S[i]) = N[i]
  BY <1>1, <1>2 DEF CopiedAt, Z!value, Z!Slice
<1>11. QED
  BY <1>1, <1>2, <1>7, <1>9, <1>10 DEF Copy

LEMMA Rewritten ==
    ASSUME NEW r, WellFormed(r), NEW T, NEW R, NEW N,
           \A i \in 1..Len(r.entities) : N[i] = New(r, T, R, r.entities[i]) /\ N[i] \in Seq(Atoms) /\ N[i] # <<>>
    PROVE  Copy(r, Z!_rewrite(r, T, R), N)
<1>1. /\ r \in Records /\ Len(r.entities) \in Nat /\ Orderly(r.text, r.entities)
  BY WellFormedParts
<1>2. PICK c, d : c = Z!_rewrite(r, T, R) /\ d = Z!Progress(r, T, R)[Len(r.entities)]
  OBVIOUS
<1>3. Stage(r.text, r.entities, N, Len(r.entities), d)
  <2>1. Len(r.entities) \in 0..Len(r.entities)
    BY <1>1
  <2>2. QED
    BY <1>2, <2>1, Stages
<1>4. c = [r EXCEPT !.text = d.text \o Z!Slice(@, d.cursor, Len(@)), !.entities = d.spans]
  BY <1>2 DEF Z!_rewrite
<1>5. c = [id |-> r.id, text |-> d.text \o Z!Slice(r.text, d.cursor, Len(r.text)), entities |-> d.spans]
  BY <1>1, <1>4 DEF Records
<1>6. c.id = r.id /\ c.entities = d.spans /\ c.text = d.text \o Rest(r.text, r.entities)
  BY <1>3, <1>5 DEF Stage, Rest, Z!Slice
<1>7. c = [id |-> c.id, text |-> c.text, entities |-> c.entities]
  BY <1>5
<1>8. Copied(r.text, r.entities, N, Len(r.entities), d.text, d.spans)
  BY <1>3 DEF Stage
<1>9. Whole(r.text, r.entities, N, c.text, c.entities)
  BY <1>1, <1>6, <1>8, CopyEnds
<1>10. QED
  BY <1>2, <1>6, <1>7, <1>9, WholeCopy

-----------------------------------------------------------------------------
(* Reading what was written. *)

Rises(f, n) == \A i, j \in 1..n : i < j => f[i] < f[j]

\* There is one way to list a set of numbers from the smallest on.
LEMMA RisingUnique ==
    ASSUME NEW n \in Nat, NEW S \in SUBSET Nat, NEW f \in [1..n -> S], NEW h \in [1..n -> S], Rises(f, n), Rises(h, n),
           \A s \in S : \E i \in 1..n : f[i] = s, \A s \in S : \E i \in 1..n : h[i] = s
    PROVE  f = h
<1> DEFINE Differ == {i \in 1..n : f[i] # h[i]}
<1>1. SUFFICES ASSUME Differ # {} PROVE FALSE
  OBVIOUS
<1>2. PICK i \in Differ : \A j \in Differ : i <= j
  <2>1. Differ \subseteq Nat
    OBVIOUS
  <2> HIDE DEF Differ
  <2>2. QED
    BY <1>1, <2>1, Least
<1>3. i \in 1..n /\ f[i] # h[i] /\ f[i] \in S /\ h[i] \in S /\ f[i] \in Nat /\ h[i] \in Nat
  OBVIOUS
<1>4. \A j \in 1..n : j < i => f[j] = h[j]
  BY <1>2, <1>3
<1>5. \A j \in 1..n : f[j] \in Nat /\ h[j] \in Nat
  OBVIOUS
<1>6. ASSUME f[i] < h[i] PROVE FALSE
  <2>1. PICK j \in 1..n : h[j] = f[i]
    BY <1>3
  <2>2. CASE j < i
    <3>1. f[j] = f[i] /\ f[j] < f[i]
      BY <1>3, <1>4, <2>1, <2>2 DEF Rises
    <3>2. QED
      BY <1>5, <3>1
  <2>3. CASE j = i
    BY <1>3, <2>1, <2>3
  <2>4. CASE i < j
    <3>1. h[i] < h[j]
      BY <1>3, <2>4 DEF Rises
    <3>2. QED
      BY <1>3, <1>6, <2>1, <3>1
  <2>5. QED
    BY <1>3, <2>2, <2>3, <2>4
<1>7. ASSUME h[i] < f[i] PROVE FALSE
  <2>1. PICK j \in 1..n : f[j] = h[i]
    BY <1>3
  <2>2. CASE j < i
    <3>1. h[j] = h[i] /\ h[j] < h[i]
      BY <1>3, <1>4, <2>1, <2>2 DEF Rises
    <3>2. QED
      BY <1>5, <3>1
  <2>3. CASE j = i
    BY <1>3, <2>1, <2>3
  <2>4. CASE i < j
    <3>1. f[i] < f[j]
      BY <1>3, <2>4 DEF Rises
    <3>2. QED
      BY <1>3, <1>7, <2>1, <3>1
  <2>5. QED
    BY <1>3, <2>2, <2>3, <2>4
<1>8. QED
  BY <1>3, <1>6, <1>7

LEMMA RisingInjects ==
    ASSUME NEW n \in Nat, NEW S \in SUBSET Nat, NEW f \in [1..n -> S], Rises(f, n)
    PROVE  f \in Injection(1..n, S)
<1>1. ASSUME NEW i \in 1..n, NEW j \in 1..n, f[i] = f[j] PROVE i = j
  <2>1. f[i] \in Nat /\ f[j] \in Nat
    OBVIOUS
  <2>2. ~ f[i] < f[j] /\ ~ f[j] < f[i]
    BY <1>1, <2>1
  <2>3. ~ i < j /\ ~ j < i
    BY <2>2 DEF Rises
  <2>4. QED
    BY <2>3
<1>2. QED
  BY <1>1 DEF Injection, IsInjective

\* Cardinality is the same in the instance of Sanitize.
LEMMA SameCardinality == \A S : Z!Cardinality(S) = Cardinality(S)
BY DEF Z!Cardinality, Cardinality

LEMMA AscendingOf ==
    ASSUME NEW S
    PROVE  Z!Ascending(S) = {f \in [1..Cardinality(S) -> S] : Rises(f, Cardinality(S))}
BY SameCardinality DEF Z!Ascending, Rises

LEMMA AscendingIs ==
    ASSUME NEW n \in Nat, NEW S \in SUBSET Nat, NEW h \in [1..n -> S], Rises(h, n), \A s \in S : \E i \in 1..n : h[i] = s
    PROVE  Z!Ascending(S) = {h}
<1>1. h \in Injection(1..n, S) /\ h \in Surjection(1..n, S)
  BY RisingInjects DEF Surjection
<1>2. ExistsBijection(1..n, S)
  BY <1>1 DEF ExistsBijection, Bijection
<1>3. Cardinality(S) = n /\ IsFiniteSet(S)
  BY <1>2, FS_CountingElements, FS_NatBijection
<1>4. h \in Z!Ascending(S)
  BY <1>3, AscendingOf
<1>5. ASSUME NEW f \in Z!Ascending(S) PROVE f = h
  <2>1. f \in [1..n -> S] /\ Rises(f, n)
    BY <1>3, <1>5, AscendingOf
  <2>2. f \in Injection(1..n, S)
    BY <2>1, RisingInjects
  <2>3. Cardinality(1..n) = n
    <3>1. 1 \in Int /\ n \in Int /\ IF 1 > n THEN 0 = n ELSE n - 1 + 1 = n
      OBVIOUS
    <3>2. QED
      BY <3>1, FS_Interval
  <2>4. f \in Surjection(1..n, S)
    BY <1>3, <2>2, <2>3, FS_Injection
  <2>5. \A s \in S : \E i \in 1..n : f[i] = s
    BY <2>4 DEF Surjection
  <2>6. QED
    BY <2>1, <2>5, RisingUnique
<1>6. QED
  BY <1>4, <1>5

\* The spans of a record, put in order, are its spans.
LEMMA InOrderIs ==
    ASSUME NEW t, NEW e, Orderly(t, e)
    PROVE  Z!InOrder({e[i] : i \in 1..Len(e)}) = e
<1>1. e \in Seq(Spans) /\ Len(e) \in Nat
  BY DEF Orderly
<1>2. PICK n, h, S, W : /\ n \in Nat /\ n = Len(e) /\ h = [i \in 1..n |-> e[i].start]
                        /\ W = {e[i] : i \in 1..n} /\ S = {s.start : s \in W}
  BY <1>1
<1>3. \A i \in 1..n : e[i] \in Spans /\ e[i].start \in Nat /\ e[i].end \in Nat
  BY <1>1, <1>2, SpanTyped
<1>4. Rises(h, n)
  <2>1. ASSUME NEW i \in 1..n, NEW j \in 1..n, i < j PROVE e[i].start < e[j].start
    <3>1. e[i].start < e[i].end /\ e[i].end <= e[j].start
      BY <1>2, <2>1 DEF Orderly
    <3>2. QED
      BY <1>3, <3>1
  <2>2. QED
    BY <1>2, <2>1 DEF Rises
<1>5. S \in SUBSET Nat /\ h \in [1..n -> S] /\ \A s \in S : \E i \in 1..n : h[i] = s
  BY <1>2, <1>3
<1>6. Z!Ascending(S) = {h}
  <2>1. n \in Nat
    BY <1>2
  <2>2. QED
    BY <1>4, <1>5, <2>1, AscendingIs
<1>7. (CHOOSE f \in Z!Ascending(S) : TRUE) = h
  BY <1>6
<1>8. Z!InOrder(W) = [i \in DOMAIN h |-> CHOOSE s \in W : s.start = h[i]]
  <2> DEFINE starts(Q) == CHOOSE f \in Z!Ascending({s.start : s \in Q}) : TRUE
  <2>1. Z!InOrder(W) = [i \in DOMAIN starts(W) |-> CHOOSE s \in W : s.start = starts(W)[i]]
    BY DEF Z!InOrder
  <2>2. starts(W) = h
    BY <1>2, <1>7
  <2> HIDE DEF starts
  <2>3. QED
    BY <2>1, <2>2
<1>9. DOMAIN h = 1..n /\ \A i \in 1..n : h[i] = e[i].start
  BY <1>2
<1>10. ASSUME NEW i \in 1..n PROVE (CHOOSE s \in W : s.start = h[i]) = e[i]
  <2>1. e[i] \in W /\ e[i].start = h[i]
    BY <1>2, <1>9
  <2>2. ASSUME NEW s \in W, s.start = h[i] PROVE s = e[i]
    <3>1. PICK j \in 1..n : s = e[j]
      BY <1>2
    <3>2. h[j] = h[i]
      BY <1>9, <2>2, <3>1
    <3>3. j = i
      <4>1. h \in Injection(1..n, S)
        BY <1>2, <1>4, <1>5, RisingInjects
      <4>2. QED
        BY <1>9, <3>2, <4>1 DEF Injection, IsInjective
    <3>4. QED
      BY <3>1, <3>3
  <2>3. QED
    BY <2>1, <2>2
<1>11. Z!InOrder(W) = [i \in 1..n |-> e[i]]
  BY <1>8, <1>9, <1>10
<1>12. e = [i \in 1..n |-> e[i]]
  BY <1>1, <1>2
<1>13. QED
  BY <1>2, <1>11, <1>12

LEMMA SetOf ==
    ASSUME NEW s
    PROVE  ToSet(s) = {s[i] : i \in DOMAIN s} /\ Z!ToSet(s) = {s[i] : i \in DOMAIN s}
BY DEF ToSet, Z!ToSet

\* A line that was written for a record.
Line(r) == [id |-> r.id, text |-> r.text, annotations |-> Z!ToSet(r.entities)]

LEMMA ReadBack ==
    ASSUME NEW r, WellFormed(r)
    PROVE  Z!record_from_json(Line(r)) = r
<1>1. PICK t, e, d, A : t = r.text /\ e = r.entities /\ d = Line(r) /\ A = {e[i] : i \in 1..Len(e)}
  OBVIOUS
<1>2. r \in Records /\ Orderly(t, e) /\ DOMAIN e = 1..Len(e)
  BY <1>1, WellFormedParts
<1>3. d.id = r.id /\ d.text = t /\ d.annotations = A /\ "annotations" \in DOMAIN d
  BY <1>1, <1>2, SetOf DEF Line
<1>4. \A s \in A : s.end > s.start /\ s.end <= Len(t)
  <2>1. \A i \in 1..Len(e) : e[i].start < e[i].end /\ e[i].end <= Len(t) /\ e[i].start \in Nat /\ e[i].end \in Nat
    BY <1>2, OrderlyAt
  <2>2. QED
    BY <1>1, <2>1
<1>5. Z!_spans(A) = A
  BY <1>4 DEF Z!_spans
<1>6. {s \in A : s.end <= Len(t)} = A
  BY <1>4
<1>7. Z!record_from_json(d) = [id |-> r.id, text |-> t, entities |-> Z!InOrder({s \in Z!_spans(A) : s.end <= Len(t)})]
  BY <1>3 DEF Z!record_from_json
<1>8. Z!InOrder(A) = e
  BY <1>1, <1>2, InOrderIs
<1>9. r = [id |-> r.id, text |-> t, entities |-> e]
  BY <1>1, <1>2 DEF Records
<1>10. QED
  BY <1>1, <1>5, <1>6, <1>7, <1>8, <1>9

Corpus(c) == c \in Seq(Records) /\ \A i \in 1..Len(c) : WellFormed(c[i])

LEMMA LoadWritten ==
    ASSUME NEW c, Corpus(c)
    PROVE  Z!load_corpus(Z!write_corpus(c)) = c
<1>1. c \in Seq(Records) /\ DOMAIN c = 1..Len(c) /\ c = [i \in 1..Len(c) |-> c[i]]
  BY DEF Corpus
<1>2. Z!write_corpus(c) = [i \in 1..Len(c) |-> Line(c[i])]
  BY <1>1 DEF Z!write_corpus, Line
<1>3. PICK w : w = Z!write_corpus(c)
  OBVIOUS
<1>4. DOMAIN w = 1..Len(c) /\ \A i \in 1..Len(c) : w[i] = Line(c[i])
  BY <1>2, <1>3
<1>5. Z!load_corpus(w) = [i \in 1..Len(c) |-> Z!record_from_json(w[i])]
  BY <1>4 DEF Z!load_corpus
<1>6. \A i \in 1..Len(c) : Z!record_from_json(w[i]) = c[i]
  BY <1>4, ReadBack DEF Corpus
<1>7. QED
  BY <1>1, <1>3, <1>5, <1>6

\* The first lines of a file are the file of the first records.
LEMMA WrittenPrefix ==
    ASSUME NEW c, Corpus(c), NEW k \in 0..Len(c)
    PROVE  /\ SubSeq(Z!write_corpus(c), 1, k) = Z!write_corpus([i \in 1..k |-> c[i]])
           /\ Corpus([i \in 1..k |-> c[i]])
<1>1. c \in Seq(Records) /\ DOMAIN c = 1..Len(c) /\ Len(c) \in Nat /\ k \in Nat
  BY DEF Corpus
<1>2. PICK w, p : w = Z!write_corpus(c) /\ p = [i \in 1..k |-> c[i]]
  OBVIOUS
<1>3. w = [i \in 1..Len(c) |-> Line(c[i])]
  BY <1>1, <1>2 DEF Z!write_corpus, Line
<1>4. DOMAIN p = 1..k /\ \A i \in 1..k : p[i] = c[i] /\ i \in 1..Len(c)
  BY <1>1, <1>2
<1>5. Z!write_corpus(p) = [i \in 1..k |-> Line(p[i])]
  BY <1>4 DEF Z!write_corpus, Line
<1>6. Z!write_corpus(p) = [i \in 1..k |-> w[i]]
  BY <1>3, <1>4, <1>5
<1>7. SubSeq(w, 1, k) = [i \in 1..k |-> w[i]]
  <2> DEFINE L == {Line(c[i]) : i \in 1..Len(c)}
  <2>1. w \in Seq(L) /\ Len(w) = Len(c)
    BY <1>1, <1>3
  <2>2. PICK q : q = SubSeq(w, 1, k)
    OBVIOUS
  <2>3. \A i \in 1..k : w[i] \in L
    BY <1>4, <2>1
  <2> HIDE DEF L
  <2>4. q \in Seq(L) /\ Len(q) = (IF 1 <= k THEN k - 1 + 1 ELSE 0) /\ \A i \in 1..(k - 1 + 1) : q[i] = w[1 + i - 1]
    BY <1>1, <2>2, <2>3, SubSeqProperties
  <2>5. Len(q) = k /\ \A i \in 1..k : q[i] = w[i]
    BY <1>1, <2>4
  <2>6. q = [i \in 1..k |-> w[i]]
    BY <2>4, <2>5
  <2>7. QED
    BY <2>2, <2>6
<1>8. p \in Seq(Records) /\ Len(p) = k
  <2>1. \A i \in 1..k : p[i] \in Records
    BY <1>1, <1>4
  <2>2. QED
    BY <1>1, <1>2, <2>1
<1>9. Corpus(p)
  BY <1>4, <1>8 DEF Corpus
<1>10. QED
  BY <1>2, <1>6, <1>7, <1>9

-----------------------------------------------------------------------------
(* Corpora that follow the original. *)

Val(r, j) == Z!value(r, r.entities[j])

\* The j-th entity of the record o is among the spans found.
Hit(found, o, j) == <<o.id, o.entities[j].start, o.entities[j].end>> \in found

\* The record r has the entities of o, with the same text around them.
Alike(r, o) ==
    /\ r.id = o.id /\ Gaps(r) = Gaps(o) /\ Len(r.entities) = Len(o.entities)
    /\ \A j \in 1..Len(o.entities) : r.entities[j].entity_type = o.entities[j].entity_type

Distinct(c) == \A i, j \in 1..Len(c) : c[i].id = c[j].id => i = j

Aligned(c) ==
    /\ Corpus(c) /\ Distinct(c)
    /\ \A i \in 1..Len(c) : \E o \in ToSet(raw) : Alike(c[i], o)

LEMMA RawFacts ==
    /\ Corpus(raw) /\ Distinct(raw) /\ Len(raw) \in Nat /\ DOMAIN raw = 1..Len(raw)
    /\ ToSet(raw) = {raw[i] : i \in 1..Len(raw)} /\ Z!ToSet(raw) = ToSet(raw)
    /\ \A o \in ToSet(raw) : WellFormed(o) /\ o.id = o.id
    /\ \A o, p \in ToSet(raw) : o.id = p.id => o = p
    /\ \A o \in ToSet(raw) : \A j \in 1..Len(o.entities) : Val(o, j) # <<o.entities[j].entity_type>>
<1>1. raw \in Seq(Records)
  BY CorpusAssumption
<1>2. DOMAIN raw = 1..Len(raw) /\ Len(raw) \in Nat
  BY <1>1
<1>3. Corpus(raw)
  BY <1>1, <1>2, CorpusAssumption DEF Corpus
<1>4. Distinct(raw)
  BY <1>2, CorpusAssumption DEF Distinct
<1>5. ToSet(raw) = {raw[i] : i \in 1..Len(raw)} /\ Z!ToSet(raw) = ToSet(raw)
  BY <1>2, SetOf
<1>6. \A o \in ToSet(raw) : WellFormed(o)
  BY <1>3, <1>5 DEF Corpus
<1>7. \A o, p \in ToSet(raw) : o.id = p.id => o = p
  BY <1>4, <1>5 DEF Distinct
<1>8. ASSUME NEW o \in ToSet(raw), NEW j \in 1..Len(o.entities) PROVE Val(o, j) # <<o.entities[j].entity_type>>
  <2>1. DOMAIN o.entities = 1..Len(o.entities)
    BY <1>6, WellFormedParts
  <2>2. o.entities[j] \in ToSet(o.entities)
    BY <2>1, SetOf
  <2>3. QED
    BY <2>2, CorpusAssumption DEF Val
<1>9. QED
  BY <1>2, <1>3, <1>4, <1>5, <1>6, <1>7, <1>8

LEMMA AlignedAt ==
    ASSUME NEW c, Aligned(c), NEW i \in 1..Len(c)
    PROVE  /\ WellFormed(c[i]) /\ c[i].entities \in Seq(Spans) /\ Orderly(c[i].text, c[i].entities)
           /\ DOMAIN c[i].entities = 1..Len(c[i].entities) /\ Len(c[i].entities) \in Nat
           /\ Z!ToSet(c) = {c[l] : l \in 1..Len(c)} /\ Len(c) \in Nat
           /\ Z!ToSet(c[i].entities) = {c[i].entities[j] : j \in 1..Len(c[i].entities)}
<1>1. Corpus(c)
  BY DEF Aligned
<1>2. c \in Seq(Records) /\ DOMAIN c = 1..Len(c) /\ Len(c) \in Nat /\ WellFormed(c[i])
  BY <1>1 DEF Corpus
<1>3. c[i].entities \in Seq(Spans) /\ Orderly(c[i].text, c[i].entities)
      /\ DOMAIN c[i].entities = 1..Len(c[i].entities) /\ Len(c[i].entities) \in Nat
  BY <1>2, WellFormedParts
<1>4. QED
  BY <1>2, <1>3, SetOf

\* Two entities of a record do not start at the same place.
LEMMA StartsDiffer ==
    ASSUME NEW t, NEW e, Orderly(t, e), NEW i \in 1..Len(e), NEW j \in 1..Len(e), e[i].start = e[j].start
    PROVE  i = j
<1>1. e \in Seq(Spans)
  BY DEF Orderly
<1>2. PICK a \in Nat, b \in Nat, d \in Nat : a = e[i].start /\ b = e[i].end /\ d = e[j].end
  BY OrderlyAt
<1>3. a < b /\ a < d
  BY <1>2 DEF Orderly
<1>4. i < j => b <= a
  BY <1>2 DEF Orderly
<1>5. j < i => d <= a
  BY <1>2 DEF Orderly
<1>6. ~ i < j /\ ~ j < i
  BY <1>3, <1>4, <1>5
<1>7. Len(e) \in Nat
  BY <1>1
<1>8. QED
  BY <1>6, <1>7

\* What translate gives for one record of the original.
Placed(found, corpus, r) ==
    LET copies == {c \in Z!ToSet(corpus) : c.id = r.id}
        copy == CHOOSE c \in copies : TRUE
    IN  IF copies = {} \/ Len(copy.entities) # Len(r.entities) THEN {}
        ELSE {<<r.id, copy.entities[i].start, copy.entities[i].end>> :
              i \in {i \in DOMAIN r.entities :
                        /\ <<r.id, r.entities[i].start, r.entities[i].end>> \in found
                        /\ Z!value(copy, copy.entities[i]) = Z!value(r, r.entities[i])}}

LEMMA PlacedIs ==
    ASSUME NEW c, Aligned(c), NEW i \in 1..Len(c), NEW o \in ToSet(raw), Alike(c[i], o), NEW found
    PROVE  Placed(found, c, o) = {<<o.id, c[i].entities[j].start, c[i].entities[j].end>> :
                                    j \in {j \in 1..Len(o.entities) : Hit(found, o, j) /\ Val(c[i], j) = Val(o, j)}}
<1>1. PICK copies : copies = {d \in Z!ToSet(c) : d.id = o.id}
  OBVIOUS
<1>2. copies = {c[i]}
  <2>1. c[i] \in copies
    BY <1>1, AlignedAt DEF Alike
  <2>2. ASSUME NEW d \in copies PROVE d = c[i]
    <3>1. PICK l \in 1..Len(c) : d = c[l]
      BY <1>1, AlignedAt
    <3>2. c[l].id = c[i].id
      BY <1>1, <3>1 DEF Alike
    <3>3. QED
      BY <3>1, <3>2 DEF Aligned, Distinct
  <2>3. QED
    BY <2>1, <2>2
<1>3. (CHOOSE d \in copies : TRUE) = c[i]
  BY <1>2
<1>4. Len(c[i].entities) = Len(o.entities) /\ DOMAIN o.entities = 1..Len(o.entities)
  BY RawFacts, WellFormedParts DEF Alike
<1>5. PICK d : d = c[i]
  OBVIOUS
<1>6. Placed(found, c, o) =
        {<<o.id, d.entities[j].start, d.entities[j].end>> :
              j \in {j \in DOMAIN o.entities :
                        /\ <<o.id, o.entities[j].start, o.entities[j].end>> \in found
                        /\ Z!value(d, d.entities[j]) = Z!value(o, o.entities[j])}}
  BY <1>1, <1>2, <1>3, <1>4, <1>5 DEF Placed
<1>7. QED
  BY <1>4, <1>5, <1>6 DEF Hit, Val

LEMMA TranslateOf ==
    ASSUME NEW found, NEW c
    PROVE  Z!translate(found, raw, c) = UNION {Placed(found, c, r) : r \in Z!ToSet(raw)}
BY DEF Z!translate, Placed

LEMMA PlacedId ==
    ASSUME NEW found, NEW c, NEW r, NEW x, NEW a, NEW b, <<x, a, b>> \in Placed(found, c, r)
    PROVE  x = r.id
<1>1. PICK copies, copy : copies = {d \in Z!ToSet(c) : d.id = r.id} /\ copy = CHOOSE d \in copies : TRUE
  OBVIOUS
<1>2. PICK I : I = {i \in DOMAIN r.entities :
                        /\ <<r.id, r.entities[i].start, r.entities[i].end>> \in found
                        /\ Z!value(copy, copy.entities[i]) = Z!value(r, r.entities[i])}
  OBVIOUS
<1>3. Placed(found, c, r) = IF copies = {} \/ Len(copy.entities) # Len(r.entities) THEN {}
                            ELSE {<<r.id, copy.entities[i].start, copy.entities[i].end>> : i \in I}
  BY <1>1, <1>2 DEF Placed
<1>4. PICK i \in I : <<x, a, b>> = <<r.id, copy.entities[i].start, copy.entities[i].end>>
  BY <1>3
<1>5. QED
  BY <1>4

\* An entity is replaced exactly when it was found and still has the value of
\* the original.
LEMMA WantedIs ==
    ASSUME NEW c, Aligned(c), NEW i \in 1..Len(c), NEW o \in ToSet(raw), Alike(c[i], o), NEW found,
           NEW j \in 1..Len(o.entities)
    PROVE  c[i].entities[j] \in Z!Wanted(c[i], Z!translate(found, raw, c)) <=> Hit(found, o, j) /\ Val(c[i], j) = Val(o, j)
<1>1. PICK r, e, T : r = c[i] /\ e = r.entities /\ T = Z!translate(found, raw, c)
  OBVIOUS
<1>2. Orderly(r.text, e) /\ Len(e) = Len(o.entities) /\ r.id = o.id /\ Z!ToSet(e) = {e[l] : l \in 1..Len(e)}
  <2>1. Orderly(r.text, e) /\ DOMAIN e = 1..Len(e)
    BY <1>1, AlignedAt
  <2>2. Z!ToSet(e) = {e[l] : l \in 1..Len(e)}
    BY <2>1, SetOf
  <2>3. QED
    BY <1>1, <2>1, <2>2 DEF Alike
<1>3. e[j] \in Z!Wanted(r, T) <=> <<o.id, e[j].start, e[j].end>> \in T
  BY <1>1, <1>2 DEF Z!Wanted
<1>4. T = UNION {Placed(found, c, p) : p \in ToSet(raw)}
  BY <1>1, TranslateOf, RawFacts
<1>5. PICK J : J = {l \in 1..Len(o.entities) : Hit(found, o, l) /\ Val(r, l) = Val(o, l)}
  OBVIOUS
<1>6. Placed(found, c, o) = {<<o.id, e[l].start, e[l].end>> : l \in J}
  BY <1>1, <1>5, PlacedIs
<1>7. ASSUME <<o.id, e[j].start, e[j].end>> \in T PROVE j \in J
  <2>1. PICK p \in ToSet(raw) : <<o.id, e[j].start, e[j].end>> \in Placed(found, c, p)
    BY <1>4, <1>7
  <2>2. p = o
    BY <2>1, PlacedId, RawFacts
  <2>3. PICK l \in J : <<o.id, e[j].start, e[j].end>> = <<o.id, e[l].start, e[l].end>>
    BY <1>6, <2>1, <2>2
  <2>4. e[j].start = e[l].start /\ l \in 1..Len(e) /\ j \in 1..Len(e)
    BY <1>2, <1>5, <2>3
  <2>5. j = l
    BY <1>2, <2>4, StartsDiffer
  <2>6. QED
    BY <2>5
<1>8. ASSUME j \in J PROVE <<o.id, e[j].start, e[j].end>> \in T
  BY <1>4, <1>6, <1>8
<1>9. QED
  BY <1>1, <1>3, <1>5, <1>7, <1>8

\* Found, and not one of the values whose draws were in vain.
Sure(found, fell, o, j) == Hit(found, o, j) /\ Z!Key(o, o.entities[j]) \notin fell

\* The record q is r after a round that found those spans of o.
Cleaner(found, fell, q, r, o) ==
    /\ WellFormed(q) /\ q.id = r.id /\ Alike(q, o)
    /\ \A j \in 1..Len(o.entities) : Sure(found, fell, o, j) \/ Val(r, j) # Val(o, j) => Val(q, j) # Val(o, j)

LEMMA CopyAlike ==
    ASSUME NEW r, NEW q, NEW N, Copy(r, q, N), NEW o, Alike(r, o)
    PROVE  WellFormed(q) /\ q.id = r.id /\ Alike(q, o) /\ \A j \in 1..Len(o.entities) : Val(q, j) = N[j]
BY DEF Copy, Alike, Val

LEMMA ValueTyped ==
    ASSUME NEW c, Aligned(c), NEW i \in 1..Len(c), NEW s \in Z!ToSet(c[i].entities)
    PROVE  Z!value(c[i], s) \in Seq(Atoms) /\ Z!value(c[i], s) # <<>>
<1>1. PICK r, e : r = c[i] /\ e = r.entities
  OBVIOUS
<1>2. WellFormed(r) /\ Orderly(r.text, e) /\ r.text \in Seq(Atoms) /\ DOMAIN e = 1..Len(e)
  BY <1>1, AlignedAt, WellFormedParts
<1>3. PICK j \in 1..Len(e) : s = e[j]
  BY <1>1, <1>2, SetOf
<1>4. PICK a \in Nat, b \in Nat : a = e[j].start /\ b = e[j].end /\ a < b /\ b <= Len(r.text)
  BY <1>2, OrderlyAt
<1>5. SubSeq(r.text, a + 1, b) \in Seq(Atoms) /\ Len(SubSeq(r.text, a + 1, b)) = b - a
  <2>1. a <= b /\ b <= Len(r.text) /\ r.text \in Seq(Atoms)
    BY <1>2, <1>4
  <2>2. QED
    BY <2>1, SliceTyped, Zenon
<1>6. Z!value(c[i], s) = SubSeq(r.text, a + 1, b)
  BY <1>1, <1>3, <1>4 DEF Z!value, Z!Slice
<1>7. Len(Z!value(c[i], s)) # Len(<<>>)
  BY <1>4, <1>5, <1>6
<1>8. QED
  BY <1>5, <1>6, <1>7

\* With any table of new values, each of them right for its key.
LEMMA RewriteCleans ==
    ASSUME NEW c, Aligned(c), NEW i \in 1..Len(c), NEW o \in ToSet(raw), Alike(c[i], o), NEW found, NEW fell,
           NEW T, T = Z!translate(found, raw, c), NEW R,
           \A s \in Z!Wanted(c[i], T) : /\ R[Z!Key(c[i], s)] \in Seq(Atoms) /\ R[Z!Key(c[i], s)] # <<>>
                                        /\ Z!Key(c[i], s) \notin fell => R[Z!Key(c[i], s)] # Z!value(c[i], s)
    PROVE  Cleaner(found, fell, Z!_rewrite(c[i], T, R), c[i], o)
<1>1. PICK r, e : r = c[i] /\ e = r.entities
  OBVIOUS
<1>2. WellFormed(r) /\ Orderly(r.text, e) /\ Len(e) = Len(o.entities) /\ r.text \in Seq(Atoms) /\ Alike(r, o)
  BY <1>1, AlignedAt, WellFormedParts DEF Alike
<1>3. PICK N : N = [j \in 1..Len(e) |-> New(r, T, R, e[j])]
  OBVIOUS
<1>4. ASSUME NEW j \in 1..Len(e) PROVE Z!value(r, e[j]) \in Seq(Atoms) /\ Z!value(r, e[j]) # <<>>
  <2>1. PICK a \in Nat, b \in Nat : a = e[j].start /\ b = e[j].end /\ a < b /\ b <= Len(r.text)
    BY <1>2, OrderlyAt
  <2>2. SubSeq(r.text, a + 1, b) \in Seq(Atoms) /\ Len(SubSeq(r.text, a + 1, b)) = b - a
    <3>1. a <= b /\ b <= Len(r.text) /\ r.text \in Seq(Atoms)
      BY <1>2, <2>1
    <3>2. QED
      BY <3>1, SliceTyped, Zenon
  <2>3. Z!value(r, e[j]) = SubSeq(r.text, a + 1, b)
    BY <2>1 DEF Z!value, Z!Slice
  <2>4. Len(Z!value(r, e[j])) # Len(<<>>)
    BY <2>1, <2>2, <2>3
  <2>5. QED
    BY <2>2, <2>3, <2>4
<1>5. ASSUME NEW j \in 1..Len(e) PROVE N[j] = New(r, T, R, e[j]) /\ N[j] \in Seq(Atoms) /\ N[j] # <<>>
  <2>1. N[j] = New(r, T, R, e[j])
    BY <1>3
  <2>2. CASE e[j] \in Z!Wanted(r, T)
    BY <1>1, <2>1, <2>2 DEF New
  <2>3. CASE e[j] \notin Z!Wanted(r, T)
    BY <1>4, <2>1, <2>3 DEF New
  <2>4. QED
    BY <2>1, <2>2, <2>3
<1>6. PICK q : q = Z!_rewrite(r, T, R)
  OBVIOUS
<1>7. Copy(r, q, N)
  BY <1>1, <1>2, <1>5, <1>6, Rewritten
<1>8. WellFormed(q) /\ q.id = r.id /\ Alike(q, o) /\ \A j \in 1..Len(o.entities) : Val(q, j) = N[j]
  BY <1>2, <1>7, CopyAlike
<1>9. ASSUME NEW j \in 1..Len(o.entities), Sure(found, fell, o, j) \/ Val(r, j) # Val(o, j) PROVE N[j] # Val(o, j)
  <2>1. e[j] \in Z!Wanted(r, T) <=> Hit(found, o, j) /\ Val(r, j) = Val(o, j)
    BY <1>1, WantedIs
  <2>2. N[j] = New(r, T, R, e[j])
    BY <1>2, <1>5
  <2>3. CASE Val(r, j) = Val(o, j)
    <3>1. Hit(found, o, j) /\ Z!Key(o, o.entities[j]) \notin fell
      BY <1>9, <2>3 DEF Sure
    <3>2. Z!Key(r, e[j]) = Z!Key(o, o.entities[j])
      <4>1. e[j].entity_type = o.entities[j].entity_type
        BY <1>1, <1>2 DEF Alike
      <4>2. QED
        BY <1>1, <2>3, <4>1 DEF Z!Key, Val
    <3>3. R[Z!Key(r, e[j])] # Z!value(r, e[j]) /\ e[j] \in Z!Wanted(r, T)
      BY <1>1, <2>1, <2>3, <3>1, <3>2
    <3>4. QED
      BY <1>1, <2>2, <2>3, <3>3 DEF New, Val
  <2>4. CASE Val(r, j) # Val(o, j)
    BY <1>1, <2>1, <2>2, <2>4 DEF New, Val
  <2>5. QED
    BY <2>3, <2>4
<1>10. QED
  BY <1>1, <1>6, <1>8, <1>9 DEF Cleaner

LEMMA WantedKey ==
    ASSUME NEW c, Aligned(c), NEW i \in 1..Len(c), NEW T, NEW s \in Z!Wanted(c[i], T)
    PROVE  Z!Key(c[i], s) \in Z!KeysOf(c, T) /\ s \in Z!ToSet(c[i].entities) /\ c[i] \in Z!ToSet(c)
<1>1. c[i] \in Z!ToSet(c)
  BY AlignedAt
<1>2. s \in Z!ToSet(c[i].entities)
  BY DEF Z!Wanted
<1>3. QED
  BY <1>1, <1>2 DEF Z!KeysOf

LEMMA MaskCleans ==
    ASSUME NEW c, Aligned(c), NEW i \in 1..Len(c), NEW o \in ToSet(raw), Alike(c[i], o), NEW found, NEW fell,
           NEW T, T = Z!translate(found, raw, c), NEW R, R = [k \in Z!KeysOf(c, T) |-> <<k[1]>>]
    PROVE  Cleaner(found, fell, Z!_rewrite(c[i], T, R), c[i], o)
<1>1. ASSUME NEW s \in Z!Wanted(c[i], T)
      PROVE  /\ R[Z!Key(c[i], s)] \in Seq(Atoms) /\ R[Z!Key(c[i], s)] # <<>>
             /\ R[Z!Key(c[i], s)] # Z!value(c[i], s)
  <2>1. PICK r, e : r = c[i] /\ e = r.entities
    OBVIOUS
  <2>2. e \in Seq(Spans) /\ DOMAIN e = 1..Len(e) /\ Len(e) = Len(o.entities)
    BY <2>1, AlignedAt DEF Alike
  <2>3. PICK j \in 1..Len(e) : s = e[j]
    <3>1. s \in Z!ToSet(e)
      BY <2>1, WantedKey
    <3>2. QED
      BY <2>2, <3>1, SetOf
  <2>4. s \in Spans /\ s.entity_type \in DOMAIN Impact
    BY <2>2, <2>3, SpanTyped
  <2>5. s.entity_type \in Atoms
    BY <2>4 DEF Atoms
  <2>6. R[Z!Key(r, s)] = <<s.entity_type>>
    <3>1. Z!Key(r, s) \in Z!KeysOf(c, T) /\ Z!Key(r, s)[1] = s.entity_type
      BY <2>1, WantedKey DEF Z!Key
    <3>2. QED
      BY <3>1
  <2>7. Val(c[i], j) = Val(o, j) /\ j \in 1..Len(o.entities)
    <3>1. j \in 1..Len(o.entities) /\ c[i].entities[j] \in Z!Wanted(c[i], Z!translate(found, raw, c))
      BY <2>1, <2>2, <2>3
    <3>2. QED
      BY <3>1, WantedIs
  <2>8. Val(o, j) # <<o.entities[j].entity_type>> /\ o.entities[j].entity_type = s.entity_type
    BY <2>1, <2>3, <2>7, RawFacts DEF Alike
  <2>9. Z!value(r, s) # <<s.entity_type>>
    BY <2>1, <2>3, <2>7, <2>8 DEF Val
  <2>10. <<s.entity_type>> \in Seq(Atoms) /\ <<s.entity_type>> # <<>>
    BY <2>5
  <2>11. QED
    BY <2>1, <2>6, <2>9, <2>10
<1>2. QED
  BY <1>1, RewriteCleans

\* What a draw that fell back gives: a value of the same shape.
LEMMA PerturbTyped ==
    ASSUME NEW v \in Seq(Atoms), v # <<>>, NEW w \in Z!_perturb(v)
    PROVE  w \in Seq(Atoms) /\ w # <<>>
<1>1. DOMAIN v = 1..Len(v) /\ Len(v) \in Nat /\ Len(v) # 0
  OBVIOUS
<1>2. DOMAIN w = 1..Len(v) /\ \A i \in 1..Len(v) : w[i] \in Scrambled[v[i]]
  BY <1>1 DEF Z!_perturb
<1>3. \A i \in 1..Len(v) : w[i] \in Atoms
  <2>1. \A i \in 1..Len(v) : v[i] \in Atoms
    BY <1>1
  <2>2. QED
    BY <1>2, <2>1, ScrambledAssumption
<1>4. w = [i \in 1..Len(v) |-> w[i]]
  BY <1>1 DEF Z!_perturb
<1>5. w \in Seq(Atoms) /\ Len(w) = Len(v)
  BY <1>1, <1>3, <1>4
<1>6. QED
  BY <1>1, <1>5

LEMMA SurrogateCleans ==
    ASSUME NEW c, Aligned(c), NEW i \in 1..Len(c), NEW o \in ToSet(raw), Alike(c[i], o), NEW found, NEW fell,
           NEW T, T = Z!translate(found, raw, c), NEW R,
           \A k \in Z!KeysOf(c, T) : R[k] \in Z!sampler_one(c, Pool, k[2], k \in fell)
    PROVE  Cleaner(found, fell, Z!_rewrite(c[i], T, R), c[i], o)
<1>1. ASSUME NEW s \in Z!Wanted(c[i], T)
      PROVE  /\ R[Z!Key(c[i], s)] \in Seq(Atoms) /\ R[Z!Key(c[i], s)] # <<>>
             /\ Z!Key(c[i], s) \notin fell => R[Z!Key(c[i], s)] # Z!value(c[i], s)
  <2>1. PICK v, k : k = Z!Key(c[i], s) /\ v = R[k]
    OBVIOUS
  <2>2. v \in Z!sampler_one(c, Pool, k[2], k \in fell) /\ k[2] = Z!value(c[i], s)
    BY <2>1, WantedKey DEF Z!Key
  <2>3. Z!value(c[i], s) \in Z!seen(c)
    <3>1. c[i] \in Z!ToSet(c) /\ s \in Z!ToSet(c[i].entities)
      BY WantedKey
    <3>2. PICK r, V : r = c[i] /\ V = {Z!value(r, x) : x \in Z!ToSet(r.entities)}
      OBVIOUS
    <3>3. V \in {{Z!value(q, x) : x \in Z!ToSet(q.entities)} : q \in Z!ToSet(c)} /\ Z!value(c[i], s) \in V
      BY <3>1, <3>2
    <3>4. QED
      BY <3>3 DEF Z!seen
  <2>4. CASE k \notin fell
    <3>1. v \in Pool \ Z!seen(c)
      BY <2>2, <2>4 DEF Z!sampler_one
    <3>2. v \in Seq(Atoms) /\ v # <<>>
      BY <3>1, PoolAssumption
    <3>3. QED
      BY <2>1, <2>3, <3>1, <3>2
  <2>5. CASE k \in fell
    <3>1. v \in Z!_perturb(Z!value(c[i], s))
      BY <2>2, <2>5 DEF Z!sampler_one
    <3>2. Z!value(c[i], s) \in Seq(Atoms) /\ Z!value(c[i], s) # <<>>
      BY ValueTyped, WantedKey
    <3>3. v \in Seq(Atoms) /\ v # <<>>
      BY <3>1, <3>2, PerturbTyped
    <3>4. QED
      BY <2>1, <2>5, <3>3
  <2>6. QED
    BY <2>4, <2>5
<1>2. QED
  BY <1>1, RewriteCleans

LEMMA DropCleans ==
    ASSUME NEW c, Aligned(c), NEW i \in 1..Len(c), NEW o \in ToSet(raw), Alike(c[i], o), NEW found, NEW fell,
           NEW T, T = Z!translate(found, raw, c), Z!Wanted(c[i], T) = {}
    PROVE  Cleaner(found, fell, c[i], c[i], o)
<1>1. WellFormed(c[i])
  BY AlignedAt
<1>2. ASSUME NEW j \in 1..Len(o.entities), Sure(found, fell, o, j) \/ Val(c[i], j) # Val(o, j) PROVE Val(c[i], j) # Val(o, j)
  BY <1>2, WantedIs DEF Sure
<1>3. QED
  BY <1>1, <1>2 DEF Cleaner

\* A corpus d after a round that found these spans in c.
Follows(found, fell, d, c) ==
    /\ Aligned(d)
    /\ \A i \in 1..Len(d) : \E l \in 1..Len(c), o \in ToSet(raw) : Alike(c[l], o) /\ Cleaner(found, fell, d[i], c[l], o)

LEMMA FollowsRecords ==
    ASSUME NEW c, Aligned(c), NEW found, NEW fell, NEW n \in Nat, NEW d, NEW m \in [1..n -> 1..Len(c)],
           \A i, j \in 1..n : m[i] = m[j] => i = j,
           d = [i \in 1..n |-> d[i]],
           \A i \in 1..n : \A o \in ToSet(raw) : Alike(c[m[i]], o) => Cleaner(found, fell, d[i], c[m[i]], o)
    PROVE  Follows(found, fell, d, c) /\ Len(d) = n
<1>1. ASSUME NEW i \in 1..n
      PROVE  \E o \in ToSet(raw) : Alike(c[m[i]], o) /\ Cleaner(found, fell, d[i], c[m[i]], o) /\ Alike(d[i], o)
                                   /\ WellFormed(d[i]) /\ d[i].id = c[m[i]].id
  <2>1. m[i] \in 1..Len(c)
    OBVIOUS
  <2>2. PICK o \in ToSet(raw) : Alike(c[m[i]], o)
    BY <2>1 DEF Aligned
  <2>3. Cleaner(found, fell, d[i], c[m[i]], o)
    BY <2>2
  <2>4. QED
    BY <2>2, <2>3 DEF Cleaner
<1>2. \A i \in 1..n : d[i] \in Records
  BY <1>1 DEF WellFormed
<1>3. d \in Seq(Records) /\ Len(d) = n
  BY <1>2
<1>4. Corpus(d)
  BY <1>1, <1>3 DEF Corpus
<1>5. Distinct(d)
  <2>1. ASSUME NEW i \in 1..n, NEW j \in 1..n, d[i].id = d[j].id PROVE i = j
    <3>1. c[m[i]].id = c[m[j]].id /\ m[i] \in 1..Len(c) /\ m[j] \in 1..Len(c)
      BY <1>1, <2>1
    <3>2. m[i] = m[j]
      BY <3>1 DEF Aligned, Distinct
    <3>3. QED
      BY <3>2
  <2>2. QED
    BY <1>3, <2>1 DEF Distinct
<1>6. Aligned(d)
  BY <1>1, <1>3, <1>4, <1>5 DEF Aligned
<1>7. QED
  BY <1>1, <1>3, <1>6 DEF Follows

LEMMA Sanitized ==
    ASSUME NEW c, Aligned(c), NEW found, NEW fell, NEW T, T = Z!translate(found, raw, c), NEW how \in {"surrogate", "mask", "drop"},
           NEW d \in Z!sanitize(c, T, how, Pool, fell)
    PROVE  Follows(found, fell, d, c) /\ (how # "drop" => Len(d) = Len(c))
<1>1. Len(c) \in Nat /\ DOMAIN c = 1..Len(c)
  BY DEF Aligned, Corpus
<1>2. PICK n \in Nat : n = Len(c)
  BY <1>1
<1>3. ASSUME NEW R, d = [i \in 1..n |-> Z!_rewrite(c[i], T, R)],
             \A i \in 1..n : \A o \in ToSet(raw) : Alike(c[i], o) => Cleaner(found, fell, Z!_rewrite(c[i], T, R), c[i], o)
      PROVE  Follows(found, fell, d, c) /\ Len(d) = n
  <2>1. PICK m : m = [i \in 1..n |-> i]
    OBVIOUS
  <2>2. m \in [1..n -> 1..Len(c)] /\ \A i \in 1..n : m[i] = i
    BY <1>2, <2>1
  <2>3. d = [i \in 1..n |-> d[i]] /\ \A i \in 1..n : d[i] = Z!_rewrite(c[i], T, R)
    BY <1>3
  <2>4. \A i \in 1..n : \A o \in ToSet(raw) : Alike(c[m[i]], o) => Cleaner(found, fell, d[i], c[m[i]], o)
    BY <1>3, <2>2, <2>3
  <2>5. \A i, j \in 1..n : m[i] = m[j] => i = j
    BY <2>2
  <2>6. QED
    BY <2>2, <2>3, <2>4, <2>5, FollowsRecords
<1>4. CASE how = "mask"
  <2>1. PICK R : R = [k \in Z!KeysOf(c, T) |-> <<k[1]>>]
    OBVIOUS
  <2>2. d = [i \in 1..n |-> Z!_rewrite(c[i], T, R)]
    BY <1>1, <1>2, <1>4, <2>1 DEF Z!sanitize
  <2>3. \A i \in 1..n : \A o \in ToSet(raw) : Alike(c[i], o) => Cleaner(found, fell, Z!_rewrite(c[i], T, R), c[i], o)
    BY <1>2, <2>1, MaskCleans
  <2>4. QED
    BY <1>2, <1>3, <2>2, <2>3
<1>5. CASE how = "surrogate"
  <2>1. PICK R : /\ d = [i \in 1..n |-> Z!_rewrite(c[i], T, R)]
                 /\ \A k \in Z!KeysOf(c, T) : R[k] \in Z!sampler_one(c, Pool, k[2], k \in fell)
    BY <1>1, <1>2, <1>5 DEF Z!sanitize
  <2>2. \A i \in 1..n : \A o \in ToSet(raw) : Alike(c[i], o) => Cleaner(found, fell, Z!_rewrite(c[i], T, R), c[i], o)
    BY <1>2, <2>1, SurrogateCleans
  <2>3. QED
    BY <1>2, <1>3, <2>1, <2>2
<1>6. CASE how = "drop"
  <2>1. PICK I : I = {i \in 1..n : Z!Wanted(c[i], T) = {}}
    OBVIOUS
  <2>2. PICK m \in Z!Ascending(I) : d = [i \in DOMAIN m |-> c[m[i]]]
    BY <1>1, <1>2, <1>6, <2>1 DEF Z!sanitize
  <2>3. I \in SUBSET Nat /\ I \subseteq 1..n /\ \A s \in I : s <= n
    BY <2>1
  <2>4. IsFiniteSet(I) /\ Cardinality(I) \in Nat
    BY <2>3, FS_BoundedSetOfNaturals, FS_CardinalityType
  <2>5. PICK k \in Nat : k = Cardinality(I)
    BY <2>4
  <2>6. m \in [1..k -> I] /\ Rises(m, k)
    BY <2>2, <2>5, AscendingOf
  <2>7. m \in Injection(1..k, I)
    BY <2>3, <2>6, RisingInjects
  <2>8. \A i, j \in 1..k : m[i] = m[j] => i = j
    BY <2>6, <2>7 DEF Injection, IsInjective
  <2>9. d = [i \in 1..k |-> d[i]] /\ \A i \in 1..k : d[i] = c[m[i]] /\ m[i] \in I
    BY <2>2, <2>6
  <2>10. m \in [1..k -> 1..Len(c)]
    BY <1>2, <2>3, <2>6
  <2>11. ASSUME NEW i \in 1..k, NEW o \in ToSet(raw), Alike(c[m[i]], o) PROVE Cleaner(found, fell, d[i], c[m[i]], o)
    <3>1. Z!Wanted(c[m[i]], T) = {} /\ m[i] \in 1..Len(c)
      BY <1>2, <2>1, <2>9
    <3>2. Cleaner(found, fell, c[m[i]], c[m[i]], o)
      BY <2>11, <3>1, DropCleans
    <3>3. QED
      BY <2>9, <3>2
  <2>12. Follows(found, fell, d, c)
    BY <2>8, <2>9, <2>10, <2>11, FollowsRecords
  <2>13. QED
    BY <1>6, <2>12
<1>7. QED
  BY <1>4, <1>5, <1>6

\* The same for the first records.
LEMMA FollowsPrefix ==
    ASSUME NEW found, NEW fell, NEW d, NEW c, Follows(found, fell, d, c), NEW k \in 0..Len(d), NEW p, p = [i \in 1..k |-> d[i]]
    PROVE  Follows(found, fell, p, c)
<1>1. Aligned(d) /\ Corpus(d)
  BY DEF Follows, Aligned
<1>2. Corpus(p) /\ Len(d) \in Nat
  BY <1>1, WrittenPrefix DEF Corpus
<1>3. Len(p) = k /\ \A i \in 1..k : p[i] = d[i] /\ i \in 1..Len(d)
  BY <1>2
<1>4. Distinct(p)
  BY <1>1, <1>3 DEF Aligned, Distinct
<1>5. Aligned(p)
  BY <1>1, <1>2, <1>3, <1>4 DEF Aligned
<1>6. QED
  BY <1>3, <1>5 DEF Follows

-----------------------------------------------------------------------------
(* The rounds. *)

\* How far a run is: each raise of the version is paid by a build.
Counted ==
    /\ pc \in Steps /\ strategy \in Strategies
    /\ attempt \in 0..MaxRounds /\ (pc \in {"chosen", "copied", "written"} => attempt # MaxRounds)
    /\ builds \in 0..MaxBuilds /\ version \in 0..builds
    /\ pc \in {"audited", "built", "chosen", "copied", "written"} => version # builds
    /\ DOMAIN history \subseteq 0..version /\ torn \subseteq 0..version

LEMMA InitCounted == Init => Counted
BY BoundsAssumption DEF Init, Counted, Steps

LEMMA NextCounted == ASSUME Counted, [Next]_vars PROVE Counted'
<1> USE BoundsAssumption
<1>1. CASE Start
  BY <1>1 DEF Start, Counted, Steps, files
<1>2. CASE RunPipeline
  BY <1>2 DEF RunPipeline, Counted, Steps, files
<1>3. CASE Build
  BY <1>3 DEF Build, Counted, Steps, files
<1>4. CASE BuildFails \/ Finish
  <2>1. UNCHANGED <<files, builds, torn>> /\ pc' = "idle" /\ attempt' = 0
    BY <1>4 DEF BuildFails, Finish, Ends
  <2>2. QED
    BY <2>1 DEF Counted, Steps, files
<1>5. CASE Choose
  <2>1. attempt # MaxRounds
    BY <1>5 DEF Choose, LoopEnds
  <2>2. QED
    BY <1>5, <2>1 DEF Choose, Counted, Steps, files
<1>6. CASE KeepHistory
  <2>1. DOMAIN history' = DOMAIN history \cup {version}
    BY <1>6 DEF KeepHistory
  <2>2. version \in 0..version
    BY DEF Counted
  <2>3. QED
    BY <1>6, <2>1, <2>2 DEF KeepHistory, Counted, Steps
<1>7. CASE WriteTrain
  BY <1>7 DEF WriteTrain, Counted, Steps
<1>8. CASE SetVersion
  BY <1>8 DEF SetVersion, bump_minor, Counted, Steps
<1>9. CASE Crash
  BY <1>9 DEF Crash, Ends, Counted, Steps, files
<1>10. CASE CrashWriting
  BY <1>10 DEF CrashWriting, Ends, Counted, Steps
<1>11. CASE UNCHANGED vars
  BY <1>11 DEF vars, files, Counted, Steps
<1>12. QED
  BY <1>1, <1>2, <1>3, <1>4, <1>5, <1>6, <1>7, <1>8, <1>9, <1>10, <1>11 DEF Next

\* The positions of the original that are due to be replaced in the corpus c
\* do not hold their values there.
Done(D, c) ==
    \A x \in D : /\ \E o \in ToSet(raw) : o.id = x[1] /\ x[2] \in 1..Len(o.entities)
                 /\ \A i \in 1..Len(c), o \in ToSet(raw) :
                        c[i].id = x[1] /\ o.id = x[1] => Val(c[i], x[2]) # Val(o, x[2])

\* The training data follow the original, and so do the places chosen in them.
InPlace ==
    /\ Aligned(Train) /\ Done(due, Train)
    /\ torn = {} /\ strategy # "drop" => Len(Train) = Len(raw)
    /\ pc \in {"chosen", "copied"} => chosen.places = Z!translate(chosen.found, raw, Train)

LEMMA RawAligned == Aligned(raw)
<1>1. ASSUME NEW i \in 1..Len(raw) PROVE \E o \in ToSet(raw) : Alike(raw[i], o)
  BY RawFacts DEF Alike
<1>2. QED
  BY <1>1, RawFacts DEF Aligned

LEMMA InitInPlace == Init => InPlace
<1> SUFFICES ASSUME Init PROVE InPlace
  OBVIOUS
<1>1. Train = raw
  BY DEF Init, Train, raw
<1>2. due = {} /\ pc = "idle"
  BY DEF Init
<1>3. QED
  BY <1>1, <1>2, RawAligned DEF InPlace, Done

\* A round leaves done what was done, and does what it found.
LEMMA FollowsDone ==
    ASSUME NEW c, Aligned(c), NEW D, Done(D, c), NEW found, NEW fell, NEW d, Follows(found, fell, d, c)
    PROVE  Done(D, d) /\ Done(D \cup Positions(found, fell), d)
<1>1. ASSUME NEW x \in D PROVE \E o \in ToSet(raw) : o.id = x[1] /\ x[2] \in 1..Len(o.entities)
  BY DEF Done
<1>2. ASSUME NEW x \in Positions(found, fell)
      PROVE  \E o \in ToSet(raw) : o.id = x[1] /\ x[2] \in 1..Len(o.entities) /\ Sure(found, fell, o, x[2])
  <2>1. PICK o \in ToSet(raw) : \E j \in DOMAIN o.entities :
            x = <<o.id, j>> /\ <<o.id, o.entities[j].start, o.entities[j].end>> \in found
            /\ Z!Key(o, o.entities[j]) \notin fell
    BY <1>2 DEF Positions
  <2>2. PICK j \in DOMAIN o.entities : x = <<o.id, j>> /\ <<o.id, o.entities[j].start, o.entities[j].end>> \in found
            /\ Z!Key(o, o.entities[j]) \notin fell
    BY <2>1
  <2>3. x[1] = o.id /\ x[2] = j
    BY <2>2
  <2>4. j \in 1..Len(o.entities)
    BY RawFacts, WellFormedParts
  <2>5. QED
    BY <2>2, <2>3, <2>4 DEF Hit, Sure
<1>3. ASSUME NEW x \in D \cup Positions(found, fell), NEW i \in 1..Len(d), NEW o \in ToSet(raw), d[i].id = x[1], o.id = x[1]
      PROVE  Val(d[i], x[2]) # Val(o, x[2])
  <2>1. PICK l \in 1..Len(c), p \in ToSet(raw) : Alike(c[l], p) /\ Cleaner(found, fell, d[i], c[l], p)
    BY DEF Follows
  <2>2. c[l].id = x[1] /\ p.id = x[1]
    BY <1>3, <2>1 DEF Cleaner, Alike
  <2>3. p = o
    BY <1>3, <2>2, RawFacts
  <2>4. x[2] \in 1..Len(o.entities)
    BY <1>1, <1>2, <1>3, RawFacts
  <2>5. Sure(found, fell, o, x[2]) \/ Val(c[l], x[2]) # Val(o, x[2])
    <3>1. CASE x \in D
      BY <1>3, <2>2, <3>1 DEF Done
    <3>2. CASE x \in Positions(found, fell)
      BY <1>2, <1>3, <3>2, RawFacts
    <3>3. QED
      BY <3>1, <3>2
  <2>6. QED
    BY <2>1, <2>3, <2>4, <2>5 DEF Cleaner
<1>4. QED
  BY <1>1, <1>2, <1>3 DEF Done

\* Steps that leave the data alone.
LEMMA StaysInPlace ==
    ASSUME InPlace, train' = train, due' = due, strategy' = strategy, torn \subseteq torn',
           \/ pc' \notin {"chosen", "copied"}
           \/ pc \in {"chosen", "copied"} /\ chosen' = chosen
           \/ chosen'.places = Z!translate(chosen'.found, raw, Train)
    PROVE  InPlace'
<1>1. Train' = Train
  BY DEF Train
<1>2. pc' \in {"chosen", "copied"} => chosen'.places = Z!translate(chosen'.found, raw, Train)
  BY DEF InPlace
<1>3. torn' = {} => torn = {}
  OBVIOUS
<1>4. QED
  BY <1>1, <1>2, <1>3 DEF InPlace

LEMMA WriteTrainInPlace == ASSUME InPlace, Counted, WriteTrain PROVE InPlace'
<1>1. pc = "copied" /\ pc' = "written" /\ torn' = torn /\ strategy' = strategy
  BY DEF WriteTrain
<1>0. PICK fell \in Fallbacks : /\ \E d \in Cleaned(fell) : train' = Z!write_corpus(d)
                                 /\ due' = due \cup Positions(chosen.found, fell)
  BY DEF WriteTrain
<1>2. PICK d \in Z!sanitize(Train, chosen.places, strategy, Pool, fell) : train' = Z!write_corpus(d)
  BY <1>0 DEF Cleaned
<1>3. PICK found, c, D : found = chosen.found /\ c = Train /\ D = due
  OBVIOUS
<1>4. Aligned(c) /\ Done(D, c) /\ chosen.places = Z!translate(found, raw, c)
  BY <1>1, <1>3 DEF InPlace
<1>5. strategy \in {"surrogate", "mask", "drop"}
  BY StrategiesAssumption DEF Counted
<1>6. Follows(found, fell, d, c) /\ (strategy # "drop" => Len(d) = Len(c))
  BY <1>2, <1>3, <1>4, <1>5, Sanitized
<1>7. Aligned(d) /\ Done(D \cup Positions(found, fell), d)
  BY <1>4, <1>6, FollowsDone DEF Follows
<1>8. Train' = d
  <2>1. Corpus(d)
    BY <1>7 DEF Aligned
  <2>2. QED
    BY <1>2, <2>1, LoadWritten DEF Train
<1>9. QED
  BY <1>0, <1>1, <1>3, <1>6, <1>7, <1>8 DEF InPlace

LEMMA CrashWritingInPlace == ASSUME InPlace, Counted, CrashWriting PROVE InPlace'
<1>1. pc = "copied" /\ pc' = "idle" /\ due' = due /\ torn' = torn \cup {version} /\ strategy' = strategy
  BY DEF CrashWriting, Ends
<1>0. PICK fell \in Fallbacks : \E d \in Cleaned(fell) :
        \E k \in 0..(Len(d) - 1) : train' = SubSeq(Z!write_corpus(d), 1, k)
  BY DEF CrashWriting
<1>2. PICK d \in Z!sanitize(Train, chosen.places, strategy, Pool, fell) :
        \E k \in 0..(Len(d) - 1) : train' = SubSeq(Z!write_corpus(d), 1, k)
  BY <1>0 DEF Cleaned
<1>3. PICK found, c, D : found = chosen.found /\ c = Train /\ D = due
  OBVIOUS
<1>4. Aligned(c) /\ Done(D, c) /\ chosen.places = Z!translate(found, raw, c)
  BY <1>1, <1>3 DEF InPlace
<1>5. strategy \in {"surrogate", "mask", "drop"}
  BY StrategiesAssumption DEF Counted
<1>6. Follows(found, fell, d, c)
  BY <1>2, <1>3, <1>4, <1>5, Sanitized
<1>7. Corpus(d) /\ Len(d) \in Nat
  BY <1>6 DEF Follows, Aligned, Corpus
<1>8. PICK k \in 0..Len(d) : train' = SubSeq(Z!write_corpus(d), 1, k)
  BY <1>2, <1>7
<1>9. PICK p : p = [i \in 1..k |-> d[i]]
  OBVIOUS
<1>10. train' = Z!write_corpus(p) /\ Corpus(p)
  BY <1>7, <1>8, <1>9, WrittenPrefix
<1>11. Follows(found, fell, p, c)
  BY <1>6, <1>8, <1>9, FollowsPrefix
<1>12. Aligned(p) /\ Done(D, p)
  BY <1>4, <1>11, FollowsDone DEF Follows
<1>13. Train' = p
  BY <1>10, LoadWritten DEF Train
<1>14. QED
  BY <1>1, <1>3, <1>12, <1>13 DEF InPlace

LEMMA NextInPlace == ASSUME InPlace, Counted, [Next]_vars PROVE InPlace'
<1>1. CASE Start \/ RunPipeline \/ Build \/ BuildFails \/ Finish \/ Crash \/ SetVersion
  BY <1>1, StaysInPlace DEF Start, RunPipeline, Build, BuildFails, Finish, Crash, SetVersion, Ends, files
<1>2. CASE Choose
  <2>1. chosen'.places = Z!translate(chosen'.found, raw, Train)
    BY <1>2 DEF Choose
  <2>2. QED
    BY <1>2, <2>1, StaysInPlace DEF Choose, files
<1>3. CASE KeepHistory
  BY <1>3, StaysInPlace DEF KeepHistory, round
<1>4. CASE WriteTrain
  BY <1>4, WriteTrainInPlace
<1>5. CASE CrashWriting
  BY <1>5, CrashWritingInPlace
<1>6. CASE UNCHANGED vars
  BY <1>6, StaysInPlace DEF vars, files, round
<1>7. QED
  BY <1>1, <1>2, <1>3, <1>4, <1>5, <1>6 DEF Next

LEMMA InPlaceMeans == ASSUME InPlace, Counted PROVE SanitizedInPlace
<1>1. TypeOK
  <2>1. ASSUME NEW x \in due PROVE \E r \in ToSet(raw) : r.id = x[1] /\ x[2] \in DOMAIN r.entities
    <3>1. PICK o \in ToSet(raw) : o.id = x[1] /\ x[2] \in 1..Len(o.entities)
      BY DEF InPlace, Done
    <3>2. DOMAIN o.entities = 1..Len(o.entities)
      BY RawFacts, WellFormedParts
    <3>3. QED
      BY <3>1, <3>2
  <2>2. version \in 0..MaxBuilds
    BY BoundsAssumption DEF Counted
  <2>3. QED
    BY <2>1, <2>2 DEF TypeOK, Counted, Steps
<1>2. PICK c : c = Train
  OBVIOUS
<1>3. Aligned(c) /\ Done(due, c)
  BY <1>2 DEF InPlace
<1>4. ToSet(c) = {c[i] : i \in 1..Len(c)}
  BY <1>3, SetOf DEF Aligned, Corpus
<1>5. TrainAligned
  <2>1. ASSUME NEW i \in 1..Len(c)
        PROVE  \E o \in ToSet(raw) :
                  /\ c[i].id = o.id /\ Gaps(c[i]) = Gaps(o)
                  /\ [j \in DOMAIN c[i].entities |-> c[i].entities[j].entity_type] =
                     [j \in DOMAIN o.entities |-> o.entities[j].entity_type]
    <3>1. PICK o \in ToSet(raw) : Alike(c[i], o)
      BY <1>3 DEF Aligned
    <3>2. DOMAIN o.entities = 1..Len(o.entities)
      BY RawFacts, WellFormedParts
    <3>3. DOMAIN c[i].entities = 1..Len(o.entities)
      BY <1>3, <3>1, AlignedAt DEF Alike
    <3>4. QED
      BY <3>1, <3>2, <3>3 DEF Alike
  <2>2. QED
    BY <1>2, <1>4, <2>1 DEF TrainAligned, InPlace
<1>6. RiskyReplaced
  BY <1>2, <1>3, <1>4 DEF RiskyReplaced, Done, Val
<1>7. QED
  BY <1>1, <1>5, <1>6 DEF SanitizedInPlace

\* Through any rounds, strategies, lengths of replacements and crashes, the
\* training data stay the original with values replaced in place, and hold no
\* value that a completed round had to replace (llm/remediate.py translates
\* what it found by position; llm/sanitize.py moves the spans that follow).
THEOREM Sanitizing == Spec => []SanitizedInPlace
<1>1. Init => Counted /\ InPlace
  BY InitCounted, InitInPlace
<1>2. Counted /\ InPlace /\ [Next]_vars => Counted' /\ InPlace'
  BY NextCounted, NextInPlace
<1>3. Counted /\ InPlace => SanitizedInPlace
  BY InPlaceMeans
<1>4. QED
  BY <1>1, <1>2, <1>3, PTL DEF Spec

-----------------------------------------------------------------------------
(* Finite sets, and the least and the greatest of them. *)

LEMMA Counts ==
    /\ \A S : X!Cardinality(S) = Cardinality(S)
    /\ \A S : P!Cardinality(S) = Cardinality(S)
<1>1. \A S : X!Cardinality(S) = Cardinality(S)
  BY DEF X!Cardinality, Cardinality
<1>2. \A S : P!Cardinality(S) = Cardinality(S)
  BY DEF P!Cardinality, Cardinality
<1>3. QED
  BY <1>1, <1>2

LEMMA ImageFinite ==
    ASSUME NEW S, IsFiniteSet(S), NEW f
    PROVE  IsFiniteSet({f[x] : x \in S})
<1>1. [x \in S |-> f[x]] \in Surjection(S, {f[x] : x \in S})
  BY DEF Surjection
<1>2. QED
  BY <1>1, FS_Surjection

LEMMA UnionFinite ==
    ASSUME NEW S, IsFiniteSet(S), NEW f, \A x \in S : IsFiniteSet(f[x])
    PROVE  IsFiniteSet(UNION {f[x] : x \in S})
<1>1. IsFiniteSet({f[x] : x \in S})
  BY ImageFinite
<1>2. QED
  BY <1>1, FS_UNION

LEMMA NoneCounted ==
    ASSUME NEW S, IsFiniteSet(S), ~ (Cardinality(S) > 0)
    PROVE  S = {}
BY FS_CardinalityType, FS_EmptySet

\* Among finitely many, one is greatest: the one with most below it.
LEMMA Greatest ==
    ASSUME NEW S, IsFiniteSet(S), S # {}, NEW f \in [S -> Int]
    PROVE  \E i \in S : \A j \in S : f[j] <= f[i]
<1> DEFINE Upto(i) == {j \in S : f[j] <= f[i]}
           T == {Cardinality(S) - Cardinality(Upto(i)) : i \in S}
<1>1. \A i \in S : /\ IsFiniteSet(Upto(i)) /\ Cardinality(Upto(i)) \in Nat
                   /\ Cardinality(Upto(i)) <= Cardinality(S)
  BY FS_Subset, FS_CardinalityType
<1>2. Cardinality(S) \in Nat
  BY FS_CardinalityType
<1>3. T \subseteq Nat /\ T # {}
  <2>1. \A i \in S : Cardinality(S) - Cardinality(Upto(i)) \in Nat
    <3> HIDE DEF Upto
    <3> QED BY <1>1, <1>2
  <2>2. QED
    BY <2>1, Zenon
<1>4. PICK m \in T : \A k \in T : m <= k
  <2> HIDE DEF T
  <2> QED BY <1>3, Least
<1>5. PICK i \in S : m = Cardinality(S) - Cardinality(Upto(i))
  OBVIOUS
<1>6. ASSUME NEW j \in S, ~ (f[j] <= f[i])
      PROVE  FALSE
  <2>1. Upto(i) \in SUBSET Upto(j) /\ j \in Upto(j) /\ j \notin Upto(i)
    BY <1>6
  <2>2. Cardinality(Upto(i)) <= Cardinality(Upto(j)) /\ Cardinality(Upto(j)) # Cardinality(Upto(i))
    <3> HIDE DEF Upto
    <3> QED BY <2>1, <1>1, FS_Subset
  <2>3. m <= Cardinality(S) - Cardinality(Upto(j))
    BY <1>4
  <2> HIDE DEF Upto
  <2>4. QED
    BY <2>2, <2>3, <1>1, <1>2, <1>5
<1>7. QED
  BY <1>6

LEMMA LeastIs ==
    ASSUME NEW T, T \subseteq Nat, T # {}
    PROVE  /\ X!Min(T) \in T /\ \A j \in T : X!Min(T) <= j
           /\ P!Min(T) \in T /\ \A j \in T : P!Min(T) <= j
<1>1. \E i \in T : \A j \in T : i <= j
  BY Least
<1>2. QED
  BY <1>1 DEF X!Min, P!Min

LEMMA GreatestIs ==
    ASSUME NEW T, T \subseteq Int, T # {}, IsFiniteSet(T)
    PROVE  X!Max(T) \in T /\ \A j \in T : j <= X!Max(T)
<1>1. [x \in T |-> x] \in [T -> Int]
  OBVIOUS
<1>2. \E i \in T : \A j \in T : [x \in T |-> x][j] <= [x \in T |-> x][i]
  BY <1>1, Greatest
<1>3. \E i \in T : \A j \in T : i >= j
  BY <1>2
<1>4. PICK i : i = X!Max(T)
  OBVIOUS
<1>5. i \in T /\ \A j \in T : i >= j
  BY <1>3, <1>4 DEF X!Max
<1>6. QED
  BY <1>4, <1>5

-----------------------------------------------------------------------------
(* Rules that pass. *)

LEMMA PassMeans ==
    ASSUME NEW r, NEW limit, NEW p, NEW missing, missing # "pass",
           P!evaluate_rule(r, limit, p, missing) = "pass"
    PROVE  /\ P!RULES(r, p) # NONE
           /\ P!KindOf(r) = "flag" => limit = "pass" \/ ~ (P!RULES(r, p) > 0)
           /\ P!KindOf(r) # "flag" => ~ P!_violates(P!KindOf(r), P!RULES(r, p), limit.fail)
BY DEF P!evaluate_rule

-----------------------------------------------------------------------------
(* What a build reports of a site. *)

Looked(s) == IF s.privacy THEN {t \in s.datasets : t.tabular} ELSE {}

ModelOf(s) == CHOOSE a \in s.artifacts : a.kind = "model"

LEMMA ReportOf ==
    ASSUME NEW s, X!_run_checks(s) # X!Failed
    PROVE  /\ Report(s).privacy.datasets_scanned = {t.name : t \in Looked(s)}
           /\ Report(s).privacy.data_findings = UNION {X!pii_findings(t, s.sample_size) : t \in Looked(s)}
           /\ Report(s).privacy.reidentification = {X!assess(t) : t \in Looked(s)}
           /\ Report(s).privacy.leakage = X!assess_leakage(s, ModelOf(s))
           /\ Report(s).security = X!assess_models(s)
           /\ X!assess_leakage(s, ModelOf(s)) # X!Failed
<1> DEFINE privacy == X!assess_privacy(s)
           leakage == X!assess_leakage(s, ModelOf(s))
<1>1. X!_run_checks(s) = IF X!Failed \in {privacy, leakage} THEN X!Failed
        ELSE [privacy |-> [datasets_scanned |-> privacy.datasets_scanned,
                           data_findings |-> privacy.data_findings,
                           reidentification |-> privacy.reidentification,
                           leakage |-> leakage],
              security |-> X!assess_models(s)]
  BY DEF X!_run_checks, ModelOf
<1>2. privacy # X!Failed /\ leakage # X!Failed
  BY <1>1, Zenon
<1>3. privacy = [datasets_scanned |-> {t.name : t \in Looked(s)},
                 data_findings |-> UNION {X!pii_findings(t, s.sample_size) : t \in Looked(s)},
                 reidentification |-> {X!assess(t) : t \in Looked(s)}]
  BY <1>2, Zenon DEF X!assess_privacy, Looked
<1>4. PICK c : c = X!_run_checks(s)
  OBVIOUS
<1>5. c = [privacy |-> [datasets_scanned |-> privacy.datasets_scanned,
                        data_findings |-> privacy.data_findings,
                        reidentification |-> privacy.reidentification,
                        leakage |-> leakage],
           security |-> X!assess_models(s)]
  BY <1>1, <1>2, <1>4, Zenon
<1>6. Report(s) = [privacy |-> [datasets_scanned |-> c.privacy.datasets_scanned,
                                data_findings |-> c.privacy.data_findings,
                                reidentification |-> c.privacy.reidentification,
                                leakage |-> c.privacy.leakage,
                                entity_audit |-> audit],
                   security |-> c.security]
  BY <1>4 DEF Report
<1> HIDE DEF privacy, leakage
<1>7. /\ Report(s).privacy.datasets_scanned = privacy.datasets_scanned
      /\ Report(s).privacy.data_findings = privacy.data_findings
      /\ Report(s).privacy.reidentification = privacy.reidentification
      /\ Report(s).privacy.leakage = leakage
      /\ Report(s).security = X!assess_models(s)
  BY <1>5, <1>6
<1>8. /\ privacy.datasets_scanned = {t.name : t \in Looked(s)}
      /\ privacy.data_findings = UNION {X!pii_findings(t, s.sample_size) : t \in Looked(s)}
      /\ privacy.reidentification = {X!assess(t) : t \in Looked(s)}
  BY <1>3
<1>9. QED
  BY <1>2, <1>7, <1>8 DEF leakage

-----------------------------------------------------------------------------
(* Security. *)

LEMMA FourFinite ==
    ASSUME NEW a, NEW b, NEW c, NEW d
    PROVE  IsFiniteSet({a, b, c, d})
<1>1. IsFiniteSet({a})
  BY FS_Singleton
<1>2. IsFiniteSet({a} \cup {b})
  BY <1>1, FS_AddElement
<1>3. IsFiniteSet(({a} \cup {b}) \cup {c})
  BY <1>2, FS_AddElement
<1>4. IsFiniteSet((({a} \cup {b}) \cup {c}) \cup {d})
  BY <1>3, FS_AddElement
<1>5. {a, b, c, d} = (({a} \cup {b}) \cup {c}) \cup {d}
  OBVIOUS
<1>6. QED
  BY <1>4, <1>5

LEMMA SecretsFinite ==
    ASSUME NEW s \in Sites \cup LaterSites
    PROVE  IsFiniteSet(X!scan_secrets(s.artifacts).findings)
<1> DEFINE scanned == {a \in s.artifacts : a.kind # "model"}
           kinds == DOMAIN X!PATTERNS \cup {"HIGH_ENTROPY_STRING"}
           severities == {"critical", "high", "medium"}
           of(a) == [x \in kinds \X severities |-> [path |-> a.path, kind |-> x[1], severity |-> x[2]]]
           file == [a \in scanned |-> X!scan_file(a)]
<1>1. IsFiniteSet(kinds)
  <2>1. kinds = {"LLM_API_KEY", "JWT", "GENERIC_SECRET_ASSIGNMENT", "HIGH_ENTROPY_STRING"}
    BY DEF X!PATTERNS
  <2> HIDE DEF kinds
  <2>2. QED
    BY <2>1, FourFinite
<1>2. IsFiniteSet(severities)
  <2>1. severities = {"critical", "high", "medium", "medium"}
    OBVIOUS
  <2>2. QED
    BY <2>1, FourFinite
<1>3. IsFiniteSet(kinds \X severities)
  BY <1>1, <1>2, FS_Product
<1>4. ASSUME NEW a \in scanned
      PROVE  IsFiniteSet(X!scan_file(a))
  <2> DEFINE bound == {of(a)[x] : x \in kinds \X severities}
  <2>1. IsFiniteSet(bound)
    <3> HIDE DEF of, kinds, severities
    <3> QED BY <1>3, ImageFinite
  <2>2. ASSUME NEW i \in DOMAIN a.lines, NEW h \in X!_scan_line(a.lines[i])
        PROVE  h.kind \in kinds /\ h.severity \in severities
    <3>1. \A t \in a.lines[i] : t.pattern \in DOMAIN X!PATTERNS \cup {NONE}
      BY SitesAssumption
    <3>2. CASE h \in {[kind |-> "HIGH_ENTROPY_STRING", severity |-> "medium"] :
                        t \in {t \in a.lines[i] : ~ X!Matches(t) /\ t.random}}
      BY <3>2
    <3>3. CASE h \in {[kind |-> t.pattern, severity |-> X!PATTERNS[t.pattern]] :
                        t \in {t \in a.lines[i] : X!Matches(t)}}
      <4>1. PICK t \in a.lines[i] : X!Matches(t) /\ h = [kind |-> t.pattern, severity |-> X!PATTERNS[t.pattern]]
        BY <3>3
      <4>2. t.pattern \in DOMAIN X!PATTERNS
        BY <4>1, <3>1 DEF X!Matches
      <4>3. X!PATTERNS[t.pattern] \in severities
        BY <4>2 DEF X!PATTERNS
      <4>4. h.kind = t.pattern /\ h.severity = X!PATTERNS[t.pattern]
        BY <4>1
      <4>5. QED
        BY <4>2, <4>3, <4>4
    <3>4. QED
      BY <3>2, <3>3 DEF X!_scan_line
  <2>3. X!scan_file(a) \in SUBSET bound
    <3>1. ASSUME NEW g \in X!scan_file(a)
          PROVE  g \in bound
      <4>1. PICK i \in DOMAIN a.lines : \E h \in X!_scan_line(a.lines[i]) :
                g = [path |-> a.path, kind |-> h.kind, severity |-> h.severity]
        BY <3>1 DEF X!scan_file
      <4> PICK h \in X!_scan_line(a.lines[i]) : g = [path |-> a.path, kind |-> h.kind, severity |-> h.severity]
        BY <4>1
      <4>2. <<h.kind, h.severity>> \in kinds \X severities
        BY <2>2
      <4>3. of(a)[<<h.kind, h.severity>>] = g
        BY <4>1, <4>2
      <4>4. QED
        <5> HIDE DEF of
        <5> QED BY <4>2, <4>3
    <3>2. QED
      BY <3>1
  <2>4. QED
    <3> HIDE DEF bound
    <3> QED BY <2>1, <2>3, FS_Subset
<1>5. IsFiniteSet(scanned)
  BY SitesAssumption, FS_Subset
<1>6. \A a \in scanned : IsFiniteSet(file[a])
  BY <1>4
<1>7. IsFiniteSet(UNION {file[a] : a \in scanned})
  <2> HIDE DEF file, scanned
  <2> QED BY <1>5, <1>6, UnionFinite
<1>8. UNION {file[a] : a \in scanned} = X!scan_secrets(s.artifacts).findings
  BY DEF X!scan_secrets
<1>9. QED
  BY <1>7, <1>8

LEMMA SecretsHold ==
    ASSUME NEW s \in Sites \cup LaterSites, NEW p, p.security = X!assess_models(s),
           P!_secrets(p) # NONE, ~ (P!_secrets(p) > 0)
    PROVE  Holds("secrets_found_max", s)
<1> DEFINE findings == X!scan_secrets(s.artifacts).findings
           serious == {f \in findings : f.severity \in {"high", "critical"}}
<1>1. p.security.files_scanned_for_secrets # NONE /\ P!_secrets(p) =
        Cardinality({f \in p.security.secret_findings : f.severity \in {"high", "critical"}})
  BY Counts DEF P!_secrets
<1>2. s.scan_secrets /\ p.security.secret_findings = findings
  BY <1>1 DEF X!assess_models
<1>3. IsFiniteSet(serious)
  <2> HIDE DEF findings
  <2> QED BY SecretsFinite, FS_Subset DEF findings
<1>4. serious = {}
  <2> HIDE DEF findings
  <2>1. P!_secrets(p) = Cardinality(serious)
    BY <1>1, <1>2
  <2> QED BY <2>1, <1>3, NoneCounted
<1>5. ASSUME NEW a \in s.artifacts, a.kind # "model", ~ X!Unread(a),
             NEW i \in DOMAIN a.lines, NEW t \in a.lines[i], t.pattern # NONE, X!Matches(t)
      PROVE  FALSE
  <2> DEFINE h == [kind |-> t.pattern, severity |-> X!PATTERNS[t.pattern]]
             g == [path |-> a.path, kind |-> h.kind, severity |-> h.severity]
  <2>1. h \in X!_scan_line(a.lines[i])
    BY <1>5 DEF X!_scan_line
  <2>2. g \in X!scan_file(a)
    <3> HIDE DEF h
    <3> QED BY <2>1, <1>5 DEF X!scan_file
  <2>3. g \in findings
    <3> HIDE DEF g
    <3> QED BY <2>2, <1>5 DEF X!scan_secrets
  <2>4. t.pattern \in DOMAIN X!PATTERNS
    BY <1>5, SitesAssumption
  <2>5. X!PATTERNS[t.pattern] \in {"high", "critical"}
    BY <2>4 DEF X!PATTERNS
  <2>6. g.severity = X!PATTERNS[t.pattern]
    OBVIOUS
  <2>7. g \in serious
    <3> HIDE DEF g, findings
    <3> QED BY <2>3, <2>5, <2>6
  <2>8. QED
    <3> HIDE DEF g, findings
    <3> QED BY <2>7, <1>4
<1>6. \A a \in s.artifacts : a.kind = "model" \/ X!Unread(a) \/
        \A i \in DOMAIN a.lines : \A t \in a.lines[i] :
            t.pattern # NONE => t.pattern = "GENERIC_SECRET_ASSIGNMENT" /\ (t.code \/ ~ t.random)
  BY <1>5 DEF X!Matches
<1>7. QED
  BY <1>6 DEF Holds

LEMMA PicklesHold ==
    ASSUME NEW s \in Sites \cup LaterSites, NEW p, p.security = X!assess_models(s),
           P!_unsafe_pickles(p) # NONE, ~ (P!_unsafe_pickles(p) > 0)
    PROVE  Holds("unsafe_pickle", s)
<1> DEFINE scanned == X!Scanned(s.artifacts)
           findings == UNION {X!scan_model_file(a) : a \in scanned}
           dangers == {"UNSAFE_PICKLE", "SCAN_ERROR"}
           unsafe == {f \in findings : f.category \in dangers}
           of(a) == [x \in a.parts \X dangers |-> [path |-> a.path, part |-> x[1], category |-> x[2]]]
           file == [a \in scanned |-> {of(a)[x] : x \in a.parts \X dangers}]
<1>1. p.security.artifacts_scanned # {} /\ P!_unsafe_pickles(p) =
        Cardinality({f \in p.security.artifact_findings : f.category \in dangers})
  BY Counts DEF P!_unsafe_pickles
<1>2. p.security.artifact_findings = findings
  BY <1>1 DEF X!assess_models
<1>3. IsFiniteSet(scanned)
  <2>1. scanned \in SUBSET s.artifacts
    BY DEF X!Scanned
  <2>2. QED
    <3> HIDE DEF scanned
    <3> QED BY <2>1, SitesAssumption, FS_Subset
<1>4. ASSUME NEW a \in scanned
      PROVE  IsFiniteSet(file[a])
  <2>1. a \in s.artifacts
    BY DEF X!Scanned
  <2>2. IsFiniteSet(a.parts)
    BY <2>1, SitesAssumption
  <2>3. IsFiniteSet(dangers)
    <3>1. dangers = {"UNSAFE_PICKLE", "SCAN_ERROR", "SCAN_ERROR", "SCAN_ERROR"}
      OBVIOUS
    <3> HIDE DEF dangers
    <3>2. QED
      BY <3>1, FourFinite
  <2>4. IsFiniteSet(a.parts \X dangers)
    <3> HIDE DEF dangers
    <3> QED BY <2>2, <2>3, FS_Product
  <2>5. IsFiniteSet({of(a)[x] : x \in a.parts \X dangers})
    <3> HIDE DEF of, dangers
    <3> QED BY <2>4, ImageFinite
  <2>6. QED
    <3> HIDE DEF of, dangers
    <3> QED BY <2>5
<1>5. IsFiniteSet(unsafe)
  <2>1. IsFiniteSet(UNION {file[a] : a \in scanned})
    <3> HIDE DEF file, scanned
    <3> QED BY <1>3, <1>4, UnionFinite
  <2>2. ASSUME NEW g \in unsafe
        PROVE  g \in UNION {file[a] : a \in scanned}
    <3>1. PICK a \in scanned : g \in X!scan_model_file(a)
      OBVIOUS
    <3>2. PICK f \in a.parts : \E c \in X!CategoriesOf(f) : g = [path |-> a.path, part |-> f, category |-> c]
      BY <3>1 DEF X!scan_model_file
    <3>3. PICK c : g = [path |-> a.path, part |-> f, category |-> c]
      BY <3>2
    <3>4. c \in dangers
      BY <3>3
    <3>5. of(a)[<<f, c>>] = g
      BY <3>3, <3>4
    <3>6. g \in file[a]
      <4> HIDE DEF of, dangers
      <4> QED BY <3>4, <3>5
    <3>7. QED
      <4> HIDE DEF file, scanned
      <4> QED BY <3>6
  <2>3. unsafe \in SUBSET UNION {file[a] : a \in scanned}
    <3> HIDE DEF unsafe, file, scanned
    <3> QED BY <2>2
  <2>4. QED
    <3> HIDE DEF unsafe, file, scanned
    <3> QED BY <2>1, <2>3, FS_Subset
<1> HIDE DEF findings
<1>6. unsafe = {}
  <2>1. P!_unsafe_pickles(p) = Cardinality(unsafe)
    BY <1>1, <1>2
  <2>2. QED
    BY <1>5, <2>1, NoneCounted
<1>7. ASSUME NEW a \in s.artifacts, NEW f \in Reachable(a), ~ (f.parsed /\ ~ f.dangerous)
      PROVE  FALSE
  <2>1. f \in a.parts /\ f.suffix = "pickle" /\ (a.kind = "model" \/ a.form # "directory")
    BY <1>7 DEF Reachable
  <2>2. a \in scanned
    BY <2>1 DEF X!Scanned, X!is_pickle_like
  <2>3. PICK c \in X!CategoriesOf(f) : c \in {"UNSAFE_PICKLE", "SCAN_ERROR"}
    BY <1>7, <2>1 DEF X!CategoriesOf, X!is_pickle_like
  <2>4. [path |-> a.path, part |-> f, category |-> c] \in X!scan_model_file(a)
    BY <2>1, <2>3 DEF X!scan_model_file
  <2>5. [path |-> a.path, part |-> f, category |-> c] \in findings
    BY <2>2, <2>4 DEF findings
  <2>6. [path |-> a.path, part |-> f, category |-> c] \in unsafe
    BY <2>3, <2>5
  <2>7. QED
    BY <2>6, <1>6
<1>8. \A a \in s.artifacts : \A f \in Reachable(a) : f.parsed /\ ~ f.dangerous
  BY <1>7
<1>9. QED
  BY <1>8 DEF Holds

LEMMA VulnerabilitiesHold ==
    ASSUME NEW s \in Sites \cup LaterSites, NEW p, p.security = X!assess_models(s),
           P!_cves(p, "critical") # NONE, ~ (P!_cves(p, "critical") > 0)
    PROVE  Holds("critical_cves_max", s)
<1> DEFINE of == [v \in s.vulnerabilities |->
                    [id |-> v.id, severity |-> IF X!fetch_severity(v) = NONE THEN "medium" ELSE X!fetch_severity(v)]]
           findings == {of[v] : v \in s.vulnerabilities}
           critical == {f \in findings : f.severity = "critical"}
<1>1. p.security.dependency_audit = "ok" /\ P!_cves(p, "critical") =
        Cardinality({f \in p.security.dependency_vulnerabilities : f.severity = "critical"})
  BY Counts DEF P!_cves
<1>2. s.audit_dependencies /\ s.pip_audit = "ok"
  BY <1>1 DEF X!assess_models, X!audit_dependencies
<1>3. p.security.dependency_vulnerabilities = findings
  <2>1. p.security.dependency_vulnerabilities = X!audit_dependencies(s).findings
    BY <1>2 DEF X!assess_models
  <2>2. X!audit_dependencies(s).findings =
            {[id |-> v.id, severity |-> IF X!fetch_severity(v) = NONE THEN "medium" ELSE X!fetch_severity(v)] :
                v \in s.vulnerabilities}
    BY <1>2 DEF X!audit_dependencies
  <2>3. QED
    BY <2>1, <2>2
<1>4. IsFiniteSet(findings)
  <2> HIDE DEF of
  <2> QED BY SitesAssumption, ImageFinite
<1>5. critical = {}
  <2> HIDE DEF findings
  <2>1. IsFiniteSet(critical)
    BY <1>4, FS_Subset
  <2>2. P!_cves(p, "critical") = Cardinality(critical)
    BY <1>1, <1>3
  <2>3. QED
    BY <2>1, <2>2, NoneCounted
<1>6. ASSUME NEW v \in s.vulnerabilities, v.severity = "critical", v.rated
      PROVE  FALSE
  <2>1. of[v].severity = "critical"
    BY <1>6, SitesAssumption DEF X!fetch_severity
  <2>2. of[v] \in critical
    <3> HIDE DEF of
    <3> QED BY <2>1
  <2>3. QED
    <3> HIDE DEF of
    <3> QED BY <2>2, <1>5
<1>7. \A v \in s.vulnerabilities : v.severity = "critical" => ~ v.rated
  BY <1>6
<1>8. QED
  BY <1>7 DEF Holds

-----------------------------------------------------------------------------
(* Privacy. *)

LEMMA ColumnsHold ==
    ASSUME NEW s \in Sites \cup LaterSites, NEW p,
           p.privacy.datasets_scanned = {t.name : t \in Looked(s)},
           p.privacy.data_findings = UNION {X!pii_findings(t, s.sample_size) : t \in Looked(s)},
           P!_pii_columns(p) # NONE, ~ (P!_pii_columns(p) > 0)
    PROVE  Holds("pii_columns_max", s)
<1> DEFINE findings == UNION {X!pii_findings(t, s.sample_size) : t \in Looked(s)}
           direct == {f \in findings : f.direct_identifier}
           locations == {f.location : f \in direct}
           of(t) == [c \in DOMAIN t.columns |-> <<t.name, c>>]
           table == [t \in Looked(s) |-> {of(t)[c] : c \in DOMAIN t.columns}]
<1>1. p.privacy.datasets_scanned # {} /\ P!_pii_columns(p) = Cardinality(locations)
  BY Counts DEF P!_pii_columns
<1>2. Looked(s) = {t \in s.datasets : t.tabular}
  BY <1>1 DEF Looked
<1>3. IsFiniteSet(Looked(s))
  BY <1>2, SitesAssumption, FS_Subset
<1>4. ASSUME NEW t \in Looked(s)
      PROVE  IsFiniteSet(table[t])
  <2>1. IsFiniteSet(DOMAIN t.columns)
    BY <1>2, SitesAssumption
  <2>2. IsFiniteSet({of(t)[c] : c \in DOMAIN t.columns})
    <3> HIDE DEF of
    <3> QED BY <2>1, ImageFinite
  <2>3. QED
    <3> HIDE DEF of
    <3> QED BY <2>2
<1>5. IsFiniteSet(locations)
  <2>1. IsFiniteSet(UNION {table[t] : t \in Looked(s)})
    <3> HIDE DEF table
    <3> QED BY <1>3, <1>4, UnionFinite
  <2>2. ASSUME NEW x \in locations
        PROVE  x \in UNION {table[t] : t \in Looked(s)}
    <3>1. PICK f \in direct : x = f.location
      OBVIOUS
    <3>2. PICK t \in Looked(s) : f \in X!pii_findings(t, s.sample_size)
      BY <3>1
    <3>3. PICK c \in DOMAIN t.columns : f.location = <<t.name, c>>
      BY <3>2 DEF X!pii_findings
    <3>4. x \in table[t]
      BY <3>1, <3>3
    <3>5. QED
      <4> HIDE DEF table
      <4> QED BY <3>4
  <2>3. locations \in SUBSET UNION {table[t] : t \in Looked(s)}
    <3> HIDE DEF locations, table
    <3> QED BY <2>2
  <2>4. QED
    <3> HIDE DEF locations, table
    <3> QED BY <2>1, <2>3, FS_Subset
<1>6. direct = {}
  <2>1. locations = {}
    <3> HIDE DEF locations
    <3> QED BY <1>1, <1>5, NoneCounted
  <2>2. QED
    <3> HIDE DEF direct
    <3> QED BY <2>1
<1>7. ASSUME NEW t \in Looked(s), NEW c \in DOMAIN t.columns,
             NEW e \in X!_scan_column(t.columns[c], X!_sample(t, s.sample_size)), e \in X!Direct
      PROVE  FALSE
  <2>1. [location |-> <<t.name, c>>, direct_identifier |-> e \in X!Direct] \in X!pii_findings(t, s.sample_size)
    BY DEF X!pii_findings
  <2>2. [location |-> <<t.name, c>>, direct_identifier |-> e \in X!Direct] \in findings
    BY <2>1
  <2>3. [location |-> <<t.name, c>>, direct_identifier |-> e \in X!Direct] \in direct
    <3> HIDE DEF findings
    <3> QED BY <1>7, <2>2
  <2>4. QED
    <3> HIDE DEF direct
    <3> QED BY <1>6, <2>3
<1>8. ASSUME NEW t \in Looked(s), NEW c \in DOMAIN t.columns
      PROVE  t.columns[c].named \notin X!Direct
  BY <1>7, SitesAssumption DEF X!_scan_column
<1>9. ASSUME NEW t \in Looked(s), NEW c \in DOMAIN t.columns, NEW i \in DOMAIN t.columns[c].cells,
             s.sample_size = NONE \/ Len(t.rows) <= s.sample_size \/ i \in t.drawn,
             NEW e \in t.columns[c].cells[i] \cap (X!Direct \ {"CREDIT_CARD"})
      PROVE  FALSE
  <2>1. t.columns[c].cells[i] \subseteq X!VALIDATORS \cup {"DIGITS"}
    BY <1>2, SitesAssumption
  <2>2. e \in X!VALIDATORS /\ e \in X!Direct /\ e # "DATE" /\ e # "CREDIT_CARD"
    BY <2>1 DEF X!VALIDATORS, X!Direct
  <2>3. PICK sample : sample = X!_sample(t, s.sample_size)
    OBVIOUS
  <2>4. i \in sample
    <3>1. i \in DOMAIN t.rows
      BY <1>2, SitesAssumption
    <3>2. QED
      BY <1>9, <2>3, <3>1 DEF X!_sample
  <2>5. i \in X!Rows(t.columns[c], sample, e)
    BY <2>4 DEF X!Rows
  <2>6. e \in X!_collect_hits(t.columns[c], sample)
    BY <2>2, <2>5 DEF X!_collect_hits
  <2>7. \A hits : e \in hits => e \in X!_apply_context_rules(t.columns[c], sample, hits)
    BY <2>2 DEF X!_apply_context_rules
  <2>8. e \in X!_scan_column(t.columns[c], sample)
    BY <2>6, <2>7 DEF X!_scan_column
  <2>9. QED
    BY <1>7, <2>2, <2>3, <2>8
<1>10. \A t \in {t \in s.datasets : t.tabular} : \A c \in DOMAIN t.columns :
        /\ t.columns[c].named \notin X!Direct
        /\ \A i \in DOMAIN t.columns[c].cells :
              (s.sample_size = NONE \/ Len(t.rows) <= s.sample_size \/ i \in t.drawn) =>
                  t.columns[c].cells[i] \cap (X!Direct \ {"CREDIT_CARD"}) = {}
  BY <1>2, <1>8, <1>9
<1>11. QED
  BY <1>10 DEF Holds

\* Rows and their classes.
LEMMA RowsOf ==
    ASSUME NEW s \in Sites \cup LaterSites, NEW t \in s.datasets
    PROVE  /\ t.rows \in Seq(ToSet(t.rows)) /\ DOMAIN t.rows = 1..Len(t.rows) /\ Len(t.rows) \in Nat
           /\ IsFiniteSet(DOMAIN t.rows)
<1>1. t.rows \in Seq(ToSet(t.rows))
  BY SitesAssumption
<1>2. DOMAIN t.rows = 1..Len(t.rows) /\ Len(t.rows) \in Nat
  BY <1>1
<1>3. IsFiniteSet(1..Len(t.rows))
  BY <1>2, FS_Interval
<1>4. QED
  BY <1>1, <1>2, <1>3

LEMMA ClassFinite ==
    ASSUME NEW rows, IsFiniteSet(DOMAIN rows), NEW columns, NEW i \in DOMAIN rows
    PROVE  /\ i \in X!ClassOf(rows, columns, i)
           /\ IsFiniteSet(X!ClassOf(rows, columns, i)) /\ Cardinality(X!ClassOf(rows, columns, i)) \in Nat
<1>1. X!ClassOf(rows, columns, i) \in SUBSET DOMAIN rows
  BY DEF X!ClassOf
<1>2. QED
  BY <1>1, FS_Subset, FS_CardinalityType DEF X!ClassOf

LEMMA SmallestClass ==
    ASSUME NEW rows, IsFiniteSet(DOMAIN rows), rows # <<>>, NEW columns, NEW i \in DOMAIN rows
    PROVE  /\ X!k_anonymity(rows, columns) \in Nat
           /\ X!k_anonymity(rows, columns) <= Cardinality(X!ClassOf(rows, columns, i))
<1> DEFINE sizes == {Cardinality(X!ClassOf(rows, columns, j)) : j \in DOMAIN rows}
<1>1. sizes \subseteq Nat /\ sizes # {} /\ Cardinality(X!ClassOf(rows, columns, i)) \in sizes
  BY ClassFinite
<1>2. X!_class_sizes(rows, columns) = sizes
  BY Counts DEF X!_class_sizes
<1>3. X!k_anonymity(rows, columns) = X!Min(sizes)
  BY <1>2 DEF X!k_anonymity
<1>4. QED
  <2> HIDE DEF sizes
  <2> QED BY <1>1, <1>3, LeastIs

\* The values of a column in the class of a row.
ValuesOf(rows, columns, sensitive, i) == {rows[j][sensitive] : j \in X!ClassOf(rows, columns, i)}

LEMMA FewestValues ==
    ASSUME NEW rows, IsFiniteSet(DOMAIN rows), rows # <<>>, NEW columns, NEW sensitive, NEW i \in DOMAIN rows
    PROVE  /\ X!l_diversity(rows, columns, sensitive) \in Nat
           /\ X!l_diversity(rows, columns, sensitive) <= Cardinality(ValuesOf(rows, columns, sensitive, i))
<1> DEFINE values(k) == ValuesOf(rows, columns, sensitive, k)
           sizes == {Cardinality(values(k)) : k \in DOMAIN rows}
<1>1. ASSUME NEW k \in DOMAIN rows
      PROVE  Cardinality(values(k)) \in Nat
  <2> DEFINE f == [j \in X!ClassOf(rows, columns, k) |-> rows[j][sensitive]]
  <2>1. IsFiniteSet({f[j] : j \in X!ClassOf(rows, columns, k)})
    <3> HIDE DEF f
    <3> QED BY ClassFinite, ImageFinite
  <2>2. {f[j] : j \in X!ClassOf(rows, columns, k)} = values(k)
    BY DEF ValuesOf
  <2>3. QED
    BY <2>1, <2>2, FS_CardinalityType
<1>2. X!l_diversity(rows, columns, sensitive) = X!Min(sizes)
  BY Counts DEF X!l_diversity, ValuesOf
<1>3. sizes \subseteq Nat /\ sizes # {} /\ Cardinality(values(i)) \in sizes
  <2> HIDE DEF values
  <2> QED BY <1>1
<1>4. QED
  <2> HIDE DEF sizes
  <2> QED BY <1>2, <1>3, LeastIs

\* Rows are compared on the quasi-identifiers that are columns.
QIs(t) == t.quasi_identifiers \cap DOMAIN t.columns

LEMMA AssessOf ==
    ASSUME NEW t, QIs(t) # {}
    PROVE  /\ X!assess(t).k_anonymity = X!k_anonymity(t.rows, QIs(t))
           /\ NONE \notin DOMAIN t.columns /\ t.sensitive \in DOMAIN t.columns =>
                X!assess(t).l_diversity = X!l_diversity(t.rows, QIs(t), t.sensitive)
           /\ X!assess(t).risky_combinations = X!risky_combinations(t.rows, QIs(t), 3, 10)
BY DEF X!assess, QIs

LEMMA FirstRow ==
    ASSUME NEW S, NEW rows \in Seq(S), rows # <<>>
    PROVE  1 \in DOMAIN rows
OBVIOUS

LEMMA AnonymityKnown ==
    ASSUME NEW s \in Sites \cup LaterSites, NEW t \in s.datasets
    PROVE  X!assess(t).k_anonymity \in Nat \cup {NONE}
<1>1. CASE QIs(t) = {}
  BY <1>1 DEF X!assess, QIs
<1>2. CASE QIs(t) # {} /\ t.rows = <<>>
  BY <1>2, AssessOf DEF X!k_anonymity
<1>3. CASE QIs(t) # {} /\ t.rows # <<>>
  <2>1. 1 \in DOMAIN t.rows
    BY <1>3, RowsOf, FirstRow
  <2>2. X!k_anonymity(t.rows, QIs(t)) \in Nat
    BY <1>3, <2>1, RowsOf, SmallestClass
  <2>3. QED
    BY <1>3, <2>2, AssessOf
<1>4. QED
  BY <1>1, <1>2, <1>3

LEMMA DiversityKnown ==
    ASSUME NEW s \in Sites \cup LaterSites, NEW t \in s.datasets
    PROVE  X!assess(t).l_diversity \in Nat \cup {NONE}
<1>1. NONE \notin DOMAIN t.columns
  BY SitesAssumption
<1>2. CASE QIs(t) = {} \/ t.sensitive \notin DOMAIN t.columns
  BY <1>2 DEF X!assess, QIs
<1>3. CASE QIs(t) # {} /\ t.sensitive \in DOMAIN t.columns /\ t.rows = <<>>
  BY <1>1, <1>3, AssessOf DEF X!l_diversity
<1>4. CASE QIs(t) # {} /\ t.sensitive \in DOMAIN t.columns /\ t.rows # <<>>
  <2>1. 1 \in DOMAIN t.rows
    BY <1>4, RowsOf, FirstRow
  <2>2. X!l_diversity(t.rows, QIs(t), t.sensitive) \in Nat
    BY <1>4, <2>1, RowsOf, FewestValues
  <2>3. QED
    BY <1>1, <1>4, <2>2, AssessOf
<1>5. QED
  BY <1>2, <1>3, <1>4

LEMMA AnonymityHolds ==
    ASSUME NEW s \in Sites \cup LaterSites, NEW p,
           p.privacy.reidentification = {X!assess(t) : t \in Looked(s)},
           P!_min_k(p) # NONE, Template.rules["min_k_anonymity"].fail \in Nat,
           ~ (P!_min_k(p) < Template.rules["min_k_anonymity"].fail)
    PROVE  Holds("min_k_anonymity", s)
<1> DEFINE ks == {r.k_anonymity : r \in p.privacy.reidentification} \ {NONE}
<1>1. ks # {} /\ P!_min_k(p) = P!Min(ks)
  BY DEF P!_min_k, P!Known
<1>2. Looked(s) = {t \in s.datasets : t.tabular}
  BY <1>1 DEF Looked
<1>3. ks \subseteq Nat
  BY <1>2, AnonymityKnown
<1>4. \A k \in ks : Template.rules["min_k_anonymity"].fail <= k
  <2> HIDE DEF ks
  <2>1. PICK limit, m : limit = Template.rules["min_k_anonymity"].fail /\ m = P!Min(ks)
    OBVIOUS
  <2>2. m \in ks /\ \A k \in ks : m <= k
    BY <1>1, <1>3, <2>1, LeastIs
  <2>3. limit \in Nat /\ ~ (m < limit)
    BY <1>1, <2>1
  <2>4. QED
    BY <1>3, <2>1, <2>2, <2>3
<1>5. ASSUME NEW t \in {t \in s.datasets : t.tabular}, NEW i \in DOMAIN t.rows, QIs(t) # {}
      PROVE  \E J \in SUBSET DOMAIN t.rows :
                /\ i \in J /\ Cardinality(J) >= Template.rules["min_k_anonymity"].fail
                /\ \A j \in J : \A c \in QIs(t) : t.rows[j][c] = t.rows[i][c]
  <2> DEFINE J == X!ClassOf(t.rows, QIs(t), i)
  <2>1. t.rows # <<>>
    OBVIOUS
  <2>2. X!k_anonymity(t.rows, QIs(t)) \in Nat /\ X!k_anonymity(t.rows, QIs(t)) <= Cardinality(J)
    BY <2>1, RowsOf, SmallestClass
  <2>3. X!assess(t).k_anonymity = X!k_anonymity(t.rows, QIs(t))
    BY <1>5, AssessOf
  <2>4. X!assess(t).k_anonymity \in ks
    <3>1. X!assess(t).k_anonymity # NONE
      BY <2>2, <2>3, SitesAssumption
    <3>2. QED
      BY <1>2, <3>1
  <2>5. J \in SUBSET DOMAIN t.rows /\ \A j \in J : \A c \in QIs(t) : t.rows[j][c] = t.rows[i][c]
    BY DEF X!ClassOf
  <2>6. i \in J /\ Cardinality(J) \in Nat
    BY RowsOf, ClassFinite
  <2>7. Cardinality(J) >= Template.rules["min_k_anonymity"].fail
    <3> HIDE DEF J
    <3> QED BY <1>4, <2>2, <2>3, <2>4, <2>6
  <2>8. QED
    <3> HIDE DEF J
    <3> QED BY <2>5, <2>6, <2>7
<1>6. QED
  BY <1>5 DEF Holds, QIs

LEMMA DiversityHolds ==
    ASSUME NEW s \in Sites \cup LaterSites, NEW p,
           p.privacy.reidentification = {X!assess(t) : t \in Looked(s)},
           P!_min_l(p) # NONE, Template.rules["min_l_diversity"].fail \in Nat \ {0, 1},
           ~ (P!_min_l(p) < Template.rules["min_l_diversity"].fail)
    PROVE  Holds("min_l_diversity", s)
<1> DEFINE ls == {r.l_diversity : r \in p.privacy.reidentification} \ {NONE}
<1>1. ls # {} /\ P!_min_l(p) = P!Min(ls)
  BY DEF P!_min_l, P!Known
<1>2. Looked(s) = {t \in s.datasets : t.tabular}
  BY <1>1 DEF Looked
<1>3. ls \subseteq Nat
  BY <1>2, DiversityKnown
<1>4. \A l \in ls : l >= 2
  <2> HIDE DEF ls
  <2>1. PICK limit, m : limit = Template.rules["min_l_diversity"].fail /\ m = P!Min(ls)
    OBVIOUS
  <2>2. m \in ls /\ \A k \in ls : m <= k
    BY <1>1, <1>3, <2>1, LeastIs
  <2>3. limit \in Nat \ {0, 1} /\ ~ (m < limit)
    BY <1>1, <2>1
  <2>4. QED
    BY <1>3, <2>2, <2>3
<1>5. ASSUME NEW t \in {t \in s.datasets : t.tabular}, NEW i \in DOMAIN t.rows,
             QIs(t) # {}, t.sensitive \in DOMAIN t.columns
      PROVE  \E j \in DOMAIN t.rows :
                /\ \A c \in QIs(t) : t.rows[j][c] = t.rows[i][c]
                /\ t.rows[j][t.sensitive] # t.rows[i][t.sensitive]
  <2> DEFINE values == ValuesOf(t.rows, QIs(t), t.sensitive, i)
             l == X!l_diversity(t.rows, QIs(t), t.sensitive)
  <2>1. t.rows # <<>>
    OBVIOUS
  <2>2. l \in Nat /\ l <= Cardinality(values)
    <3>1. IsFiniteSet(DOMAIN t.rows)
      BY RowsOf
    <3>2. QED
      BY <2>1, <3>1, FewestValues
  <2>3. X!assess(t).l_diversity = l
    BY <1>5, AssessOf, SitesAssumption
  <2>4. l \in ls
    <3>1. X!assess(t).l_diversity # NONE
      BY <2>2, <2>3, SitesAssumption
    <3>2. X!assess(t).l_diversity \in ls
      BY <1>2, <3>1
    <3>3. QED
      BY <2>3, <3>2
  <2>5. values # {t.rows[i][t.sensitive]}
    <3> HIDE DEF values, l
    <3> SUFFICES ASSUME values = {t.rows[i][t.sensitive]}
                 PROVE  FALSE
      OBVIOUS
    <3>1. Cardinality(values) = 1
      BY FS_Singleton
    <3>2. l >= 2
      BY <1>4, <2>4
    <3>3. QED
      BY <3>1, <3>2, <2>2
  <2>6. i \in X!ClassOf(t.rows, QIs(t), i)
    BY DEF X!ClassOf
  <2>7. PICK j \in X!ClassOf(t.rows, QIs(t), i) : t.rows[j][t.sensitive] # t.rows[i][t.sensitive]
    BY <2>5, <2>6 DEF ValuesOf
  <2>8. QED
    BY <2>7 DEF X!ClassOf
<1>6. QED
  BY <1>5 DEF Holds, QIs

-----------------------------------------------------------------------------
(* Leakage. *)

LEMMA ThousandthsTyped ==
    ASSUME NEW n \in Nat, NEW d \in Nat \ {0}
    PROVE  X!Thousandths(n, d) \in Int
BY DEF X!Thousandths, X!Ceiling

LEMMA AboveTyped ==
    ASSUME NEW S, NEW scores \in Seq(S), NEW t
    PROVE  X!Above(scores, t) \in Nat
<1>1. IsFiniteSet(1..Len(scores))
  BY FS_Interval
<1>2. {i \in DOMAIN scores : scores[i] >= t} \in SUBSET (1..Len(scores))
  OBVIOUS
<1>3. QED
  BY <1>1, <1>2, FS_Subset, FS_CardinalityType, Counts DEF X!Above

\* The rate reported is at least that of every threshold allowed.
LEMMA RateOf ==
    ASSUME NEW members \in Seq(Int), members # <<>>, NEW controls \in Seq(Int), NEW i \in DOMAIN members,
           X!Above(controls, members[i]) = 0
    PROVE  /\ X!tpr_at_fpr(members, controls, 10) \in Int
           /\ X!Thousandths(X!Above(members, members[i]), Len(members)) <= X!tpr_at_fpr(members, controls, 10)
<1> DEFINE thresholds == {members[j] : j \in DOMAIN members} \cup {controls[j] : j \in DOMAIN controls}
           allowed == {t \in thresholds : 1000 * X!Above(controls, t) <= 10 * Len(controls)}
           f == [t \in allowed |-> X!Thousandths(X!Above(members, t), Len(members))]
           rates == {f[t] : t \in allowed}
<1>1. IsFiniteSet(thresholds)
  <2>1. IsFiniteSet(DOMAIN members) /\ IsFiniteSet(DOMAIN controls)
    BY FS_Interval
  <2>2. IsFiniteSet({members[j] : j \in DOMAIN members}) /\ IsFiniteSet({controls[j] : j \in DOMAIN controls})
    BY <2>1, ImageFinite
  <2>3. QED
    BY <2>2, FS_Union
<1>2. IsFiniteSet(rates)
  <2>1. IsFiniteSet(allowed)
    <3> HIDE DEF thresholds
    <3> QED BY <1>1, FS_Subset
  <2>2. QED
    <3> HIDE DEF allowed, f
    <3> QED BY <2>1, ImageFinite
<1>3. IsFiniteSet({0} \cup rates)
  <2> HIDE DEF rates
  <2> QED BY <1>2, FS_Union, FS_Singleton
<1>4. Len(members) \in Nat \ {0} /\ Len(controls) \in Nat
  OBVIOUS
<1>5. {0} \cup rates \subseteq Int
  <2>1. \A t \in allowed : f[t] \in Int
    BY <1>4, AboveTyped, ThousandthsTyped
  <2>2. QED
    <3> HIDE DEF f, allowed
    <3> QED BY <2>1
<1>6. members[i] \in allowed
  BY <1>4
<1>7. X!Thousandths(X!Above(members, members[i]), Len(members)) \in rates
  <2>1. f[members[i]] = X!Thousandths(X!Above(members, members[i]), Len(members))
    <3> HIDE DEF allowed
    <3> QED BY <1>6
  <2>2. QED
    <3> HIDE DEF allowed, f
    <3> QED BY <1>6, <2>1
<1>8. X!tpr_at_fpr(members, controls, 10) = X!Max({0} \cup rates)
  <2>1. X!tpr_at_fpr(members, controls, 10) =
            X!Max({0} \cup {X!Thousandths(X!Above(members, t), Len(members)) : t \in allowed})
    BY DEF X!tpr_at_fpr
  <2>2. rates = {X!Thousandths(X!Above(members, t), Len(members)) : t \in allowed}
    <3> HIDE DEF allowed
    <3> QED OBVIOUS
  <2>3. QED
    <3> HIDE DEF allowed, rates
    <3> QED BY <2>1, <2>2
<1>9. QED
  <2> HIDE DEF rates
  <2>1. PICK S : S = {0} \cup rates
    OBVIOUS
  <2>2. S \subseteq Int /\ S # {} /\ IsFiniteSet(S)
    BY <2>1, <1>3, <1>5
  <2>3. X!Max(S) \in S /\ \A j \in S : j <= X!Max(S)
    BY <2>2, GreatestIs
  <2>4. QED
    BY <1>7, <1>8, <2>1, <2>2, <2>3

ScoreOf(rows) == [i \in DOMAIN rows |-> 0 - rows[i].loss]

Losses == [loss : Int, right : BOOLEAN]

LEMMA ScoresTyped ==
    ASSUME NEW rows \in Seq(Losses)
    PROVE  /\ ScoreOf(rows) \in Seq(Int) /\ Len(ScoreOf(rows)) = Len(rows) /\ DOMAIN ScoreOf(rows) = DOMAIN rows
           /\ \A i \in DOMAIN rows : rows[i].loss \in Int /\ ScoreOf(rows)[i] = 0 - rows[i].loss
<1>1. \A i \in DOMAIN rows : rows[i].loss \in Int
  <2>1. \A i \in DOMAIN rows : rows[i] \in Losses
    OBVIOUS
  <2>2. \A x \in Losses : x.loss \in Int
    BY DEF Losses
  <2>3. QED
    BY <2>1, <2>2
<1>2. DOMAIN rows = 1..Len(rows) /\ Len(rows) \in Nat
  OBVIOUS
<1>3. QED
  BY <1>1, <1>2 DEF ScoreOf

LEMMA AttackOf ==
    ASSUME NEW s \in Sites \cup LaterSites, NEW model, X!assess_leakage(s, model) # X!Failed,
           X!assess_leakage(s, model) # NONE
    PROVE  /\ s.members \in Seq(Losses) /\ s.members # <<>>
           /\ s.nonmembers \in Seq(Losses) /\ s.nonmembers # <<>>
           /\ X!assess_leakage(s, model).tpr_at_low_fpr =
                X!tpr_at_fpr(ScoreOf(s.members), ScoreOf(s.nonmembers), 10)
<1>1. s.members # NONE /\ s.nonmembers # NONE
  BY DEF X!assess_leakage
<1>2. X!assess_leakage(s, model) = X!loss_threshold_attack(s.members, s.nonmembers)
  BY <1>1 DEF X!assess_leakage
<1>3. s.members # <<>> /\ s.nonmembers # <<>>
  BY <1>2 DEF X!loss_threshold_attack
<1>4. X!loss_threshold_attack(s.members, s.nonmembers).tpr_at_low_fpr =
        X!tpr_at_fpr(ScoreOf(s.members), ScoreOf(s.nonmembers), 10)
  BY <1>3 DEF X!loss_threshold_attack, ScoreOf
<1>5. {s.members, s.nonmembers} \subseteq {NONE} \cup Seq([loss : Int, right : BOOLEAN])
  BY SitesAssumption
<1>6. QED
  BY <1>1, <1>2, <1>3, <1>4, <1>5 DEF Losses

\* Members that an attack recognises without taking anyone else for a member.
Exposed(members, nonmembers) ==
    {i \in DOMAIN members : \A j \in DOMAIN nonmembers : members[i].loss < nonmembers[j].loss}

LEMMA ExposedRate ==
    ASSUME NEW members \in Seq(Losses), members # <<>>, NEW nonmembers \in Seq(Losses),
           NEW limit \in Nat, NEW rate, rate = X!tpr_at_fpr(ScoreOf(members), ScoreOf(nonmembers), 10), ~ (rate > limit)
    PROVE  X!Thousandths(Cardinality(Exposed(members, nonmembers)), Len(members)) <= limit
<1> DEFINE exposed == Exposed(members, nonmembers)
<1>0. exposed \in SUBSET DOMAIN members /\ IsFiniteSet(exposed) /\ Len(members) \in Nat \ {0}
  <2>1. exposed \in SUBSET DOMAIN members /\ Len(members) \in Nat \ {0} /\ DOMAIN members = 1..Len(members)
    BY DEF Exposed
  <2>2. IsFiniteSet(1..Len(members))
    BY <2>1, FS_Interval
  <2>3. QED
    <3> HIDE DEF exposed
    <3> QED BY <2>1, <2>2, FS_Subset
<1>1. CASE exposed = {}
  <2>1. Cardinality(exposed) = 0
    BY <1>1, FS_EmptySet
  <2>2. \A d \in Nat \ {0} : X!Thousandths(0, d) = 0
    <3>1. \A d \in Nat \ {0} : (d - 1) \div d = 0
      OBVIOUS
    <3>2. \A d \in Nat \ {0} : 1000 * 0 + d - 1 = d - 1
      OBVIOUS
    <3>3. QED
      BY <3>1, <3>2 DEF X!Thousandths, X!Ceiling
  <2>3. QED
    BY <2>1, <2>2, <1>0
<1>2. CASE exposed # {}
  <2> DEFINE loss == [i \in exposed |-> members[i].loss]
             scores == ScoreOf(members)
             others == ScoreOf(nonmembers)
  <2>1. loss \in [exposed -> Int]
    BY <1>0, ScoresTyped
  <2>2. PICK i \in exposed : \A j \in exposed : loss[j] <= loss[i]
    <3> HIDE DEF loss, exposed
    <3> QED BY <1>0, <1>2, <2>1, Greatest
  <2>3. i \in DOMAIN members /\ members[i].loss \in Int
    BY <1>0, ScoresTyped
  <2>4. {j \in DOMAIN others : others[j] >= scores[i]} = {}
    <3> SUFFICES ASSUME NEW j \in DOMAIN others, others[j] >= scores[i]
                 PROVE  FALSE
      OBVIOUS
    <3>1. j \in DOMAIN nonmembers /\ others[j] = 0 - nonmembers[j].loss /\ nonmembers[j].loss \in Int
      BY ScoresTyped
    <3>2. scores[i] = 0 - members[i].loss
      BY <2>3, ScoresTyped
    <3>3. members[i].loss < nonmembers[j].loss
      BY <3>1 DEF Exposed
    <3> HIDE DEF others, scores
    <3>4. QED
      BY <2>3, <3>1, <3>2, <3>3
  <2>5. {k \in DOMAIN scores : scores[k] >= scores[i]} = exposed
    <3>1. DOMAIN scores = DOMAIN members
      BY ScoresTyped
    <3>2. ASSUME NEW k \in DOMAIN members
          PROVE  scores[k] >= scores[i] <=> k \in exposed
      <4>1. /\ scores[k] = 0 - members[k].loss /\ members[k].loss \in Int
            /\ scores[i] = 0 - members[i].loss /\ members[i].loss \in Int
        BY <2>3, ScoresTyped
      <4>2. ASSUME k \in exposed
            PROVE  members[k].loss <= members[i].loss
        <5>1. loss[k] <= loss[i]
          BY <4>2, <2>2
        <5>2. QED
          BY <4>2, <5>1
      <4>3. ASSUME members[k].loss <= members[i].loss
            PROVE  k \in exposed
        <5> SUFFICES ASSUME NEW j \in DOMAIN nonmembers
                     PROVE  members[k].loss < nonmembers[j].loss
          BY DEF Exposed
        <5>1. members[i].loss < nonmembers[j].loss /\ nonmembers[j].loss \in Int
          BY ScoresTyped DEF Exposed
        <5>2. QED
          BY <4>1, <4>3, <5>1
      <4>4. scores[k] >= scores[i] <=> members[k].loss <= members[i].loss
        <5> HIDE DEF scores
        <5> QED BY <4>1
      <4>5. QED
        <5> HIDE DEF exposed, scores
        <5> QED BY <4>2, <4>3, <4>4
    <3>3. QED
      <4> HIDE DEF exposed, scores
      <4> QED BY <1>0, <3>1, <3>2
  <2>6. X!Above(others, scores[i]) = 0
    <3> HIDE DEF others, scores
    <3> QED BY <2>4, FS_EmptySet, Counts DEF X!Above
  <2>7. X!Above(scores, scores[i]) = Cardinality(exposed)
    <3> HIDE DEF exposed, scores
    <3> QED BY <2>5, Counts DEF X!Above
  <2>8. /\ scores \in Seq(Int) /\ scores # <<>> /\ Len(scores) = Len(members) /\ i \in DOMAIN scores
        /\ others \in Seq(Int)
    <3>1. scores \in Seq(Int) /\ Len(scores) = Len(members) /\ DOMAIN scores = DOMAIN members /\ others \in Seq(Int)
      BY ScoresTyped
    <3> HIDE DEF scores, others, exposed
    <3>2. QED
      BY <1>0, <2>3, <3>1
  <2> HIDE DEF scores, others, exposed
  <2>9. rate \in Int /\ X!Thousandths(X!Above(scores, scores[i]), Len(scores)) <= rate
    BY <2>6, <2>8, RateOf DEF scores, others
  <2>10. X!Thousandths(Cardinality(exposed), Len(members)) <= rate /\ Cardinality(exposed) \in Nat
    BY <2>7, <2>8, <2>9, <1>0, FS_CardinalityType
  <2>11. X!Thousandths(Cardinality(exposed), Len(members)) \in Int
    BY <2>10, <1>0, ThousandthsTyped
  <2>12. QED
    BY <2>9, <2>10, <2>11 DEF exposed
<1>3. QED
  BY <1>1, <1>2

LEMMA AttackHolds ==
    ASSUME NEW s \in Sites \cup LaterSites, NEW p, NEW model,
           p.privacy.leakage = X!assess_leakage(s, model), X!assess_leakage(s, model) # X!Failed,
           P!_leakage(p, "tpr_at_low_fpr") # NONE, Template.rules["mia_tpr_at_low_fpr_max"].fail \in Nat,
           ~ (P!_leakage(p, "tpr_at_low_fpr") > Template.rules["mia_tpr_at_low_fpr_max"].fail)
    PROVE  Holds("mia_tpr_at_low_fpr_max", s)
<1>1. p.privacy.leakage # NONE /\ P!_leakage(p, "tpr_at_low_fpr") = p.privacy.leakage.tpr_at_low_fpr
  BY DEF P!_leakage
<1>2. /\ s.members \in Seq(Losses) /\ s.members # <<>> /\ s.nonmembers \in Seq(Losses)
      /\ P!_leakage(p, "tpr_at_low_fpr") = X!tpr_at_fpr(ScoreOf(s.members), ScoreOf(s.nonmembers), 10)
  BY <1>1, AttackOf
<1>3. X!Thousandths(Cardinality(Exposed(s.members, s.nonmembers)), Len(s.members)) <=
        Template.rules["mia_tpr_at_low_fpr_max"].fail
  BY <1>2, ExposedRate
<1>4. QED
  BY <1>3 DEF Holds, Exposed

-----------------------------------------------------------------------------
(* Rules that pass are true. *)

LEMMA RuleHolds ==
    ASSUME NEW s \in Sites \cup LaterSites, X!_run_checks(s) # X!Failed, NEW r \in DOMAIN Template.rules,
           P!evaluate_rule(r, Template.rules[r], Report(s), Template.missing_evidence) = "pass"
    PROVE  Holds(r, s)
<1>1. PICK p : p = Report(s)
  OBVIOUS
<1>2. /\ p.privacy.datasets_scanned = {t.name : t \in Looked(s)}
      /\ p.privacy.data_findings = UNION {X!pii_findings(t, s.sample_size) : t \in Looked(s)}
      /\ p.privacy.reidentification = {X!assess(t) : t \in Looked(s)}
      /\ p.privacy.leakage = X!assess_leakage(s, ModelOf(s))
      /\ p.security = X!assess_models(s)
      /\ X!assess_leakage(s, ModelOf(s)) # X!Failed
  BY <1>1, ReportOf, Zenon
<1>3. PICK o : o = P!RULES(r, p)
  OBVIOUS
<1>4. /\ o # NONE
      /\ P!KindOf(r) = "flag" => Template.rules[r] = "pass" \/ ~ (o > 0)
      /\ P!KindOf(r) # "flag" => ~ P!_violates(P!KindOf(r), o, Template.rules[r].fail)
  BY <1>1, <1>3, PassMeans, StrictAssumption
<1>5. CASE r = "secrets_found_max"
  <2>1. o = P!_secrets(p) /\ Template.rules[r].fail = 0
    BY <1>3, <1>5, StrictAssumption DEF P!RULES
  <2>2. ~ (o > 0)
    BY <1>4, <1>5, <2>1, SitesAssumption DEF P!KindOf, P!_violates
  <2>3. QED
    BY <1>2, <1>4, <1>5, <2>1, <2>2, SecretsHold
<1>6. CASE r = "unsafe_pickle"
  <2>1. o = P!_unsafe_pickles(p) /\ Template.rules[r] # "pass"
    BY <1>3, <1>6, StrictAssumption DEF P!RULES
  <2>2. ~ (o > 0)
    BY <1>4, <1>6, <2>1 DEF P!KindOf
  <2>3. QED
    BY <1>2, <1>4, <1>6, <2>1, <2>2, PicklesHold
<1>7. CASE r = "critical_cves_max"
  <2>1. o = P!_cves(p, "critical") /\ Template.rules[r].fail = 0
    BY <1>3, <1>7, StrictAssumption DEF P!RULES
  <2>2. ~ (o > 0)
    BY <1>4, <1>7, <2>1, SitesAssumption DEF P!KindOf, P!_violates
  <2>3. QED
    BY <1>2, <1>4, <1>7, <2>1, <2>2, VulnerabilitiesHold
<1>8. CASE r = "pii_columns_max"
  <2>1. o = P!_pii_columns(p) /\ Template.rules[r].fail = 0
    BY <1>3, <1>8, StrictAssumption DEF P!RULES
  <2>2. ~ (o > 0)
    BY <1>4, <1>8, <2>1, SitesAssumption DEF P!KindOf, P!_violates
  <2>3. QED
    BY <1>2, <1>4, <1>8, <2>1, <2>2, ColumnsHold
<1>9. CASE r = "min_k_anonymity"
  <2>1. o = P!_min_k(p) /\ Template.rules[r].fail \in Nat
    BY <1>3, <1>9, StrictAssumption DEF P!RULES
  <2>2. ~ (o < Template.rules[r].fail)
    BY <1>4, <1>9, <2>1, SitesAssumption DEF P!KindOf, P!_violates
  <2>3. QED
    BY <1>2, <1>4, <1>9, <2>1, <2>2, AnonymityHolds
<1>10. CASE r = "min_l_diversity"
  <2>1. o = P!_min_l(p) /\ Template.rules[r].fail \in Nat \ {0, 1}
    BY <1>3, <1>10, StrictAssumption DEF P!RULES
  <2>2. ~ (o < Template.rules[r].fail)
    BY <1>4, <1>10, <2>1, SitesAssumption DEF P!KindOf, P!_violates
  <2>3. QED
    BY <1>2, <1>4, <1>10, <2>1, <2>2, DiversityHolds
<1>11. CASE r = "mia_tpr_at_low_fpr_max"
  <2>1. o = P!_leakage(p, "tpr_at_low_fpr") /\ Template.rules[r].fail \in Nat
    BY <1>3, <1>11, StrictAssumption DEF P!RULES
  <2>2. ~ (o > Template.rules[r].fail)
    BY <1>4, <1>11, <2>1, SitesAssumption DEF P!KindOf, P!_violates
  <2>3. QED
    BY <1>2, <1>4, <1>11, <2>1, <2>2, AttackHolds
<1>12. CASE r \notin {"secrets_found_max", "unsafe_pickle", "critical_cves_max", "pii_columns_max",
                      "min_k_anonymity", "min_l_diversity", "mia_tpr_at_low_fpr_max"}
  BY <1>12 DEF Holds
<1>13. QED
  BY <1>5, <1>6, <1>7, <1>8, <1>9, <1>10, <1>11, <1>12

-----------------------------------------------------------------------------
(* Combinations of columns. *)

Unique(rows, c) == X!unique_fraction(rows, c) > 10

\* The smallest combinations of at most n columns that single rows out.
Smallest(rows, columns, n) ==
    {c \in SUBSET columns : /\ c # {} /\ Cardinality(c) <= n /\ Unique(rows, c)
                            /\ \A d \in SUBSET c : d \notin {{}, c} => ~ Unique(rows, d)}

\* One more pass over the combinations, of n columns.
Adding(rows, columns, n, R) ==
    R \cup {c \in SUBSET columns : /\ Cardinality(c) = n /\ \A r \in R : ~ (r \subseteq c)
                                  /\ Unique(rows, c)}

\* A combination that singles rows out contains a smallest one that does.
LEMMA ContainsSmallest ==
    ASSUME NEW rows, NEW c, IsFiniteSet(c), NEW d \in SUBSET c, d # {}, Unique(rows, d)
    PROVE  \E e \in SUBSET d : /\ e # {} /\ Unique(rows, e)
                               /\ \A x \in SUBSET e : x \notin {{}, e} => ~ Unique(rows, x)
<1> DEFINE Such(e) == e \in SUBSET d /\ e # {} /\ Unique(rows, e)
           sizes == {Cardinality(e) : e \in {e \in SUBSET d : Such(e)}}
<1>1. IsFiniteSet(d)
  BY FS_Subset
<1>2. \A e \in SUBSET d : IsFiniteSet(e) /\ Cardinality(e) \in Nat
  BY <1>1, FS_Subset, FS_CardinalityType
<1>3. sizes \subseteq Nat /\ sizes # {}
  <2>1. Such(d)
    OBVIOUS
  <2> HIDE DEF Such
  <2>2. QED
    BY <1>2, <2>1
<1>4. PICK m \in sizes : \A k \in sizes : m <= k
  <2> HIDE DEF sizes
  <2> QED BY <1>3, Least
<1>5. PICK e \in SUBSET d : Such(e) /\ m = Cardinality(e)
  <2> HIDE DEF Such
  <2> QED OBVIOUS
<1>6. ASSUME NEW x \in SUBSET e, x # {}, x # e, Unique(rows, x)
      PROVE  FALSE
  <2>1. Such(x)
    BY <1>5, <1>6
  <2>2. Cardinality(x) \in sizes
    <3> HIDE DEF Such
    <3> QED BY <2>1, <1>5
  <2>3. Cardinality(e) <= Cardinality(x)
    BY <2>2, <1>4, <1>5
  <2>4. Cardinality(x) <= Cardinality(e) /\ (Cardinality(e) = Cardinality(x) => e = x)
    BY <1>2, FS_Subset
  <2>5. Cardinality(x) \in Nat /\ Cardinality(e) \in Nat
    <3>1. x \in SUBSET d
      BY <1>5
    <3>2. QED
      BY <1>2, <3>1
  <2>6. QED
    BY <1>6, <2>3, <2>4, <2>5
<1>7. QED
  BY <1>5, <1>6

LEMMA AddingSmallest ==
    ASSUME NEW rows, NEW columns, IsFiniteSet(columns), NEW n \in Nat
    PROVE  Adding(rows, columns, n + 1, Smallest(rows, columns, n)) = Smallest(rows, columns, n + 1)
<1>1. \A c \in SUBSET columns : IsFiniteSet(c) /\ Cardinality(c) \in Nat
  BY FS_Subset, FS_CardinalityType
<1>2. ASSUME NEW c \in SUBSET columns, Cardinality(c) = n + 1, Unique(rows, c),
             \A r \in Smallest(rows, columns, n) : ~ (r \subseteq c)
      PROVE  c \in Smallest(rows, columns, n + 1)
  <2>1. c # {}
    BY <1>2, FS_EmptySet
  <2>2. ASSUME NEW d \in SUBSET c, d # {}, d # c, Unique(rows, d)
        PROVE  FALSE
    <3>1. PICK e \in SUBSET d : /\ e # {} /\ Unique(rows, e)
                               /\ \A x \in SUBSET e : x \notin {{}, e} => ~ Unique(rows, x)
      BY <1>1, <2>2, ContainsSmallest
    <3>2. e \in SUBSET columns /\ e \in SUBSET c /\ e # c
      BY <2>2
    <3>3. Cardinality(e) <= Cardinality(c) /\ Cardinality(c) # Cardinality(e) /\ Cardinality(e) \in Nat
      BY <1>1, <3>2, FS_Subset
    <3>4. Cardinality(e) <= n
      BY <1>2, <3>3
    <3>5. e \in Smallest(rows, columns, n)
      BY <3>1, <3>2, <3>4 DEF Smallest
    <3>6. QED
      BY <1>2, <3>2, <3>5
  <2>3. Cardinality(c) <= n + 1
    BY <1>2
  <2>4. QED
    BY <1>2, <2>1, <2>2, <2>3 DEF Smallest
<1>3. ASSUME NEW c \in Smallest(rows, columns, n + 1)
      PROVE  c \in Adding(rows, columns, n + 1, Smallest(rows, columns, n))
  <2>1. c \in SUBSET columns /\ Cardinality(c) \in Nat /\ Cardinality(c) <= n + 1 /\ c # {} /\ Unique(rows, c)
        /\ \A d \in SUBSET c : d \notin {{}, c} => ~ Unique(rows, d)
    BY <1>1 DEF Smallest
  <2>2. CASE Cardinality(c) <= n
    <3>1. c \in Smallest(rows, columns, n)
      BY <2>1, <2>2 DEF Smallest
    <3>2. QED
      BY <3>1 DEF Adding
  <2>3. CASE ~ (Cardinality(c) <= n)
    <3>1. Cardinality(c) = n + 1
      BY <2>1, <2>3
    <3>2. ASSUME NEW r \in Smallest(rows, columns, n), r \subseteq c
          PROVE  FALSE
      <4>1. r # {} /\ Unique(rows, r) /\ Cardinality(r) <= n
        BY DEF Smallest
      <4>2. r # c
        BY <4>1, <2>3
      <4>3. QED
        BY <2>1, <3>2, <4>1, <4>2
    <3>3. QED
      BY <2>1, <3>1, <3>2 DEF Adding
  <2>4. QED
    BY <2>2, <2>3
<1>4. ASSUME NEW c \in Smallest(rows, columns, n)
      PROVE  c \in Smallest(rows, columns, n + 1)
  <2>1. Cardinality(c) <= n + 1
    BY <1>1 DEF Smallest
  <2>2. QED
    BY <2>1 DEF Smallest
<1>5. QED
  BY <1>2, <1>3, <1>4 DEF Adding

LEMMA SmallestNone ==
    ASSUME NEW rows, NEW columns, IsFiniteSet(columns)
    PROVE  Smallest(rows, columns, 0) = {}
<1> SUFFICES ASSUME NEW c \in Smallest(rows, columns, 0) PROVE FALSE
  OBVIOUS
<1>1. c \in SUBSET columns /\ c # {} /\ Cardinality(c) <= 0
  BY DEF Smallest
<1>2. IsFiniteSet(c) /\ Cardinality(c) \in Nat
  BY <1>1, FS_Subset, FS_CardinalityType
<1>3. QED
  BY <1>1, <1>2, FS_EmptySet

Grows(rows, columns, f) ==
    f = [n \in 0..3 |-> IF n = 0 THEN {} ELSE Adding(rows, columns, n, f[n - 1])]

LEMMA GrowsSmallest ==
    ASSUME NEW rows, NEW columns, IsFiniteSet(columns)
    PROVE  /\ \E f : Grows(rows, columns, f)
           /\ \A f : Grows(rows, columns, f) => \A n \in 0..3 : f[n] = Smallest(rows, columns, n)
<1> DEFINE S(n) == Smallest(rows, columns, n)
<1>1. /\ S(0) = {} /\ Adding(rows, columns, 1, S(0)) = S(1)
      /\ Adding(rows, columns, 2, S(1)) = S(2) /\ Adding(rows, columns, 3, S(2)) = S(3)
  <2>1. /\ Adding(rows, columns, 0 + 1, S(0)) = S(0 + 1)
        /\ Adding(rows, columns, 1 + 1, S(1)) = S(1 + 1) /\ Adding(rows, columns, 2 + 1, S(2)) = S(2 + 1)
    BY AddingSmallest
  <2>2. 0 + 1 = 1 /\ 1 + 1 = 2 /\ 2 + 1 = 3
    OBVIOUS
  <2>3. QED
    BY <2>1, <2>2, SmallestNone
<1> HIDE DEF S
<1>2. \E f : Grows(rows, columns, f)
  <2>1. PICK f : f = [n \in 0..3 |-> S(n)]
    OBVIOUS
  <2>2. \A n \in 0..3 : S(n) = IF n = 0 THEN {} ELSE Adding(rows, columns, n, f[n - 1])
    <3>1. f[0] = S(0) /\ f[1] = S(1) /\ f[2] = S(2)
      BY <2>1
    <3>2. ASSUME NEW n \in 0..3
          PROVE  n = 0 \/ (n = 1 /\ n - 1 = 0) \/ (n = 2 /\ n - 1 = 1) \/ (n = 3 /\ n - 1 = 2)
      OBVIOUS
    <3>3. QED
      BY <1>1, <3>1, <3>2
  <2>3. f = [n \in 0..3 |-> IF n = 0 THEN {} ELSE Adding(rows, columns, n, f[n - 1])]
    BY <2>1, <2>2
  <2>4. QED
    BY <2>3 DEF Grows
<1>3. ASSUME NEW f, Grows(rows, columns, f)
      PROVE  \A n \in 0..3 : f[n] = S(n)
  <2>1. \A n \in 0..3 : f[n] = IF n = 0 THEN {} ELSE Adding(rows, columns, n, f[n - 1])
    BY <1>3 DEF Grows
  <2>2. /\ f[0] = {} /\ f[1] = Adding(rows, columns, 1, f[0])
        /\ f[2] = Adding(rows, columns, 2, f[1]) /\ f[3] = Adding(rows, columns, 3, f[2])
    BY <2>1
  <2>3. f[0] = S(0) /\ f[1] = S(1) /\ f[2] = S(2) /\ f[3] = S(3)
    BY <1>1, <2>2
  <2>4. QED
    BY <2>3
<1>4. QED
  BY <1>2, <1>3 DEF S

LEMMA RiskyOf ==
    ASSUME NEW rows, NEW columns, IsFiniteSet(columns)
    PROVE  X!risky_combinations(rows, columns, 3, 10) = Smallest(rows, columns, 3)
<1>1. PICK m, R : m = X!Min({3, Cardinality(columns)}) /\ R = CHOOSE f : Grows(rows, columns, f)
  OBVIOUS
<1>2. X!risky_combinations(rows, columns, 3, 10) = R[m]
  <2>1. \A n, found : X!WithRisky(found, rows, columns, n, 10) = Adding(rows, columns, n, found)
    BY Counts DEF X!WithRisky, Adding, Unique
  <2>2. X!risky_combinations(rows, columns, 3, 10) =
            (CHOOSE f : f = [n \in 0..3 |-> IF n = 0 THEN {} ELSE X!WithRisky(f[n - 1], rows, columns, n, 10)])
                [X!Min({3, X!Cardinality(columns)})]
    BY Zenon DEF X!risky_combinations
  <2>3. \A f : [n \in 0..3 |-> IF n = 0 THEN {} ELSE X!WithRisky(f[n - 1], rows, columns, n, 10)] =
                [n \in 0..3 |-> IF n = 0 THEN {} ELSE Adding(rows, columns, n, f[n - 1])]
    BY <2>1
  <2>4. \A f : f = [n \in 0..3 |-> IF n = 0 THEN {} ELSE X!WithRisky(f[n - 1], rows, columns, n, 10)]
                <=> Grows(rows, columns, f)
    BY <2>3 DEF Grows
  <2>5. (CHOOSE f : f = [n \in 0..3 |-> IF n = 0 THEN {} ELSE X!WithRisky(f[n - 1], rows, columns, n, 10)]) = R
    BY <1>1, <2>4
  <2>6. QED
    BY <1>1, <2>2, <2>5, Counts
<1>3. \A n \in 0..3 : R[n] = Smallest(rows, columns, n)
  BY <1>1, GrowsSmallest
<1>4. Cardinality(columns) \in Nat
  BY FS_CardinalityType
<1>5. m \in 0..3 /\ (m = 3 \/ (m = Cardinality(columns) /\ m <= 3))
  <2>1. {3, Cardinality(columns)} \subseteq Nat /\ {3, Cardinality(columns)} # {}
    BY <1>4
  <2>2. m \in {3, Cardinality(columns)} /\ \A j \in {3, Cardinality(columns)} : m <= j
    BY <1>1, <2>1, LeastIs
  <2>3. QED
    BY <1>4, <2>2
<1>6. CASE m = 3
  BY <1>2, <1>3, <1>5, <1>6
<1>7. CASE m = Cardinality(columns) /\ m <= 3
  <2>1. \A c \in SUBSET columns : Cardinality(c) <= m /\ Cardinality(c) <= 3
    <3>1. \A c \in SUBSET columns : Cardinality(c) \in Nat /\ Cardinality(c) <= Cardinality(columns)
      BY FS_Subset, FS_CardinalityType
    <3>2. QED
      BY <1>4, <1>7, <3>1
  <2>2. Smallest(rows, columns, m) = Smallest(rows, columns, 3)
    BY <2>1 DEF Smallest
  <2>3. QED
    BY <1>2, <1>3, <1>5, <2>2
<1>8. QED
  BY <1>5, <1>6, <1>7

LEMMA RiskyFound ==
    ASSUME NEW s \in Sites \cup LaterSites, NEW t \in s.datasets
    PROVE  X!assess(t).risky_combinations = Smallest(t.rows, QIs(t), 3)
<1>1. IsFiniteSet(QIs(t))
  <2>1. IsFiniteSet(DOMAIN t.columns)
    BY SitesAssumption
  <2>2. QED
    BY <2>1, FS_Subset DEF QIs
<1>2. CASE QIs(t) = {}
  <2>1. X!assess(t).risky_combinations = {}
    BY <1>2 DEF X!assess, QIs
  <2>2. QED
    BY <1>2, <2>1 DEF Smallest
<1>3. CASE QIs(t) # {}
  BY <1>1, <1>3, AssessOf, RiskyOf
<1>4. QED
  BY <1>2, <1>3

\* What a build reports is true of the project (core/assess.py, the scanners,
\* policy/engine.py): a rule passes only where the site has nothing that the
\* rule is about, beyond the named exceptions, and the combinations of columns
\* called risky are the smallest that single rows out, and all of them.
THEOREM Reporting == Spec => []ReportTrue
<1>1. ASSUME Evaluated, build # NONE, NEW r \in DOMAIN build.rules, build.rules[r] = "pass"
      PROVE  Holds(r, build.site)
  <2>1. PICK p : p = Report(build.site)
    OBVIOUS
  <2>2. /\ build.rules = P!evaluate(Template, p).rules
        /\ build.site \in Sites \cup LaterSites /\ X!_run_checks(build.site) # X!Failed
    BY <1>1, <2>1 DEF Evaluated
  <2>3. build.rules = [n \in DOMAIN Template.rules |->
                            P!evaluate_rule(n, Template.rules[n], p, Template.missing_evidence)]
    BY <2>2 DEF P!evaluate
  <2>4. /\ r \in DOMAIN Template.rules
        /\ P!evaluate_rule(r, Template.rules[r], p, Template.missing_evidence) = "pass"
    BY <1>1, <2>3
  <2>5. QED
    BY <2>1, <2>2, <2>4, RuleHolds
<1>2. Evaluated => PassBacked
  BY <1>1 DEF PassBacked
<1>3. ASSUME Evaluated, build # NONE, NEW t \in build.site.datasets
      PROVE  X!assess(t).risky_combinations = Smallest(t.rows, QIs(t), 3)
  BY <1>3, RiskyFound DEF Evaluated
<1>4. Evaluated => RiskyColumns
  BY <1>3 DEF RiskyColumns, Smallest, Unique, QIs
<1>5. QED
  BY <1>2, <1>4, Evaluation, PTL DEF ReportTrue

-----------------------------------------------------------------------------
(* The adjustment for many tests. *)

\* EntityAudit counts as the other modules do.
LEMMA AuditCounts == \A S : E!Cardinality(S) = Cardinality(S)
BY DEF E!Cardinality, Cardinality

\* The least of a set of numbers, as EntityAudit finds it.
LEMMA AuditLeast ==
    ASSUME NEW T, T \subseteq Nat, T # {}
    PROVE  E!Min(T) \in T /\ \A j \in T : E!Min(T) <= j
<1>1. \E i \in T : \A j \in T : i <= j
  BY Least
<1>2. QED
  BY <1>1 DEF E!Min

\* A quotient rounded up is within a whole bound exactly when the quotient is.
LEMMA CeilingIs ==
    ASSUME NEW a \in Nat, NEW k \in Nat \ {0}, NEW b \in Nat
    PROVE  E!Ceiling(a, k) \in Nat /\ (E!Ceiling(a, k) <= b <=> a <= b * k)
<1>1. PICK x \in Int : x = (a + k - 1) \div k
  OBVIOUS
<1>2. PICK y \in Int : y = x * k
  OBVIOUS
<1>3. y <= a + k - 1 /\ a + k - 1 < y + k
  BY <1>1, <1>2
<1>4. x >= 0
  BY <1>1
<1>5. PICK z \in Int : z = b * k
  OBVIOUS
<1>6. x <= b => y <= z
  BY <1>2, <1>5
<1>7. ~ (x <= b) => y >= z + k
  <2>1. ASSUME x >= b + 1 PROVE x * k >= (b + 1) * k
    BY <2>1
  <2>2. (b + 1) * k = b * k + k
    OBVIOUS
  <2>3. QED
    BY <1>2, <1>5, <2>1, <2>2
<1>8. x <= b <=> a <= z
  BY <1>3, <1>6, <1>7
<1>9. QED
  BY <1>1, <1>4, <1>5, <1>8 DEF E!Ceiling

\* Who comes no later than i.
NotAfter(p, i) == {j \in DOMAIN p : p[j] < p[i] \/ (p[j] = p[i] /\ j <= i)}

\* The rank of an entity counts it and those before it.
LEMMA RankTyped ==
    ASSUME NEW D \in SUBSET Nat, IsFiniteSet(D), NEW p \in [D -> Nat], NEW i \in D
    PROVE  /\ NotAfter(p, i) \in SUBSET D /\ IsFiniteSet(NotAfter(p, i))
           /\ E!Rank(p, i) = Cardinality(NotAfter(p, i)) /\ E!Rank(p, i) \in Nat \ {0}
<1>1. NotAfter(p, i) \in SUBSET D /\ i \in NotAfter(p, i)
  BY DEF NotAfter
<1>2. IsFiniteSet(NotAfter(p, i)) /\ Cardinality(NotAfter(p, i)) \in Nat
  BY <1>1, FS_Subset, FS_CardinalityType
<1>3. Cardinality(NotAfter(p, i)) # 0
  BY <1>1, <1>2, FS_EmptySet
<1>4. E!Rank(p, i) = Cardinality(NotAfter(p, i))
  BY AuditCounts DEF E!Rank, NotAfter
<1>5. QED
  BY <1>1, <1>2, <1>3, <1>4

\* Who comes after another has the larger rank.
LEMMA RankRises ==
    ASSUME NEW D \in SUBSET Nat, IsFiniteSet(D), NEW p \in [D -> Nat], NEW i \in D, NEW j \in D,
           E!Rank(p, j) >= E!Rank(p, i)
    PROVE  p[i] <= p[j]
<1>0. \A k \in D : k \in Nat /\ p[k] \in Nat
  OBVIOUS
<1> SUFFICES ASSUME p[j] < p[i] PROVE FALSE
  BY <1>0
<1>1. NotAfter(p, j) \in SUBSET NotAfter(p, i) /\ i \in NotAfter(p, i) /\ i \notin NotAfter(p, j)
  <2>1. DOMAIN p = D
    OBVIOUS
  <2>2. ASSUME NEW k \in D, p[k] < p[j] \/ (p[k] = p[j] /\ k <= j)
        PROVE  p[k] < p[i]
    BY <1>0, <2>2
  <2>3. ~ (p[i] < p[j]) /\ p[i] # p[j] /\ i <= i
    BY <1>0
  <2>4. QED
    BY <2>1, <2>2, <2>3 DEF NotAfter
<1>2. /\ Cardinality(NotAfter(p, j)) <= Cardinality(NotAfter(p, i))
      /\ Cardinality(NotAfter(p, i)) # Cardinality(NotAfter(p, j))
  BY <1>1, RankTyped, FS_Subset
<1>3. /\ E!Rank(p, i) = Cardinality(NotAfter(p, i)) /\ E!Rank(p, i) \in Nat
      /\ E!Rank(p, j) = Cardinality(NotAfter(p, j)) /\ E!Rank(p, j) \in Nat
  BY RankTyped
<1>4. QED
  BY <1>2, <1>3

\* Of those with the same p-value, the last one has all of them before it.
LEMMA LastTied ==
    ASSUME NEW D \in SUBSET Nat, IsFiniteSet(D), NEW p \in [D -> Nat], NEW j \in D
    PROVE  \E m \in D : p[m] = p[j] /\ NotAfter(p, m) = {k \in D : p[k] <= p[j]}
<1> DEFINE tied == {k \in D : p[k] = p[j]}
           f == [k \in tied |-> k]
<1>0. \A k \in D : k \in Nat /\ p[k] \in Nat
  OBVIOUS
<1>1. IsFiniteSet(tied) /\ tied # {}
  BY FS_Subset
<1>2. f \in [tied -> Int]
  <2>1. \A k \in tied : k \in Int
    BY <1>0
  <2>2. QED
    <3> HIDE DEF tied
    <3> QED BY <2>1
<1>3. PICK m \in tied : \A k \in tied : f[k] <= f[m]
  <2> HIDE DEF tied, f
  <2> QED BY <1>1, <1>2, Greatest
<1>4. \A k \in tied : k <= m
  BY <1>3
<1>5. m \in D /\ p[m] = p[j]
  OBVIOUS
<1>6. NotAfter(p, m) = {k \in D : p[k] <= p[j]}
  <2>1. DOMAIN p = D
    OBVIOUS
  <2>2. ASSUME NEW k \in D
        PROVE  p[k] < p[m] \/ (p[k] = p[m] /\ k <= m) <=> p[k] <= p[j]
    BY <1>0, <1>4, <1>5
  <2>3. QED
    BY <2>1, <2>2 DEF NotAfter
<1>7. QED
  BY <1>5, <1>6

\* An adjusted p-value is within the rate exactly when its test rejects.
LEMMA AdjustedIs ==
    ASSUME NEW D \in SUBSET Nat, IsFiniteSet(D), NEW p \in [D -> Nat], NEW i \in D
    PROVE  /\ DOMAIN E!benjamini_hochberg(p) = D /\ E!benjamini_hochberg(p)[i] \in Nat
           /\ E!benjamini_hochberg(p)[i] <= Fdr * E!Scale <=> i \in E!StepUp(p)
<1> DEFINE later == {j \in D : E!Rank(p, j) >= E!Rank(p, i)}
           values == {1000 * E!Scale} \cup {E!Ranked(p, j) : j \in later}
           n == Cardinality(D)
           upto(j) == {k \in D : p[k] <= p[j]}
<1>0. Fdr \in 0..999 /\ E!Scale = 12 /\ n \in Nat /\ DOMAIN p = D
  BY AuditAssumption, FS_CardinalityType DEF E!Scale
<1>1. ASSUME NEW j \in D
      PROVE  /\ E!Ranked(p, j) \in Nat
             /\ E!Ranked(p, j) <= Fdr * E!Scale <=> p[j] * n <= Fdr * E!Rank(p, j)
  <2>1. PICK k \in Nat \ {0} : k = E!Rank(p, j)
    BY RankTyped
  <2>2. PICK x \in Nat : x = p[j] * n
    BY <1>0
  <2>3. E!Ranked(p, j) = E!Ceiling(x * 12, k)
    BY <1>0, <2>1, <2>2, AuditCounts DEF E!Ranked
  <2>4. x * 12 \in Nat /\ Fdr * 12 \in Nat
    BY <1>0
  <2>5. E!Ceiling(x * 12, k) \in Nat /\ (E!Ceiling(x * 12, k) <= Fdr * 12 <=> x * 12 <= (Fdr * 12) * k)
    BY <2>4, CeilingIs
  <2>6. (Fdr * 12) * k = (Fdr * k) * 12 /\ Fdr * k \in Nat
    BY <1>0
  <2>7. x * 12 <= (Fdr * 12) * k <=> x <= Fdr * k
    BY <2>6
  <2>8. QED
    BY <1>0, <2>1, <2>2, <2>3, <2>5, <2>7
<1>2. /\ DOMAIN E!benjamini_hochberg(p) = D
      /\ E!benjamini_hochberg(p)[i] = E!Min(values)
  BY <1>0 DEF E!benjamini_hochberg
<1>3. values \subseteq Nat /\ values # {}
  BY <1>0, <1>1
<1>4. E!Min(values) \in values /\ \A v \in values : E!Min(values) <= v
  <2> HIDE DEF values
  <2> QED BY <1>3, AuditLeast
<1>5. E!Min(values) <= Fdr * E!Scale <=> \E j \in later : E!Ranked(p, j) <= Fdr * E!Scale
  <2>1. PICK m, b : m = E!Min(values) /\ b = Fdr * E!Scale
    OBVIOUS
  <2>2. b \in Nat /\ b < 1000 * E!Scale /\ 1000 * E!Scale \in Nat
    BY <1>0, <2>1
  <2>3. m \in values /\ m \in Nat /\ \A v \in values : m <= v /\ v \in Nat
    <3> HIDE DEF values
    <3> QED BY <1>3, <1>4, <2>1
  <2>4. ASSUME m <= b PROVE \E j \in later : E!Ranked(p, j) <= b
    BY <2>2, <2>3, <2>4
  <2>5. ASSUME NEW j \in later, E!Ranked(p, j) <= b PROVE m <= b
    <3>1. E!Ranked(p, j) \in values
      OBVIOUS
    <3>2. m <= E!Ranked(p, j) /\ E!Ranked(p, j) \in Nat
      <4> HIDE DEF values
      <4> QED BY <2>3, <3>1
    <3>3. QED
      BY <2>2, <2>3, <2>5, <3>2
  <2>6. QED
    <3> HIDE DEF values, later
    <3> QED BY <2>1, <2>4, <2>5
<1>6. ASSUME NEW j \in later, E!Ranked(p, j) <= Fdr * E!Scale
      PROVE  i \in E!StepUp(p)
  <2>1. p[i] <= p[j]
    BY RankRises
  <2>2. NotAfter(p, j) \in SUBSET upto(j)
    <3>1. \A k \in D : (p[k] < p[j] \/ (p[k] = p[j] /\ k <= j)) => p[k] <= p[j]
      OBVIOUS
    <3>2. QED
      BY <1>0, <3>1 DEF NotAfter
  <2>3. IsFiniteSet(upto(j)) /\ Cardinality(upto(j)) \in Nat
    BY FS_Subset, FS_CardinalityType
  <2>4. E!Rank(p, j) <= Cardinality(upto(j)) /\ E!Rank(p, j) \in Nat
    <3> HIDE DEF upto
    <3> QED BY <2>2, <2>3, RankTyped, FS_Subset
  <2>5. p[j] * n <= Fdr * E!Rank(p, j)
    BY <1>1, <1>6
  <2>6. Fdr * E!Rank(p, j) <= Fdr * Cardinality(upto(j))
    <3> HIDE DEF upto
    <3> QED BY <1>0, <2>3, <2>4
  <2>7. p[j] * n <= Fdr * Cardinality(upto(j))
    <3>1. p[j] * n \in Int /\ Fdr * E!Rank(p, j) \in Int /\ Fdr * Cardinality(upto(j)) \in Int
      <4> HIDE DEF upto
      <4> QED BY <1>0, <2>3, <2>4
    <3>2. QED
      <4> HIDE DEF upto, n
      <4> QED BY <2>5, <2>6, <3>1
  <2>8. QED
    BY <1>0, <2>1, <2>7, AuditCounts DEF E!StepUp
<1>7. ASSUME NEW j \in D, p[i] <= p[j], p[j] * n <= Fdr * Cardinality(upto(j))
      PROVE  \E m \in later : E!Ranked(p, m) <= Fdr * E!Scale
  <2>1. PICK m \in D : p[m] = p[j] /\ NotAfter(p, m) = upto(j)
    BY LastTied
  <2>2. E!Rank(p, m) = Cardinality(upto(j))
    <3> HIDE DEF upto
    <3>1. E!Rank(p, m) = Cardinality(NotAfter(p, m))
      BY RankTyped
    <3>2. QED
      BY <2>1, <3>1
  <2>3. NotAfter(p, i) \in SUBSET NotAfter(p, m)
    <3>1. \A k \in D : (p[k] < p[i] \/ (p[k] = p[i] /\ k <= i)) => p[k] <= p[j]
      BY <1>7
    <3>2. NotAfter(p, i) \in SUBSET upto(j)
      BY <1>0, <3>1 DEF NotAfter
    <3>3. QED
      BY <2>1, <3>2
  <2>4. E!Rank(p, m) >= E!Rank(p, i)
    BY <2>3, RankTyped, FS_Subset
  <2>5. E!Ranked(p, m) <= Fdr * E!Scale
    BY <1>1, <1>7, <2>1, <2>2
  <2>6. QED
    BY <2>4, <2>5
<1>8. i \in E!StepUp(p) <=> \E j \in D : p[i] <= p[j] /\ p[j] * n <= Fdr * Cardinality(upto(j))
  BY <1>0, AuditCounts DEF E!StepUp
<1>9. QED
  <2> HIDE DEF values, later, upto, n
  <2> QED BY <1>2, <1>3, <1>4, <1>5, <1>6, <1>7, <1>8

-----------------------------------------------------------------------------
(* Severities and risks. *)

\* The places of the severities.
LEMMA OrderOf ==
    /\ E!SEVERITY_ORDER("info") = 1 /\ E!SEVERITY_ORDER("low") = 2 /\ E!SEVERITY_ORDER("medium") = 3
    /\ E!SEVERITY_ORDER("high") = 4 /\ E!SEVERITY_ORDER("critical") = 5
<1> DEFINE S == E!Severities
<1>1. /\ DOMAIN S = 1..5
      /\ S[1] = "info" /\ S[2] = "low" /\ S[3] = "medium" /\ S[4] = "high" /\ S[5] = "critical"
  BY DEF E!Severities
<1>2. \A s : E!SEVERITY_ORDER(s) = CHOOSE i \in 1..5 : S[i] = s
  BY <1>1 DEF E!SEVERITY_ORDER
<1> HIDE DEF S
<1>3. \A i \in 1..5 : i = 1 \/ i = 2 \/ i = 3 \/ i = 4 \/ i = 5
  OBVIOUS
<1>4. /\ \A i \in 1..5 : S[i] = "info" <=> i = 1
      /\ \A i \in 1..5 : S[i] = "low" <=> i = 2
      /\ \A i \in 1..5 : S[i] = "medium" <=> i = 3
      /\ \A i \in 1..5 : S[i] = "high" <=> i = 4
      /\ \A i \in 1..5 : S[i] = "critical" <=> i = 5
  BY <1>1, <1>3
<1>5. 1 \in 1..5 /\ 2 \in 1..5 /\ 3 \in 1..5 /\ 4 \in 1..5 /\ 5 \in 1..5
  OBVIOUS
<1>6. QED
  BY <1>2, <1>4, <1>5

\* Blocking severities start at the risk of 0.7.
LEMMA SevereIs ==
    ASSUME NEW risk \in Int
    PROVE  /\ E!at_least(E!severity(risk), "high") <=> risk >= 700
           /\ E!severity(risk) \in {"high", "critical"} <=> risk >= 700
           /\ risk >= 700 => E!severity(risk) # "info"
<1>1. CASE risk >= 900
  BY <1>1, OrderOf DEF E!severity, E!at_least
<1>2. CASE ~ (risk >= 900) /\ risk >= 700
  BY <1>2, OrderOf DEF E!severity, E!at_least
<1>3. CASE ~ (risk >= 700) /\ risk >= 400
  BY <1>3, OrderOf DEF E!severity, E!at_least
<1>4. CASE ~ (risk >= 400) /\ risk >= 10
  BY <1>4, OrderOf DEF E!severity, E!at_least
<1>5. CASE ~ (risk >= 10)
  BY <1>5, OrderOf DEF E!severity, E!at_least
<1>6. QED
  BY <1>1, <1>2, <1>3, <1>4, <1>5

\* A risk is a number of hundredths.
LEMMA RiskTyped ==
    ASSUME NEW p \in 0..1000, NEW impact \in Nat
    PROVE  E!RiskOf(p, impact) \in Nat
<1>1. PICK x \in Nat : x = (1000 - p) * impact
  <2>1. 1000 - p \in Nat
    OBVIOUS
  <2>2. QED
    BY <2>1
<1>2. (x + 5) \div 10 \in Nat
  OBVIOUS
<1>3. QED
  BY <1>1, <1>2 DEF E!RiskOf

\* What is not significant is at most low.
LEMMA CappedIs ==
    ASSUME NEW risk \in Nat
    PROVE  E!Min({risk, E!NOT_SIGNIFICANT_CAP}) \in Nat /\ E!Min({risk, E!NOT_SIGNIFICANT_CAP}) < 700
<1>1. {risk, E!NOT_SIGNIFICANT_CAP} \subseteq Nat /\ {risk, E!NOT_SIGNIFICANT_CAP} # {}
  BY DEF E!NOT_SIGNIFICANT_CAP
<1>2. PICK m : m = E!Min({risk, E!NOT_SIGNIFICANT_CAP})
  OBVIOUS
<1>3. m \in Nat /\ m <= E!NOT_SIGNIFICANT_CAP
  BY <1>1, <1>2, AuditLeast
<1>4. QED
  BY <1>2, <1>3 DEF E!NOT_SIGNIFICANT_CAP

\* Entities to audit, and their p-values.
Auditable(found, D, p) ==
    /\ D \in SUBSET Nat /\ IsFiniteSet(D) /\ DOMAIN found = D
    /\ \A i \in D : found[i].entity_type \in DOMAIN Impact
    /\ p \in [D -> 0..1000]

\* Part of the entities can be audited by themselves.
LEMMA AuditablePart ==
    ASSUME NEW found, NEW D, NEW p, Auditable(found, D, p)
    PROVE  D \in SUBSET Nat /\ IsFiniteSet(D) /\ p \in [D -> Nat]
<1>1. D \in SUBSET Nat /\ IsFiniteSet(D) /\ p \in [D -> 0..1000]
  BY DEF Auditable
<1>2. \A i \in D : p[i] \in Nat
  <2>1. \A i \in D : p[i] \in 0..1000
    BY <1>1
  <2>2. QED
    BY <2>1
<1>3. QED
  BY <1>1, <1>2

\* What a finding says after the first test.
LEMMA FirstTest ==
    ASSUME NEW found, NEW D, NEW p, Auditable(found, D, p), NEW i \in D
    PROVE  LET f == E!_findings(found, p)[i]
               risk == E!RiskOf(p[i], Impact[found[i].entity_type])
           IN  /\ DOMAIN E!_findings(found, p) = D /\ f.at = found[i] /\ f.q \in Nat
               /\ f.risk \in Nat /\ f.severity = E!severity(f.risk) /\ risk \in Nat
               /\ f = [at |-> f.at, p |-> f.p, q |-> f.q, risk |-> f.risk, severity |-> f.severity]
               /\ E!at_least(f.severity, "high") <=> i \in E!StepUp(p) /\ risk >= 700
               /\ E!at_least(f.severity, "high") => f.risk = risk
<1>1. PICK q, risk : q = E!benjamini_hochberg(p)[i] /\ risk = E!RiskOf(p[i], Impact[found[i].entity_type])
  OBVIOUS
<1>2. q \in Nat /\ (q <= Fdr * E!Scale <=> i \in E!StepUp(p))
  BY <1>1, AuditablePart, AdjustedIs
<1>3. risk \in Nat
  <2>1. p[i] \in 0..1000 /\ Impact[found[i].entity_type] \in Nat
    BY AuditAssumption DEF Auditable
  <2>2. QED
    BY <1>1, <2>1, RiskTyped
<1>4. PICK r : r = E!entity_risk(p[i], q, Impact[found[i].entity_type])
  OBVIOUS
<1>5. E!_findings(found, p)[i] = [at |-> found[i], p |-> p[i], q |-> q, risk |-> r, severity |-> E!severity(r)]
      /\ DOMAIN E!_findings(found, p) = D
  BY <1>1, <1>4 DEF E!_findings, Auditable
<1>6. CASE i \in E!StepUp(p)
  <2>1. ~ (q > Fdr * E!Scale)
    <3>1. Fdr * E!Scale \in Nat
      BY AuditAssumption DEF E!Scale
    <3>2. QED
      BY <1>2, <1>6, <3>1
  <2>2. r = risk
    BY <1>1, <1>4, <2>1 DEF E!entity_risk
  <2>3. E!at_least(E!severity(r), "high") <=> risk >= 700
    BY <1>3, <2>2, SevereIs
  <2>4. QED
    BY <1>1, <1>2, <1>3, <1>5, <1>6, <2>2, <2>3
<1>7. CASE i \notin E!StepUp(p)
  <2>1. q > Fdr * E!Scale
    <3>1. Fdr * E!Scale \in Nat
      BY AuditAssumption DEF E!Scale
    <3>2. QED
      BY <1>2, <1>7, <3>1
  <2>2. r = E!Min({risk, E!NOT_SIGNIFICANT_CAP})
    BY <1>1, <1>4, <2>1 DEF E!entity_risk
  <2>3. r \in Nat /\ r < 700
    BY <1>3, <2>2, CappedIs
  <2>4. ~ E!at_least(E!severity(r), "high")
    BY <2>3, SevereIs
  <2>5. QED
    BY <1>1, <1>2, <1>3, <1>5, <1>7, <2>3, <2>4
<1>8. QED
  BY <1>6, <1>7

\* Who is tested again: the significant entities of high risk.
LEMMA FlaggedAre ==
    ASSUME NEW found, NEW D, NEW p, Auditable(found, D, p)
    PROVE  E!Flagged(E!_findings(found, p)) =
                {i \in E!StepUp(p) : E!RiskOf(p[i], Impact[found[i].entity_type]) >= 700}
<1>1. E!StepUp(p) \subseteq D
  BY AuditablePart DEF E!StepUp
<1>2. DOMAIN E!_findings(found, p) = D
  BY DEF E!_findings, Auditable
<1>3. \A i \in D : E!at_least(E!_findings(found, p)[i].severity, "high") <=>
                    i \in E!StepUp(p) /\ E!RiskOf(p[i], Impact[found[i].entity_type]) >= 700
  BY FirstTest
<1>4. QED
  BY <1>1, <1>2, <1>3 DEF E!Flagged

\* Findings after both tests, and what they come from.
Retested(found, D, p, again) ==
    /\ Auditable(found, D, p)
    /\ again \in [E!Flagged(E!_findings(found, p)) -> 0..1000]

\* What a finding says after the second test.
LEMMA SecondTest ==
    ASSUME NEW found, NEW D, NEW p, NEW again, Retested(found, D, p, again), NEW i \in D
    PROVE  LET f == E!_confirm(E!_findings(found, p), again)[i]
           IN  /\ DOMAIN E!_confirm(E!_findings(found, p), again) = D /\ f.at = found[i]
               /\ f.q \in Nat /\ f.risk \in Nat /\ f.severity = E!severity(f.risk)
               /\ f.severity \in {"high", "critical"} <=> i \in E!StepUp(again)
               /\ i \in E!StepUp(again) => f.risk = E!RiskOf(p[i], Impact[found[i].entity_type])
<1> DEFINE F == E!_findings(found, p)
           G == E!Flagged(F)
           Bound == Fdr * E!Scale
           q == E!benjamini_hochberg([j \in G |-> again[j]])
           failed == {j \in G : q[j] > Bound}
           capped(f) == E!Min({f.risk, E!NOT_SIGNIFICANT_CAP})
<1>1. E!_confirm(F, again) =
        [j \in DOMAIN F |->
            IF j \in failed THEN [F[j] EXCEPT !.risk = capped(F[j]), !.severity = E!severity(capped(F[j]))]
            ELSE F[j]]
  BY DEF E!_confirm
<1>2. Auditable(found, D, p) /\ again \in [G -> 0..1000]
  BY DEF Retested
<1>3. /\ DOMAIN F = D /\ F[i].at = found[i] /\ F[i].q \in Nat /\ F[i].risk \in Nat
      /\ F[i].severity = E!severity(F[i].risk)
      /\ F[i] = [at |-> F[i].at, p |-> F[i].p, q |-> F[i].q, risk |-> F[i].risk, severity |-> F[i].severity]
      /\ E!at_least(F[i].severity, "high") => F[i].risk = E!RiskOf(p[i], Impact[found[i].entity_type])
  BY <1>2, FirstTest
<1>4. G \in SUBSET D /\ (i \in G <=> E!at_least(F[i].severity, "high"))
  BY <1>3 DEF E!Flagged
<1>5. again = [j \in G |-> again[j]] /\ again \in [G -> Nat]
  <2>1. \A j \in G : again[j] \in 0..1000
    BY <1>2
  <2>2. \A j \in G : again[j] \in Nat
    BY <2>1
  <2>3. QED
    <3> HIDE DEF G
    <3> QED BY <1>2, <2>2
<1>6. D \in SUBSET Nat /\ IsFiniteSet(D)
  BY <1>2, AuditablePart
<1>7. G \in SUBSET Nat /\ IsFiniteSet(G)
  <2> HIDE DEF G
  <2> QED BY <1>4, <1>6, FS_Subset
<1>8. DOMAIN again = G
  BY <1>2
<1>9. E!StepUp(again) \subseteq G
  BY <1>8 DEF E!StepUp
<1>10. Bound \in Nat
  BY AuditAssumption DEF E!Scale
<1> HIDE DEF F, G, Bound
<1>11. \A j \in G : j \in failed <=> j \notin E!StepUp(again)
  <2>1. q = E!benjamini_hochberg(again)
    BY <1>5
  <2>2. ASSUME NEW j \in G
        PROVE  q[j] \in Nat /\ (q[j] <= Bound <=> j \in E!StepUp(again))
    BY <1>5, <1>7, <2>1, AdjustedIs DEF Bound
  <2> HIDE DEF q
  <2>3. QED
    BY <2>2, <1>10
<1>12. PICK g : g = E!_confirm(F, again)[i]
  OBVIOUS
<1>16. DOMAIN E!_confirm(F, again) = D
  BY <1>1, <1>3
<1>13. CASE i \in failed
  <2>1. PICK c : c = capped(F[i])
    OBVIOUS
  <2>2. c \in Nat /\ c < 700
    BY <1>3, <2>1, CappedIs
  <2>3. g = [F[i] EXCEPT !.risk = c, !.severity = E!severity(c)]
    BY <1>1, <1>3, <1>12, <1>13, <2>1
  <2>4. g.at = F[i].at /\ g.q = F[i].q /\ g.risk = c /\ g.severity = E!severity(c)
    BY <1>3, <2>3
  <2>5. ~ (E!severity(c) \in {"high", "critical"})
    BY <2>2, SevereIs
  <2>6. i \notin E!StepUp(again)
    BY <1>11, <1>13
  <2>7. QED
    BY <1>3, <1>12, <1>16, <2>2, <2>4, <2>5, <2>6 DEF F
<1>14. CASE i \notin failed
  <2>1. g = F[i]
    BY <1>1, <1>3, <1>12, <1>14
  <2>2. i \in G <=> i \in E!StepUp(again)
    BY <1>9, <1>11, <1>14
  <2>3. F[i].severity \in {"high", "critical"} <=> E!at_least(F[i].severity, "high")
    BY <1>3, SevereIs
  <2>4. QED
    BY <1>3, <1>4, <1>12, <1>16, <2>1, <2>2, <2>3 DEF F
<1>15. QED
  BY <1>13, <1>14

\* The blocking findings are those that both tests confirm.
LEMMA BlockingCount ==
    ASSUME NEW found, NEW D, NEW p, NEW again, Retested(found, D, p, again)
    PROVE  LET counts == E!_summarize(E!_confirm(E!_findings(found, p), again)).counts
           IN  counts["critical"] + counts["high"] = Cardinality(E!StepUp(again))
<1> DEFINE C == E!_confirm(E!_findings(found, p), again)
           of(s) == {i \in D : C[i].severity = s}
<1>1. D \in SUBSET Nat /\ IsFiniteSet(D)
  BY AuditablePart DEF Retested
<1>2. ASSUME D = {}
      PROVE  DOMAIN C = D
  BY <1>2 DEF E!_confirm, E!_findings, Retested, Auditable
<1>3. DOMAIN C = D
  BY <1>2, SecondTest
<1>4. DOMAIN again \subseteq D
  BY DEF Retested, E!Flagged, E!_findings, Auditable
<1>5. E!StepUp(again) = of("critical") \cup of("high") /\ of("critical") \cap of("high") = {}
  <2>1. E!StepUp(again) \subseteq D
    BY <1>4 DEF E!StepUp
  <2>2. \A i \in D : C[i].severity \in {"high", "critical"} <=> i \in E!StepUp(again)
    BY SecondTest
  <2> HIDE DEF C
  <2>3. QED
    BY <2>1, <2>2
<1>6. /\ IsFiniteSet(of("critical")) /\ IsFiniteSet(of("high"))
      /\ Cardinality(of("critical")) \in Nat /\ Cardinality(of("high")) \in Nat
  <2> HIDE DEF C
  <2> QED BY <1>1, FS_Subset, FS_CardinalityType
<1>7. Cardinality(E!StepUp(again)) = Cardinality(of("critical")) + Cardinality(of("high"))
  <2> HIDE DEF of
  <2>1. Cardinality(of("critical") \cup of("high")) =
            Cardinality(of("critical")) + Cardinality(of("high")) - Cardinality(of("critical") \cap of("high"))
    BY <1>6, FS_Union
  <2>2. Cardinality(of("critical") \cap of("high")) = 0
    BY <1>5, FS_EmptySet
  <2>3. QED
    BY <1>5, <1>6, <2>1, <2>2
<1>8. /\ E!_summarize(C).counts["critical"] = Cardinality(of("critical"))
      /\ E!_summarize(C).counts["high"] = Cardinality(of("high"))
  <2>1. "critical" \in E!ToSet(E!Severities) /\ "high" \in E!ToSet(E!Severities)
    <3>1. DOMAIN E!Severities = 1..5 /\ E!Severities[5] = "critical" /\ E!Severities[4] = "high"
      BY DEF E!Severities
    <3>2. QED
      BY <3>1 DEF E!ToSet
  <2> HIDE DEF C
  <2>2. E!_summarize(C).counts = [s \in E!ToSet(E!Severities) |-> Cardinality({i \in D : C[i].severity = s})]
    BY <1>3, AuditCounts DEF E!_summarize
  <2>3. QED
    BY <2>1, <2>2
<1>9. QED
  BY <1>7, <1>8

-----------------------------------------------------------------------------
(* The findings a report keeps. *)

\* The findings L can be put in order.
Comparable(f, L) == \A i \in L : i \in Nat /\ f[i].risk \in Nat /\ f[i].q \in Nat

\* The order of the report is total.
LEMMA BeforeOrders ==
    ASSUME NEW f, NEW L, Comparable(f, L), NEW i \in L, NEW j \in L
    PROVE  /\ ~ E!Before(f, i, i)
           /\ i = j \/ E!Before(f, i, j) \/ E!Before(f, j, i)
           /\ E!Before(f, i, j) => f[i].risk >= f[j].risk
           /\ \A k \in L : E!Before(f, k, i) /\ E!Before(f, i, j) => E!Before(f, k, j)
BY DEF Comparable, E!Before

\* Who of L comes before i.
Ahead(f, L, i) == {j \in L : E!Before(f, j, i)}

\* Who comes later has more before it.
LEMMA AheadRises ==
    ASSUME NEW f, NEW L, IsFiniteSet(L), Comparable(f, L), NEW i \in L, NEW j \in L, E!Before(f, i, j)
    PROVE  Cardinality(Ahead(f, L, i)) < Cardinality(Ahead(f, L, j))
<1>1. Ahead(f, L, i) \in SUBSET Ahead(f, L, j) /\ i \in Ahead(f, L, j) /\ i \notin Ahead(f, L, i)
  BY BeforeOrders DEF Ahead
<1>2. IsFiniteSet(Ahead(f, L, j)) /\ IsFiniteSet(Ahead(f, L, i))
  BY FS_Subset DEF Ahead
<1>3. Cardinality(Ahead(f, L, i)) \in Nat /\ Cardinality(Ahead(f, L, j)) \in Nat
  BY <1>2, FS_CardinalityType
<1>4. /\ Cardinality(Ahead(f, L, i)) <= Cardinality(Ahead(f, L, j))
      /\ Cardinality(Ahead(f, L, j)) # Cardinality(Ahead(f, L, i))
  BY <1>1, <1>2, FS_Subset
<1>5. QED
  BY <1>3, <1>4

\* A finding left out has as many as the report holds before it.
LEMMA ReportFull ==
    ASSUME NEW f, NEW L, IsFiniteSet(L), Comparable(f, L), NEW M \in Nat, NEW i \in L,
           ~ (Cardinality(Ahead(f, L, i)) < M)
    PROVE  LET kept == {k \in L : Cardinality(Ahead(f, L, k)) < M}
           IN  Cardinality(kept) = M /\ \A k \in kept : f[k].risk >= f[i].risk
<1> DEFINE n == Cardinality(L)
           place == [k \in L |-> Cardinality(Ahead(f, L, k))]
           kept == {k \in L : Cardinality(Ahead(f, L, k)) < M}
           short == [k \in kept |-> place[k]]
<1>1. n \in Nat /\ n # 0
  BY FS_CardinalityType, FS_EmptySet
<1>2. ASSUME NEW k \in L
      PROVE  place[k] = Cardinality(Ahead(f, L, k)) /\ place[k] \in 0..(n - 1)
  <2>1. Ahead(f, L, k) \in SUBSET (L \ {k})
    BY BeforeOrders DEF Ahead
  <2>2. IsFiniteSet(L \ {k}) /\ Cardinality(L \ {k}) = n - 1
    BY FS_RemoveElement
  <2>3. Cardinality(Ahead(f, L, k)) <= n - 1 /\ Cardinality(Ahead(f, L, k)) \in Nat
    BY <2>1, <2>2, FS_Subset, FS_CardinalityType
  <2>4. QED
    BY <1>1, <2>3
<1>3. \A j, k \in L : place[j] = place[k] => j = k
  <2> SUFFICES ASSUME NEW j \in L, NEW k \in L, place[j] = place[k], j # k
               PROVE  FALSE
    OBVIOUS
  <2>1. E!Before(f, j, k) \/ E!Before(f, k, j)
    BY BeforeOrders
  <2>2. place[j] < place[k] \/ place[k] < place[j]
    BY <2>1, AheadRises
  <2>3. place[j] \in Int /\ place[k] \in Int
    <3> HIDE DEF place, n
    <3> QED BY <1>1, <1>2
  <2> HIDE DEF place
  <2>4. QED
    BY <2>2, <2>3
<1>4. place \in Injection(L, 0..(n - 1))
  <2>1. place \in [L -> 0..(n - 1)]
    <3>1. \A k \in L : place[k] \in 0..(n - 1)
      BY <1>2
    <3>2. place = [k \in L |-> place[k]]
      OBVIOUS
    <3>3. QED
      <4> HIDE DEF place
      <4> QED BY <3>1, <3>2
  <2> HIDE DEF place
  <2>2. QED
    BY <1>3, <2>1 DEF Injection, IsInjective
<1>5. IsFiniteSet(0..(n - 1)) /\ Cardinality(0..(n - 1)) = n
  <2>1. n - 1 \in Int /\ 0 \in Int /\ ~ (0 > n - 1) /\ (n - 1) - 0 + 1 = n
    BY <1>1
  <2>2. QED
    <3> HIDE DEF n
    <3> QED BY <2>1, FS_Interval
<1>6. place \in Surjection(L, 0..(n - 1))
  <2> HIDE DEF place
  <2> QED BY <1>4, <1>5, FS_Injection
<1>7. \A m \in 0..(n - 1) : \E k \in L : place[k] = m
  <2> HIDE DEF place
  <2> QED BY <1>6 DEF Surjection
<1>8. M <= n - 1
  <2>1. place[i] \in 0..(n - 1) /\ ~ (place[i] < M)
    BY <1>2
  <2>2. QED
    <3> HIDE DEF place, n
    <3> QED BY <1>1, <2>1
<1>9. short \in Bijection(kept, 0..(M - 1))
  <2>1. \A k \in L : k \in kept <=> place[k] \in 0..(M - 1)
    <3>1. \A k \in L : k \in kept <=> place[k] < M
      OBVIOUS
    <3> HIDE DEF place, kept, n
    <3>2. QED
      BY <1>1, <1>2, <3>1
  <2>2. kept \subseteq L
    OBVIOUS
  <2>3. \A m \in 0..(M - 1) : \E k \in kept : short[k] = m
    <3> HIDE DEF place, kept, n
    <3>1. \A m \in 0..(M - 1) : m \in 0..(n - 1)
      BY <1>1, <1>8
    <3>2. QED
      BY <1>7, <2>1, <2>2, <3>1
  <2>4. short \in [kept -> 0..(M - 1)] /\ \A j, k \in kept : short[j] = short[k] => j = k
    <3> HIDE DEF place, kept, n
    <3> QED BY <1>3, <2>1, <2>2
  <2> HIDE DEF short, kept
  <2>5. QED
    BY <2>3, <2>4 DEF Bijection, Injection, IsInjective, Surjection
<1>10. Cardinality(kept) = M
  <2>1. IsFiniteSet(0..(M - 1)) /\ Cardinality(0..(M - 1)) = M
    <3>1. M - 1 \in Int /\ 0 \in Int /\ (0 > M - 1 => M = 0) /\ (M - 1) - 0 + 1 = M
      OBVIOUS
    <3>2. QED
      BY <3>1, FS_Interval
  <2>2. IsFiniteSet(kept)
    <3>1. kept \in SUBSET L
      OBVIOUS
    <3> HIDE DEF kept
    <3>2. QED
      BY <3>1, FS_Subset
  <2> HIDE DEF kept, short
  <2>3. QED
    BY <1>9, <2>1, <2>2, FS_Bijection DEF ExistsBijection
<1>11. ASSUME NEW k \in kept
       PROVE  f[k].risk >= f[i].risk
  <2>1. k \in L /\ place[k] < M /\ ~ (place[i] < M)
    OBVIOUS
  <2>2. ~ E!Before(f, i, k)
    <3> SUFFICES ASSUME E!Before(f, i, k) PROVE FALSE
      OBVIOUS
    <3>1. place[i] < place[k]
      BY <2>1, AheadRises
    <3>2. place[i] \in Int /\ place[k] \in Int
      <4> HIDE DEF place, n
      <4> QED BY <1>1, <1>2, <2>1
    <3> HIDE DEF place
    <3>3. QED
      BY <2>1, <3>1, <3>2
  <2>3. i = k \/ E!Before(f, k, i)
    BY <2>1, <2>2, BeforeOrders
  <2>4. f[i].risk \in Nat
    BY DEF Comparable
  <2>5. QED
    BY <2>1, <2>3, <2>4, BeforeOrders
<1>12. QED
  BY <1>10, <1>11

\* A confirmed finding is in the report, unless the report is full of findings of no less risk.
LEMMA ReportKeeps ==
    ASSUME NEW found, NEW D, NEW p, NEW again, Retested(found, D, p, again), NEW i \in E!StepUp(again)
    PROVE  LET kept == E!_summarize(E!_confirm(E!_findings(found, p), again)).findings
           IN  \/ \E f \in Range(kept) : f.at = found[i] /\ E!at_least(f.severity, "high")
               \/ /\ Cardinality(DOMAIN kept) = MAX_FINDINGS
                  /\ \A f \in Range(kept) : f.risk >= E!RiskOf(p[i], Impact[found[i].entity_type])
<1> DEFINE C == E!_confirm(E!_findings(found, p), again)
           L == E!Listed(C)
           kept == {k \in L : Cardinality(Ahead(C, L, k)) < MAX_FINDINGS}
<1>1. D \in SUBSET Nat /\ IsFiniteSet(D)
  BY AuditablePart DEF Retested
<1>2. i \in D
  BY DEF E!StepUp, Retested, E!Flagged, E!_findings, Auditable
<1>3. /\ DOMAIN C = D /\ C[i].at = found[i] /\ C[i].severity \in {"high", "critical"}
      /\ C[i].risk = E!RiskOf(p[i], Impact[found[i].entity_type])
  BY <1>2, SecondTest
<1>4. \A k \in D : C[k].q \in Nat /\ C[k].risk \in Nat
  BY SecondTest
<1> HIDE DEF C
<1>5. L \in SUBSET D /\ i \in L
  BY <1>2, <1>3 DEF E!Listed
<1>6. IsFiniteSet(L) /\ Comparable(C, L)
  <2>1. Comparable(C, L)
    BY <1>1, <1>4, <1>5 DEF Comparable
  <2> HIDE DEF L
  <2>2. QED
    BY <1>1, <1>5, <2>1, FS_Subset
<1>7. E!Report(C) = kept
  BY AuditCounts DEF E!Report, Ahead
<1>8. E!_summarize(C).findings = [k \in kept |-> C[k]]
  BY <1>7 DEF E!_summarize
<1>9. MAX_FINDINGS \in Nat
  BY AuditAssumption
<1>10. CASE i \in kept
  <2>1. C[i] \in Range([k \in kept |-> C[k]])
    <3> HIDE DEF kept
    <3> QED BY <1>10 DEF Range
  <2>2. E!at_least(C[i].severity, "high")
    BY <1>3, OrderOf DEF E!at_least
  <2>3. QED
    <3> HIDE DEF kept
    <3> QED BY <1>3, <1>8, <2>1, <2>2 DEF C
<1>11. CASE i \notin kept
  <2>1. ~ (Cardinality(Ahead(C, L, i)) < MAX_FINDINGS)
    BY <1>5, <1>11
  <2>2. Cardinality(kept) = MAX_FINDINGS /\ \A k \in kept : C[k].risk >= C[i].risk
    <3> HIDE DEF L
    <3> QED BY <1>5, <1>6, <1>9, <2>1, ReportFull
  <2>3. DOMAIN [k \in kept |-> C[k]] = kept /\ \A f \in Range([k \in kept |-> C[k]]) : \E k \in kept : f = C[k]
    <3> HIDE DEF kept
    <3> QED BY DEF Range
  <2>4. \A f \in Range([k \in kept |-> C[k]]) : f.risk >= C[i].risk
    <3> HIDE DEF kept
    <3> QED BY <2>2, <2>3
  <2>5. QED
    <3> HIDE DEF kept
    <3> QED BY <1>3, <1>8, <2>2, <2>3, <2>4 DEF C
<1>12. QED
  BY <1>10, <1>11

\* Each finding of a report is about an entity audited.
LEMMA ReportAbout ==
    ASSUME NEW found, NEW D, NEW p, NEW again, Retested(found, D, p, again),
           NEW f \in Range(E!_summarize(E!_confirm(E!_findings(found, p), again)).findings)
    PROVE  f.at.entity_type \in DOMAIN Impact
<1> DEFINE C == E!_confirm(E!_findings(found, p), again)
<1>1. PICK k \in E!Report(C) : f = C[k]
  BY DEF E!_summarize, Range
<1>2. k \in DOMAIN C
  BY DEF E!Report, E!Listed
<1>3. k \in D
  <2>1. DOMAIN C = D
    BY DEF E!_confirm, E!_findings, Retested, Auditable
  <2>2. QED
    BY <1>2, <2>1
<1>4. C[k].at = found[k]
  BY <1>3, SecondTest
<1>5. QED
  BY <1>1, <1>3, <1>4 DEF Retested, Auditable

-----------------------------------------------------------------------------
(* The entities of a corpus. *)

\* The first n sequences of s, one after the other.
Joins(s, n, f) == f = [i \in 1..n |-> IF i = 1 THEN s[i] ELSE f[i - 1] \o s[i]]

\* Concatenating one sequence after the other is possible for any number of them.
LEMMA JoinsExist ==
    ASSUME NEW s, NEW n \in Nat \ {0}
    PROVE  \E f : Joins(s, n, f)
<1> DEFINE Missing == {k \in Nat \ {0} : ~ \E f : Joins(s, k, f)}
<1>1. SUFFICES ASSUME Missing # {} PROVE FALSE
  OBVIOUS
<1>2. PICK k \in Missing : \A j \in Missing : k <= j
  <2>1. Missing \subseteq Nat
    OBVIOUS
  <2> HIDE DEF Missing
  <2>2. QED
    BY <1>1, <2>1, Least
<1>3. CASE k = 1
  <2>1. Joins(s, 1, [i \in 1..1 |-> s[1]])
    BY DEF Joins
  <2>2. QED
    BY <1>3, <2>1
<1>4. CASE k # 1
  <2>1. k \in Nat \ {0, 1} /\ k - 1 \in Nat \ {0} /\ k - 1 \notin Missing
    BY <1>2, <1>4
  <2>2. PICK f : Joins(s, k - 1, f)
    BY <2>1
  <2>3. PICK a : a = f[k - 1] \o s[k]
    OBVIOUS
  <2>4. PICK g : g = [i \in 1..k |-> IF i = k THEN a ELSE f[i]]
    OBVIOUS
  <2>5. ASSUME NEW i \in 1..k
        PROVE  g[i] = IF i = 1 THEN s[i] ELSE g[i - 1] \o s[i]
    <3>1. CASE i = k
      <4>1. g[k] = a /\ g[k - 1] = f[k - 1]
        BY <2>1, <2>4
      <4>2. QED
        BY <1>4, <2>3, <3>1, <4>1
    <3>2. CASE i # k
      <4>1. i \in 1..(k - 1) /\ g[i] = f[i]
        BY <2>1, <2>4, <3>2
      <4>2. f[i] = IF i = 1 THEN s[i] ELSE f[i - 1] \o s[i]
        BY <2>2, <4>1 DEF Joins
      <4>3. i # 1 => g[i - 1] = f[i - 1]
        BY <2>1, <2>4, <4>1
      <4>4. QED
        BY <4>1, <4>2, <4>3
    <3>3. QED
      BY <3>1, <3>2
  <2>6. Joins(s, k, g)
    <3>1. g = [i \in 1..k |-> g[i]]
      BY <2>4
    <3>2. [i \in 1..k |-> g[i]] = [i \in 1..k |-> IF i = 1 THEN s[i] ELSE g[i - 1] \o s[i]]
      BY <2>5
    <3>3. QED
      BY <3>1, <3>2 DEF Joins
  <2>7. QED
    BY <2>6
<1>5. QED
  BY <1>3, <1>4

\* And gives sequences of what they hold.
LEMMA JoinsTyped ==
    ASSUME NEW S, NEW s, NEW n \in Nat \ {0}, \A i \in 1..n : s[i] \in Seq(S), NEW f, Joins(s, n, f)
    PROVE  \A i \in 1..n : f[i] \in Seq(S)
<1> DEFINE Bad == {k \in 1..n : f[k] \notin Seq(S)}
<1>1. SUFFICES ASSUME Bad # {} PROVE FALSE
  OBVIOUS
<1>2. PICK k \in Bad : \A j \in Bad : k <= j
  <2>1. Bad \subseteq Nat
    OBVIOUS
  <2> HIDE DEF Bad
  <2>2. QED
    BY <1>1, <2>1, Least
<1>3. f[k] = IF k = 1 THEN s[k] ELSE f[k - 1] \o s[k]
  BY DEF Joins
<1>4. CASE k = 1
  BY <1>3, <1>4
<1>5. CASE k # 1
  <2>1. k - 1 \in 1..n /\ k - 1 \notin Bad
    BY <1>2, <1>5
  <2>2. PICK x, y : x = f[k - 1] /\ y = s[k]
    OBVIOUS
  <2>3. x \in Seq(S) /\ y \in Seq(S)
    BY <2>1, <2>2
  <2>4. x \o y \in Seq(S)
    BY <2>3
  <2>5. f[k] = x \o y
    BY <1>3, <1>5, <2>2
  <2>6. QED
    BY <2>4, <2>5
<1>6. QED
  BY <1>4, <1>5

\* The entities of all the columns, one after the other.
LEMMA FlattenTyped ==
    ASSUME NEW S, NEW s, Len(s) \in Nat, Len(s) = 0 => s \in Seq(S), \A i \in 1..Len(s) : s[i] \in Seq(S)
    PROVE  FlattenSeq(s) \in Seq(S)
<1>1. PICK n \in Nat : n = Len(s)
  OBVIOUS
<1>2. CASE n = 0
  BY <1>1, <1>2 DEF FlattenSeq
<1>3. CASE n # 0
  <2>1. PICK f : f = CHOOSE g : Joins(s, n, g)
    OBVIOUS
  <2>2. FlattenSeq(s) = f[n]
    BY <1>1, <1>3, <2>1 DEF FlattenSeq, Joins
  <2>3. Joins(s, n, f)
    BY <1>3, <2>1, JoinsExist
  <2>4. \A i \in 1..n : f[i] \in Seq(S)
    BY <1>1, <1>3, <2>3, JoinsTyped
  <2>5. QED
    BY <1>3, <2>2, <2>4
<1>4. QED
  BY <1>2, <1>3

\* The entities to audit, and their types.
LEMMA TargetsTyped ==
    /\ DOMAIN targets \in SUBSET Nat /\ IsFiniteSet(DOMAIN targets)
    /\ \A i \in DOMAIN targets : targets[i].entity_type \in DOMAIN Impact
<1> DEFINE T == [record : {r.id : r \in ToSet(raw)}, index : Nat, start : Nat, end : Nat,
                  entity_type : DOMAIN Impact]
           s == [r \in DOMAIN raw |->
                    [i \in DOMAIN raw[r].entities |->
                        [record |-> raw[r].id, index |-> i, start |-> raw[r].entities[i].start,
                         end |-> raw[r].entities[i].end, entity_type |-> raw[r].entities[i].entity_type]]]
<1>1. targets = FlattenSeq(s)
  BY DEF targets
<1>2. raw \in Seq(Records) /\ DOMAIN raw = 1..Len(raw) /\ Len(raw) \in Nat
  BY CorpusAssumption
<1>3. ASSUME NEW r \in DOMAIN raw
      PROVE  s[r] \in Seq(T)
  <2>1. raw[r] \in Records /\ raw[r].id \in {x.id : x \in ToSet(raw)}
    BY <1>2 DEF ToSet
  <2>2. PICK e : e = raw[r].entities
    OBVIOUS
  <2>3. e \in Seq(Spans)
    BY <2>1, <2>2 DEF Records
  <2>4. DOMAIN e = 1..Len(e) /\ Len(e) \in Nat
    BY <2>3
  <2>5. \A i \in 1..Len(e) : e[i] \in Spans
    BY <2>3
  <2>6. \A x \in Spans : x.start \in Nat /\ x.end \in Nat /\ x.entity_type \in DOMAIN Impact
    BY DEF Spans
  <2>7. \A i \in 1..Len(e) : [record |-> raw[r].id, index |-> i, start |-> e[i].start,
                              end |-> e[i].end, entity_type |-> e[i].entity_type] \in T
    BY <2>1, <2>5, <2>6
  <2>8. s[r] = [i \in 1..Len(e) |-> [record |-> raw[r].id, index |-> i, start |-> e[i].start,
                                     end |-> e[i].end, entity_type |-> e[i].entity_type]]
    BY <2>2, <2>4
  <2> HIDE DEF T, s
  <2>9. QED
    BY <2>4, <2>7, <2>8
<1>4. DOMAIN s = 1..Len(raw)
  BY <1>2
<1>5. Len(s) = Len(raw)
  BY <1>2, <1>4
<1>6. Len(s) = 0 => s \in Seq(T)
  <2>1. s = [r \in 1..Len(s) |-> s[r]]
    BY <1>4, <1>5
  <2> HIDE DEF s, T
  <2>2. QED
    BY <2>1
<1>7. targets \in Seq(T)
  <2> HIDE DEF s, T
  <2> QED BY <1>1, <1>2, <1>3, <1>4, <1>5, <1>6, FlattenTyped
<1>8. DOMAIN targets = 1..Len(targets) /\ Len(targets) \in Nat /\ \A i \in DOMAIN targets : targets[i] \in T
  <2> HIDE DEF T
  <2> QED BY <1>7
<1>9. IsFiniteSet(1..Len(targets))
  BY <1>8, FS_Interval
<1>10. \A t \in T : t.entity_type \in DOMAIN Impact
  OBVIOUS
<1>11. 1..Len(targets) \in SUBSET Nat
  OBVIOUS
<1> HIDE DEF T
<1>12. QED
  BY <1>8, <1>9, <1>10, <1>11

-----------------------------------------------------------------------------
(* The audit of a round. *)

\* Nothing is known of the entities beside the scores.
Zeros == [i \in DOMAIN targets |-> 0]

\* The audit is that of the evidence, while there is evidence.
Audited(e, a) ==
    /\ e.members \in [DOMAIN targets -> DOMAIN Null \cup {E!NaN}]
    /\ e.again \in [E!Flagged(E!_findings(targets, E!gather(e.members))) -> Again]
    /\ a = E!audit(targets, e.members, Zeros, e.again)

\* The findings of a are about types of the corpus.
About(a) == \A f \in Range(a.findings) : f.at.entity_type \in DOMAIN Impact

\* What holds between the steps of a round.
Tested ==
    /\ previous \subseteq DOMAIN Impact
    /\ pc # "audited" => evidence = NONE
    /\ pc \in {"audited", "built"} => About(audit)
    /\ evidence # NONE => Audited(evidence, audit)

\* The evidence is what the tests were run on.
LEMMA EvidenceTyped ==
    ASSUME NEW e, NEW a, Audited(e, a)
    PROVE  /\ Retested(targets, DOMAIN targets, E!gather(e.members), e.again)
           /\ a.severity_counts =
                E!_summarize(E!_confirm(E!_findings(targets, E!gather(e.members)), e.again)).counts
           /\ a.findings = E!_summarize(E!_confirm(E!_findings(targets, E!gather(e.members)), e.again)).findings
<1>1. E!gather(e.members) \in [DOMAIN targets -> 0..1000]
  <2>1. Null \in [DOMAIN Null -> 0..1000] /\ 1000 \in 0..1000
    BY AuditAssumption
  <2>2. e.members \in [DOMAIN targets -> DOMAIN Null \cup {E!NaN}]
    BY DEF Audited
  <2>3. QED
    BY <2>1, <2>2 DEF E!gather
<1>2. Auditable(targets, DOMAIN targets, E!gather(e.members))
  BY <1>1, TargetsTyped DEF Auditable
<1>3. e.again \in [E!Flagged(E!_findings(targets, E!gather(e.members))) -> 0..1000]
  BY AuditAssumption DEF Audited
<1>4. a = E!audit(targets, e.members, Zeros, e.again)
  BY DEF Audited
<1>5. QED
  BY <1>2, <1>3, <1>4 DEF Retested, E!audit

\* An audit is about the types of the corpus.
LEMMA AuditedAbout ==
    ASSUME NEW e, NEW a, Audited(e, a)
    PROVE  About(a)
BY EvidenceTyped, ReportAbout DEF About

LEMMA InitTested == Init => Tested
BY DEF Init, Tested

LEMMA NextTested == ASSUME Tested, [Next]_vars PROVE Tested'
<1>1. CASE RunPipeline
  <2>1. PICK members \in {m \in [DOMAIN targets -> UNION ToSet(Scores)] : \A i \in DOMAIN m : m[i] \in Scores[i]} :
            \E again \in [E!Flagged(E!_findings(targets, E!gather(members))) -> Again] :
                /\ evidence' = [members |-> members, again |-> again]
                /\ audit' = E!audit(targets, members, [i \in DOMAIN targets |-> 0], again)
    BY <1>1 DEF RunPipeline
  <2>2. PICK again \in [E!Flagged(E!_findings(targets, E!gather(members))) -> Again] :
            /\ evidence' = [members |-> members, again |-> again]
            /\ audit' = E!audit(targets, members, [i \in DOMAIN targets |-> 0], again)
    BY <2>1
  <2>3. evidence'.members = members /\ evidence'.again = again
    BY <2>2
  <2>4. members \in [DOMAIN targets -> DOMAIN Null \cup {E!NaN}]
    <3>1. \A i \in DOMAIN targets : members[i] \in Scores[i] /\ Scores[i] \subseteq DOMAIN Null \cup {E!NaN}
      BY AuditAssumption
    <3>2. QED
      BY <3>1
  <2>5. Audited(evidence', audit')
    BY <2>2, <2>3, <2>4 DEF Audited, Zeros
  <2>6. About(audit')
    BY <2>5, AuditedAbout
  <2>7. pc' = "audited" /\ previous' = previous
    BY <1>1 DEF RunPipeline
  <2>8. QED
    BY <2>5, <2>6, <2>7 DEF Tested
<1>2. CASE Build
  <2>1. pc = "audited" /\ evidence' = NONE /\ audit' = audit /\ previous' = previous
    BY <1>2 DEF Build
  <2>2. QED
    BY <2>1 DEF Tested
<1>3. CASE BuildFails \/ Finish \/ Crash \/ CrashWriting
  <2>1. pc' = "idle" /\ evidence' = NONE /\ previous' = {}
    BY <1>3 DEF BuildFails, Finish, Crash, CrashWriting, Ends, Forget
  <2>2. QED
    BY <2>1 DEF Tested
<1>4. CASE Choose
  <2>1. pc = "built" /\ pc' = "chosen" /\ evidence' = evidence /\ previous' = risky_types
    BY <1>4 DEF Choose
  <2>2. risky_types \subseteq DOMAIN Impact
    BY <2>1 DEF Tested, About, risky_types
  <2>3. QED
    BY <2>1, <2>2 DEF Tested
<1>5. CASE Start \/ KeepHistory \/ WriteTrain
  <2>1. /\ pc \notin {"audited", "built"} /\ pc' \notin {"audited", "built"}
        /\ evidence' = evidence /\ previous' = previous
    BY <1>5 DEF Start, KeepHistory, WriteTrain, round
  <2>2. QED
    BY <2>1 DEF Tested
<1>6. CASE SetVersion
  <2>1. pc' = "run" /\ evidence' = NONE /\ previous' = previous
    BY <1>6 DEF SetVersion, Forget
  <2>2. QED
    BY <2>1 DEF Tested
<1>7. CASE UNCHANGED vars
  <2>1. pc' = pc /\ evidence' = evidence /\ audit' = audit /\ previous' = previous
    BY <1>7 DEF vars, round
  <2>2. QED
    BY <2>1 DEF Tested
<1>8. QED
  BY <1>1, <1>2, <1>3, <1>4, <1>5, <1>6, <1>7 DEF Next

\* What blocks a release is confirmed (llm/audit.py, llm/risk.py): as many
\* findings block as entities pass both tests, the second one on the candidates
\* of the first only, each test the step-up procedure at its rate for any number
\* of entities, and the report names every one of them or is full of findings
\* that are no less risky.
THEOREM Confirming == Spec => []BlockingIsConfirmed
<1>1. Tested /\ [Next]_vars => Tested'
  BY NextTested
<1>2. ASSUME Tested, evidence # NONE
      PROVE  /\ DOMAIN evidence.again = Candidates(evidence)
             /\ blocking = Cardinality(E!StepUp(evidence.again))
             /\ \A i \in E!StepUp(evidence.again) :
                    \/ \E f \in Range(audit.findings) : f.at = targets[i] /\ E!at_least(f.severity, "high")
                    \/ /\ Cardinality(DOMAIN audit.findings) = MAX_FINDINGS
                       /\ \A f \in Range(audit.findings) :
                            f.risk >= E!RiskOf(E!gather(evidence.members)[i], Impact[targets[i].entity_type])
  <2>1. PICK p : p = E!gather(evidence.members)
    OBVIOUS
  <2>2. PICK S : S = E!_summarize(E!_confirm(E!_findings(targets, p), evidence.again))
    OBVIOUS
  <2>3. /\ Retested(targets, DOMAIN targets, p, evidence.again)
        /\ audit.severity_counts = S.counts /\ audit.findings = S.findings
    BY <1>2, <2>1, <2>2, EvidenceTyped DEF Tested
  <2>4. DOMAIN evidence.again = Candidates(evidence)
    BY <2>1, <2>3, FlaggedAre DEF Retested, Candidates
  <2>5. blocking = Cardinality(E!StepUp(evidence.again))
    BY <2>2, <2>3, BlockingCount DEF blocking
  <2>6. ASSUME NEW i \in E!StepUp(evidence.again)
        PROVE  \/ \E f \in Range(S.findings) : f.at = targets[i] /\ E!at_least(f.severity, "high")
               \/ /\ Cardinality(DOMAIN S.findings) = MAX_FINDINGS
                  /\ \A f \in Range(S.findings) : f.risk >= E!RiskOf(p[i], Impact[targets[i].entity_type])
    BY <2>2, <2>3, ReportKeeps
  <2>7. QED
    BY <2>1, <2>3, <2>4, <2>5, <2>6
<1>3. Tested => BlockingIsConfirmed
  BY <1>2 DEF Tested, BlockingIsConfirmed
<1>4. QED
  BY <1>1, <1>3, InitTested, PTL DEF Spec
=============================================================================
