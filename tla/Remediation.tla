---------------------------- MODULE Remediation ----------------------------
(***************************************************************************)
(* The remediation loop of a language model project (llm/remediate.py):    *)
(* train and audit, build a passport, and while the gate fails keep the    *)
(* training data under its version, replace the risky values, raise the    *)
(* version and start over.  A crash may end a run anywhere; the user runs  *)
(* the command again, on the files as they then are.                       *)
(*                                                                         *)
(* data/raw.jsonl never changes; the audit always looks for its values.    *)
(* What the model memorized is nature's choice, and so is what else there  *)
(* is to find in the project (a site) at each build.                       *)
(***************************************************************************)
EXTENDS Integers, Sequences, FiniteSets, SequencesExt

CONSTANTS
    NONE,
    Raw,                \* the lines of data/raw.jsonl
    Scores,             \* the scores each entity may get, NaN among them
    Again,              \* p-values of the second test
    Null, Impact, Fdr, MAX_FINDINGS, MIN_TYPE_METRICS,      \* see EntityAudit
    Sites, LaterSites,  \* what the scanners may come upon; bound: at later builds
    Template,           \* the project's policy
    Always,             \* types that are never trained on
    Strategies,
    Pool,               \* values the generators may draw
    Scrambled,          \* see Sanitize
    TypeAucMax,         \* area above which a type counts as leaky
    MaxRounds,
    MaxBuilds           \* bound: builds of all runs of the command

E == INSTANCE EntityAudit
P == INSTANCE Policy
X == INSTANCE Scans
Z == INSTANCE Sanitize

\* The project's policy, as its template writes it (llm/project.py): the rules
\* about entities are among its rules.
ASSUME TemplateAssumption ==
    /\ Template = [missing_evidence |-> Template.missing_evidence, rules |-> Template.rules]
    /\ Template.missing_evidence \in {"pass", "warn", "fail"}
    /\ P!ENTITY_RULES \subseteq DOMAIN Template.rules

\* As strict as the templates (core/config.py too): nothing passes unseen, and
\* nothing of what must not be there is let pass.
ASSUME StrictAssumption ==
    /\ Template.missing_evidence # "pass"
    /\ \A r \in DOMAIN Template.rules :
        LET limit == Template.rules[r]
        IN  /\ r \in {"pii_columns_max", "secrets_found_max", "critical_cves_max"} => limit.fail = 0
            /\ r \in {"min_k_anonymity", "mia_tpr_at_low_fpr_max"} => limit.fail \in Nat
            /\ r = "min_l_diversity" => limit.fail \in Nat \ {0, 1}
            /\ r = "unsafe_pickle" => limit # "pass"

\* What the scanners may come upon.
ASSUME SitesAssumption ==
    /\ NONE \notin Int /\ NONE \notin X!Direct \cup {"critical"}
    /\ \A s \in Sites \cup LaterSites :
        /\ s.sample_size \in Nat \cup {NONE}
        /\ IsFiniteSet(s.artifacts) /\ IsFiniteSet(s.vulnerabilities) /\ IsFiniteSet(s.datasets)
        /\ \A a \in s.artifacts :
            /\ IsFiniteSet(a.parts)
            /\ \A i \in DOMAIN a.lines : \A t \in a.lines[i] : t.pattern \in DOMAIN X!PATTERNS \cup {NONE}
        /\ \A t \in s.datasets :
            /\ IsFiniteSet(DOMAIN t.columns) /\ NONE \notin DOMAIN t.columns
            /\ \A c \in DOMAIN t.columns :
                LET cells == t.columns[c].cells
                IN  /\ DOMAIN cells = DOMAIN t.rows
                    /\ \A i \in DOMAIN cells : cells[i] \subseteq X!VALIDATORS \cup {"DIGITS"}
            /\ t.rows \in Seq(ToSet(t.rows))
            /\ t.drawn \subseteq DOMAIN t.rows
            /\ s.sample_size # NONE /\ Len(t.rows) > s.sample_size => Cardinality(t.drawn) = s.sample_size
        /\ {s.members, s.nonmembers} \subseteq {NONE} \cup Seq([loss : Int, right : BOOLEAN])

VARIABLES
    train,      \* the lines of data/train.jsonl
    version,    \* the minor version in passport.yaml
    history,    \* version -> the lines under data/history/
    strategy,   \* how this project replaces values
    pc, attempt,
    builds,     \* history: builds begun
    previous,   \* risky types of the round before
    evidence,   \* what the audit saw: [members, again]
    audit,      \* its report
    build,      \* the build: [site, rules, verdict]
    chosen,     \* what this round replaces: spans of raw, and their places in train
    passports,  \* history: {[version, data]} of every passport built
    due,        \* history: positions that completed rounds had to replace, and had drawn a value for
    torn        \* history: versions whose round a crash cut after the data

files == <<train, version, history, strategy>>
round == <<evidence, audit, build, chosen>>
vars == <<files, pc, builds, attempt, previous, round, passports, due, torn>>

raw == Z!load_corpus(Raw)
Train == Z!load_corpus(train)

\* Every annotated entity, in the order of the corpus.
targets ==
    FlattenSeq([r \in DOMAIN raw |->
        [i \in DOMAIN raw[r].entities |->
            [record |-> raw[r].id, index |-> i, start |-> raw[r].entities[i].start,
             end |-> raw[r].entities[i].end, entity_type |-> raw[r].entities[i].entity_type]]])

\* Texts, and the records of a corpus: the entities of one are in the order of
\* its text and do not overlap.
Atoms == DOMAIN Impact \cup UNION {ToSet(t) : t \in Pool \cup {r.text : r \in ToSet(raw)}}
Spans == [start : Nat, end : Nat, entity_type : DOMAIN Impact]
Records == [id : {r.id : r \in ToSet(raw)}, text : Seq(Atoms), entities : Seq(Spans)]

WellFormed(r) ==
    /\ r \in Records
    /\ \A i \in DOMAIN r.entities :
          r.entities[i].start < r.entities[i].end /\ r.entities[i].end <= Len(r.text)
    /\ \A i, j \in DOMAIN r.entities : i < j => r.entities[i].end <= r.entities[j].start

\* Every record has an id of its own, and no value is the mask of its type.
ASSUME CorpusAssumption ==
    /\ raw \in Seq(Records) /\ \A i \in DOMAIN raw : WellFormed(raw[i])
    /\ \A i, j \in DOMAIN raw : raw[i].id = raw[j].id => i = j
    /\ \A r \in ToSet(raw) : \A s \in ToSet(r.entities) : Z!value(r, s) # <<s.entity_type>>

\* P-values are probabilities in thousandths, and every entity has a score.
ASSUME AuditAssumption ==
    /\ Impact \in [DOMAIN Impact -> Nat] /\ Null \in [DOMAIN Null -> 0..1000] /\ Again \subseteq 0..1000
    /\ DOMAIN targets \subseteq DOMAIN Scores
    /\ \A i \in DOMAIN targets : Scores[i] \subseteq DOMAIN Null \cup {E!NaN}
    /\ Fdr \in 0..999 /\ MAX_FINDINGS \in Nat

ASSUME PoolAssumption == \A v \in Pool : v \in Seq(Atoms) /\ v # <<>>
ASSUME ScrambledAssumption == Scrambled \in [Atoms -> SUBSET Atoms]
ASSUME StrategiesAssumption == Strategies \subseteq {"surrogate", "mask", "drop"}
ASSUME BoundsAssumption == MaxRounds \in Nat /\ MaxBuilds \in Nat

Init ==
    /\ train = Raw /\ version = 0 /\ history = <<>> /\ strategy \in Strategies
    /\ pc = "idle" /\ builds = 0 /\ attempt = 0 /\ previous = {}
    /\ evidence = NONE /\ audit = NONE /\ build = NONE /\ chosen = NONE
    /\ passports = {} /\ due = {} /\ torn = {}

bump_minor(v) == v + 1

Forget == evidence' = NONE /\ audit' = NONE /\ build' = NONE /\ chosen' = NONE

\* The command ends, by itself or not.
Ends == pc' = "idle" /\ attempt' = 0 /\ previous' = {} /\ Forget

Start ==
    /\ pc = "idle" /\ builds < MaxBuilds
    /\ pc' = "run"
    /\ UNCHANGED <<files, builds, attempt, previous, round, passports, due, torn>>

\* The pipeline trains on data/train.jsonl and audits on data/raw.jsonl.  The
\* second p-value is drawn for the entities that are tested again.
RunPipeline ==
    /\ pc = "run" /\ builds < MaxBuilds
    /\ \E members \in {m \in [DOMAIN targets -> UNION ToSet(Scores)] : \A i \in DOMAIN m : m[i] \in Scores[i]} :
        LET findings == E!_findings(targets, E!gather(members))
        IN  \E again \in [E!Flagged(findings) -> Again] :
                /\ evidence' = [members |-> members, again |-> again]
                /\ audit' = E!audit(targets, members, [i \in DOMAIN targets |-> 0], again)
    /\ pc' = "audited" /\ builds' = builds + 1
    /\ UNCHANGED <<files, attempt, previous, build, chosen, passports, due, torn>>

Site == IF passports = {} THEN Sites ELSE LaterSites

Report(s) ==
    LET checks == X!_run_checks(s)
    IN  [privacy |-> [datasets_scanned |-> checks.privacy.datasets_scanned,
                      data_findings |-> checks.privacy.data_findings,
                      reidentification |-> checks.privacy.reidentification,
                      leakage |-> checks.privacy.leakage,
                      entity_audit |-> audit],
         security |-> checks.security]

\* build_passport, then the passport that it replaces is archived.
Build ==
    /\ pc = "audited" /\ E!Readable(audit)
    /\ \E s \in Site :
        /\ X!_run_checks(s) # X!Failed
        /\ LET result == P!evaluate(Template, Report(s))
           IN  build' = [site |-> s, rules |-> result.rules, verdict |-> result.verdict]
    /\ passports' = passports \cup {[version |-> version, data |-> train]}
    /\ evidence' = NONE
    /\ pc' = "built"
    /\ UNCHANGED <<files, builds, attempt, previous, audit, chosen, due, torn>>

BuildFails ==
    /\ pc = "audited"
    /\ ~ E!Readable(audit) \/ \E s \in Site : X!_run_checks(s) = X!Failed
    /\ Ends
    /\ UNCHANGED <<files, builds, passports, due, torn>>

\* Confirmed findings that block.
blocking == audit.severity_counts["critical"] + audit.severity_counts["high"]

gate_passed == build.verdict # "fail" /\ blocking = 0

\* The gate passes, or there is no round left.
LoopEnds == gate_passed \/ attempt = MaxRounds

Finish ==
    /\ pc = "built" /\ LoopEnds
    /\ Ends
    /\ UNCHANGED <<files, builds, passports, due, torn>>

risky_types == {f.at.entity_type : f \in {f \in Range(audit.findings) : E!at_least(f.severity, "high")}}

\* Types replaced as a whole: risky in two rounds in a row, or leaky while
\* no single entity is.
whole_types ==
    (risky_types \cap previous) \cup
    IF blocking > 0 THEN {} ELSE {t \in DOMAIN audit.type_auc : audit.type_auc[t] > TypeAucMax}

\* _sanitize_round reads both corpora and finds what to replace where.
Choose ==
    /\ pc = "built" /\ ~ LoopEnds
    /\ LET risky == {f \in Range(audit.findings) : E!at_least(f.severity, "medium")}
           found == Z!risky_spans(risky, raw, Always \cup whole_types)
       IN  chosen' = [found |-> found, places |-> Z!translate(found, raw, Train)]
    /\ previous' = risky_types
    /\ build' = NONE /\ audit' = NONE
    /\ pc' = "chosen"
    /\ UNCHANGED <<files, builds, attempt, evidence, passports, due, torn>>

\* The keys no draw may succeed for.
Fallbacks == IF strategy = "surrogate" THEN SUBSET Z!KeysOf(Train, chosen.places) ELSE {{}}
Cleaned(fell) == Z!sanitize(Train, chosen.places, strategy, Pool, fell)

\* Faulty step: the data kept is the sanitized one.
KeepHistoryLate ==
    /\ pc = "chosen"
    /\ \E fell \in Fallbacks : \E cleaned \in Cleaned(fell) :
        history' = [v \in DOMAIN history \cup {version} |->
                        IF v = version THEN Z!write_corpus(cleaned) ELSE history[v]]
    /\ pc' = "copied"
    /\ UNCHANGED <<train, version, strategy, builds, attempt, previous, round, passports, due, torn>>

KeepHistory ==
    /\ pc = "chosen"
    /\ history' = [v \in DOMAIN history \cup {version} |-> IF v = version THEN train ELSE history[v]]
    /\ pc' = "copied"
    /\ UNCHANGED <<train, version, strategy, builds, attempt, previous, round, passports, due, torn>>

\* Where the entities of the original with the spans `found` are, but for the
\* values that fell back.
Positions(found, fell) ==
    UNION {{<<r.id, i>> : i \in {i \in DOMAIN r.entities :
                /\ <<r.id, r.entities[i].start, r.entities[i].end>> \in found
                /\ Z!Key(r, r.entities[i]) \notin fell}} : r \in ToSet(raw)}

WriteTrain ==
    /\ pc = "copied"
    /\ \E fell \in Fallbacks :
        /\ \E cleaned \in Cleaned(fell) : train' = Z!write_corpus(cleaned)
        /\ due' = due \cup Positions(chosen.found, fell)
    /\ pc' = "written"
    /\ UNCHANGED <<version, history, strategy, builds, attempt, previous, round, passports, torn>>

SetVersion ==
    /\ pc = "written"
    /\ version' = bump_minor(version)
    /\ attempt' = attempt + 1
    /\ Forget
    /\ pc' = "run"
    /\ UNCHANGED <<train, history, strategy, builds, previous, passports, due, torn>>

\* The process dies.
Crash ==
    /\ pc # "idle"
    /\ torn' = IF pc = "written" THEN torn \cup {version} ELSE torn
    /\ Ends
    /\ UNCHANGED <<files, builds, passports, due>>

\* It dies while the corpus is written over, line by line.
CrashWriting ==
    /\ pc = "copied"
    /\ \E fell \in Fallbacks : \E cleaned \in Cleaned(fell) :
        \E k \in 0..(Len(cleaned) - 1) : train' = SubSeq(Z!write_corpus(cleaned), 1, k)
    /\ torn' = torn \cup {version}
    /\ Ends
    /\ UNCHANGED <<version, history, strategy, builds, passports, due>>

Next ==
    \/ Start
    \/ RunPipeline
    \/ Build
    \/ BuildFails
    \/ Finish
    \/ Choose
    \/ KeepHistory
    \/ WriteTrain
    \/ SetVersion
    \/ Crash
    \/ CrashWriting

Spec == Init /\ [][Next]_vars

-----------------------------------------------------------------------------
(* Properties. *)

\* The loop stays within its rounds, the files within what the code writes.
TypeOK ==
    /\ pc \in {"idle", "run", "audited", "built", "chosen", "copied", "written"}
    /\ attempt \in 0..MaxRounds /\ builds \in 0..MaxBuilds
    /\ version \in 0..MaxBuilds /\ DOMAIN history \subseteq 0..version
    /\ strategy \in Strategies
    /\ torn \subseteq 0..version
    /\ \A x \in due : \E r \in ToSet(raw) : r.id = x[1] /\ x[2] \in DOMAIN r.entities

\* What the first test rejects, if it is risky enough to be tested again.
Candidates(e) ==
    LET p == E!gather(e.members)
    IN  {i \in E!StepUp(p) : E!RiskOf(p[i], Impact[targets[i].entity_type]) >= 700}

\* The entities that block a release are those that both tests reject under
\* the false discovery rate, and the report leaves one of them out only when
\* it is full of others as risky (_findings, _confirm, _summarize).  What the
\* loop remembers of a round are types of entities.
BlockingIsConfirmed ==
    /\ previous \subseteq DOMAIN Impact
    /\ evidence # NONE =>
        /\ DOMAIN evidence.again = Candidates(evidence)
        /\ blocking = Cardinality(E!StepUp(evidence.again))
        /\ \A i \in E!StepUp(evidence.again) :
            \/ \E f \in Range(audit.findings) : f.at = targets[i] /\ E!at_least(f.severity, "high")
            \/ /\ Cardinality(DOMAIN audit.findings) = MAX_FINDINGS
               /\ \A f \in Range(audit.findings) :
                    f.risk >= E!RiskOf(E!gather(evidence.members)[i], Impact[targets[i].entity_type])

Reachable(a) ==
    {f \in a.parts : f.suffix = "pickle" /\ (a.kind = "model" \/ a.form # "directory")}

\* What each rule about the project promises, said of the site.
Holds(rule, s) ==
    LET tables == {t \in s.datasets : t.tabular}
        qis(t) == t.quasi_identifiers \cap DOMAIN t.columns
        limit == Template.rules[rule]
    IN  CASE rule = "secrets_found_max" ->
                \A a \in s.artifacts : a.kind = "model" \/ X!Unread(a) \/
                    \A i \in DOMAIN a.lines : \A t \in a.lines[i] :
                        t.pattern # NONE => t.pattern = "GENERIC_SECRET_ASSIGNMENT" /\ (t.code \/ ~ t.random)
          [] rule = "unsafe_pickle" ->
                \A a \in s.artifacts : \A f \in Reachable(a) : f.parsed /\ ~ f.dangerous
          [] rule = "critical_cves_max" ->
                \A v \in s.vulnerabilities : v.severity = "critical" => ~ v.rated
          [] rule = "pii_columns_max" ->
                \A t \in tables : \A c \in DOMAIN t.columns :
                    /\ t.columns[c].named \notin X!Direct
                    /\ \A i \in DOMAIN t.columns[c].cells :
                        (s.sample_size = NONE \/ Len(t.rows) <= s.sample_size \/ i \in t.drawn) =>
                            t.columns[c].cells[i] \cap (X!Direct \ {"CREDIT_CARD"}) = {}
          [] rule = "min_k_anonymity" ->
                \A t \in tables : \A i \in DOMAIN t.rows : qis(t) # {} =>
                    \E J \in SUBSET DOMAIN t.rows :
                        /\ i \in J /\ Cardinality(J) >= limit.fail
                        /\ \A j \in J : \A c \in qis(t) : t.rows[j][c] = t.rows[i][c]
          [] rule = "min_l_diversity" ->
                \A t \in tables : \A i \in DOMAIN t.rows :
                    (qis(t) # {} /\ t.sensitive \in DOMAIN t.columns) =>
                        \E j \in DOMAIN t.rows :
                            /\ \A c \in qis(t) : t.rows[j][c] = t.rows[i][c]
                            /\ t.rows[j][t.sensitive] # t.rows[i][t.sensitive]
          [] rule = "mia_tpr_at_low_fpr_max" ->
                LET exposed == {i \in DOMAIN s.members : \A j \in DOMAIN s.nonmembers :
                                    s.members[i].loss < s.nonmembers[j].loss}
                IN  X!Thousandths(Cardinality(exposed), Len(s.members)) <= limit.fail
          [] OTHER -> TRUE

\* A rule that passes is true of the project, and not for want of a scan
\* (engine.py: missing evidence is "never a silent pass").  The exceptions
\* are in what Holds says: files that are not text, directories that are not
\* models, rows outside the sample that is scanned for personal data, cards
\* that look like ids, and vulnerabilities whose severity could not be fetched.
PassBacked ==
    build # NONE => \A r \in DOMAIN build.rules : build.rules[r] = "pass" => Holds(r, build.site)

\* The combinations reported as risky are the smallest ones, and all of them.
RiskyColumns ==
    build # NONE => \A t \in build.site.datasets :
        LET qis == t.quasi_identifiers \cap DOMAIN t.columns
            unique(c) == X!unique_fraction(t.rows, c) > 10
        IN  t.tabular => X!assess(t).risky_combinations =
                {c \in SUBSET qis : /\ c # {} /\ Cardinality(c) <= 3 /\ unique(c)
                                    /\ \A d \in SUBSET c : d \notin {{}, c} => ~ unique(d)}

\* The platform's gate blocks an audit exactly when a rule about entities
\* fails the project's build: the same engine, with nothing but the audit.
GatesAgree ==
    build # NONE =>
        (P!blocking(P!check(audit, P!default_policy(Template))) <=>
            \E r \in {"entity_critical_max", "entity_high_max", "el_mia_auc_max", "el_mia_tpr_at_1pct_fpr_max"} :
                build.rules[r] = "fail")

\* What is not part of an entity, in order.
Gaps(r) ==
    [i \in 1..(Len(r.entities) + 1) |->
        Z!Slice(r.text, IF i = 1 THEN 0 ELSE r.entities[i - 1].end,
                IF i > Len(r.entities) THEN Len(r.text) ELSE r.entities[i].start)]

\* The training data has the records of the original, with the same entities
\* in the same order and the same text around them: what translate relies on.
\* Records are missing only where they were dropped or a crash cut the file.
TrainAligned ==
    /\ \A r \in ToSet(Train) : \E o \in ToSet(raw) :
        /\ r.id = o.id /\ Gaps(r) = Gaps(o)
        /\ [i \in DOMAIN r.entities |-> r.entities[i].entity_type] =
           [i \in DOMAIN o.entities |-> o.entities[i].entity_type]
    /\ torn = {} /\ strategy # "drop" => Len(Train) = Len(raw)

\* Once a round is complete, no position it had to replace holds the value of
\* the original any more, however the rounds and the replaced lengths mix.  The
\* values whose draws were all in vain are not among them: what takes their
\* place is not looked at, and may be the value itself.
RiskyReplaced ==
    \A x \in due : \A r \in ToSet(Train) : \A o \in ToSet(raw) :
        (r.id = x[1] /\ o.id = x[1]) =>
            Z!value(r, r.entities[x[2]]) # Z!value(o, o.entities[x[2]])

\* The data a passport was built from is the training data still, or is kept
\* under the passport's version, and a version means one data.  A version
\* whose round was cut between the data and the number is lost to this.
HistoryKept ==
    \A p \in passports : p.version \notin torn =>
        /\ \/ p.version = version /\ p.data = train
           \/ p.version \in DOMAIN history /\ p.data = history[p.version]
        /\ \A q \in passports : q.version = p.version => q.data = p.data

\* What a build reports is true of the project: its passing rules and the
\* combinations of columns it calls risky.
ReportTrue == PassBacked /\ RiskyColumns

\* Sanitizing replaces what it has to and finds a value for, in place, through
\* any number of rounds, lengths of replacements and crashes.
SanitizedInPlace == TypeOK /\ TrainAligned /\ RiskyReplaced
=============================================================================
