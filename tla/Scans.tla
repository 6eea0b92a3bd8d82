-------------------------------- MODULE Scans --------------------------------
(***************************************************************************)
(* The scanners and auditors a build runs over a project: secrets, model   *)
(* artifacts, dependencies, personal data in tables, re-identification and *)
(* leakage (scanners/, auditors/, core/assess.py).                         *)
(*                                                                         *)
(* A site is what there is to find.  A line of a file is the set of its    *)
(* tokens, a cell of a table the set of the kinds its text matches; the    *)
(* regular expressions that decide this are not modelled.                  *)
(***************************************************************************)
EXTENDS Roc, SequencesExt

CONSTANT NONE

Failed == [error |-> TRUE]

-----------------------------------------------------------------------------
(* Secrets. *)

\* The severity a pattern gives its matches; "JWT" stands for the ones that
\* are High, "LLM_API_KEY" for the Critical ones.
PATTERNS ==
    [p \in {"LLM_API_KEY", "JWT", "GENERIC_SECRET_ASSIGNMENT"} |->
        IF p = "LLM_API_KEY" THEN "critical" ELSE "high"]

\* Only the generic pattern asks for entropy and for a literal.
Matches(t) ==
    t.pattern # NONE /\ (t.pattern = "GENERIC_SECRET_ASSIGNMENT" => t.random /\ ~ t.code)

_scan_line(line) ==
    {[kind |-> t.pattern, severity |-> PATTERNS[t.pattern]] : t \in {t \in line : Matches(t)}} \cup
    {[kind |-> "HIGH_ENTROPY_STRING", severity |-> "medium"] : t \in {t \in line : ~ Matches(t) /\ t.random}}

Unread(a) == a.form \in {"directory", "large", "binary"}

\* One finding for each kind a file holds, however often it holds it.
scan_file(a) ==
    IF Unread(a) THEN {}
    ELSE UNION {{[path |-> a.path, kind |-> h.kind, severity |-> h.severity] : h \in _scan_line(a.lines[i])} :
                i \in DOMAIN a.lines}

scan_secrets(artifacts) ==
    LET scanned == {a \in artifacts : a.kind # "model"}
    IN  [files |-> Cardinality(scanned), findings |-> UNION {scan_file(a) : a \in scanned}]

-----------------------------------------------------------------------------
(* Model artifacts. *)

is_pickle_like(f) == f.suffix = "pickle"

\* The categories found in one file.
CategoriesOf(f) ==
    CASE f.suffix = "safe" -> {"SAFE_FORMAT"}
      [] f.suffix \in {"gguf", "other"} -> {"UNKNOWN_FORMAT"}
      [] is_pickle_like(f) /\ ~ f.parsed -> {"SCAN_ERROR"}
      [] is_pickle_like(f) /\ f.parsed ->
            {"RAW_PICKLE_FORMAT"} \cup IF f.dangerous THEN {"UNSAFE_PICKLE"} ELSE {}

\* A directory is scanned file by file, but for the files that are neither
\* weights nor pickles.
scan_model_file(a) ==
    LET looked_at == IF a.form = "directory" THEN {f \in a.parts : f.suffix # "other"} ELSE a.parts
    IN  UNION {{[path |-> a.path, part |-> f, category |-> c] : c \in CategoriesOf(f)} : f \in looked_at}

Scanned(artifacts) ==
    {a \in artifacts : a.kind = "model" \/ \E f \in a.parts : a.form # "directory" /\ is_pickle_like(f)}

\* A model is loaded only when its scan finds nothing dangerous.
safe_load_pickle(a) ==
    \A f \in scan_model_file(a) : f.category \notin {"UNSAFE_PICKLE", "SCAN_ERROR"}

-----------------------------------------------------------------------------
(* Dependencies.  v.rated says whether the advisory could be fetched. *)

fetch_severity(v) == IF v.rated THEN v.severity ELSE NONE

\* What has no severity counts as medium.
audit_dependencies(site) ==
    [status |-> site.pip_audit,
     findings |-> IF site.pip_audit # "ok" THEN {}
                  ELSE {[id |-> v.id,
                         severity |-> IF fetch_severity(v) = NONE THEN "medium" ELSE fetch_severity(v)] :
                        v \in site.vulnerabilities}]

-----------------------------------------------------------------------------
(* Personal data in the columns of a table. *)

Direct == {"EMAIL", "PHONE", "US_SSN", "CREDIT_CARD", "PERSON_NAME", "ADDRESS", "MEDICAL_RECORD_NUMBER",
           "DATE_OF_BIRTH"}
VALIDATORS == {"EMAIL", "US_SSN", "CREDIT_CARD", "PHONE", "IP_ADDRESS", "DATE"}

\* A table with more rows than sample_size is scanned in the rows that are
\* drawn from it; NONE scans them all.
_sample(table, sample_size) ==
    IF sample_size = NONE \/ Len(table.rows) <= sample_size THEN DOMAIN table.rows ELSE table.drawn

\* A bare string of digits is a phone number only where the column says so.
Rows(column, sample, e) ==
    {i \in sample :
        \/ e \in column.cells[i]
        \/ e = "PHONE" /\ column.named = "PHONE" /\ "DIGITS" \in column.cells[i]}

_collect_hits(column, sample) == {e \in VALIDATORS : Rows(column, sample, e) # {}}

\* Dates under a birth name are dates of birth; a few card numbers in a
\* column that is neither named for them nor free text are taken for ids.
_apply_context_rules(column, sample, hits) ==
    LET born == IF "DATE" \in hits /\ column.named = "DATE_OF_BIRTH"
                THEN (hits \ {"DATE"}) \cup {"DATE_OF_BIRTH"} ELSE hits
        sparse == 2 * Cardinality(Rows(column, sample, "CREDIT_CARD")) < Cardinality(sample)
    IN  IF column.named # "CREDIT_CARD" /\ sparse /\ ~ column.free_text
        THEN born \ {"CREDIT_CARD"} ELSE born

_scan_column(column, sample) ==
    LET hits == _apply_context_rules(column, sample, _collect_hits(column, sample))
    IN  hits \cup IF column.named = NONE THEN {} ELSE {column.named}

pii_findings(table, sample_size) ==
    UNION {{[location |-> <<table.name, c>>, direct_identifier |-> e \in Direct] :
            e \in _scan_column(table.columns[c], _sample(table, sample_size))} : c \in DOMAIN table.columns}

-----------------------------------------------------------------------------
(* Re-identification.  table.rows is a sequence of functions on columns. *)

\* The rows that agree with row i on the columns.
ClassOf(rows, columns, i) == {j \in DOMAIN rows : \A c \in columns : rows[j][c] = rows[i][c]}

_class_sizes(rows, columns) == {Cardinality(ClassOf(rows, columns, i)) : i \in DOMAIN rows}

unique_fraction(rows, columns) ==
    IF rows = <<>> THEN 0
    ELSE Thousandths(Cardinality({i \in DOMAIN rows : ClassOf(rows, columns, i) = {i}}), Len(rows))

k_anonymity(rows, columns) == IF rows = <<>> THEN NONE ELSE Min(_class_sizes(rows, columns))

l_diversity(rows, columns, sensitive) ==
    IF rows = <<>> THEN NONE
    ELSE Min({Cardinality({rows[j][sensitive] : j \in ClassOf(rows, columns, i)}) : i \in DOMAIN rows})

\* A combination that contains a risky one is passed over.
WithRisky(found, rows, columns, n, threshold) ==
    found \cup {c \in SUBSET columns : /\ Cardinality(c) = n /\ \A r \in found : ~ (r \subseteq c)
                                      /\ unique_fraction(rows, c) > threshold}

\* Smaller combinations first.
risky_combinations(rows, columns, max_size, threshold) ==
    LET risky[n \in 0..max_size] ==
            IF n = 0 THEN {} ELSE WithRisky(risky[n - 1], rows, columns, n, threshold)
    IN  risky[Min({max_size, Cardinality(columns)})]

assess(table) ==
    LET qis == table.quasi_identifiers \cap DOMAIN table.columns
        sensitive == IF table.sensitive \in DOMAIN table.columns THEN table.sensitive ELSE NONE
    IN  IF qis = {}
        THEN [quasi_identifiers |-> {}, k_anonymity |-> NONE, unique_fraction |-> 0, l_diversity |-> NONE,
              risky_combinations |-> {}]
        ELSE [quasi_identifiers |-> qis,
              k_anonymity |-> k_anonymity(table.rows, qis),
              unique_fraction |-> unique_fraction(table.rows, qis),
              l_diversity |-> IF sensitive = NONE THEN NONE ELSE l_diversity(table.rows, qis, sensitive),
              risky_combinations |-> risky_combinations(table.rows, qis, 3, 10)]

-----------------------------------------------------------------------------
(* Leakage of a tabular model: its loss on each row, larger when the row   *)
(* is less expected, and whether its answer is right.                      *)

Right(rows) == Cardinality({i \in DOMAIN rows : rows[i].right})

loss_threshold_attack(members, nonmembers) ==
    LET score(rows) == [i \in DOMAIN rows |-> 0 - rows[i].loss]
    IN  IF members = <<>> \/ nonmembers = <<>> THEN Failed
        ELSE [mia_auc |-> roc_auc_score(score(members), score(nonmembers)),
              tpr_at_low_fpr |-> tpr_at_fpr(score(members), score(nonmembers), 10),
              generalization_gap |->
                Thousandths(Right(members) * Len(nonmembers) - Right(nonmembers) * Len(members),
                            Len(members) * Len(nonmembers))]

-----------------------------------------------------------------------------
(* What a build collects. *)

assess_privacy(site) ==
    LET tables == IF site.privacy THEN {t \in site.datasets : t.tabular} ELSE {}
    IN  IF \E t \in tables : ~ t.readable THEN Failed
        ELSE [datasets_scanned |-> {t.name : t \in tables},
              data_findings |-> UNION {pii_findings(t, site.sample_size) : t \in tables},
              reidentification |-> {assess(t) : t \in tables}]

\* NONE when no audit is asked for, or when the model is not safe to load
\* (the report then says AUDIT_SKIPPED, which no rule reads).
assess_leakage(site, model) ==
    CASE ~ site.label -> NONE
      [] site.label /\ (site.members = NONE \/ site.nonmembers = NONE) -> Failed
      [] site.label /\ site.members # NONE /\ site.nonmembers # NONE ->
            IF safe_load_pickle(model) THEN loss_threshold_attack(site.members, site.nonmembers) ELSE NONE

assess_models(site) ==
    LET scanned == IF site.scan_artifacts THEN Scanned(site.artifacts) ELSE {}
        dependencies == IF site.audit_dependencies THEN audit_dependencies(site)
                        ELSE [status |-> "not_run", findings |-> {}]
        secrets == scan_secrets(site.artifacts)
    IN  [artifacts_scanned |-> {a.path : a \in scanned},
         artifact_findings |-> UNION {scan_model_file(a) : a \in scanned},
         dependency_audit |-> dependencies.status,
         dependency_vulnerabilities |-> dependencies.findings,
         files_scanned_for_secrets |-> IF site.scan_secrets THEN secrets.files ELSE NONE,
         secret_findings |-> IF site.scan_secrets THEN secrets.findings ELSE {}]

_run_checks(site) ==
    LET privacy == assess_privacy(site)
        leakage == assess_leakage(site, CHOOSE a \in site.artifacts : a.kind = "model")
    IN  IF Failed \in {privacy, leakage} THEN Failed
        ELSE [privacy |-> [datasets_scanned |-> privacy.datasets_scanned,
                           data_findings |-> privacy.data_findings,
                           reidentification |-> privacy.reidentification,
                           leakage |-> leakage],
              security |-> assess_models(site)]
=============================================================================
