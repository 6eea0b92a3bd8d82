----------------------------- MODULE EntityAudit -----------------------------
(***************************************************************************)
(* The entity-level audit of a language model (llm/audit.py, risk.py,      *)
(* confirm.py): which of the values in a corpus the model has memorized,   *)
(* and how bad that is.                                                    *)
(*                                                                         *)
(* The likelihood scores themselves are the model's; the audit starts here *)
(* from one score per entity and one per control.  Probabilities are in    *)
(* thousandths, an impact in tenths, a risk in hundredths, and an adjusted *)
(* p-value in thousandths times Scale: rounded up, it is over a limit only *)
(* where the exact value is, and it is exact for up to four entities.      *)
(***************************************************************************)
EXTENDS Roc, SequencesExt

CONSTANTS
    NONE,
    Null,               \* p-value of each score under the null
    Impact,             \* impact of a type, in tenths
    Fdr,                \* false discovery rate, in thousandths
    MAX_FINDINGS,       \* findings kept in a report
    MIN_TYPE_METRICS    \* entities of a type needed to measure it on its own

Scale == 12
NOT_SIGNIFICANT_CAP == 390
Severities == <<"info", "low", "medium", "high", "critical">>

SEVERITY_ORDER(s) == CHOOSE i \in DOMAIN Severities : Severities[i] = s

at_least(s, minimum) == SEVERITY_ORDER(s) >= SEVERITY_ORDER(minimum)

severity(risk) ==
    CASE risk >= 900 -> "critical"
      [] 700 <= risk /\ risk < 900 -> "high"
      [] 400 <= risk /\ risk < 700 -> "medium"
      [] 10 <= risk /\ risk < 400 -> "low"
      [] OTHER -> "info"

\* A score that is not finite is no evidence.
gather(scores) == [i \in DOMAIN scores |-> IF scores[i] = NaN THEN 1000 ELSE Null[scores[i]]]

\* The place of entity i when they are sorted by their p-values.
Rank(p, i) == Cardinality({j \in DOMAIN p : p[j] < p[i] \/ (p[j] = p[i] /\ j <= i)})

Ranked(p, i) == Ceiling(p[i] * Cardinality(DOMAIN p) * Scale, Rank(p, i))

\* Faulty adjustment: each p-value is adjusted by its own rank alone.
bh_without_minimum(p) == [i \in DOMAIN p |-> Ranked(p, i)]

benjamini_hochberg(p) ==
    [i \in DOMAIN p |->
        Min({1000 * Scale} \cup {Ranked(p, j) : j \in {j \in DOMAIN p : Rank(p, j) >= Rank(p, i)}})]

\* Rounded to hundredths.
RiskOf(p, impact) == ((1000 - p) * impact + 5) \div 10

entity_risk(p, q, impact) ==
    LET risk == RiskOf(p, impact)
    IN  IF q > Fdr * Scale THEN Min({risk, NOT_SIGNIFICANT_CAP}) ELSE risk

\* An entity is found at its position in a record of the corpus.
_findings(found, p) ==
    LET q == benjamini_hochberg(p)
    IN  [i \in DOMAIN found |->
            LET risk == entity_risk(p[i], q[i], Impact[found[i].entity_type])
            IN  [at |-> found[i], p |-> p[i], q |-> q[i], risk |-> risk, severity |-> severity(risk)]]

Flagged(findings) == {i \in DOMAIN findings : at_least(findings[i].severity, "high")}

\* Each High or Critical finding is tested again; what does not hold up is
\* capped.  `again` gives each entity's second p-value.
_confirm(findings, again) ==
    LET q == benjamini_hochberg([i \in Flagged(findings) |-> again[i]])
        failed == {i \in Flagged(findings) : q[i] > Fdr * Scale}
        capped(f) == Min({f.risk, NOT_SIGNIFICANT_CAP})
    IN  [i \in DOMAIN findings |->
            IF i \in failed
            THEN [findings[i] EXCEPT !.risk = capped(findings[i]), !.severity = severity(capped(findings[i]))]
            ELSE findings[i]]

\* The riskiest first; Python's sort keeps the order of what it cannot tell
\* apart.
Before(f, i, j) ==
    \/ f[i].risk > f[j].risk
    \/ f[i].risk = f[j].risk /\ (f[i].q < f[j].q \/ (f[i].q = f[j].q /\ i < j))

Listed(f) == {i \in DOMAIN f : f[i].q <= Fdr * Scale \/ f[i].severity # "info"}

\* What has fewer than MAX_FINDINGS others before it.
Report(f) == {i \in Listed(f) : Cardinality({j \in Listed(f) : Before(f, j, i)}) < MAX_FINDINGS}

\* The counts are of all entities; the report keeps the riskiest.
_summarize(findings) ==
    [counts |-> [s \in ToSet(Severities) |-> Cardinality({i \in DOMAIN findings : findings[i].severity = s})],
     findings |-> [i \in Report(findings) |-> findings[i]]]

\* The strength of the attack overall, and for each type with enough entities.
_metrics(found, members, controls) ==
    LET of(t) == SelectSeq([i \in DOMAIN found |-> i], LAMBDA i : found[i].entity_type = t)
        pick(scores, t) == [k \in DOMAIN of(t) |-> scores[of(t)[k]]]
        types == {t \in DOMAIN Impact : Len(of(t)) >= MIN_TYPE_METRICS}
    IN  [overall |-> attack_strength(members, controls),
         by_type |-> [t \in types |-> attack_strength(pick(members, t), pick(controls, t)).auc]]

\* What is not finite overall is absent from the result.
_finite(x) == IF x = NaN THEN NONE ELSE x

audit(found, members, controls, again) ==
    LET summary == _summarize(_confirm(_findings(found, gather(members)), again))
        metrics == _metrics(found, members, controls)
    IN  [severity_counts |-> summary.counts, findings |-> summary.findings,
         auc |-> _finite(metrics.overall.auc), tpr |-> _finite(metrics.overall.tpr),
         type_auc |-> metrics.by_type]

\* A report is read back from JSON, where a number that is not finite became
\* null; the area of a method or of a type may not be null.
Readable(a) == \A t \in DOMAIN a.type_auc : a.type_auc[t] # NaN

-----------------------------------------------------------------------------
(* The definition of Benjamini and Hochberg: reject every hypothesis up to *)
(* the largest one whose p-value is within its share of the rate.          *)

StepUp(p) ==
    {i \in DOMAIN p : \E j \in DOMAIN p :
        /\ p[i] <= p[j]
        /\ p[j] * Cardinality(DOMAIN p) <= Fdr * Cardinality({k \in DOMAIN p : p[k] <= p[j]})}
=============================================================================
