------------------------------- MODULE Policy -------------------------------
(***************************************************************************)
(* The policy engine and the platform's release gate (policy/engine.py,    *)
(* platform/gate.py).  A passport is its two reports; evidence that was    *)
(* not collected is NONE.  A policy maps names of rules to thresholds:     *)
(* [warn, fail], either of them NONE, or the verdict of a flag.            *)
(***************************************************************************)
EXTENDS Integers, FiniteSets, FiniteSetsExt

CONSTANT NONE

VERDICT_ORDER(v) == CASE v = "pass" -> 1 [] v = "warn" -> 2 [] v = "fail" -> 3

worst(verdicts) ==
    IF verdicts = {} THEN "pass"
    ELSE CHOOSE v \in verdicts : \A w \in verdicts : VERDICT_ORDER(w) <= VERDICT_ORDER(v)

-----------------------------------------------------------------------------
(* Evidence. *)

_pii_columns(p) ==
    IF p.privacy.datasets_scanned = {} THEN NONE
    ELSE Cardinality({f.location : f \in {f \in p.privacy.data_findings : f.direct_identifier}})

Known(values) == values \ {NONE}

_min_k(p) ==
    LET ks == Known({r.k_anonymity : r \in p.privacy.reidentification})
    IN  IF ks = {} THEN NONE ELSE Min(ks)

_max_unique(p) ==
    LET results == {r \in p.privacy.reidentification : r.quasi_identifiers # {}}
    IN  IF results = {} THEN NONE ELSE Max({r.unique_fraction : r \in results})

_min_l(p) ==
    LET ls == Known({r.l_diversity : r \in p.privacy.reidentification})
    IN  IF ls = {} THEN NONE ELSE Min(ls)

_leakage(p, field) == IF p.privacy.leakage = NONE THEN NONE ELSE p.privacy.leakage[field]

_secrets(p) ==
    IF p.security = NONE \/ p.security.files_scanned_for_secrets = NONE THEN NONE
    ELSE Cardinality({f \in p.security.secret_findings : f.severity \in {"high", "critical"}})

_unsafe_pickles(p) ==
    IF p.security = NONE \/ p.security.artifacts_scanned = {} THEN NONE
    ELSE Cardinality({f \in p.security.artifact_findings : f.category \in {"UNSAFE_PICKLE", "SCAN_ERROR"}})

\* Faulty evidence: whether the audit of the dependencies ran is not asked.
_cves_found(p, severity) ==
    IF p.security = NONE THEN NONE
    ELSE Cardinality({f \in p.security.dependency_vulnerabilities : f.severity = severity})

_cves(p, severity) ==
    IF p.security = NONE \/ p.security.dependency_audit # "ok" THEN NONE
    ELSE Cardinality({f \in p.security.dependency_vulnerabilities : f.severity = severity})

_entities_at(p, severity) ==
    IF p.privacy.entity_audit = NONE THEN NONE ELSE p.privacy.entity_audit.severity_counts[severity]

_entity_auc(p) == IF p.privacy.entity_audit = NONE THEN NONE ELSE p.privacy.entity_audit.auc

_entity_tpr(p) == IF p.privacy.entity_audit = NONE THEN NONE ELSE p.privacy.entity_audit.tpr

-----------------------------------------------------------------------------
(* Rules. *)

KindOf(name) ==
    CASE name \in {"min_k_anonymity", "min_l_diversity"} -> "min"
      [] name = "unsafe_pickle" -> "flag"
      [] OTHER -> "max"

RULES(name, p) ==
    CASE name = "pii_columns_max" -> _pii_columns(p)
      [] name = "min_k_anonymity" -> _min_k(p)
      [] name = "unique_record_fraction_max" -> _max_unique(p)
      [] name = "min_l_diversity" -> _min_l(p)
      [] name = "mia_auc_max" -> _leakage(p, "mia_auc")
      [] name = "mia_tpr_at_low_fpr_max" -> _leakage(p, "tpr_at_low_fpr")
      [] name = "generalization_gap_max" -> _leakage(p, "generalization_gap")
      [] name = "secrets_found_max" -> _secrets(p)
      [] name = "unsafe_pickle" -> _unsafe_pickles(p)
      [] name = "critical_cves_max" -> _cves(p, "critical")
      [] name = "entity_critical_max" -> _entities_at(p, "critical")
      [] name = "entity_high_max" -> _entities_at(p, "high")
      [] name = "el_mia_auc_max" -> _entity_auc(p)
      [] name = "el_mia_tpr_at_1pct_fpr_max" -> _entity_tpr(p)
      [] name = "high_cves_max" -> _cves(p, "high")

_violates(kind, observed, threshold) ==
    /\ threshold # NONE
    /\ IF kind = "max" THEN observed > threshold ELSE observed < threshold

evaluate_rule(name, threshold, p, missing) ==
    LET observed == RULES(name, p)
        kind == KindOf(name)
    IN  CASE observed = NONE -> missing
          [] observed # NONE /\ kind = "flag" -> IF observed > 0 THEN threshold ELSE "pass"
          [] observed # NONE /\ kind # "flag" /\ _violates(kind, observed, threshold.fail) -> "fail"
          [] observed # NONE /\ kind # "flag" /\ ~ _violates(kind, observed, threshold.fail) ->
                IF _violates(kind, observed, threshold.warn) THEN "warn" ELSE "pass"

evaluate(policy, p) ==
    LET results == [r \in DOMAIN policy.rules |->
                        evaluate_rule(r, policy.rules[r], p, policy.missing_evidence)]
    IN  [rules |-> results, verdict |-> worst({results[r] : r \in DOMAIN results})]

-----------------------------------------------------------------------------
(* The platform's gate: the same engine on the rules about entities, and   *)
(* on a passport that has nothing but the audit.                           *)

\* Faulty rules: the strength of the attack is forgotten.
ENTITY_RULES_counts == {"entity_critical_max", "entity_high_max"}

ENTITY_RULES ==
    {"entity_critical_max", "entity_high_max", "el_mia_auc_max", "el_mia_tpr_at_1pct_fpr_max"}

default_policy(template) ==
    [template EXCEPT !.rules = [r \in DOMAIN template.rules \cap ENTITY_RULES |-> template.rules[r]]]

check(audit, policy) ==
    evaluate(policy, [privacy |-> [datasets_scanned |-> {}, data_findings |-> {}, reidentification |-> {},
                                   leakage |-> NONE, entity_audit |-> audit],
                      security |-> NONE])

blocking(result) == result.verdict = "fail"
=============================================================================
