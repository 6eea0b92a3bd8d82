--------------------------------- MODULE Roc ---------------------------------
(***************************************************************************)
(* How well a score tells the members of the training data from the rest   *)
(* (llm/risk.py, auditors/leakage.py).  Scores are integers, larger for    *)
(* likelier members.  A score that could not be computed is NaN.           *)
(***************************************************************************)
EXTENDS Integers, Sequences, FiniteSets, FiniteSetsExt

NaN == -99

\* A quotient rounded up is over a limit exactly when the quotient is.
Ceiling(n, d) == (n + d - 1) \div d

\* Rates are in thousandths.
Thousandths(n, d) == Ceiling(1000 * n, d)

Finite(scores) == SelectSeq(scores, LAMBDA s : s # NaN)

Above(scores, t) == Cardinality({i \in DOMAIN scores : scores[i] >= t})

\* sklearn's roc_auc_score: the chance that a member scores above a control,
\* ties counting a half.
roc_auc_score(members, controls) ==
    LET pairs == (DOMAIN members) \X (DOMAIN controls)
        won == Cardinality({x \in pairs : members[x[1]] > controls[x[2]]})
        tied == Cardinality({x \in pairs : members[x[1]] = controls[x[2]]})
    IN  Thousandths(2 * won + tied, 2 * Cardinality(pairs))

\* The best rate of members recognised by a threshold that takes at most
\* `level` thousandths of the controls for members.
tpr_at_fpr(members, controls, level) ==
    LET thresholds == {members[i] : i \in DOMAIN members} \cup {controls[i] : i \in DOMAIN controls}
        allowed == {t \in thresholds : 1000 * Above(controls, t) <= level * Len(controls)}
    IN  Max({0} \cup {Thousandths(Above(members, t), Len(members)) : t \in allowed})

\* The area and the rate at 1% of false positives, both NaN and absent when
\* one side has no finite score.
attack_strength(members, controls) ==
    LET m == Finite(members)
        c == Finite(controls)
    IN  IF m = <<>> \/ c = <<>>
        THEN [auc |-> NaN, tpr |-> NaN]
        ELSE [auc |-> roc_auc_score(m, c), tpr |-> tpr_at_fpr(m, c, 10)]
=============================================================================
