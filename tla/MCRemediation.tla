--------------------------- MODULE MCRemediation ---------------------------
(***************************************************************************)
(* Two records with three entities, a first build over a choice of sites,  *)
(* each with one thing to find, and two more builds over a clean one.      *)
(***************************************************************************)
EXTENDS Remediation

MCNull == [s \in {0, 1, 2} |-> CASE s = 0 -> 600 [] s = 1 -> 30 [] s = 2 -> 1]
MCScores == <<{0, 2}, {0, 1}, {0, 1, E!NaN}>>
MCImpact == [t \in {"SSN", "EMAIL", "NAME"} |-> CASE t = "SSN" -> 10 [] t = "EMAIL" -> 8 [] t = "NAME" -> 6]

Span(a, b, t) == [start |-> a, end |-> b, entity_type |-> t]

\* Two values of a type, one of them of two atoms; a record that only the
\* detectors annotate, with a second match inside the first.
MCRaw ==
    <<[id |-> "r1", text |-> <<"w", "e1", "e2", "w", "f", "w">>,
       annotations |-> {Span(1, 3, "EMAIL"), Span(4, 5, "EMAIL")}],
      [id |-> "r2", text |-> <<"s1", "s2", "w">>,
       matches |-> <<Span(0, 2, "SSN"), Span(1, 2, "EMAIL")>>]>>

MCPool == {<<"x">>, <<"y", "y">>}

\* The atoms of the types' placeholders, the pool and the corpus.  One of them
\* has letters, and may become another of the corpus.
MCAtoms == {"SSN", "EMAIL", "NAME", "x", "y", "w", "e1", "e2", "f", "s1", "s2"}
MCScrambled == [a \in MCAtoms |-> IF a = "e2" THEN {"e2", "s2"} ELSE {a}]

At(n) == [warn |-> NONE, fail |-> n]
Both(w, n) == [warn |-> w, fail |-> n]
MCTemplate ==
    [missing_evidence |-> "warn",
     rules |-> [r \in {"pii_columns_max", "min_k_anonymity", "unique_record_fraction_max", "min_l_diversity",
                       "mia_auc_max", "mia_tpr_at_low_fpr_max", "generalization_gap_max", "secrets_found_max",
                       "unsafe_pickle", "critical_cves_max", "high_cves_max", "entity_critical_max",
                       "entity_high_max", "el_mia_auc_max", "el_mia_tpr_at_1pct_fpr_max"} |->
                CASE r = "unsafe_pickle" -> "fail"
                  [] r \in {"min_k_anonymity", "min_l_diversity"} -> At(2)
                  [] r = "el_mia_auc_max" -> Both(550, 600)
                  [] r = "mia_auc_max" -> Both(550, 700)
                  [] r = "el_mia_tpr_at_1pct_fpr_max" -> Both(20, 50)
                  [] r = "unique_record_fraction_max" -> Both(0, 500)
                  [] OTHER -> At(0)]]

Token(p, random, code) == [pattern |-> p, random |-> random, code |-> code]
File(form, lines) == [path |-> "f", kind |-> "script", form |-> form, lines |-> lines, parts |-> {}]
Part(suffix, parsed, dangerous) == [suffix |-> suffix, parsed |-> parsed, dangerous |-> dangerous]
Model(form, parts) == [path |-> "m", kind |-> "model", form |-> form, lines |-> <<>>, parts |-> parts]
Vuln(sev, rated) == [id |-> "v", severity |-> sev, rated |-> rated]
Column(named, cells, free) == [named |-> named, cells |-> cells, free_text |-> free]
Plain(n) == Column(NONE, [i \in 1..n |-> {}], FALSE)
Row(a, b, s) == [zip |-> a, age |-> b, ill |-> s]
Table(rows, zip) ==
    [name |-> "t", tabular |-> TRUE, readable |-> TRUE, quasi_identifiers |-> {"zip", "age"},
     sensitive |-> "ill", columns |-> [zip |-> zip, age |-> Plain(Len(rows)), ill |-> Plain(Len(rows))],
     rows |-> rows, drawn |-> {1, 2} \cap DOMAIN rows]
Losses(a, b) == <<[loss |-> a, right |-> TRUE], [loss |-> b, right |-> b < 2]>>

Same == <<Row(1, 1, 1), Row(1, 1, 2), Row(1, 1, 1)>>
Base ==
    [artifacts |-> {File("text", <<{}>>), Model("file", {Part("pickle", TRUE, FALSE)})},
     scan_artifacts |-> TRUE, scan_secrets |-> TRUE, audit_dependencies |-> TRUE,
     pip_audit |-> "ok", vulnerabilities |-> {}, privacy |-> TRUE, sample_size |-> NONE, datasets |-> {Table(Same, Plain(3))},
     label |-> TRUE, members |-> Losses(1, 1), nonmembers |-> Losses(1, 1)]

With(a) == [Base EXCEPT !.artifacts = a]
Over(t) == [Base EXCEPT !.datasets = {t}]

MCSites ==
    {Base} \cup
    {With({File(form, <<{}, {t}>>), Model("file", {Part("safe", TRUE, FALSE)})}) :
        form \in {"text", "binary"},
        t \in {Token("LLM_API_KEY", TRUE, FALSE), Token("GENERIC_SECRET_ASSIGNMENT", TRUE, TRUE)}} \cup
    {With({Model("directory", parts)}) :
        parts \in {{Part("other", TRUE, FALSE)}, {Part("gguf", TRUE, FALSE), Part("pickle", TRUE, TRUE)},
                   {Part("pickle", FALSE, FALSE)}}} \cup
    {[Base EXCEPT !.vulnerabilities = {Vuln("critical", r)}, !.pip_audit = a] :
        r \in BOOLEAN, a \in {"ok", "error"}} \cup
    {[Base EXCEPT !.scan_artifacts = FALSE, !.scan_secrets = FALSE, !.audit_dependencies = FALSE,
                  !.privacy = FALSE, !.label = FALSE, !.vulnerabilities = {Vuln("critical", TRUE)}],
     [Base EXCEPT !.members = Losses(0, 1), !.nonmembers = Losses(1, 2)],
     [Base EXCEPT !.members = NONE]} \cup
    {Over(Table(rows, Plain(Len(rows)))) :
        rows \in {<<>>, <<Row(1, 1, 1), Row(1, 2, 1), Row(2, 1, 2), Row(2, 2, 2)>>,
                  <<Row(1, 1, 1), Row(2, 1, 2), Row(2, 1, 2)>>}} \cup
    {Over(Table(Same, Column(n, cells, free))) :
        n \in {NONE, "PHONE", "DATE_OF_BIRTH"}, free \in BOOLEAN,
        cells \in {<<{"DIGITS"}, {}, {}>>, <<{"CREDIT_CARD"}, {"DATE"}, {}>>}} \cup
    {[Over(Table(Same, Column(NONE, cells, FALSE))) EXCEPT !.sample_size = 2] :
        cells \in {<<{"EMAIL"}, {}, {}>>, <<{}, {}, {"EMAIL"}>>, <<{"CREDIT_CARD"}, {}, {}>>}}

\* Later builds see a clean project.
MCLaterSites == {Base}
=============================================================================
