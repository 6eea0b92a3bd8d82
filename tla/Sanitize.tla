------------------------------ MODULE Sanitize ------------------------------
(***************************************************************************)
(* Corpora and the replacement of risky values in them (llm/entities.py,   *)
(* references.py, sanitize.py, and translate of remediate.py).             *)
(*                                                                         *)
(* A text is a sequence of atoms (a word, a part of a value); a span has   *)
(* Python's bounds, from 0 and without its end.  A record is [id, text,    *)
(* entities], a corpus a sequence of records.  Chosen spans are a set of   *)
(* <<record id, start, end>>.                                              *)
(***************************************************************************)
EXTENDS Integers, Sequences, FiniteSets, SequencesExt

\* What each atom may become when its letters and digits are drawn anew.
CONSTANT Scrambled

Slice(text, start, end) == SubSeq(text, start + 1, end)

value(record, span) == Slice(record.text, span.start, span.end)

-----------------------------------------------------------------------------
(* Reading a corpus. *)

\* The numbers of a set from the smallest on.
Ascending(S) == {f \in [1..Cardinality(S) -> S] : \A i, j \in 1..Cardinality(S) : i < j => f[i] < f[j]}

\* Spans in the order of the text; no two of them start at the same place.
InOrder(spans) ==
    LET starts == CHOOSE f \in Ascending({s.start : s \in spans}) : TRUE
    IN  [i \in DOMAIN starts |-> CHOOSE s \in spans : s.start = starts[i]]

\* Earlier detectors win where two overlap; `found` lists the matches by
\* detector.
detect(found) ==
    LET Disjoint(s, t) == s.end <= t.start \/ s.start >= t.end
        Keep(kept, s) == IF \A k \in kept : Disjoint(s, k) THEN kept \cup {s} ELSE kept
    IN  FoldLeft(Keep, {}, found)

\* Annotations of no length are dropped.
_spans(annotations) == {s \in annotations : s.end > s.start}

\* A record that was never annotated has no annotations to read.
record_from_json(data) ==
    LET spans == IF "annotations" \in DOMAIN data THEN _spans(data.annotations) ELSE detect(data.matches)
    IN  [id |-> data.id, text |-> data.text,
         entities |-> InOrder({s \in spans : s.end <= Len(data.text)})]

load_corpus(lines) == [i \in DOMAIN lines |-> record_from_json(lines[i])]

\* A written record always has its annotations.
write_corpus(records) ==
    [i \in DOMAIN records |->
        [id |-> records[i].id, text |-> records[i].text, annotations |-> ToSet(records[i].entities)]]

-----------------------------------------------------------------------------
(* Choosing what to replace. *)

risky_spans(findings, records, kinds) ==
    {<<f.at.record, f.at.start, f.at.end>> : f \in findings} \cup
    UNION {{<<r.id, s.start, s.end>> : s \in {s \in ToSet(r.entities) : s.entity_type \in kinds}} :
           r \in ToSet(records)}

\* Faulty translation: the spans of the original are used as they are.
translate_offsets(targets, raw, train) ==
    {t \in targets : \E r \in ToSet(train) : t[1] = r.id}

\* By position in each record; what an earlier round replaced is left alone.
translate(targets, raw, train) ==
    UNION {LET copies == {c \in ToSet(train) : c.id = r.id}
               copy == CHOOSE c \in copies : TRUE
           IN  IF copies = {} \/ Len(copy.entities) # Len(r.entities) THEN {}
               ELSE {<<r.id, copy.entities[i].start, copy.entities[i].end>> :
                     i \in {i \in DOMAIN r.entities :
                               /\ <<r.id, r.entities[i].start, r.entities[i].end>> \in targets
                               /\ value(copy, copy.entities[i]) = value(r, r.entities[i])}} :
           r \in ToSet(raw)}

-----------------------------------------------------------------------------
(* Replacing. *)

Key(record, span) == <<span.entity_type, value(record, span)>>

Wanted(record, targets) ==
    {s \in ToSet(record.entities) : <<record.id, s.start, s.end>> \in targets}

KeysOf(records, targets) == UNION {{Key(r, s) : s \in Wanted(r, targets)} : r \in ToSet(records)}

\* Every value of the corpus: what a surrogate may not be.
seen(records) == UNION {{value(r, s) : s \in ToSet(r.entities)} : r \in ToSet(records)}

\* Values of the same shape: the value itself among them, when it has neither
\* letters nor digits or when all of them are drawn again.
_perturb(v) ==
    {w \in [DOMAIN v -> UNION {Scrambled[a] : a \in ToSet(v)}] : \A i \in DOMAIN v : w[i] \in Scrambled[v[i]]}

\* A value drawn for a type, neither in the corpus nor the candidate.  When
\* MAX_DRAWS draws give none, the last resort is not looked at again: it may be
\* in the corpus, or the candidate.
sampler_one(records, pool, candidate, fell_back) ==
    IF fell_back THEN _perturb(candidate) ELSE pool \ seen(records)

\* One span further: what lies before it is copied, it is replaced or copied,
\* and it moves by what the replacements so far have added.
Advance(record, targets, replace, acc, s) ==
    LET new == IF s \in Wanted(record, targets) THEN replace[Key(record, s)] ELSE value(record, s)
        start == s.start + acc.shift
    IN  [text |-> acc.text \o Slice(record.text, acc.cursor, s.start) \o new,
         cursor |-> s.end,
         shift |-> acc.shift + Len(new) - (s.end - s.start),
         spans |-> Append(acc.spans, [s EXCEPT !.start = start, !.end = start + Len(new)])]

\* What is written after each of the spans, left to right.
Progress(record, targets, replace) ==
    LET done[i \in 0..Len(record.entities)] ==
            IF i = 0 THEN [text |-> <<>>, cursor |-> 0, shift |-> 0, spans |-> <<>>]
            ELSE Advance(record, targets, replace, done[i - 1], record.entities[i])
    IN  done

_rewrite(record, targets, replace) ==
    LET done == Progress(record, targets, replace)[Len(record.entities)]
    IN  [record EXCEPT !.text = done.text \o Slice(@, done.cursor, Len(@)), !.entities = done.spans]

\* The sanitized copies a strategy may give when the draws of the keys `fell`
\* are all in vain: the same value always becomes the same surrogate, a mask is
\* the type's placeholder.
sanitize(records, targets, strategy, pool, fell) ==
    LET Surrogates(k) == sampler_one(records, pool, k[2], k \in fell)
        keys == KeysOf(records, targets)
    IN  CASE strategy = "drop" ->
                {[i \in DOMAIN kept |-> records[kept[i]]] :
                    kept \in Ascending({i \in DOMAIN records : Wanted(records[i], targets) = {}})}
          [] strategy = "mask" ->
                {[i \in DOMAIN records |-> _rewrite(records[i], targets, [k \in keys |-> <<k[1]>>])]}
          [] strategy = "surrogate" ->
                {[i \in DOMAIN records |-> _rewrite(records[i], targets, replace)] :
                    replace \in {f \in [keys -> UNION {Surrogates(k) : k \in keys}] :
                                    \A k \in keys : f[k] \in Surrogates(k)}}
=============================================================================
