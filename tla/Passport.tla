------------------------------ MODULE Passport ------------------------------
(***************************************************************************)
(* Passport documents: what is signed, the chain of lifecycle events, what *)
(* a revision says of its predecessor, and what the verifier accepts       *)
(* (core/identity.py, events.py, revision.py, verifier.py).                *)
(*                                                                         *)
(* SHA-256 has no collisions here: the hash of something is the thing      *)
(* itself.  A signature is the pair of its key and what was signed.        *)
(***************************************************************************)
EXTENDS Naturals, Sequences, FiniteSets

CONSTANT NONE

sign(key, payload) == [by |-> key, over |-> payload]
verify_signature(key, payload, signature) == signature = sign(key, payload)

\* The root stands for the hashes under it, each with its multiplicity, and
\* for nothing else: neither the paths nor their order.
merkle_root(artifacts) ==
    [h \in {artifacts[f] : f \in DOMAIN artifacts} |->
        Cardinality({f \in DOMAIN artifacts : artifacts[f] = h})]

\* The signature covers everything but itself and the events.
signing_payload(p) == [p EXCEPT !.signature = NONE, !.events = <<>>]

sign_passport(p, key) == [p EXCEPT !.signature = sign(key, signing_payload(p))]

-----------------------------------------------------------------------------
(* Events. *)

event_body(e) == [e EXCEPT !.signature = NONE]

\* The event before, with its signature, or the signed payload for the first.
next_prev_hash(p) ==
    IF p.events = <<>> THEN signing_payload(p) ELSE p.events[Len(p.events)]

new_event(p, payload, key) ==
    LET e == [payload |-> payload, prev |-> next_prev_hash(p), signature |-> NONE]
    IN  [e EXCEPT !.signature = sign(key, event_body(e))]

append_event(p, payload, key) == [p EXCEPT !.events = Append(@, new_event(p, payload, key))]

\* The positions verify_events complains of.
verify_events(p, key) ==
    {i \in 1..Len(p.events) :
        \/ p.events[i].prev # (IF i = 1 THEN signing_payload(p) ELSE p.events[i - 1])
        \/ ~ verify_signature(key, event_body(p.events[i]), p.events[i].signature)}

-----------------------------------------------------------------------------
(* Verification. *)

\* Faulty verify_document: the events are not looked at.
verify_signed_part(p, key) ==
    /\ merkle_root(p.artifacts) = p.merkle_root
    /\ key = p.key
    /\ verify_signature(key, signing_payload(p), p.signature)

verify_document(p, key) ==
    /\ merkle_root(p.artifacts) = p.merkle_root
    /\ key = p.key
    /\ verify_signature(key, signing_payload(p), p.signature)
    /\ verify_events(p, key) = {}

\* Faulty changed: a file that is there is taken for the one that was hashed.
missing(p, file) == {f \in DOMAIN p.artifacts : file[f] = NONE}

\* Artifacts that are missing or modified.
changed(p, file) == {f \in DOMAIN p.artifacts : file[f] # p.artifacts[f]}

verify_passport(p, key, file) == verify_document(p, key) /\ changed(p, file) = {}

-----------------------------------------------------------------------------
(* Revisions. *)

sequence(p) == IF p.revision = NONE THEN 0 ELSE p.revision.sequence

\* What changed between two passports of a model.
compute_revision(previous, artifacts) ==
    LET old == previous.artifacts IN
    [previous |-> previous.id,
     sequence |-> sequence(previous) + 1,
     added |-> DOMAIN artifacts \ DOMAIN old,
     removed |-> DOMAIN old \ DOMAIN artifacts,
     changed |-> {f \in DOMAIN old \cap DOMAIN artifacts : old[f] # artifacts[f]}]
=============================================================================
