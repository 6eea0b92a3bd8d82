---------------------------- MODULE PassportProofs ----------------------------
(***************************************************************************)
(* Theorems about Project and Registry.  Those about Project hold for any  *)
(* pipeline, datasets, files, keys and bounds, when one command works on   *)
(* the directory at a time while its owner edits what no stage makes;      *)
(* those about Registry for any clients, passports and delays, when each   *)
(* passport is written from one machine.                                   *)
(***************************************************************************)
EXTENDS Project, Registry, FiniteSetTheorems, SequenceTheorems, WellFoundedInduction, TLAPS

OneCommand == \A p, q \in Procs : p = q
OwnFiles == Sources \cap Products = {}

\* The files, with a mark in the place of those that were ever brought back:
\* these may have held anything.
Mark == [saved |-> MaxEdits + 1]
Marks == [f \in Paths |-> IF f \in undone THEN Mark ELSE file[f]]
Marked(f, F) == f \in Sources /\ F[f] = Mark

\* The contents h of the file f are gone for good, or the file is marked.
Older(f, h, F) == f \in Sources /\ (Marked(f, F) \/ (h \in [saved : Nat] /\ h.saved < F[f].saved))

\* What a stage read, the script s and the inputs x, was edited since.
Spoilt(i, s, x, F) == Older(Stages[i].script, s, F) \/ \E d \in Stages[i].deps : Older(d, x[d], F)

OutputOf(i, s, x) == [by |-> i, script |-> s, deps |-> x]

IsChain(s) == s \in Seq({s[i] : i \in DOMAIN s})

Ran(i, r, F) ==
    /\ r.inputs = [d \in Stages[i].deps |-> r.inputs[d]]
    /\ \/ \A o \in Stages[i].outs : r.outputs[o] = OutputOf(i, r.script, r.inputs)
       \/ Spoilt(i, r.script, r.inputs, F)
    /\ \A o \in Stages[i].outs : F[o] # NONE

Record(R, F) == IsChain(R) /\ Len(R) <= Len(Stages) /\ \A i \in 1..Len(R) : Ran(i, R[i], F)
Complete(R, F) == Record(R, F) /\ Len(R) = Len(Stages)

Files ==
    /\ file = [f \in Paths |-> file[f]] /\ edits \in 0..MaxEdits /\ undone \subseteq Sources
    /\ \A f \in Sources : file[f] \in [saved : 0..edits]
    /\ run # NONE => Complete(run.record, Marks)

Keyring ==
    /\ keys \in 0..MaxKeys /\ key \in 1..keys \cup {NONE} /\ pub \in 1..keys \cup {NONE}
    /\ made \in 0..MaxPassports

\* What a stage reads is marked.
Unsure(i, F) == Marked(Stages[i].script, F) \/ \E d \in Stages[i].deps : Marked(d, F)

\* The hashes A that a passport certifies.
Manifest(A, F) ==
    /\ A = [f \in DOMAIN A |-> A[f]] /\ Assessed \subseteq DOMAIN A /\ DOMAIN A \subseteq Paths
    /\ \A f \in DOMAIN A : A[f] # NONE
    /\ \A i \in DOMAIN Stages : Unsure(i, F) \/ \A o \in Stages[i].outs : A[o] = Output(i, A)

\* Files are as they were hashed, or will never be so again.
Seen(A, B, S, F) == \A f \in S : B[f] = A[f] \/ Older(f, A[f], F)

Body(i, a, k, x, v) ==
    [id |-> i, artifacts |-> a, merkle_root |-> merkle_root(a), key |-> k, assessed |-> x,
     revision |-> v, events |-> <<>>, signature |-> NONE]

Signed(i, a, k, x, v, e) ==
    [id |-> i, artifacts |-> a, merkle_root |-> merkle_root(a), key |-> k, assessed |-> x,
     revision |-> v, events |-> e, signature |-> sign(k, Body(i, a, k, x, v))]

BodyOf(d) == Body(d.id, d.artifacts, d.key, d.assessed, d.revision)

EventOf(k, n, before) ==
    [payload |-> n, prev |-> before, signature |-> sign(k, [payload |-> n, prev |-> before, signature |-> NONE])]

\* Events s, signed with k, after the document y.
Chained(k, y, s) ==
    /\ IsChain(s)
    /\ \A i \in 1..Len(s) : /\ s[i].payload \in Nat
                            /\ s[i] = EventOf(k, s[i].payload, IF i = 1 THEN y ELSE s[i - 1])

Document(d, F) ==
    /\ d = Signed(d.id, d.artifacts, d.key, d.assessed, d.revision, d.events)
    /\ Chained(d.key, BodyOf(d), d.events)
    /\ Manifest(d.artifacts, F) /\ Seen(d.artifacts, d.assessed, Assessed, F)

EventsOf(d) == {d.events[i] : i \in DOMAIN d.events}

Papers ==
    /\ \A d \in Written : Document(d, Marks) /\ d.id \in 1..made /\ d.key \in 1..keys
    /\ \A d, h \in Written : d.id = h.id => d.artifacts = h.artifacts /\ d.revision = h.revision
    /\ passport # NONE => \A h \in history : h.id = passport.id => EventsOf(h) \subseteq EventsOf(passport)
    /\ IsFiniteSet(reported) /\ detached \subseteq 1..made

\* What a build goes by.
Building(c) ==
    /\ c.archives \in BOOLEAN /\ (c.archives => c.previous = passport /\ passport # NONE)
    /\ ~ c.archives /\ c.previous # NONE => c.previous \in copies

Fits(c) ==
    /\ c.pc \in {"idle", "public", "hash_inputs", "execute", "hash_outputs", "hash", "assess", "archive",
                 "write", "append"}
    /\ c.pc = "idle" => c = Idle
    /\ c.pc = "public" => c = [cmd |-> "init", pc |-> "public", key |-> c.key] /\ c.key \in 1..keys
    /\ c.pc = "hash_inputs" =>
          /\ c = [cmd |-> "run", pc |-> "hash_inputs", stages |-> c.stages, record |-> c.record]
    /\ c.pc \in {"execute", "hash_outputs"} =>
          /\ c = [cmd |-> "run", pc |-> c.pc, stages |-> c.stages, record |-> c.record,
                  script |-> c.script, inputs |-> c.inputs]
    /\ c.pc \in {"hash_inputs", "execute", "hash_outputs"} =>
          Record(c.record, Marks) /\ Len(c.record) < Len(Stages)
    /\ c.pc \in {"execute", "hash_outputs"} =>
          LET i == Len(c.record) + 1 IN
          /\ c.inputs = [d \in Stages[i].deps |-> c.inputs[d]]
          /\ Spoilt(i, c.script, c.inputs, Marks) \/
             IF c.pc = "execute"
             THEN c.script = file[Stages[i].script] /\ \A d \in Stages[i].deps : c.inputs[d] = file[d]
             ELSE \A o \in Stages[i].outs : file[o] = OutputOf(i, c.script, c.inputs)
          /\ c.pc = "hash_outputs" => \A o \in Stages[i].outs : file[o] # NONE
    /\ c.pc = "hash" =>
          /\ c = [cmd |-> "build", pc |-> "hash", run |-> c.run, previous |-> c.previous,
                  archives |-> c.archives]
          /\ Building(c) /\ Complete(c.run, Marks) /\ made < MaxPassports
    /\ c.pc = "assess" =>
          /\ c = [cmd |-> "build", pc |-> "assess", previous |-> c.previous, archives |-> c.archives,
                  key |-> c.key, artifacts |-> c.artifacts]
          /\ Building(c) /\ made < MaxPassports /\ c.key \in 1..keys
          /\ Manifest(c.artifacts, Marks) /\ Seen(c.artifacts, file, DOMAIN c.artifacts, Marks)
    /\ c.pc \in {"archive", "write"} =>
          /\ c = [cmd |-> "build", pc |-> c.pc, previous |-> c.previous, archives |-> c.archives,
                  new |-> c.new]
          /\ Building(c) /\ Document(c.new, Marks) /\ c.new.key \in 1..keys /\ c.new.events = <<>>
          /\ c.new.id = made /\ made > 0 /\ made \notin detached /\ \A d \in Written : d.id < made
          /\ c.new.revision = IF c.previous = NONE THEN NONE ELSE compute_revision(c.previous, c.new.artifacts)
    /\ c.pc = "write" /\ c.archives => passport \in history
    /\ c.pc = "append" => c = [cmd |-> "monitor", pc |-> "append", raw |-> passport] /\ passport # NONE

Commands == proc = [p \in Procs |-> proc[p]] /\ \A p \in Procs : Fits(proc[p])

Inv == Files /\ Keyring /\ Papers /\ Commands /\ HistoryLinked /\ EventsKept
-----------------------------------------------------------------------------
(* Files. *)

\* Nothing that is written is taken for a missing file or passport.
NoneIsMissing ==
    /\ \A n : [saved |-> n] # NONE
    /\ \A i, s, x : OutputOf(i, s, x) # NONE
    /\ \A i, a, k, x, v, e : Signed(i, a, k, x, v, e) # NONE

\* The files F became G: sources are only saved again, and nothing is deleted.
Later(F, G) ==
    /\ \A f \in Sources : F[f] \in [saved : Nat] /\ G[f] \in [saved : Nat] /\ F[f].saved <= G[f].saved
                           /\ (F[f] = Mark => G[f] = Mark)
    /\ \A f \in Paths : F[f] # NONE => G[f] # NONE

LEMMA StageFacts ==
    ASSUME NEW i \in 1..Len(Stages)
    PROVE  /\ Stages[i].script \in Paths /\ Stages[i].deps \subseteq Paths /\ Stages[i].outs \subseteq Paths
           /\ Stages[i].outs \subseteq Products /\ i \in DOMAIN Stages /\ Stages[i].script \in Sources
<1>1. i \in DOMAIN Stages
  BY StagesAssumption
<1>2. Stages[i].outs \subseteq Products
  BY <1>1 DEF Products
<1>3. QED
  BY <1>1, <1>2, StagesAssumption DEF Paths

LEMMA OlderStays ==
    ASSUME NEW F, NEW G, Later(F, G), NEW f, NEW h, Older(f, h, F)
    PROVE  Older(f, h, G)
<1>1. PICK j, k, l : j = h.saved /\ k = F[f].saved /\ l = G[f].saved
  OBVIOUS
<1>2. f \in Sources /\ F[f] \in [saved : Nat] /\ G[f] \in [saved : Nat]
  BY DEF Older, Later
<1>3. CASE Marked(f, F)
  BY <1>2, <1>3 DEF Older, Later, Marked
<1>4. CASE h \in [saved : Nat] /\ h.saved < F[f].saved
  <2>1. j \in Nat /\ k \in Nat /\ l \in Nat
    BY <1>1, <1>2, <1>4
  <2>2. j < k /\ k <= l
    BY <1>1, <1>2, <1>4 DEF Later
  <2>3. j < l
    BY <2>1, <2>2
  <2>4. QED
    BY <1>1, <1>2, <1>4, <2>3 DEF Older
<1>5. QED
  BY <1>3, <1>4 DEF Older

LEMMA UnsureStays ==
    ASSUME NEW F, NEW G, Later(F, G), NEW i, Unsure(i, F)
    PROVE  Unsure(i, G)
BY DEF Unsure, Marked, Later

LEMMA ManifestStays ==
    ASSUME NEW F, NEW G, Later(F, G), NEW A, Manifest(A, F)
    PROVE  Manifest(A, G)
BY UnsureStays DEF Manifest

LEMMA SpoiltStays ==
    ASSUME NEW F, NEW G, Later(F, G), NEW i, NEW s, NEW x, Spoilt(i, s, x, F)
    PROVE  Spoilt(i, s, x, G)
BY OlderStays DEF Spoilt

LEMMA RecordStays ==
    ASSUME NEW F, NEW G, Later(F, G), NEW R, Record(R, F)
    PROVE  Record(R, G)
<1>0. Len(R) <= Len(Stages) /\ IsChain(R)
  BY DEF Record
<1>1. Len(R) \in Nat
  BY <1>0 DEF IsChain
<1>2. ASSUME NEW i \in 1..Len(R) PROVE Ran(i, R[i], G)
  <2>1. i \in 1..Len(Stages)
    BY <1>0, <1>1, StagesAssumption
  <2>2. Ran(i, R[i], F)
    BY DEF Record
  <2>3. Spoilt(i, R[i].script, R[i].inputs, F) => Spoilt(i, R[i].script, R[i].inputs, G)
    BY SpoiltStays
  <2>4. \A o \in Stages[i].outs : o \in Paths
    BY <2>1, StageFacts
  <2>5. \A o \in Stages[i].outs : G[o] # NONE
    BY <2>2, <2>4 DEF Ran, Later
  <2>6. QED
    BY <2>2, <2>3, <2>5 DEF Ran
<1>3. QED
  BY <1>0, <1>2 DEF Record

LEMMA SeenStays ==
    ASSUME NEW F, NEW G, Later(F, G), NEW A, NEW B, NEW S, Seen(A, B, S, F)
    PROVE  Seen(A, B, S, G)
BY OlderStays DEF Seen

LEMMA DocumentStays ==
    ASSUME NEW F, NEW G, Later(F, G), NEW d, Document(d, F)
    PROVE  Document(d, G)
BY SeenStays, ManifestStays DEF Document

-----------------------------------------------------------------------------
(* Sequences and documents. *)

LEMMA ChainFacts ==
    ASSUME NEW s, IsChain(s)
    PROVE  /\ Len(s) \in Nat /\ DOMAIN s = 1..Len(s)
           /\ \A e : /\ IsChain(Append(s, e)) /\ Len(Append(s, e)) = Len(s) + 1 /\ Append(s, e)[Len(s) + 1] = e
                     /\ \A i \in 1..Len(s) : Append(s, e)[i] = s[i]
<1>1. PICK S : S = {s[i] : i \in DOMAIN s} /\ s \in Seq(S)
  BY DEF IsChain
<1>2. Len(s) \in Nat /\ DOMAIN s = 1..Len(s)
  BY <1>1
<1>3. ASSUME NEW e
      PROVE  /\ IsChain(Append(s, e)) /\ Len(Append(s, e)) = Len(s) + 1 /\ Append(s, e)[Len(s) + 1] = e
             /\ \A i \in 1..Len(s) : Append(s, e)[i] = s[i]
  <2>1. PICK t, U : t = Append(s, e) /\ U = S \cup {e}
    OBVIOUS
  <2>2. s \in Seq(U) /\ e \in U
    BY <1>1, <2>1, SeqMonotonic
  <2>3. t \in Seq(U) /\ Len(t) = Len(s) + 1 /\ t[Len(s) + 1] = e /\ \A i \in 1..Len(s) : t[i] = s[i]
    BY <2>1, <2>2
  <2>4. Len(t) \in Nat /\ DOMAIN t = 1..Len(t) /\ t = [i \in 1..Len(t) |-> t[i]]
    BY <2>3
  <2>5. PICK V : V = {t[i] : i \in DOMAIN t}
    OBVIOUS
  <2>6. \A i \in 1..Len(t) : t[i] \in V
    BY <2>4, <2>5
  <2>7. t \in Seq(V)
    BY <2>4, <2>6
  <2>8. QED
    BY <2>1, <2>3, <2>5, <2>7 DEF IsChain
<1>4. QED
  BY <1>2, <1>3

LEMMA EmptyChain == IsChain(<<>>) /\ Len(<<>>) = 0
<1>1. PICK s : s = <<>>
  OBVIOUS
<1>2. DOMAIN s = {} /\ \A S : s \in Seq(S)
  BY <1>1
<1>3. IsChain(s)
  BY <1>2 DEF IsChain
<1>4. QED
  BY <1>1, <1>3

LEMMA SignedFacts ==
    ASSUME NEW i, NEW a, NEW k, NEW x, NEW v, NEW e, NEW d, d = Signed(i, a, k, x, v, e)
    PROVE  /\ d.id = i /\ d.artifacts = a /\ d.key = k /\ d.assessed = x /\ d.revision = v /\ d.events = e
           /\ d.merkle_root = merkle_root(a) /\ d.signature = sign(k, Body(i, a, k, x, v))
           /\ BodyOf(d) = Body(i, a, k, x, v)
           /\ signing_payload(d) = Body(i, a, k, x, v)
           /\ \A t : [d EXCEPT !.events = t] = Signed(i, a, k, x, v, t)
<1>1. PICK m, g : m = merkle_root(a) /\ g = sign(k, Body(i, a, k, x, v))
  OBVIOUS
<1>2. d = [id |-> i, artifacts |-> a, merkle_root |-> m, key |-> k, assessed |-> x,
           revision |-> v, events |-> e, signature |-> g]
  BY <1>1 DEF Signed
<1>3. /\ d.id = i /\ d.artifacts = a /\ d.key = k /\ d.assessed = x /\ d.revision = v /\ d.events = e
      /\ d.merkle_root = m /\ d.signature = g
  BY <1>2
<1>4. BodyOf(d) = Body(i, a, k, x, v)
  BY <1>3 DEF BodyOf
<1>5. signing_payload(d) = Body(i, a, k, x, v)
  <2>1. PICK q : q = [d EXCEPT !.signature = NONE]
    OBVIOUS
  <2>2. q = [id |-> i, artifacts |-> a, merkle_root |-> m, key |-> k, assessed |-> x,
             revision |-> v, events |-> e, signature |-> NONE]
    BY <1>2, <2>1
  <2>3. signing_payload(d) = [q EXCEPT !.events = <<>>]
    BY <2>1, Zenon DEF signing_payload
  <2>4. [q EXCEPT !.events = <<>>] =
          [id |-> i, artifacts |-> a, merkle_root |-> m, key |-> k, assessed |-> x,
           revision |-> v, events |-> <<>>, signature |-> NONE]
    BY <2>2
  <2>5. QED
    BY <1>1, <2>3, <2>4 DEF Body
<1>6. ASSUME NEW t PROVE [d EXCEPT !.events = t] = Signed(i, a, k, x, v, t)
  <2>1. [d EXCEPT !.events = t] =
          [id |-> i, artifacts |-> a, merkle_root |-> m, key |-> k, assessed |-> x,
           revision |-> v, events |-> t, signature |-> g]
    BY <1>2
  <2>2. QED
    BY <1>1, <2>1 DEF Signed
<1>7. QED
  BY <1>1, <1>3, <1>4, <1>5, <1>6

\* An unsigned document is signed.
LEMMA SigningGives ==
    ASSUME NEW i, NEW a, NEW k, NEW x, NEW v
    PROVE  sign_passport(Body(i, a, k, x, v), k) = Signed(i, a, k, x, v, <<>>)
<1>1. PICK m, b : m = merkle_root(a) /\ b = Body(i, a, k, x, v)
  OBVIOUS
<1>2. b = [id |-> i, artifacts |-> a, merkle_root |-> m, key |-> k, assessed |-> x,
           revision |-> v, events |-> <<>>, signature |-> NONE]
  BY <1>1 DEF Body
<1>3. signing_payload(b) = b
  <2>1. PICK q : q = [b EXCEPT !.signature = NONE]
    OBVIOUS
  <2>2. q = b
    BY <1>2, <2>1
  <2>3. signing_payload(b) = [q EXCEPT !.events = <<>>]
    BY <2>1, Zenon DEF signing_payload
  <2>4. QED
    BY <1>2, <2>2, <2>3
<1>4. PICK g : g = sign(k, b)
  OBVIOUS
<1>5. sign_passport(b, k) = [b EXCEPT !.signature = g]
  BY <1>3, <1>4 DEF sign_passport
<1>6. [b EXCEPT !.signature = g] =
        [id |-> i, artifacts |-> a, merkle_root |-> m, key |-> k, assessed |-> x,
         revision |-> v, events |-> <<>>, signature |-> g]
  BY <1>2
<1>7. QED
  BY <1>1, <1>4, <1>5, <1>6 DEF Signed

LEMMA EventFacts ==
    ASSUME NEW k, NEW n, NEW y, NEW e, e = EventOf(k, n, y)
    PROVE  /\ e.payload = n /\ e.prev = y
           /\ event_body(e) = [payload |-> n, prev |-> y, signature |-> NONE]
           /\ e.signature = sign(k, event_body(e))
<1>1. PICK g : g = sign(k, [payload |-> n, prev |-> y, signature |-> NONE])
  OBVIOUS
<1>2. e = [payload |-> n, prev |-> y, signature |-> g]
  BY <1>1 DEF EventOf
<1>3. event_body(e) = [payload |-> n, prev |-> y, signature |-> NONE]
  BY <1>2 DEF event_body
<1>4. QED
  BY <1>1, <1>2, <1>3

\* A document that carries the events of its chain verifies.
LEMMA DocumentVerifies ==
    ASSUME NEW d, NEW F, Document(d, F)
    PROVE  verify_document(d, d.key)
<1>1. PICK i, a, k, x, v, e :
         i = d.id /\ a = d.artifacts /\ k = d.key /\ x = d.assessed /\ v = d.revision /\ e = d.events
  OBVIOUS
<1>2. d = Signed(i, a, k, x, v, e) /\ Chained(k, BodyOf(d), e)
  BY <1>1 DEF Document
<1>3. PICK y : y = BodyOf(d)
  OBVIOUS
<1>4. signing_payload(d) = y /\ d.signature = sign(k, y) /\ d.merkle_root = merkle_root(a)
  BY <1>2, <1>3, SignedFacts
<1>5. ASSUME NEW j \in 1..Len(e)
      PROVE  /\ e[j].prev = (IF j = 1 THEN y ELSE e[j - 1])
             /\ verify_signature(k, event_body(e[j]), e[j].signature)
  <2>1. PICK z : z = IF j = 1 THEN y ELSE e[j - 1]
    OBVIOUS
  <2>2. e[j] = EventOf(k, e[j].payload, z)
    BY <1>2, <1>3, <2>1 DEF Chained
  <2>3. PICK u, n : u = e[j] /\ n = e[j].payload
    OBVIOUS
  <2>4. u = EventOf(k, n, z)
    BY <2>2, <2>3
  <2>5. u.prev = z /\ u.signature = sign(k, event_body(u))
    BY <2>4, EventFacts
  <2>6. QED
    BY <2>1, <2>3, <2>5 DEF verify_signature
<1>6. verify_events(d, k) = {}
  BY <1>1, <1>4, <1>5 DEF verify_events
<1>7. QED
  BY <1>1, <1>4, <1>6 DEF verify_document, verify_signature
\* An event is appended to a document, which keeps everything else.
LEMMA Appended ==
    ASSUME NEW d, NEW F, Document(d, F), NEW n \in Nat, NEW b, b = append_event(d, n, d.key)
    PROVE  /\ Document(b, F) /\ b.id = d.id /\ b.artifacts = d.artifacts /\ b.revision = d.revision
           /\ b.key = d.key /\ EventsOf(d) \subseteq EventsOf(b) /\ b.events[Len(b.events)] \in EventsOf(b)
<1>1. PICK i, a, k, x, v, s :
         i = d.id /\ a = d.artifacts /\ k = d.key /\ x = d.assessed /\ v = d.revision /\ s = d.events
  OBVIOUS
<1>2. PICK y : y = BodyOf(d)
  OBVIOUS
<1>3. d = Signed(i, a, k, x, v, s) /\ Chained(k, y, s) /\ IsChain(s)
  BY <1>1, <1>2 DEF Document, Chained
<1>4. signing_payload(d) = y /\ y = Body(i, a, k, x, v)
  BY <1>2, <1>3, SignedFacts
<1>5. PICK l : l = Len(s) /\ l \in Nat /\ DOMAIN s = 1..l
  BY <1>3, ChainFacts
<1>6. PICK z : z = next_prev_hash(d)
  OBVIOUS
<1>7. z = IF l = 0 THEN y ELSE s[l]
  <2>1. s = <<>> <=> l = 0
    <3>1. l = 0 => s = <<>>
      BY <1>3, <1>5 DEF IsChain
    <3>2. QED
      BY <1>5, <3>1, EmptyChain
  <2>2. QED
    BY <1>1, <1>4, <1>5, <1>6, <2>1 DEF next_prev_hash
<1>8. new_event(d, n, k) = EventOf(k, n, z)
  <2>1. PICK e : e = [payload |-> n, prev |-> z, signature |-> NONE]
    OBVIOUS
  <2>2. event_body(e) = e
    BY <2>1 DEF event_body
  <2>3. PICK g : g = sign(k, e)
    OBVIOUS
  <2>4. [e EXCEPT !.signature = g] = [payload |-> n, prev |-> z, signature |-> g]
    BY <2>1
  <2>5. new_event(d, n, k) = [e EXCEPT !.signature = g]
    BY <1>6, <2>1, <2>2, <2>3 DEF new_event
  <2>6. QED
    BY <2>1, <2>3, <2>4, <2>5 DEF EventOf
<1>9. PICK w, t : w = EventOf(k, n, z) /\ t = Append(s, w)
  OBVIOUS
<1>10. b = [d EXCEPT !.events = t]
  BY <1>1, <1>3, <1>8, <1>9, SignedFacts DEF append_event
<1>11. b = Signed(i, a, k, x, v, t)
  BY <1>3, <1>10, SignedFacts
<1>12. /\ b.id = i /\ b.artifacts = a /\ b.key = k /\ b.assessed = x /\ b.revision = v /\ b.events = t
       /\ BodyOf(b) = y
  BY <1>4, <1>11, SignedFacts
<1>13. IsChain(t) /\ Len(t) = l + 1 /\ t[l + 1] = w /\ \A j \in 1..l : t[j] = s[j]
  BY <1>3, <1>5, <1>9, ChainFacts
<1>14. DOMAIN t = 1..(l + 1)
  BY <1>13, ChainFacts
<1>15. w.payload = n /\ w = EventOf(k, w.payload, z)
  BY <1>9, EventFacts
<1>16. ASSUME NEW j \in 1..(l + 1)
       PROVE  t[j].payload \in Nat /\ t[j] = EventOf(k, t[j].payload, IF j = 1 THEN y ELSE t[j - 1])
  <2>1. CASE j = l + 1
    <3>1. t[j] = w
      BY <1>13, <2>1
    <3>2. CASE l = 0
      BY <1>7, <1>15, <2>1, <3>1, <3>2
    <3>3. CASE l # 0
      <4>1. j - 1 = l /\ l \in 1..l /\ j # 1
        BY <1>5, <2>1, <3>3
      <4>2. t[j - 1] = s[l]
        BY <1>13, <4>1
      <4>3. QED
        BY <1>7, <1>15, <3>1, <3>3, <4>1, <4>2
    <3>4. QED
      BY <3>2, <3>3
  <2>2. CASE j # l + 1
    <3>1. j \in 1..l
      BY <1>5, <2>2
    <3>2. t[j] = s[j] /\ (j # 1 => t[j - 1] = s[j - 1])
      <4>1. j # 1 => j - 1 \in 1..l
        BY <1>5, <3>1
      <4>2. QED
        BY <1>13, <3>1, <4>1
    <3>3. s[j].payload \in Nat /\ s[j] = EventOf(k, s[j].payload, IF j = 1 THEN y ELSE s[j - 1])
      BY <1>3, <1>5, <3>1 DEF Chained
    <3>4. QED
      BY <3>2, <3>3
  <2>3. QED
    BY <2>1, <2>2
<1>17. Chained(k, y, t)
  BY <1>13, <1>16 DEF Chained
<1>18. Document(b, F)
  <2>1. Manifest(a, F) /\ Seen(a, x, Assessed, F)
    BY <1>1 DEF Document
  <2>2. QED
    BY <1>11, <1>12, <1>17, <2>1 DEF Document
<1>19. EventsOf(d) \subseteq EventsOf(b) /\ b.events[Len(b.events)] \in EventsOf(b)
  <2>1. \A j \in 1..l : j \in 1..(l + 1) /\ t[j] = s[j]
    BY <1>5, <1>13
  <2>2. l + 1 \in 1..(l + 1)
    BY <1>5
  <2>3. QED
    BY <1>1, <1>5, <1>12, <1>13, <1>14, <2>1, <2>2 DEF EventsOf
<1>20. QED
  BY <1>1, <1>12, <1>18, <1>19

-----------------------------------------------------------------------------
(* Altered documents. *)

LEMMA Least ==
    ASSUME NEW T, T \subseteq Nat, T # {}
    PROVE  \E i \in T : \A j \in T : i <= j
<1>1. PICK i \in T : \A j \in T : ~ (<<j, i>> \in OpToRel(<, Nat))
  BY WFMin, NatLessThanWellFounded
<1>2. \A j \in T : ~ (j < i)
  BY <1>1 DEF OpToRel
<1>3. QED
  BY <1>2

LEMMA EventIsNoBody ==
    ASSUME NEW k, NEW n, NEW z, NEW i, NEW a, NEW j, NEW x, NEW v
    PROVE  EventOf(k, n, z) # Body(i, a, j, x, v)
<1>1. PICK e, b, g, m : /\ g = sign(k, [payload |-> n, prev |-> z, signature |-> NONE]) /\ m = merkle_root(a)
                        /\ e = EventOf(k, n, z) /\ b = Body(i, a, j, x, v)
  OBVIOUS
<1>2. e = [payload |-> n, prev |-> z, signature |-> g]
  BY <1>1 DEF EventOf
<1>3. b = [id |-> i, artifacts |-> a, merkle_root |-> m, key |-> j, assessed |-> x,
           revision |-> v, events |-> <<>>, signature |-> NONE]
  BY <1>1 DEF Body
<1>4. "id" \in DOMAIN b /\ "id" \notin DOMAIN e
  BY <1>2, <1>3
<1>5. QED
  BY <1>1, <1>4

\* No event equals what stands before it: going back, the first one would
\* equal the signed document.
LEMMA EventsDiffer ==
    ASSUME NEW k, NEW y, NEW s, Chained(k, y, s), \A n, z : EventOf(k, n, z) # y, NEW i \in 1..Len(s)
    PROVE  s[i] # (IF i = 1 THEN y ELSE s[i - 1])
<1> DEFINE T == {j \in 1..Len(s) : s[j] = IF j = 1 THEN y ELSE s[j - 1]}
<1>1. SUFFICES ASSUME T # {} PROVE FALSE
  OBVIOUS
<1>2. Len(s) \in Nat
  BY ChainFacts DEF Chained
<1>3. T \subseteq Nat
  BY <1>2
<1>4. PICK j \in T : \A h \in T : j <= h
  BY <1>1, <1>3, Least
<1>5. \A h \in 1..Len(s) : s[h] = EventOf(k, s[h].payload, IF h = 1 THEN y ELSE s[h - 1])
  BY DEF Chained
<1>6. j \in 1..Len(s)
  OBVIOUS
<1>7. j # 1
  <2>1. j = 1 => s[j] = y
    OBVIOUS
  <2>2. QED
    BY <1>5, <1>6, <2>1
<1>8. PICK h : h = j - 1
  OBVIOUS
<1>9. h \in 1..Len(s) /\ h < j
  BY <1>2, <1>6, <1>7, <1>8
<1>10. s[j] = s[h]
  BY <1>7, <1>8
<1>11. s[j].prev = s[h]
  <2>1. s[j] = EventOf(k, s[j].payload, s[h])
    BY <1>5, <1>6, <1>7, <1>8
  <2>2. PICK e, n, z : e = s[j] /\ n = s[j].payload /\ z = s[h]
    OBVIOUS
  <2>3. e = EventOf(k, n, z)
    BY <2>1, <2>2
  <2>4. e.prev = z
    BY <2>3, EventFacts
  <2>5. QED
    BY <2>2, <2>4
<1>12. s[h].prev = (IF h = 1 THEN y ELSE s[h - 1])
  <2>1. PICK e, n, z : e = s[h] /\ n = s[h].payload /\ z = IF h = 1 THEN y ELSE s[h - 1]
    OBVIOUS
  <2>2. e = EventOf(k, n, z)
    BY <1>5, <1>9, <2>1
  <2>3. e.prev = z
    BY <2>2, EventFacts
  <2>4. QED
    BY <2>1, <2>3
<1>13. h \in T
  BY <1>9, <1>10, <1>11, <1>12
<1>14. j <= h
  BY <1>4, <1>13
<1>15. j \in Nat /\ h \in Nat
  BY <1>2, <1>6, <1>9
<1>16. QED
  BY <1>9, <1>14, <1>15

\* A document with other events, one of which does not follow the one before.
LEMMA Broken ==
    ASSUME NEW d, NEW F, Document(d, F), NEW t, NEW j \in 1..Len(t),
           t[j].prev # (IF j = 1 THEN BodyOf(d) ELSE t[j - 1])
    PROVE  ~ verify_document([d EXCEPT !.events = t], d.key)
<1>1. PICK i, a, k, x, v, e :
         i = d.id /\ a = d.artifacts /\ k = d.key /\ x = d.assessed /\ v = d.revision /\ e = d.events
  OBVIOUS
<1>2. d = Signed(i, a, k, x, v, e)
  BY <1>1 DEF Document
<1>3. PICK b : b = [d EXCEPT !.events = t]
  OBVIOUS
<1>4. b = Signed(i, a, k, x, v, t) /\ BodyOf(d) = Body(i, a, k, x, v)
  BY <1>2, <1>3, SignedFacts
<1>5. b.events = t /\ signing_payload(b) = BodyOf(d)
  BY <1>4, SignedFacts
<1>6. j \in verify_events(b, k)
  BY <1>5 DEF verify_events
<1>7. QED
  BY <1>1, <1>3, <1>6 DEF verify_document
\* A sequence with another entry in one place.
Put(s, i, u) == [s EXCEPT ![i] = u]

LEMMA ChainChanged ==
    ASSUME NEW s, IsChain(s), NEW i \in 1..Len(s), NEW u
    PROVE  /\ IsChain(Put(s, i, u)) /\ Len(Put(s, i, u)) = Len(s)
           /\ Put(s, i, u)[i] = u /\ \A j \in 1..Len(s) : j # i => Put(s, i, u)[j] = s[j]
<1>1. PICK S : s \in Seq(S)
  BY DEF IsChain
<1>2. PICK t, U, l : t = [s EXCEPT ![i] = u] /\ U = S \cup {u} /\ l = Len(s)
  OBVIOUS
<1>3. s \in Seq(U) /\ u \in U
  BY <1>1, <1>2, SeqMonotonic
<1>4. t \in Seq(U) /\ Len(t) = l /\ t[i] = u /\ \A j \in 1..l : j # i => t[j] = s[j]
  BY <1>2, <1>3
<1>5. Len(t) \in Nat /\ DOMAIN t = 1..Len(t) /\ t = [j \in 1..Len(t) |-> t[j]]
  BY <1>4
<1>6. PICK V : V = {t[j] : j \in DOMAIN t}
  OBVIOUS
<1>7. \A j \in 1..Len(t) : t[j] \in V
  BY <1>5, <1>6
<1>8. t \in Seq(V)
  BY <1>5, <1>7
<1>9. QED
  BY <1>2, <1>4, <1>6, <1>8 DEF IsChain, Put

LEMMA ChainChangedTwice ==
    ASSUME NEW s, IsChain(s), NEW i \in 1..Len(s), NEW h \in 1..Len(s), i # h, NEW e, NEW u,
           NEW c, c = Put(Put(s, i, e), h, u)
    PROVE  Len(c) = Len(s) /\ c[i] = e /\ \A j \in 1..Len(s) : j # i /\ j # h => c[j] = s[j]
<1>1. PICK t, l : t = Put(s, i, e) /\ l = Len(s)
  OBVIOUS
<1>2. IsChain(t) /\ Len(t) = l /\ t[i] = e /\ \A j \in 1..l : j # i => t[j] = s[j]
  BY <1>1, ChainChanged
<1>3. h \in 1..Len(t) /\ c = Put(t, h, u)
  BY <1>1, <1>2
<1>4. Len(c) = Len(t) /\ \A j \in 1..Len(t) : j # h => c[j] = t[j]
  BY <1>2, <1>3, ChainChanged
<1>5. c[i] = e
  BY <1>1, <1>2, <1>4
<1>6. QED
  BY <1>1, <1>2, <1>4, <1>5

LEMMA ArtifactAltered ==
    ASSUME NEW d, NEW F, Document(d, F), NEW f \in DOMAIN d.artifacts
    PROVE  ~ verify_document([d EXCEPT !.artifacts[f] = NONE], d.key)
<1>1. PICK i, a, k, x, v, e :
         i = d.id /\ a = d.artifacts /\ k = d.key /\ x = d.assessed /\ v = d.revision /\ e = d.events
  OBVIOUS
<1>2. d = Signed(i, a, k, x, v, e) /\ a = [h \in DOMAIN a |-> a[h]] /\ a[f] # NONE
  BY <1>1 DEF Document, Manifest
<1>3. PICK m, c, b, g : /\ c = [a EXCEPT ![f] = NONE] /\ b = [d EXCEPT !.artifacts[f] = NONE]
                        /\ m = merkle_root(a) /\ g = sign(k, Body(i, a, k, x, v))
  OBVIOUS
<1>4. c # a
  <2>1. c[f] = NONE
    BY <1>1, <1>3
  <2>2. QED
    BY <1>2, <2>1
<1>5. d = [id |-> i, artifacts |-> a, merkle_root |-> m, key |-> k, assessed |-> x,
           revision |-> v, events |-> e, signature |-> g]
  BY <1>2, <1>3 DEF Signed
<1>6. b = [d EXCEPT !.artifacts = c]
  BY <1>1, <1>3
<1>7. b = [id |-> i, artifacts |-> c, merkle_root |-> m, key |-> k, assessed |-> x,
           revision |-> v, events |-> e, signature |-> g]
  BY <1>5, <1>6
<1>8. signing_payload(b) = [id |-> i, artifacts |-> c, merkle_root |-> m, key |-> k, assessed |-> x,
                            revision |-> v, events |-> <<>>, signature |-> NONE]
  <2>1. PICK q : q = [b EXCEPT !.signature = NONE]
    OBVIOUS
  <2>2. q = [id |-> i, artifacts |-> c, merkle_root |-> m, key |-> k, assessed |-> x,
             revision |-> v, events |-> e, signature |-> NONE]
    BY <1>7, <2>1
  <2>3. signing_payload(b) = [q EXCEPT !.events = <<>>]
    BY <2>1, Zenon DEF signing_payload
  <2>4. QED
    BY <2>2, <2>3
<1>9. PICK y, z : y = Body(i, a, k, x, v) /\ z = signing_payload(b)
  OBVIOUS
<1>10. y.artifacts = a /\ z.artifacts = c
  BY <1>8, <1>9 DEF Body
<1>11. sign(k, y) # sign(k, z)
  BY <1>4, <1>10 DEF sign
<1>12. b.signature = sign(k, y)
  BY <1>3, <1>7, <1>9
<1>13. ~ verify_signature(k, z, b.signature)
  BY <1>11, <1>12 DEF verify_signature
<1>14. QED
  BY <1>1, <1>3, <1>9, <1>13 DEF verify_document

LEMMA EventAltered ==
    ASSUME NEW d, NEW F, Document(d, F), NEW i \in DOMAIN d.events
    PROVE  ~ verify_document([d EXCEPT !.events[i].payload = NONE], d.key)
<1>1. PICK k, s, y : k = d.key /\ s = d.events /\ y = BodyOf(d)
  OBVIOUS
<1>2. Chained(k, y, s) /\ IsChain(s)
  BY <1>1 DEF Document, Chained
<1>3. i \in 1..Len(s)
  BY <1>1, <1>2, ChainFacts
<1>4. PICK n, z, u : u = s[i] /\ n = s[i].payload /\ z = IF i = 1 THEN y ELSE s[i - 1]
  OBVIOUS
<1>5. u = EventOf(k, n, z) /\ n \in Nat
  BY <1>2, <1>3, <1>4 DEF Chained
<1>6. PICK g : g = sign(k, [payload |-> n, prev |-> z, signature |-> NONE])
  OBVIOUS
<1>7. u = [payload |-> n, prev |-> z, signature |-> g]
  BY <1>5, <1>6 DEF EventOf
<1>8. PICK w, t, b : /\ w = [u EXCEPT !.payload = NONE] /\ t = [s EXCEPT ![i] = w]
                     /\ b = [d EXCEPT !.events[i].payload = NONE]
  OBVIOUS
<1>9. w = [payload |-> NONE, prev |-> z, signature |-> g]
  BY <1>7, <1>8
<1>10. b = [d EXCEPT !.events = t]
  BY <1>1, <1>4, <1>8
<1>11. Len(t) = Len(s) /\ t[i] = w
  <2>1. t = Put(s, i, w)
    BY <1>8 DEF Put
  <2>2. QED
    BY <1>2, <1>3, <2>1, ChainChanged
<1>12. b.events = t
  <2>1. d = Signed(d.id, d.artifacts, d.key, d.assessed, d.revision, d.events)
    BY DEF Document
  <2>2. PICK ii, a, x, v : ii = d.id /\ a = d.artifacts /\ x = d.assessed /\ v = d.revision
    OBVIOUS
  <2>3. d = Signed(ii, a, k, x, v, s)
    BY <1>1, <2>1, <2>2
  <2>4. b = Signed(ii, a, k, x, v, t)
    BY <1>10, <2>3, SignedFacts
  <2>5. QED
    BY <2>4, SignedFacts
<1>13. event_body(w) = [payload |-> NONE, prev |-> z, signature |-> NONE]
  BY <1>9 DEF event_body
<1>14. w.signature # sign(k, event_body(w))
  <2>1. NONE # n
    BY <1>5, NoneAssumption
  <2>2. [payload |-> n, prev |-> z, signature |-> NONE] # [payload |-> NONE, prev |-> z, signature |-> NONE]
    BY <2>1
  <2>3. w.signature = g
    BY <1>9
  <2>4. QED
    BY <1>6, <1>13, <2>2, <2>3 DEF sign
<1>15. i \in verify_events(b, k)
  BY <1>3, <1>11, <1>12, <1>14 DEF verify_events, verify_signature
<1>16. QED
  BY <1>1, <1>8, <1>15 DEF verify_document

LEMMA EventMissing ==
    ASSUME NEW d, NEW F, Document(d, F), NEW i \in 1..(Len(d.events) - 1), NEW t, NEW s, s = d.events,
           t = [j \in 1..(Len(s) - 1) |-> IF j < i THEN s[j] ELSE s[j + 1]]
    PROVE  ~ verify_document([d EXCEPT !.events = t], d.key)
<1>1. PICK k, y, l : k = d.key /\ y = BodyOf(d) /\ l = Len(s)
  OBVIOUS
<1>2. Chained(k, y, s) /\ IsChain(s)
  BY <1>1 DEF Document, Chained
<1>3. l \in Nat
  BY <1>1, <1>2, ChainFacts
<1>4. i \in 1..(l - 1) /\ l - 1 \in Nat /\ i \in 1..l /\ i + 1 \in 1..l /\ (i # 1 => i - 1 \in 1..(l - 1) /\ i - 1 < i)
  BY <1>1, <1>3
<1>5. Len(t) = l - 1
  <2>1. DOMAIN t = 1..(l - 1) /\ t = [j \in 1..(l - 1) |-> t[j]]
    BY <1>1
  <2>2. PICK S : S = {t[j] : j \in 1..(l - 1)}
    OBVIOUS
  <2>3. \A j \in 1..(l - 1) : t[j] \in S
    BY <2>2
  <2>4. QED
    BY <1>4, <2>1, <2>3
<1>6. t[i] = s[i + 1] /\ (i # 1 => t[i - 1] = s[i - 1])
  BY <1>1, <1>4
<1>7. PICK e, n, h : e = s[i + 1] /\ n = s[i + 1].payload /\ h = i + 1
  OBVIOUS
<1>8. e.prev = s[i]
  <2>1. h \in 1..Len(s) /\ h # 1 /\ h - 1 = i
    BY <1>1, <1>4, <1>7
  <2>2. e = EventOf(k, n, s[i])
    BY <1>2, <1>7, <2>1 DEF Chained
  <2>3. QED
    BY <2>2, EventFacts
<1>9. \A m, z : EventOf(k, m, z) # y
  BY <1>1, EventIsNoBody DEF BodyOf
<1>10. s[i] # (IF i = 1 THEN y ELSE s[i - 1])
  BY <1>1, <1>2, <1>4, <1>9, EventsDiffer
<1>11. i \in 1..Len(t) /\ t[i].prev # (IF i = 1 THEN BodyOf(d) ELSE t[i - 1])
  BY <1>1, <1>4, <1>5, <1>6, <1>7, <1>8, <1>10
<1>12. QED
  BY <1>11, Broken

LEMMA EventsExchanged ==
    ASSUME NEW d, NEW F, Document(d, F), NEW i \in 1..(Len(d.events) - 1)
    PROVE  ~ verify_document([d EXCEPT !.events[i] = d.events[i + 1], !.events[i + 1] = d.events[i]], d.key)
<1>1. PICK k, y, s, l : k = d.key /\ y = BodyOf(d) /\ s = d.events /\ l = Len(s)
  OBVIOUS
<1>2. Chained(k, y, s) /\ IsChain(s)
  BY <1>1 DEF Document, Chained
<1>3. l \in Nat
  BY <1>1, <1>2, ChainFacts
<1>4. PICK h : h = i + 1
  OBVIOUS
<1>5. i \in 1..l /\ h \in 1..l /\ h # i /\ h # 1 /\ h - 1 = i /\ (i # 1 => i - 1 \in 1..l /\ i - 1 # i /\ i - 1 # h)
  BY <1>1, <1>3, <1>4
<1>6. PICK e, u, b : /\ e = s[h] /\ u = s[i]
                     /\ b = [d EXCEPT !.events[i] = d.events[i + 1], !.events[i + 1] = d.events[i]]
  OBVIOUS
<1>7. PICK t, c : t = Put(s, i, e) /\ c = Put(t, h, u)
  OBVIOUS
<1>8. Len(c) = l /\ c[i] = e /\ \A j \in 1..l : j # i /\ j # h => c[j] = s[j]
  BY <1>1, <1>2, <1>5, <1>7, ChainChangedTwice
<1>9. b = [d EXCEPT !.events = c]
  <2>1. PICK r : r = [d EXCEPT !.events[i] = e]
    OBVIOUS
  <2>2. PICK q : q = [d EXCEPT !.events = t]
    OBVIOUS
  <2>3. PICK ii, a, x, v : ii = d.id /\ a = d.artifacts /\ x = d.assessed /\ v = d.revision
    OBVIOUS
  <2>4. d = Signed(ii, a, k, x, v, s)
    BY <1>1, <2>3 DEF Document
  <2>5. q = Signed(ii, a, k, x, v, t)
    BY <2>2, <2>4, SignedFacts
  <2>6. q.events = t /\ [q EXCEPT !.events = c] = Signed(ii, a, k, x, v, c)
    BY <2>5, SignedFacts
  <2>7. [d EXCEPT !.events = c] = Signed(ii, a, k, x, v, c)
    BY <2>4, SignedFacts
  <2>8. r = q
    BY <1>1, <1>6, <1>7, <2>1, <2>2 DEF Put
  <2>9. b = [q EXCEPT !.events[h] = u]
    BY <1>1, <1>4, <1>6, <2>1, <2>8, Zenon
  <2>10. [q EXCEPT !.events[h] = u] = [q EXCEPT !.events = c]
    BY <1>7, <2>6 DEF Put
  <2>11. QED
    BY <2>6, <2>7, <2>9, <2>10
<1>10. PICK n : n = s[h].payload
  OBVIOUS
<1>11. e.prev = u
  <2>1. e = EventOf(k, n, u)
    BY <1>1, <1>2, <1>5, <1>6, <1>10 DEF Chained
  <2>2. QED
    BY <2>1, EventFacts
<1>12. \A m, z : EventOf(k, m, z) # y
  BY <1>1, EventIsNoBody DEF BodyOf
<1>13. u # (IF i = 1 THEN y ELSE s[i - 1])
  BY <1>1, <1>2, <1>5, <1>6, <1>12, EventsDiffer
<1>14. c[i] = e /\ (i # 1 => c[i - 1] = s[i - 1])
  BY <1>5, <1>8
<1>15. i \in 1..Len(c) /\ c[i].prev # (IF i = 1 THEN BodyOf(d) ELSE c[i - 1])
  BY <1>1, <1>5, <1>8, <1>11, <1>13, <1>14
<1>16. ~ verify_document([d EXCEPT !.events = c], d.key)
  BY <1>15, Broken
<1>17. ~ verify_document(b, d.key)
  BY <1>9, <1>16
<1>18. QED
  BY <1>6, <1>17, Zenon

LEMMA EventsMoved ==
    ASSUME NEW d, NEW F, Document(d, F), NEW x, Document(x, F), x.id # d.id, x.events # <<>>
    PROVE  ~ verify_document([d EXCEPT !.events = x.events], d.key)
<1>1. PICK k, y, s, l : k = x.key /\ y = BodyOf(x) /\ s = x.events /\ l = Len(s)
  OBVIOUS
<1>2. Chained(k, y, s) /\ IsChain(s)
  BY <1>1 DEF Document, Chained
<1>3. l \in Nat /\ l # 0
  <2>1. PICK S : s \in Seq(S)
    BY <1>2 DEF IsChain
  <2>2. Len(s) = 0 => s = <<>>
    BY <2>1
  <2>3. QED
    BY <1>1, <2>1, <2>2
<1>4. 1 \in 1..Len(s)
  BY <1>1, <1>3
<1>5. PICK e, n : e = s[1] /\ n = s[1].payload
  OBVIOUS
<1>6. e = EventOf(k, n, y)
  BY <1>2, <1>4, <1>5 DEF Chained
<1>7. e.prev = y
  BY <1>6, EventFacts
<1>8. y # BodyOf(d)
  <2>1. y.id = x.id
    BY <1>1 DEF BodyOf, Body
  <2>2. BodyOf(d).id = d.id
    BY DEF BodyOf, Body
  <2>3. QED
    BY <2>1, <2>2
<1>9. s[1].prev # (IF 1 = 1 THEN BodyOf(d) ELSE s[1 - 1])
  BY <1>5, <1>7, <1>8
<1>10. QED
  BY <1>1, <1>4, <1>9, Broken

LEMMA Alterations == Papers => AlterationsDetected
<1>1. SUFFICES ASSUME Papers, NEW d \in Written, NEW a \in Altered(d) PROVE ~ verify_document(a, d.key)
  BY DEF AlterationsDetected
<1>2. Document(d, Marks)
  BY <1>1 DEF Papers
<1>3. CASE a \in {[d EXCEPT !.artifacts[f] = NONE] : f \in DOMAIN d.artifacts}
  BY <1>2, <1>3, ArtifactAltered
<1>4. CASE a \in {[d EXCEPT !.events[i].payload = NONE] : i \in DOMAIN d.events}
  BY <1>2, <1>4, EventAltered
<1>5. CASE a \in {[d EXCEPT !.events = [j \in 1..(Len(@) - 1) |-> IF j < i THEN @[j] ELSE @[j + 1]]]
                    : i \in 1..(Len(d.events) - 1)}
  <2>1. PICK s : s = d.events
    OBVIOUS
  <2>2. PICK i \in 1..(Len(s) - 1) :
           a = [d EXCEPT !.events = [j \in 1..(Len(s) - 1) |-> IF j < i THEN s[j] ELSE s[j + 1]]]
    BY <1>5, <2>1
  <2>3. PICK t : t = [j \in 1..(Len(s) - 1) |-> IF j < i THEN s[j] ELSE s[j + 1]]
    OBVIOUS
  <2>4. ~ verify_document([d EXCEPT !.events = t], d.key)
    BY <1>2, <2>1, <2>3, EventMissing
  <2>5. QED
    BY <2>2, <2>3, <2>4
<1>6. CASE a \in {[d EXCEPT !.events[i] = d.events[i + 1], !.events[i + 1] = d.events[i]]
                    : i \in 1..(Len(d.events) - 1)}
  BY <1>2, <1>6, EventsExchanged
<1>7. CASE a \in {[d EXCEPT !.events = x.events] : x \in {y \in Written : y.id # d.id /\ y.events # <<>>}}
  <2>1. PICK x \in Written : x.id # d.id /\ x.events # <<>> /\ a = [d EXCEPT !.events = x.events]
    BY <1>7
  <2>2. Document(x, Marks)
    BY <1>1, <2>1 DEF Papers
  <2>3. QED
    BY <1>2, <2>1, <2>2, EventsMoved
<1>8. QED
  BY <1>1, <1>3, <1>4, <1>5, <1>6, <1>7 DEF Altered
-----------------------------------------------------------------------------
(* Steps that leave files and documents alone. *)

LEMMA InitInv == Init => Inv
<1>1. SUFFICES ASSUME Init PROVE Inv
  OBVIOUS
<1>2. Files
  <2>1. file = [f \in Paths |-> file[f]] /\ \A f \in Sources : file[f] = [saved |-> 0]
    BY <1>1 DEF Init, Paths
  <2>2. QED
    BY <1>1, <2>1, BoundsAssumption DEF Init, Files
<1>3. Keyring
  BY <1>1, BoundsAssumption DEF Init, Keyring
<1>4. Written = {}
  BY <1>1 DEF Init, Written
<1>5. Papers /\ HistoryLinked /\ EventsKept
  BY <1>1, <1>4, FS_EmptySet DEF Init, Papers, HistoryLinked, EventsKept
<1>6. Commands
  BY <1>1 DEF Init, Commands, Fits, Idle
<1>7. QED
  BY <1>2, <1>3, <1>5, <1>6 DEF Inv

LEMMA IdleFits == Fits(Idle) /\ Fits(Idle)'
BY DEF Fits, Idle

LEMMA FitsUnchanged ==
    ASSUME NEW c, Fits(c), UNCHANGED <<file, undone, keys, made, passport, history, copies, detached>>
    PROVE  Fits(c)'
BY DEF Fits, Building, Written, Marks

LEMMA CommandStep ==
    ASSUME OneCommand, Commands, NEW p \in Procs, NEW c, proc' = [proc EXCEPT ![p] = c], Fits(c)'
    PROVE  Commands'
<1>1. \A q \in Procs : q = p /\ proc'[q] = c
  BY DEF OneCommand, Commands
<1>2. proc' = [q \in Procs |-> proc'[q]]
  BY DEF Commands
<1>3. QED
  BY <1>1, <1>2 DEF Commands

\* A step that changes nothing but what the command knows.
LEMMA QuietStep ==
    ASSUME OneCommand, Inv, NEW p \in Procs, NEW c, proc' = [proc EXCEPT ![p] = c], Fits(c),
           UNCHANGED <<file, edits, undone, run, key, pub, keys, passport, made, history, copies, detached, reported>>
    PROVE  Inv'
<1>1. Commands'
  BY FitsUnchanged, CommandStep DEF Inv
<1>2. QED
  BY <1>1 DEF Inv, Files, Keyring, Papers, Written, HistoryLinked, EventsKept, Marks

LEMMA Unfold ==
    ASSUME UNCHANGED <<files, run, keyring, documents>>
    PROVE  UNCHANGED <<file, edits, undone, run, key, pub, keys, passport, made, history, copies, detached, reported>>
BY DEF files, keyring, documents, kept

LEMMA InitKeeps ==
    ASSUME OneCommand, Inv, NEW p \in Procs, InitPrivate(p) \/ InitPublic(p) \/ InitKept(p)
    PROVE  Inv'
<1>0. keys \in Nat /\ MaxKeys \in Nat
  BY BoundsAssumption DEF Inv, Keyring
<1>1. CASE InitPrivate(p)
  <2>1. PICK c : c = [cmd |-> "init", pc |-> "public", key |-> keys + 1]
    OBVIOUS
  <2>2. /\ proc' = [proc EXCEPT ![p] = c] /\ keys' = keys + 1 /\ key' = keys + 1 /\ keys < MaxKeys
        /\ UNCHANGED <<file, edits, undone, run, pub, passport, made, history, copies, detached, reported>>
    BY <1>1, <2>1 DEF InitPrivate, Start, files, documents, kept
  <2>3. Fits(c)'
    <3>1. c.key = keys + 1 /\ c.pc = "public" /\ keys + 1 \in 1..(keys + 1)
      BY <1>0, <2>1
    <3>2. QED
      BY <2>1, <2>2, <3>1 DEF Fits
  <2>4. Keyring'
    BY <1>0, <2>2 DEF Inv, Keyring
  <2>5. Papers'
    <3>1. \A d \in Written : d.key \in 1..keys'
      BY <1>0, <2>2 DEF Inv, Papers
    <3>2. QED
      BY <2>2, <3>1 DEF Inv, Papers, Written, Marks
  <2>6. Files' /\ HistoryLinked' /\ EventsKept'
    BY <2>2 DEF Inv, Files, HistoryLinked, EventsKept, Written, Marks
  <2>7. QED
    BY <2>2, <2>3, <2>4, <2>5, <2>6, CommandStep DEF Inv
<1>2. CASE InitPublic(p)
  <2>1. /\ proc[p].pc = "public" /\ proc' = [proc EXCEPT ![p] = Idle] /\ pub' = proc[p].key
        /\ UNCHANGED <<file, edits, undone, run, key, keys, passport, made, history, copies, detached, reported>>
    BY <1>2 DEF InitPublic, Continue, files, documents, kept
  <2>2. proc[p].key \in 1..keys
    BY <2>1 DEF Inv, Commands, Fits
  <2>3. Keyring'
    BY <2>1, <2>2 DEF Inv, Keyring
  <2>4. Files' /\ Papers' /\ HistoryLinked' /\ EventsKept'
    BY <2>1 DEF Inv, Files, Papers, HistoryLinked, EventsKept, Written, Marks
  <2>5. QED
    BY <2>1, <2>3, <2>4, CommandStep, IdleFits DEF Inv
<1>3. CASE InitKept(p)
  <2>1. /\ pub' = key
        /\ UNCHANGED <<file, edits, undone, run, key, keys, passport, made, history, copies, detached, reported, proc>>
    BY <1>3 DEF InitKept, files, documents, kept
  <2>2. Keyring'
    BY <2>1 DEF Inv, Keyring
  <2>3. Files' /\ Papers' /\ HistoryLinked' /\ EventsKept'
    BY <2>1 DEF Inv, Files, Papers, HistoryLinked, EventsKept, Written, Marks
  <2>4. Commands'
    BY <2>1, FitsUnchanged DEF Inv, Commands
  <2>5. QED
    BY <2>2, <2>3, <2>4 DEF Inv
<1>4. QED
  BY <1>1, <1>2, <1>3

LEMMA SomeStage == 0 < Len(Stages)
<1>1. PICK i : i \in DOMAIN Stages
  BY StagesAssumption DEF Products
<1>2. QED
  BY <1>1, StagesAssumption

LEMMA RunBeginKeeps ==
    ASSUME OneCommand, Inv, NEW p \in Procs, RunBegin(p)
    PROVE  Inv'
<1>1. PICK g, c, r : r = <<>> /\ g = file[Config] /\
                     c = [cmd |-> "run", pc |-> "hash_inputs", stages |-> g, record |-> r]
  OBVIOUS
<1>2. /\ proc' = [proc EXCEPT ![p] = c]
      /\ UNCHANGED <<file, edits, undone, run, key, pub, keys, passport, made, history, copies, detached, reported>>
  BY <1>1, Unfold DEF RunBegin, Start
<1>3. Record(r, Marks) /\ Len(r) < Len(Stages)
  <2>1. IsChain(r) /\ Len(r) = 0
    BY <1>1, EmptyChain
  <2>2. QED
    BY <2>1, SomeStage, StagesAssumption DEF Record
<1>4. Fits(c)
  BY <1>1, <1>3 DEF Fits
<1>5. QED
  BY <1>2, <1>4, QuietStep

LEMMA HashInputsKeeps ==
    ASSUME OneCommand, Inv, NEW p \in Procs, HashInputs(p)
    PROVE  Inv'
<1>1. PICK b, g, r, i, s : b = proc[p] /\ g = b.stages /\ r = b.record /\ i = Len(r) + 1 /\ s = Stages[i]
  OBVIOUS
<1>2. PICK x, t : x = [d \in s.deps |-> file[d]] /\ t = file[s.script]
  OBVIOUS
<1>3. PICK c : c = [cmd |-> "run", pc |-> "execute", stages |-> g, record |-> r, script |-> t, inputs |-> x]
  OBVIOUS
<1>4. /\ b.pc = "hash_inputs" /\ (proc' = [proc EXCEPT ![p] = c] \/ proc' = [proc EXCEPT ![p] = Idle])
      /\ UNCHANGED <<file, edits, undone, run, key, pub, keys, passport, made, history, copies, detached, reported>>
  BY <1>1, <1>2, <1>3, Unfold DEF HashInputs, Continue, StageOf
<1>5. Record(r, Marks) /\ Len(r) < Len(Stages)
  BY <1>1, <1>4 DEF Inv, Commands, Fits
<1>6. Fits(c)
  <2>1. x = [d \in s.deps |-> x[d]] /\ \A d \in s.deps : x[d] = file[d]
    BY <1>2
  <2>2. QED
    BY <1>1, <1>2, <1>3, <1>5, <2>1 DEF Fits
<1>7. QED
  BY <1>4, <1>6, IdleFits, QuietStep
-----------------------------------------------------------------------------
(* Steps that change files. *)

LEMMA MarksFacts ==
    ASSUME Files
    PROVE  /\ Mark \in [saved : Nat]
           /\ \A f \in Sources : /\ f \in Paths /\ Marks[f] \in [saved : Nat]
                                 /\ (Marks[f] = Mark <=> f \in undone)
                                 /\ (f \notin undone => Marks[f] = file[f])
           /\ \A f \in Paths : f \notin Sources => Marks[f] = file[f]
<1>1. MaxEdits \in Nat /\ edits \in Nat /\ edits <= MaxEdits
  BY BoundsAssumption DEF Files
<1>2. PICK m : m = MaxEdits + 1
  OBVIOUS
<1>3. m \in Nat /\ Mark = [saved |-> m] /\ \A k \in 0..edits : k # m /\ k \in Nat
  BY <1>1, <1>2 DEF Mark
<1>4. ASSUME NEW f \in Sources PROVE file[f] # Mark /\ file[f] \in [saved : Nat]
  <2>1. file[f] \in [saved : 0..edits]
    BY DEF Files
  <2>2. PICK k \in 0..edits : file[f] = [saved |-> k]
    BY <2>1
  <2>3. QED
    BY <1>3, <2>2
<1>5. QED
  BY <1>3, <1>4 DEF Marks, Paths, Files

LEMMA MarksThere ==
    ASSUME NoneIsMissing, Files, NEW f \in Paths
    PROVE  file[f] # NONE <=> Marks[f] # NONE
<1>1. Mark # NONE
  BY DEF NoneIsMissing, Mark
<1>2. f \in Sources => file[f] # NONE
  <2>1. SUFFICES ASSUME f \in Sources PROVE file[f] # NONE
    OBVIOUS
  <2>2. PICK k \in 0..edits : file[f] = [saved |-> k]
    BY <2>1 DEF Files
  <2>3. QED
    BY <2>2 DEF NoneIsMissing
<1>3. QED
  BY <1>1, <1>2 DEF Marks, Files

LEMMA FilesMove ==
    ASSUME Inv, Later(Marks, Marks'), file' = [f \in Paths |-> file'[f]], edits' \in 0..MaxEdits,
           \A f \in Sources : file'[f] \in [saved : 0..edits'], undone' \subseteq Sources,
           UNCHANGED <<run, key, pub, keys, passport, made, history, copies, detached, reported>>
    PROVE  Files' /\ Keyring' /\ Papers' /\ HistoryLinked' /\ EventsKept'
<1>1. PICK F, G : F = Marks /\ G = Marks'
  OBVIOUS
<1>2. Later(F, G)
  BY <1>1
<1>3. run # NONE => Complete(run.record, G)
  <2>1. run # NONE => Complete(run.record, F)
    BY <1>1 DEF Inv, Files
  <2>2. QED
    BY <1>2, <2>1, RecordStays DEF Complete
<1>4. Files'
  BY <1>1, <1>3 DEF Files
<1>5. \A d \in Written : Document(d, G)
  <2>1. \A d \in Written : Document(d, F)
    BY <1>1 DEF Inv, Papers
  <2>2. QED
    BY <1>2, <2>1, DocumentStays
<1>6. Papers'
  BY <1>1, <1>5 DEF Inv, Papers, Written
<1>7. Keyring' /\ HistoryLinked' /\ EventsKept'
  BY DEF Inv, Keyring, HistoryLinked, EventsKept, Written
<1>8. QED
  BY <1>4, <1>6, <1>7

\* An owner's edit of the files F, which gives G; the marks M become N.
Edited(F, G, M, N) == Later(M, N) /\ \A f \in Paths : G[f] = F[f] \/ Older(f, F[f], N)

LEMMA FitsEdited ==
    ASSUME NEW c, Fits(c), Edited(file, file', Marks, Marks'), OwnFiles,
           UNCHANGED <<keys, made, passport, history, copies, detached>>
    PROVE  Fits(c)'
<1>1. PICK F, G, M, N : F = file /\ G = file' /\ M = Marks /\ N = Marks'
  OBVIOUS
<1>2. Later(M, N)
  BY <1>1 DEF Edited
<1>3. \A f \in Paths : G[f] = F[f] \/ Older(f, F[f], N)
  BY <1>1 DEF Edited
<1>4. CASE c.pc = "idle"
  BY <1>4, IdleFits DEF Fits
<1>5. CASE c.pc = "public"
  BY <1>5 DEF Fits
<1>6. CASE c.pc = "hash_inputs"
  <2>1. Record(c.record, M)
    BY <1>1, <1>6 DEF Fits
  <2>2. Record(c.record, N)
    BY <1>2, <2>1, RecordStays
  <2>3. QED
    BY <1>1, <1>6, <2>2 DEF Fits
<1>7. CASE c.pc \in {"execute", "hash_outputs"}
  <2>1. PICK R, i, s, x : R = c.record /\ i = Len(R) + 1 /\ s = c.script /\ x = c.inputs
    OBVIOUS
  <2>2. Record(R, M) /\ Len(R) < Len(Stages)
    BY <1>1, <1>7, <2>1 DEF Fits
  <2>3. Record(R, N)
    BY <1>2, <2>2, RecordStays
  <2>4. i \in 1..Len(Stages)
    BY <2>1, <2>2, StagesAssumption, ChainFacts DEF Record
  <2>5. Spoilt(i, s, x, M) => Spoilt(i, s, x, N)
    BY <1>2, SpoiltStays
  <2>6. CASE c.pc = "execute"
    <3>1. /\ x = [d \in Stages[i].deps |-> x[d]]
          /\ Spoilt(i, s, x, M) \/ (s = F[Stages[i].script] /\ \A d \in Stages[i].deps : x[d] = F[d])
      BY <1>1, <2>1, <2>6 DEF Fits
    <3>2. Spoilt(i, s, x, N) \/ (s = G[Stages[i].script] /\ \A d \in Stages[i].deps : x[d] = G[d])
      <4>1. Stages[i].script \in Paths /\ \A d \in Stages[i].deps : d \in Paths
        BY <2>4, StageFacts
      <4>2. QED
        BY <1>3, <2>5, <3>1, <4>1 DEF Spoilt
    <3>3. QED
      BY <1>1, <2>1, <2>2, <2>3, <2>6, <3>1, <3>2 DEF Fits
  <2>7. CASE c.pc = "hash_outputs"
    <3>1. /\ x = [d \in Stages[i].deps |-> x[d]]
          /\ Spoilt(i, s, x, M) \/ \A o \in Stages[i].outs : F[o] = OutputOf(i, s, x)
          /\ \A o \in Stages[i].outs : F[o] # NONE
      BY <1>1, <2>1, <2>7 DEF Fits
    <3>2. \A o \in Stages[i].outs : o \in Paths /\ o \notin Sources
      BY <2>4, StageFacts DEF OwnFiles
    <3>3. \A o \in Stages[i].outs : G[o] = F[o]
      BY <1>3, <3>2 DEF Older
    <3>4. QED
      BY <1>1, <2>1, <2>2, <2>3, <2>5, <2>7, <3>1, <3>3 DEF Fits
  <2>8. QED
    BY <1>7, <2>6, <2>7
<1>8. CASE c.pc = "hash"
  <2>1. Complete(c.run, M)
    BY <1>1, <1>8 DEF Fits
  <2>2. Complete(c.run, N)
    BY <1>2, <2>1, RecordStays DEF Complete
  <2>3. QED
    BY <1>1, <1>8, <2>2 DEF Fits, Building
<1>9. CASE c.pc = "assess"
  <2>1. PICK A : A = c.artifacts
    OBVIOUS
  <2>2. Manifest(A, M) /\ Seen(A, F, DOMAIN A, M) /\ DOMAIN A \subseteq Paths
    BY <1>1, <1>9, <2>1 DEF Fits, Manifest
  <2>3. ASSUME NEW f \in DOMAIN A PROVE G[f] = A[f] \/ Older(f, A[f], N)
    <3>1. F[f] = A[f] \/ Older(f, A[f], M)
      BY <2>2 DEF Seen
    <3>2. Older(f, A[f], M) => Older(f, A[f], N)
      BY <1>2, OlderStays
    <3>3. G[f] = F[f] \/ Older(f, F[f], N)
      BY <1>3, <2>2
    <3>4. QED
      BY <3>1, <3>2, <3>3
  <2>4. Seen(A, G, DOMAIN A, N)
    BY <2>3 DEF Seen
  <2>5. Manifest(A, N)
    BY <1>2, <2>2, ManifestStays
  <2>6. QED
    BY <1>1, <1>9, <2>1, <2>4, <2>5 DEF Fits, Building
<1>10. CASE c.pc \in {"archive", "write"}
  <2>1. Document(c.new, M)
    BY <1>1, <1>10 DEF Fits
  <2>2. Document(c.new, N)
    BY <1>2, <2>1, DocumentStays
  <2>3. QED
    BY <1>1, <1>10, <2>2 DEF Fits, Building, Written
<1>11. CASE c.pc = "append"
  BY <1>11 DEF Fits
<1>12. QED
  BY <1>4, <1>5, <1>6, <1>7, <1>8, <1>9, <1>10, <1>11 DEF Fits

\* The owner gives a file new contents, or contents that it had.
LEMMA TouchKeeps ==
    ASSUME NoneIsMissing, OwnFiles, Inv, NEW h \in Sources, NEW n \in 0..(edits + 1), edits < MaxEdits,
           file' = [file EXCEPT ![h] = [saved |-> n]], edits' = edits + 1,
           undone' = undone \cup {h} \/ (undone' = undone /\ n = edits + 1),
           UNCHANGED <<run, key, pub, keys, passport, made, history, copies, detached, reported, proc>>
    PROVE  Inv'
<1>1. edits \in Nat /\ MaxEdits \in Nat /\ edits' \in 0..MaxEdits
  BY BoundsAssumption DEF Inv, Files
<1>2. /\ file = [f \in Paths |-> file[f]] /\ h \in Paths /\ undone' \subseteq Sources
      /\ \A f \in Sources : f \in Paths /\ file[f] \in [saved : 0..edits]
  BY DEF Inv, Files, Paths
<1>3. PICK c : c = [saved |-> n]
  OBVIOUS
<1>4. c \in [saved : 0..edits'] /\ c \in [saved : Nat] /\ c # NONE /\ c.saved = n
  BY <1>1, <1>3 DEF NoneIsMissing
<1>5. file'[h] = c /\ \A f \in Paths : f # h => file'[f] = file[f]
  BY <1>2, <1>3
<1>6. file' = [f \in Paths |-> file'[f]]
  BY <1>2
<1>7. \A f \in Sources : file'[f] \in [saved : 0..edits']
  <2>1. \A x : x \in [saved : 0..edits] => x \in [saved : 0..edits']
    BY <1>1
  <2>2. QED
    BY <1>2, <1>4, <1>5, <2>1
<1>8. PICK m, k : m = Mark /\ k = MaxEdits + 1 /\ m = [saved |-> k] /\ k \in Nat
  <2>1. PICK k : k = MaxEdits + 1 /\ k \in Nat
    BY <1>1
  <2>2. Mark = [saved |-> k]
    BY <2>1 DEF Mark
  <2>3. QED
    BY <2>1, <2>2
<1>9. \A f \in Paths : f # h => Marks'[f] = Marks[f]
  BY <1>5 DEF Marks
<1>10. /\ m \in [saved : Nat] /\ m # NONE /\ m.saved = k /\ Marks[h] \in [saved : Nat]
       /\ (Marks[h] = m <=> h \in undone) /\ (h \notin undone => Marks[h] = file[h])
       /\ \A f \in Sources : Marks[f] \in [saved : Nat]
  BY <1>8, MarksFacts DEF Inv, NoneIsMissing
<1>11. /\ Marks[h].saved \in Nat /\ Marks[h].saved <= Marks'[h].saved /\ Marks'[h] \in [saved : Nat]
       /\ Marks'[h] # NONE /\ (Marks[h] = m => Marks'[h] = m) /\ Older(h, file[h], Marks')
  <2>1. file[h].saved \in 0..edits /\ file[h] \in [saved : 0..edits] /\ file[h] \in [saved : Nat]
    BY <1>2
  <2>2. CASE h \in undone'
    <3>1. Marks'[h] = m
      BY <1>2, <1>8, <2>2 DEF Marks
    <3>2. Marks[h].saved <= k
      BY <1>1, <1>8, <1>10, <2>1
    <3>3. Older(h, file[h], Marks')
      BY <1>8, <3>1 DEF Older, Marked
    <3>4. QED
      BY <1>10, <3>1, <3>2, <3>3
  <2>3. CASE h \notin undone'
    <3>1. n = edits + 1 /\ h \notin undone
      BY <2>3
    <3>2. Marks'[h] = c /\ Marks[h] = file[h]
      BY <1>2, <1>5, <1>10, <2>3, <3>1 DEF Marks
    <3>3. file[h].saved < n
      BY <1>1, <2>1, <3>1
    <3>4. Older(h, file[h], Marks')
      BY <1>4, <2>1, <3>2, <3>3 DEF Older
    <3>5. QED
      BY <1>1, <1>4, <1>10, <2>1, <3>1, <3>2, <3>3, <3>4
  <2>4. QED
    BY <2>2, <2>3
<1>12. Later(Marks, Marks')
  <2>1. ASSUME NEW f \in Sources
        PROVE  /\ Marks[f] \in [saved : Nat] /\ Marks'[f] \in [saved : Nat] /\ Marks[f].saved <= Marks'[f].saved
               /\ (Marks[f] = Mark => Marks'[f] = Mark)
    <3>1. f # h => Marks'[f] = Marks[f] /\ Marks[f].saved <= Marks[f].saved
      BY <1>2, <1>9, <1>10
    <3>2. QED
      BY <1>8, <1>10, <1>11, <3>1
  <2>2. \A f \in Paths : Marks[f] # NONE => Marks'[f] # NONE
    BY <1>9, <1>11
  <2>3. QED
    BY <2>1, <2>2 DEF Later
<1>13. Edited(file, file', Marks, Marks')
  BY <1>5, <1>11, <1>12 DEF Edited
<1>14. Commands'
  <2>1. ASSUME NEW p \in Procs PROVE Fits(proc[p])'
    <3>1. PICK b : b = proc[p] /\ b = proc'[p]
      OBVIOUS
    <3>2. Fits(b)
      BY <3>1 DEF Inv, Commands
    <3>3. Fits(b)'
      BY <1>13, <3>2, FitsEdited
    <3>4. QED
      BY <3>1, <3>3
  <2>2. QED
    BY <2>1 DEF Inv, Commands
<1>15. QED
  BY <1>1, <1>2, <1>6, <1>7, <1>12, <1>14, FilesMove DEF Inv

LEMMA EditKeeps ==
    ASSUME NoneIsMissing, OwnFiles, Inv, Edit
    PROVE  Inv'
<1>1. edits \in Nat
  BY DEF Inv, Files
<1>2. PICK n : n = edits + 1 /\ n \in 0..(edits + 1)
  BY <1>1
<1>3. PICK h \in Sources : file' = [file EXCEPT ![h] = [saved |-> n]]
  BY <1>2 DEF Edit
<1>4. /\ edits' = edits + 1 /\ edits < MaxEdits /\ undone' = undone
      /\ UNCHANGED <<run, key, pub, keys, passport, made, history, copies, detached, reported, proc>>
  BY DEF Edit, keyring, documents, kept
<1>5. QED
  BY <1>2, <1>3, <1>4, TouchKeeps

LEMMA UndoKeeps ==
    ASSUME NoneIsMissing, OwnFiles, Inv, Undo
    PROVE  Inv'
<1>1. PICK h \in Sources : \E n \in 0..(file[h].saved - 1) :
         file' = [file EXCEPT ![h] = [saved |-> n]] /\ undone' = undone \cup {h}
  BY DEF Undo
<1>2. PICK n \in 0..(file[h].saved - 1) :
         file' = [file EXCEPT ![h] = [saved |-> n]] /\ undone' = undone \cup {h}
  BY <1>1
<1>3. /\ edits' = edits + 1 /\ edits < MaxEdits
      /\ UNCHANGED <<run, key, pub, keys, passport, made, history, copies, detached, reported, proc>>
  BY DEF Undo, keyring, documents, kept
<1>4. edits \in Nat /\ file[h] \in [saved : 0..edits]
  BY DEF Inv, Files
<1>5. PICK k : k = file[h].saved /\ k \in 0..edits
  BY <1>4
<1>6. n \in 0..(edits + 1)
  BY <1>4, <1>5
<1>7. QED
  BY <1>2, <1>3, <1>6, TouchKeeps

LEMMA ExecuteKeeps ==
    ASSUME NoneIsMissing, OneCommand, OwnFiles, Inv, NEW p \in Procs, Execute(p)
    PROVE  Inv'
<1>1. PICK b, g, R, i, s, x : /\ b = proc[p] /\ g = b.stages /\ R = b.record /\ i = Len(R) + 1
                              /\ s = b.script /\ x = b.inputs
  OBVIOUS
<1>2. /\ b.pc = "execute" /\ proc' = [proc EXCEPT ![p] = [proc[p] EXCEPT !.pc = "hash_outputs"]]
      /\ file' = [f \in Paths |-> IF f \in Stages[i].outs THEN Output(i, file) ELSE file[f]]
      /\ UNCHANGED <<edits, undone, run, key, pub, keys, passport, made, history, copies, detached, reported>>
  BY <1>1 DEF Execute, Continue, StageOf, keyring, documents, kept
<1>3. /\ b = [cmd |-> "run", pc |-> "execute", stages |-> g, record |-> R, script |-> s, inputs |-> x]
      /\ Record(R, Marks) /\ Len(R) < Len(Stages)
      /\ x = [d \in Stages[i].deps |-> x[d]]
      /\ Spoilt(i, s, x, Marks) \/ (s = file[Stages[i].script] /\ \A d \in Stages[i].deps : x[d] = file[d])
  BY <1>1, <1>2 DEF Inv, Commands, Fits
<1>4. i \in 1..Len(Stages)
  <2>1. Len(R) \in Nat
    BY <1>3, ChainFacts DEF Record
  <2>2. PICK l, m : l = Len(R) /\ m = Len(Stages)
    OBVIOUS
  <2>3. l \in Nat /\ m \in Nat /\ l < m /\ i = l + 1
    BY <1>1, <1>3, <2>1, <2>2, StagesAssumption
  <2>4. i \in 1..m
    BY <2>3
  <2>5. QED
    BY <2>2, <2>4
<1>5. \A o \in Stages[i].outs : o \in Paths /\ o \notin Sources
  BY <1>4, StageFacts DEF OwnFiles
<1>6. Output(i, file) # NONE
  BY DEF NoneIsMissing, OutputOf, Output
<1>7. /\ \A f \in Sources : f \in Paths /\ file'[f] = file[f]
      /\ \A o \in Stages[i].outs : file'[o] = Output(i, file)
      /\ \A f \in Paths : file[f] # NONE => file'[f] # NONE
  BY <1>2, <1>5, <1>6 DEF Paths
<1>8. /\ edits \in Nat /\ \A f \in Sources : file[f] \in [saved : 0..edits]
  BY DEF Inv, Files
<1>9. Later(Marks, Marks')
  <2>1. ASSUME NEW f \in Sources
        PROVE  Marks[f] \in [saved : Nat] /\ Marks[f].saved <= Marks[f].saved /\ Marks'[f] = Marks[f]
    <3>1. Marks'[f] = Marks[f]
      BY <1>2, <1>7 DEF Marks
    <3>2. Marks[f] \in [saved : Nat]
      BY MarksFacts DEF Inv
    <3>3. QED
      BY <3>1, <3>2
  <2>2. ASSUME NEW f \in Paths, f \notin Sources, Marks[f] # NONE PROVE Marks'[f] # NONE
    <3>1. f \notin undone /\ Marks[f] = file[f] /\ Marks'[f] = file'[f]
      BY <1>2, <2>2 DEF Marks, Inv, Files
    <3>2. QED
      BY <1>7, <2>2, <3>1
  <2>3. QED
    BY <2>1, <2>2 DEF Later
<1>10. Files' /\ Keyring' /\ Papers' /\ HistoryLinked' /\ EventsKept'
  <2>1. file' = [f \in Paths |-> file'[f]]
    BY <1>2
  <2>2. /\ edits' \in 0..MaxEdits /\ undone' \subseteq Sources
        /\ \A f \in Sources : file'[f] \in [saved : 0..edits']
    BY <1>2, <1>7, <1>8 DEF Inv, Files
  <2>3. QED
    BY <1>2, <1>9, <2>1, <2>2, FilesMove
<1>11. PICK c : c = [cmd |-> "run", pc |-> "hash_outputs", stages |-> g, record |-> R, script |-> s, inputs |-> x]
  OBVIOUS
<1>12. proc' = [proc EXCEPT ![p] = c]
  <2>1. [b EXCEPT !.pc = "hash_outputs"] = c
    BY <1>3, <1>11
  <2>2. QED
    BY <1>1, <1>2, <2>1
<1>13. Fits(c)'
  <2>1. PICK F, G, M, N : F = file /\ G = file' /\ M = Marks /\ N = Marks'
    OBVIOUS
  <2>2. Record(R, N)
    BY <1>3, <1>9, <2>1, RecordStays
  <2>3. Spoilt(i, s, x, N) \/ \A o \in Stages[i].outs : G[o] = OutputOf(i, s, x)
    <3>1. CASE Spoilt(i, s, x, M)
      BY <1>9, <2>1, <3>1, SpoiltStays
    <3>2. CASE s = F[Stages[i].script] /\ \A d \in Stages[i].deps : x[d] = F[d]
      <4>1. x = [d \in Stages[i].deps |-> F[d]]
        BY <1>3, <3>2
      <4>2. Output(i, F) = OutputOf(i, s, x)
        BY <3>2, <4>1 DEF Output, OutputOf
      <4>3. QED
        BY <1>7, <2>1, <4>2
    <3>3. QED
      BY <1>3, <2>1, <3>1, <3>2
  <2>4. \A o \in Stages[i].outs : G[o] # NONE
    BY <1>6, <1>7, <2>1
  <2>5. QED
    BY <1>1, <1>3, <1>11, <2>1, <2>2, <2>3, <2>4 DEF Fits
<1>14. QED
  BY <1>10, <1>12, <1>13, CommandStep DEF Inv
-----------------------------------------------------------------------------
(* Records and builds. *)

LEMMA HashOutputsKeeps ==
    ASSUME NoneIsMissing, OneCommand, Inv, NEW p \in Procs, HashOutputs(p)
    PROVE  Inv'
<1>1. PICK b, g, R, l, i, s, x : /\ b = proc[p] /\ g = b.stages /\ R = b.record /\ l = Len(R) /\ i = l + 1
                                 /\ s = b.script /\ x = b.inputs
  OBVIOUS
<1>2. PICK y : y = [o \in Stages[i].outs |-> file[o]]
  OBVIOUS
<1>3. PICK r, T : r = [script |-> s, inputs |-> x, outputs |-> y] /\ T = Append(R, r)
  OBVIOUS
<1>4. PICK c, n : /\ c = [cmd |-> "run", pc |-> "hash_inputs", stages |-> g, record |-> T]
                  /\ n = [stages |-> g, record |-> T]
  OBVIOUS
<1>5. /\ b.pc = "hash_outputs"
      /\ proc' = [proc EXCEPT ![p] = IF i = Len(Stages) THEN Idle ELSE c]
      /\ run' = (IF i = Len(Stages) THEN n ELSE run)
      /\ UNCHANGED <<file, edits, undone, key, pub, keys, passport, made, history, copies, detached, reported>>
  BY <1>1, <1>2, <1>3, <1>4 DEF HashOutputs, Continue, StageOf, files, keyring, documents, kept
<1>6. /\ Record(R, Marks) /\ l < Len(Stages)
      /\ x = [d \in Stages[i].deps |-> x[d]]
      /\ Spoilt(i, s, x, Marks) \/ \A o \in Stages[i].outs : file[o] = OutputOf(i, s, x)
      /\ \A o \in Stages[i].outs : file[o] # NONE
  BY <1>1, <1>5 DEF Inv, Commands, Fits
<1>7. IsChain(R) /\ l \in Nat /\ \A j \in 1..l : Ran(j, R[j], Marks)
  BY <1>1, <1>6, ChainFacts DEF Record
<1>8. PICK m : m = Len(Stages) /\ m \in Nat /\ l < m
  BY <1>6, StagesAssumption
<1>9. IsChain(T) /\ Len(T) = i /\ T[i] = r /\ \A j \in 1..l : T[j] = R[j]
  BY <1>1, <1>3, <1>7, ChainFacts
<1>10. Ran(i, r, Marks)
  <2>1. r.inputs = x /\ r.script = s /\ r.outputs = y
    BY <1>3
  <2>2. \A o \in Stages[i].outs : y[o] = file[o]
    BY <1>2
  <2>3. \A o \in Stages[i].outs : Marks[o] # NONE
    BY <1>1, <1>6, <1>7, <1>8, MarksThere, StageFacts DEF Inv
  <2>4. QED
    BY <1>6, <2>1, <2>2, <2>3 DEF Ran
<1>11. Record(T, Marks)
  <2>1. ASSUME NEW j \in 1..i PROVE Ran(j, T[j], Marks)
    <3>1. CASE j = i
      BY <1>9, <1>10, <3>1
    <3>2. CASE j # i
      <4>1. j \in 1..l
        BY <1>1, <1>7, <3>2
      <4>2. QED
        BY <1>7, <1>9, <4>1
    <3>3. QED
      BY <3>1, <3>2
  <2>2. i <= m
    BY <1>1, <1>7, <1>8
  <2>3. QED
    BY <1>8, <1>9, <2>1, <2>2 DEF Record
<1>12. CASE i = Len(Stages)
  <2>1. run' = n /\ proc' = [proc EXCEPT ![p] = Idle]
    BY <1>5, <1>12
  <2>2. Complete(run'.record, Marks)
    BY <1>4, <1>9, <1>11, <1>12, <2>1 DEF Complete
  <2>3. Files'
    BY <1>5, <2>2 DEF Inv, Files, Marks
  <2>4. Commands'
    BY <2>1, IdleFits, CommandStep DEF Inv
  <2>5. Keyring' /\ Papers' /\ HistoryLinked' /\ EventsKept'
    BY <1>5 DEF Inv, Keyring, Papers, HistoryLinked, EventsKept, Written, Marks
  <2>6. QED
    BY <2>3, <2>4, <2>5 DEF Inv
<1>13. CASE i # Len(Stages)
  <2>1. proc' = [proc EXCEPT ![p] = c] /\ run' = run
    BY <1>5, <1>13
  <2>2. Len(T) < Len(Stages)
    BY <1>1, <1>7, <1>8, <1>9, <1>13
  <2>3. Fits(c)
    BY <1>4, <1>11, <2>2 DEF Fits
  <2>4. QED
    BY <1>5, <2>1, <2>3, QuietStep
<1>14. QED
  BY <1>12, <1>13

LEMMA BuildBeginKeeps ==
    ASSUME OneCommand, Inv, NEW p \in Procs, BuildBegin(p)
    PROVE  Inv'
<1>1. PICK out \in BOOLEAN : \E prior \in (IF out THEN {passport, NONE} ELSE copies) :
         /\ run # NONE /\ made < MaxPassports
         /\ proc' = [proc EXCEPT ![p] = [cmd |-> "build", pc |-> "hash", run |-> run.record, previous |-> prior,
                                         archives |-> out /\ prior # NONE]]
         /\ UNCHANGED <<files, run, keyring, documents>>
  BY DEF BuildBegin, Start
<1>2. PICK v : /\ v \in IF out THEN {passport, NONE} ELSE copies
               /\ run # NONE /\ made < MaxPassports
               /\ proc' = [proc EXCEPT ![p] = [cmd |-> "build", pc |-> "hash", run |-> run.record, previous |-> v,
                                               archives |-> out /\ v # NONE]]
               /\ UNCHANGED <<files, run, keyring, documents>>
  BY <1>1
<1>3. PICK R, g, c : /\ R = run.record /\ g = (out /\ v # NONE)
                     /\ c = [cmd |-> "build", pc |-> "hash", run |-> R, previous |-> v, archives |-> g]
  OBVIOUS
<1>4. proc' = [proc EXCEPT ![p] = c]
  BY <1>2, <1>3
<1>5. Complete(R, Marks)
  BY <1>2, <1>3 DEF Inv, Files
<1>6. Building(c)
  <2>1. c.archives = g /\ c.previous = v
    BY <1>3
  <2>2. g \in BOOLEAN /\ (g => v = passport /\ v # NONE) /\ (~ g /\ v # NONE => v \in copies)
    BY <1>2, <1>3
  <2>3. QED
    BY <2>1, <2>2 DEF Building
<1>7. Fits(c)
  BY <1>2, <1>3, <1>5, <1>6 DEF Fits
<1>8. QED
  BY <1>2, <1>4, <1>7, QuietStep, Unfold

\* What the manifest says of the files that a complete run left unchanged.
LEMMA HashedManifest ==
    ASSUME NoneIsMissing, Files, NEW R, Complete(R, Marks), Unchanged(R), NEW paths, NEW A,
           paths = {Config} \cup Assessed \cup {e[1] : e \in Recorded(R)}, A = [f \in paths |-> file[f]]
    PROVE  Manifest(A, Marks) /\ Seen(A, file, DOMAIN A, Marks)
<1>1. IsChain(R) /\ Len(R) = Len(Stages) /\ \A i \in 1..Len(R) : Ran(i, R[i], Marks)
  BY DEF Complete, Record
<1>2. DOMAIN R = 1..Len(Stages) /\ DOMAIN Stages = 1..Len(Stages)
  BY <1>1, ChainFacts, StagesAssumption
<1>3. ASSUME NEW i \in 1..Len(Stages)
      PROVE  /\ Stages[i].script \in paths /\ file[Stages[i].script] = R[i].script
             /\ \A d \in Stages[i].deps : d \in paths /\ file[d] = R[i].inputs[d]
             /\ \A o \in Stages[i].outs : o \in paths /\ file[o] = R[i].outputs[o]
  <2>1. PICK S : S = {<<Stages[i].script, R[i].script>>}
                       \cup {<<d, R[i].inputs[d]>> : d \in Stages[i].deps}
                       \cup {<<o, R[i].outputs[o]>> : o \in Stages[i].outs}
    OBVIOUS
  <2>2. S \subseteq Recorded(R)
    BY <1>2, <2>1 DEF Recorded
  <2>3. ASSUME NEW f, NEW h, <<f, h>> \in S PROVE f \in paths /\ file[f] = h
    <3>1. PICK e : e = <<f, h>> /\ e \in Recorded(R)
      BY <2>2, <2>3
    <3>2. e[1] = f /\ e[2] = h
      BY <3>1
    <3>3. file[e[1]] = e[2]
      BY <3>1 DEF Unchanged
    <3>4. QED
      BY <3>1, <3>2, <3>3
  <2>4. <<Stages[i].script, R[i].script>> \in S
    BY <2>1
  <2>5. \A d \in Stages[i].deps : <<d, R[i].inputs[d]>> \in S
    BY <2>1
  <2>6. \A o \in Stages[i].outs : <<o, R[i].outputs[o]>> \in S
    BY <2>1
  <2>7. QED
    BY <2>3, <2>4, <2>5, <2>6
<1>4. paths \subseteq Paths
  <2>1. ASSUME NEW e \in Recorded(R) PROVE e[1] \in Paths
    <3>1. PICK i \in 1..Len(Stages) :
             e \in {<<Stages[i].script, R[i].script>>}
                       \cup {<<d, R[i].inputs[d]>> : d \in Stages[i].deps}
                       \cup {<<o, R[i].outputs[o]>> : o \in Stages[i].outs}
      BY <1>2 DEF Recorded
    <3>2. Stages[i].script \in Paths /\ Stages[i].deps \subseteq Paths /\ Stages[i].outs \subseteq Paths
      BY StageFacts
    <3>3. QED
      BY <3>1, <3>2
  <2>2. Config \in Paths /\ Assessed \subseteq Paths
    BY StagesAssumption DEF Assessed, Paths
  <2>3. QED
    BY <2>1, <2>2
<1>5. ASSUME NEW f \in Paths PROVE file[f] # NONE
  <2>1. CASE f \in Sources
    <3>1. file[f] \in [saved : 0..edits]
      BY <2>1 DEF Files
    <3>2. PICK n : file[f] = [saved |-> n]
      BY <3>1
    <3>3. QED
      BY <3>2 DEF NoneIsMissing
  <2>2. CASE f \in Products
    <3>1. PICK i \in 1..Len(Stages) : f \in Stages[i].outs
      BY <1>2, <2>2 DEF Products
    <3>2. Ran(i, R[i], Marks)
      BY <1>1, <3>1
    <3>3. QED
      BY <3>1, <3>2, MarksThere DEF Ran
  <2>3. QED
    BY <2>1, <2>2 DEF Paths
<1>6. DOMAIN A = paths /\ \A f \in paths : A[f] = file[f]
  OBVIOUS
<1>7. ASSUME NEW i \in DOMAIN Stages, ~ Unsure(i, Marks), NEW o \in Stages[i].outs PROVE A[o] = Output(i, A)
  <2>1. PICK s, x : s = R[i].script /\ x = R[i].inputs
    OBVIOUS
  <2>2. i \in 1..Len(Stages)
    BY <1>2
  <2>3. /\ Stages[i].script \in paths /\ file[Stages[i].script] = s
        /\ \A d \in Stages[i].deps : d \in paths /\ file[d] = x[d]
        /\ o \in paths /\ file[o] = R[i].outputs[o]
    BY <1>3, <2>1, <2>2
  <2>4. Ran(i, R[i], Marks)
    BY <1>1, <2>2
  <2>5. ~ Spoilt(i, s, x, Marks)
    <3>1. ASSUME NEW f, ~ Marked(f, Marks) PROVE ~ Older(f, file[f], Marks)
      <4>1. SUFFICES ASSUME f \in Sources, file[f] \in [saved : Nat], file[f].saved < Marks[f].saved PROVE FALSE
        BY <3>1 DEF Older
      <4>2. Marks[f] = file[f]
        BY <3>1, <4>1, MarksFacts DEF Marked
      <4>3. PICK n : n = file[f].saved
        OBVIOUS
      <4>4. n \in Nat /\ n < n
        BY <4>1, <4>2, <4>3
      <4>5. QED
        BY <4>4
    <3>2. ~ Marked(Stages[i].script, Marks) /\ \A d \in Stages[i].deps : ~ Marked(d, Marks)
      BY <1>7 DEF Unsure
    <3>3. QED
      BY <2>3, <3>1, <3>2 DEF Spoilt
  <2>6. file[o] = OutputOf(i, s, x) /\ x = [d \in Stages[i].deps |-> x[d]]
    BY <2>1, <2>3, <2>4, <2>5 DEF Ran
  <2>7. x = [d \in Stages[i].deps |-> A[d]] /\ s = A[Stages[i].script] /\ A[o] = file[o]
    BY <1>6, <2>3, <2>6
  <2>8. QED
    BY <2>6, <2>7 DEF Output, OutputOf
<1>8. Manifest(A, Marks)
  <2>1. A = [f \in DOMAIN A |-> A[f]] /\ Assessed \subseteq DOMAIN A /\ DOMAIN A \subseteq Paths
    BY <1>4, <1>6
  <2>2. \A f \in DOMAIN A : A[f] # NONE
    BY <1>4, <1>5, <1>6
  <2>3. QED
    BY <1>7, <2>1, <2>2 DEF Manifest
<1>9. Seen(A, file, DOMAIN A, Marks)
  BY <1>6 DEF Seen
<1>10. QED
  BY <1>8, <1>9

LEMMA BuildHashKeeps ==
    ASSUME NoneIsMissing, OneCommand, Inv, NEW p \in Procs, BuildHash(p)
    PROVE  Inv'
<1>1. PICK b, R, g, v : b = proc[p] /\ R = b.run /\ g = b.archives /\ v = b.previous
  OBVIOUS
<1>2. PICK paths, A : paths = {Config} \cup Assessed \cup {e[1] : e \in Recorded(R)} /\ A = [f \in paths |-> file[f]]
  OBVIOUS
<1>3. PICK c : c = [cmd |-> "build", pc |-> "assess", previous |-> v, archives |-> g, key |-> key, artifacts |-> A]
  OBVIOUS
<1>4. /\ b.pc = "hash"
      /\ proc' = [proc EXCEPT ![p] = IF Unchanged(R) /\ key # NONE THEN c ELSE Idle]
      /\ UNCHANGED <<file, edits, undone, run, key, pub, keys, passport, made, history, copies, detached, reported>>
  BY <1>1, <1>2, <1>3, Unfold DEF BuildHash, Continue
<1>5. Building(b) /\ Complete(R, Marks) /\ made < MaxPassports
  BY <1>1, <1>4 DEF Inv, Commands, Fits
<1>6. CASE Unchanged(R) /\ key # NONE
  <2>1. Manifest(A, Marks) /\ Seen(A, file, DOMAIN A, Marks)
    BY <1>2, <1>5, <1>6, HashedManifest DEF Inv
  <2>2. key \in 1..keys
    BY <1>6 DEF Inv, Keyring
  <2>3. Building(c)
    BY <1>1, <1>3, <1>5 DEF Building
  <2>4. Fits(c)
    BY <1>3, <1>5, <2>1, <2>2, <2>3 DEF Fits
  <2>5. QED
    BY <1>4, <1>6, <2>4, QuietStep
<1>7. CASE ~ (Unchanged(R) /\ key # NONE)
  BY <1>4, <1>7, IdleFits, QuietStep
<1>8. QED
  BY <1>6, <1>7
LEMMA BuildAssessKeeps ==
    ASSUME OneCommand, Inv, NEW p \in Procs, BuildAssess(p)
    PROVE  Inv'
<1>1. PICK b, A, k, g, v : b = proc[p] /\ A = b.artifacts /\ k = b.key /\ g = b.archives /\ v = b.previous
  OBVIOUS
<1>2. PICK x, w, n : /\ x = [f \in Assessed |-> file[f]] /\ n = made + 1
                     /\ w = IF v = NONE THEN NONE ELSE compute_revision(v, A)
  OBVIOUS
<1>3. PICK d, c : /\ d = sign_passport(Body(n, A, k, x, w), k)
                  /\ c = [cmd |-> "build", pc |-> "archive", previous |-> v, archives |-> g, new |-> d]
  OBVIOUS
<1>4. /\ b.pc = "assess" /\ proc' = [proc EXCEPT ![p] = c] /\ made' = n
      /\ UNCHANGED <<file, edits, undone, run, key, pub, keys, passport, history, copies, detached, reported>>
  BY <1>1, <1>2, <1>3 DEF BuildAssess, Continue, Body, files, keyring, kept
<1>5. /\ Building(b) /\ made < MaxPassports /\ k \in 1..keys
      /\ Manifest(A, Marks) /\ Seen(A, file, DOMAIN A, Marks)
  BY <1>1, <1>4 DEF Inv, Commands, Fits
<1>6. made \in Nat /\ MaxPassports \in Nat
  BY BoundsAssumption DEF Inv, Keyring
<1>7. d = Signed(n, A, k, x, w, <<>>)
  BY <1>3, SigningGives
<1>8. /\ d.id = n /\ d.artifacts = A /\ d.key = k /\ d.assessed = x /\ d.revision = w /\ d.events = <<>>
  BY <1>7, SignedFacts
<1>9. Document(d, Marks)
  <2>1. d = Signed(d.id, d.artifacts, d.key, d.assessed, d.revision, d.events)
    BY <1>7, <1>8
  <2>2. PICK y, s : y = BodyOf(d) /\ s = d.events
    OBVIOUS
  <2>3. IsChain(s) /\ Len(s) = 0
    BY <1>8, <2>2, EmptyChain
  <2>4. Chained(k, y, s)
    BY <2>3 DEF Chained
  <2>5. \A f \in Assessed : x[f] = file[f] /\ f \in DOMAIN A
    BY <1>2, <1>5 DEF Manifest
  <2>6. Seen(A, x, Assessed, Marks)
    BY <1>5, <2>5 DEF Seen
  <2>7. QED
    BY <1>5, <1>8, <2>1, <2>2, <2>4, <2>6 DEF Document
<1>10. /\ \A e \in Written : e.id \in 1..made' /\ e.id < made'
       /\ detached \subseteq 1..made' /\ made' \notin detached
  BY <1>2, <1>4, <1>6 DEF Inv, Papers
<1>11. Papers'
  BY <1>4, <1>10 DEF Inv, Papers, Written, Marks
<1>12. Keyring'
  BY <1>2, <1>4, <1>5, <1>6 DEF Inv, Keyring
<1>13. Files' /\ HistoryLinked' /\ EventsKept'
  BY <1>4 DEF Inv, Files, HistoryLinked, EventsKept, Written, Marks
<1>14. Fits(c)'
  <2>1. Building(c)'
    BY <1>1, <1>3, <1>4, <1>5 DEF Building
  <2>2. made' > 0 /\ d.id = made' /\ \A e \in Written' : e.id < made'
    BY <1>2, <1>4, <1>6, <1>8, <1>10 DEF Written
  <2>3. d.revision = IF v = NONE THEN NONE ELSE compute_revision(v, d.artifacts)
    BY <1>2, <1>8
  <2>4. Document(d, Marks')
    BY <1>4, <1>9 DEF Marks
  <2>5. QED
    BY <1>3, <1>4, <1>5, <1>8, <1>10, <2>1, <2>2, <2>3, <2>4 DEF Fits
<1>15. QED
  BY <1>4, <1>11, <1>12, <1>13, <1>14, CommandStep DEF Inv

-----------------------------------------------------------------------------
(* Documents that are archived and written. *)

\* A revision looks at what all copies of its predecessor share.
LEMMA SameRevision ==
    ASSUME NEW d, NEW h, d.id = h.id, d.artifacts = h.artifacts, d.revision = h.revision, NEW A
    PROVE  compute_revision(d, A) = compute_revision(h, A)
BY DEF compute_revision, sequence

LEMMA ArchiveKeeps ==
    ASSUME OneCommand, Inv, NEW p \in Procs, Archive(p)
    PROVE  Inv'
<1>1. PICK b, g, v, n : b = proc[p] /\ g = b.archives /\ v = b.previous /\ n = b.new
  OBVIOUS
<1>2. /\ b.pc = "archive" /\ proc' = [proc EXCEPT ![p] = [b EXCEPT !.pc = "write"]]
      /\ history' = (IF g THEN {d \in history : d.id # passport.id} \cup {passport} ELSE history)
      /\ UNCHANGED <<file, edits, undone, run, key, pub, keys, passport, made, copies, detached, reported>>
  BY <1>1 DEF Archive, Continue, files, keyring, kept
<1>3. /\ b = [cmd |-> "build", pc |-> "archive", previous |-> v, archives |-> g, new |-> n]
      /\ Building(b) /\ Document(n, Marks) /\ n.key \in 1..keys /\ n.events = <<>>
      /\ n.id = made /\ made > 0 /\ made \notin detached /\ \A d \in Written : d.id < made
      /\ n.revision = IF v = NONE THEN NONE ELSE compute_revision(v, n.artifacts)
  BY <1>1, <1>2 DEF Inv, Commands, Fits
<1>4. PICK c : c = [cmd |-> "build", pc |-> "write", previous |-> v, archives |-> g, new |-> n]
  OBVIOUS
<1>5. proc' = [proc EXCEPT ![p] = c]
  <2>1. [b EXCEPT !.pc = "write"] = c
    BY <1>3, <1>4
  <2>2. QED
    BY <1>2, <2>1
<1>6. g \in BOOLEAN /\ (g => v = passport /\ passport # NONE)
  BY <1>1, <1>3 DEF Building
<1>7. Written' \subseteq Written
  BY <1>2, <1>6 DEF Written
<1>8. Fits(c)'
  <2>1. Building(c)'
    BY <1>1, <1>2, <1>3, <1>4 DEF Building
  <2>2. g => passport' \in history'
    BY <1>2
  <2>3. \A d \in Written' : d.id < made'
    BY <1>2, <1>3, <1>7
  <2>4. Document(n, Marks')
    BY <1>2, <1>3 DEF Marks
  <2>5. QED
    BY <1>2, <1>3, <1>4, <2>1, <2>2, <2>3, <2>4 DEF Fits
<1>9. Files' /\ Keyring'
  BY <1>2 DEF Inv, Files, Keyring, Marks
<1>10. CASE ~ g
  <2>1. Papers' /\ HistoryLinked' /\ EventsKept'
    BY <1>2, <1>10 DEF Inv, Papers, HistoryLinked, EventsKept, Written, Marks
  <2>2. QED
    BY <1>5, <1>8, <1>9, <2>1, CommandStep DEF Inv
<1>11. CASE g
  <2>1. /\ history' = {d \in history : d.id # passport.id} \cup {passport}
        /\ passport # NONE /\ passport' = passport /\ passport \in Written
    BY <1>2, <1>6, <1>11 DEF Written
  <2>2. /\ \A d \in Written' : Document(d, Marks) /\ d.id \in 1..made /\ d.key \in 1..keys
        /\ \A d, h \in Written' : d.id = h.id => d.artifacts = h.artifacts /\ d.revision = h.revision
    BY <1>7 DEF Inv, Papers
  <2>3. \A h \in history' : h.id = passport.id => h = passport
    BY <2>1
  <2>4. Papers'
    BY <1>2, <2>2, <2>3 DEF Inv, Papers, Marks
  <2>5. HistoryLinked'
    <3>1. SUFFICES ASSUME NEW d \in Written, d.revision # NONE, d.id \notin detached
                   PROVE  \E h \in history' : h.id = d.revision.previous /\ d.revision = compute_revision(h, d.artifacts)
      BY <1>2, <1>7 DEF Inv, HistoryLinked
    <3>2. PICK h \in history : h.id = d.revision.previous /\ d.revision = compute_revision(h, d.artifacts)
      BY <3>1 DEF Inv, HistoryLinked
    <3>3. CASE h.id # passport.id
      BY <2>1, <3>2, <3>3
    <3>4. CASE h.id = passport.id
      <4>1. h \in Written
        BY DEF Written
      <4>2. h.artifacts = passport.artifacts /\ h.revision = passport.revision
        BY <2>1, <3>4, <4>1 DEF Inv, Papers
      <4>3. compute_revision(h, d.artifacts) = compute_revision(passport, d.artifacts)
        BY <3>4, <4>2, SameRevision
      <4>4. passport \in history'
        BY <2>1
      <4>5. QED
        BY <3>2, <3>4, <4>3, <4>4
    <3>5. QED
      BY <3>3, <3>4
  <2>6. EventsKept'
    <3>1. SUFFICES ASSUME NEW r \in reported
                   PROVE  \E d \in Written' : d.id = r[1] /\ r[2] \in EventsOf(d)
      BY <1>2 DEF EventsKept, EventsOf
    <3>2. PICK d \in Written : d.id = r[1] /\ r[2] \in EventsOf(d)
      BY DEF Inv, EventsKept, EventsOf
    <3>3. CASE d.id # passport.id
      <4>1. d \in history
        BY <3>3 DEF Written
      <4>2. d \in Written'
        BY <2>1, <3>3, <4>1 DEF Written
      <4>3. QED
        BY <3>2, <4>2
    <3>4. CASE d.id = passport.id
      <4>1. EventsOf(d) \subseteq EventsOf(passport)
        BY <2>1, <3>4 DEF Inv, Papers, Written
      <4>2. passport \in Written'
        BY <2>1 DEF Written
      <4>3. QED
        BY <3>2, <3>4, <4>1, <4>2
    <3>5. QED
      BY <3>3, <3>4
  <2>7. QED
    BY <1>5, <1>8, <1>9, <2>4, <2>5, <2>6, CommandStep DEF Inv
<1>12. QED
  BY <1>10, <1>11

LEMMA IsNoNone ==
    ASSUME NoneIsMissing, NEW d, NEW F, Document(d, F)
    PROVE  d # NONE
BY DEF NoneIsMissing, Document

LEMMA BuildWriteKeeps ==
    ASSUME NoneIsMissing, OneCommand, Inv, NEW p \in Procs, BuildWrite(p)
    PROVE  Inv'
<1>1. PICK b, g, v, n : b = proc[p] /\ g = b.archives /\ v = b.previous /\ n = b.new
  OBVIOUS
<1>2. /\ b.pc = "write" /\ proc' = [proc EXCEPT ![p] = Idle] /\ passport' = n
      /\ reported' = (IF g THEN reported ELSE {e \in reported : passport = NONE \/ e[1] # passport.id})
      /\ copies' = copies \cup {n}
      /\ detached' = (IF v # NONE /\ ~ g THEN detached \cup {n.id} ELSE detached)
      /\ UNCHANGED <<file, edits, undone, run, key, pub, keys, made, history>>
  BY <1>1 DEF BuildWrite, Continue, files, keyring
<1>3. /\ Building(b) /\ Document(n, Marks) /\ n.key \in 1..keys
      /\ n.id = made /\ made > 0 /\ made \notin detached /\ \A d \in Written : d.id < made
      /\ n.revision = IF v = NONE THEN NONE ELSE compute_revision(v, n.artifacts)
      /\ g => passport \in history
  BY <1>1, <1>2 DEF Inv, Commands, Fits
<1>4. g \in BOOLEAN /\ (g => v = passport /\ passport # NONE) /\ (~ g /\ v # NONE => v \in copies)
  BY <1>1, <1>3 DEF Building
<1>5. n # NONE
  BY <1>3, IsNoNone
<1>6. Written' = history \cup {n} /\ history \subseteq Written
  BY <1>2, <1>5 DEF Written
<1>7. made \in Nat /\ \A d \in history : d.id # n.id
  BY <1>3, <1>6 DEF Inv, Keyring, Papers
<1>8. Papers'
  <2>1. \A d \in Written' : Document(d, Marks) /\ d.id \in 1..made /\ d.key \in 1..keys
    <3>1. n.id \in 1..made
      BY <1>3, <1>7
    <3>2. QED
      BY <1>3, <1>6, <3>1 DEF Inv, Papers
  <2>2. \A d, h \in Written' : d.id = h.id => d.artifacts = h.artifacts /\ d.revision = h.revision
    BY <1>6, <1>7 DEF Inv, Papers
  <2>3. IsFiniteSet(reported')
    <3>1. reported' \in SUBSET reported /\ IsFiniteSet(reported)
      BY <1>2 DEF Inv, Papers
    <3>2. QED
      BY <3>1, FS_Subset
  <2>4. detached' \subseteq 1..made
    <3>1. n.id \in 1..made /\ detached \subseteq 1..made
      BY <1>3, <1>7 DEF Inv, Papers
    <3>2. QED
      BY <1>2, <3>1
  <2>5. QED
    BY <1>2, <1>7, <2>1, <2>2, <2>3, <2>4 DEF Papers, Marks
<1>9. HistoryLinked'
  <2>1. SUFFICES ASSUME NEW d \in Written', d.revision # NONE
                 PROVE  \E h \in (IF d.id \in detached' THEN copies' ELSE history) :
                            h.id = d.revision.previous /\ d.revision = compute_revision(h, d.artifacts)
    BY <1>2 DEF HistoryLinked
  <2>2. CASE d \in history
    <3>1. PICK h \in (IF d.id \in detached THEN copies ELSE history) :
             h.id = d.revision.previous /\ d.revision = compute_revision(h, d.artifacts)
      BY <1>6, <2>1, <2>2 DEF Inv, HistoryLinked
    <3>2. d.id \in detached <=> d.id \in detached'
      BY <1>2, <1>7, <2>2
    <3>3. QED
      BY <1>2, <3>1, <3>2
  <2>3. CASE d = n
    <3>1. v # NONE /\ n.revision = compute_revision(v, n.artifacts)
      BY <1>3, <2>1, <2>3
    <3>2. compute_revision(v, n.artifacts).previous = v.id
      BY DEF compute_revision
    <3>3. CASE g
      BY <1>2, <1>3, <1>4, <2>3, <3>1, <3>2, <3>3
    <3>4. CASE ~ g
      BY <1>2, <1>4, <2>3, <3>1, <3>2, <3>4
    <3>5. QED
      BY <3>3, <3>4
  <2>4. QED
    BY <1>6, <2>2, <2>3
<1>10. EventsKept'
  <2>1. SUFFICES ASSUME NEW r \in reported'
                 PROVE  \E d \in Written' : d.id = r[1] /\ r[2] \in EventsOf(d)
    BY DEF EventsKept, EventsOf
  <2>2. r \in reported
    BY <1>2, <2>1
  <2>3. PICK d \in Written : d.id = r[1] /\ r[2] \in EventsOf(d)
    BY <2>2 DEF Inv, EventsKept, EventsOf
  <2>4. CASE d \in history
    BY <1>6, <2>3, <2>4
  <2>5. CASE d \notin history
    <3>1. d = passport /\ passport # NONE
      BY <2>5 DEF Written
    <3>2. ~ g
      BY <1>3, <2>5, <3>1
    <3>3. r[1] # passport.id
      BY <1>2, <2>1, <3>1, <3>2
    <3>4. QED
      BY <2>3, <3>1, <3>3
  <2>6. QED
    BY <2>4, <2>5
<1>11. Files' /\ Keyring'
  BY <1>2 DEF Inv, Files, Keyring, Marks
<1>12. QED
  BY <1>2, <1>8, <1>9, <1>10, <1>11, IdleFits, CommandStep DEF Inv

LEMMA MonitorReadKeeps ==
    ASSUME OneCommand, Inv, NEW p \in Procs, MonitorRead(p)
    PROVE  Inv'
<1>1. PICK c : c = [cmd |-> "monitor", pc |-> "append", raw |-> passport]
  OBVIOUS
<1>2. /\ passport # NONE /\ proc' = [proc EXCEPT ![p] = c]
      /\ UNCHANGED <<file, edits, undone, run, key, pub, keys, passport, made, history, copies, detached, reported>>
  BY <1>1, Unfold DEF MonitorRead, Start
<1>3. Fits(c)
  BY <1>1, <1>2 DEF Fits
<1>4. QED
  BY <1>2, <1>3, QuietStep

LEMMA MonitorWriteKeeps ==
    ASSUME NoneIsMissing, OneCommand, Inv, NEW p \in Procs, MonitorWrite(p)
    PROVE  Inv'
<1>1. PICK d, n, b, r : /\ d = passport /\ n = Cardinality(reported) + 1 /\ b = append_event(d, n, d.key)
                        /\ r = <<b.id, b.events[Len(b.events)]>>
  OBVIOUS
<1>2. proc[p].pc = "append"
  BY DEF MonitorWrite, Continue
<1>3. proc[p] = [cmd |-> "monitor", pc |-> "append", raw |-> passport] /\ passport # NONE
  BY <1>2 DEF Inv, Commands, Fits
<1>4. proc[p].raw = d
  BY <1>1, <1>3
<1>5. /\ proc' = [proc EXCEPT ![p] = Idle] /\ passport' = b /\ reported' = reported \cup {r}
      /\ UNCHANGED <<file, edits, undone, run, key, pub, keys, made, history, copies, detached>>
  BY <1>1, <1>4 DEF MonitorWrite, Continue, files, keyring, kept
<1>6. d \in Written /\ Document(d, Marks) /\ d.id \in 1..made /\ d.key \in 1..keys
  BY <1>1, <1>3 DEF Inv, Papers, Written
<1>7. IsFiniteSet(reported) /\ n \in Nat
  BY <1>1, FS_CardinalityType DEF Inv, Papers
<1>8. /\ Document(b, Marks) /\ b.id = d.id /\ b.artifacts = d.artifacts /\ b.revision = d.revision
      /\ b.key = d.key /\ EventsOf(d) \subseteq EventsOf(b) /\ b.events[Len(b.events)] \in EventsOf(b)
  <2>1. b = append_event(d, n, d.key) /\ Document(d, Marks) /\ n \in Nat
    BY <1>1, <1>6, <1>7
  <2>2. PICK F : F = Marks
    OBVIOUS
  <2>3. Document(d, F)
    BY <2>1, <2>2
  <2>4. /\ Document(b, F) /\ b.id = d.id /\ b.artifacts = d.artifacts /\ b.revision = d.revision
        /\ b.key = d.key /\ EventsOf(d) \subseteq EventsOf(b) /\ b.events[Len(b.events)] \in EventsOf(b)
    BY <2>1, <2>3, Appended
  <2>5. QED
    BY <2>2, <2>4
<1>9. b # NONE
  BY <1>8, IsNoNone
<1>10. Written' = history \cup {b} /\ history \subseteq Written /\ \A h \in Written : h \in history \/ h = d
  BY <1>1, <1>5, <1>9 DEF Written
<1>11. Papers'
  <2>1. \A h \in Written' : Document(h, Marks) /\ h.id \in 1..made /\ h.key \in 1..keys
    BY <1>6, <1>8, <1>10 DEF Inv, Papers
  <2>2. \A g, h \in Written' : g.id = h.id => g.artifacts = h.artifacts /\ g.revision = h.revision
    <3>1. \A g, h \in Written : g.id = h.id => g.artifacts = h.artifacts /\ g.revision = h.revision
      BY DEF Inv, Papers
    <3>2. QED
      BY <1>6, <1>8, <1>10, <3>1
  <2>3. \A h \in history : h.id = b.id => EventsOf(h) \subseteq EventsOf(b)
    <3>1. \A h \in history : h.id = d.id => EventsOf(h) \subseteq EventsOf(d)
      BY <1>1, <1>3 DEF Inv, Papers
    <3>2. QED
      BY <1>8, <3>1
  <2>4. IsFiniteSet(reported')
    BY <1>5, <1>7, FS_AddElement
  <2>5. QED
    BY <1>5, <2>1, <2>2, <2>3, <2>4 DEF Inv, Papers, Marks
<1>12. HistoryLinked'
  <2>2. ASSUME NEW k, NEW w, NEW A, w # NONE,
               \E h \in Written : h.id = k /\ h.revision = w /\ h.artifacts = A
        PROVE  \E h \in (IF k \in detached THEN copies ELSE history) :
                   h.id = w.previous /\ w = compute_revision(h, A)
    BY <2>2 DEF Inv, HistoryLinked
  <2>3. SUFFICES ASSUME NEW e \in Written', e.revision # NONE
                 PROVE  \E h \in Written : h.id = e.id /\ h.revision = e.revision /\ h.artifacts = e.artifacts
    BY <1>5, <2>2 DEF HistoryLinked
  <2>4. QED
    BY <1>6, <1>8, <1>10, <2>3
<1>13. EventsKept'
  <2>1. ASSUME NEW e \in reported PROVE \E g \in Written' : g.id = e[1] /\ e[2] \in EventsOf(g)
    <3>1. PICK g \in Written : g.id = e[1] /\ e[2] \in EventsOf(g)
      BY DEF Inv, EventsKept, EventsOf
    <3>2. QED
      BY <1>8, <1>10, <3>1
  <2>2. b \in Written' /\ b.id = r[1] /\ r[2] \in EventsOf(b)
    BY <1>1, <1>8, <1>10
  <2>3. QED
    BY <1>5, <2>1, <2>2 DEF EventsKept, EventsOf
<1>14. Files' /\ Keyring'
  BY <1>5 DEF Inv, Files, Keyring, Marks
<1>15. QED
  BY <1>5, <1>11, <1>12, <1>13, <1>14, IdleFits, CommandStep DEF Inv

LEMMA FailKeeps ==
    ASSUME OneCommand, Inv, NEW p \in Procs, Fail(p)
    PROVE  Inv'
<1>1. /\ proc' = [proc EXCEPT ![p] = Idle]
      /\ UNCHANGED <<file, edits, undone, run, key, pub, keys, passport, made, history, copies, detached, reported>>
  BY Unfold DEF Fail
<1>2. QED
  BY <1>1, IdleFits, QuietStep
LEMMA NextKeeps ==
    ASSUME NoneIsMissing, OneCommand, OwnFiles, Inv, [Next]_vars
    PROVE  Inv'
<1>1. CASE Edit \/ Undo
  BY <1>1, EditKeeps, UndoKeeps
<1>2. ASSUME NEW p \in Procs, Command(p) PROVE Inv'
  <2>1. CASE InitPrivate(p) \/ InitPublic(p) \/ InitKept(p)
    BY <2>1, InitKeeps
  <2>2. CASE RunBegin(p)
    BY <2>2, RunBeginKeeps
  <2>3. CASE HashInputs(p)
    BY <2>3, HashInputsKeeps
  <2>4. CASE Execute(p)
    BY <2>4, ExecuteKeeps
  <2>5. CASE HashOutputs(p)
    BY <2>5, HashOutputsKeeps
  <2>6. CASE BuildBegin(p)
    BY <2>6, BuildBeginKeeps
  <2>7. CASE BuildHash(p)
    BY <2>7, BuildHashKeeps
  <2>8. CASE BuildAssess(p)
    BY <2>8, BuildAssessKeeps
  <2>9. CASE Archive(p)
    BY <2>9, ArchiveKeeps
  <2>10. CASE BuildWrite(p)
    BY <2>10, BuildWriteKeeps
  <2>11. CASE MonitorRead(p)
    BY <2>11, MonitorReadKeeps
  <2>12. CASE MonitorWrite(p)
    BY <2>12, MonitorWriteKeeps
  <2>13. CASE Fail(p)
    BY <2>13, FailKeeps
  <2>14. QED
    BY <1>2, <2>1, <2>2, <2>3, <2>4, <2>5, <2>6, <2>7, <2>8, <2>9, <2>10, <2>11, <2>12, <2>13 DEF Command
<1>3. CASE UNCHANGED vars
  <2>1. UNCHANGED <<file, edits, undone, run, key, pub, keys, passport, made, history, copies, detached, reported, proc>>
    BY <1>3 DEF vars
  <2>2. Files' /\ Keyring' /\ Papers' /\ HistoryLinked' /\ EventsKept'
    BY <2>1 DEF Inv, Files, Keyring, Papers, HistoryLinked, EventsKept, Written, Marks
  <2>3. Commands'
    BY <2>1, FitsUnchanged DEF Inv, Commands
  <2>4. QED
    BY <2>2, <2>3 DEF Inv
<1>4. QED
  BY <1>1, <1>2, <1>3 DEF Next

-----------------------------------------------------------------------------
(* Theorems. *)

LEMMA Invariance ==
    ASSUME NoneIsMissing, OneCommand, OwnFiles
    PROVE  Spec => []Inv
<1>1. Inv /\ [Next]_vars => Inv'
  BY NextKeeps
<1>2. QED
  BY <1>1, InitInv, PTL DEF Spec

\* Whatever is edited while run hashes, runs and hashes again and while build
\* compares (cli/project.py, core/capture.py run_stage, core/builder.py
\* _add_run_artifacts): an output that a passport certifies was made by the
\* certified script from the certified inputs, unless one of these was edited
\* and brought back.
THEOREM Provenant ==
    ASSUME NoneIsMissing, OneCommand, OwnFiles
    PROVE  Spec => []Provenance
<1>1. Inv => Provenance
  <2>1. SUFFICES ASSUME Inv, NEW d \in Written, NEW i \in DOMAIN Stages,
                        ({Stages[i].script} \cup Stages[i].deps) \cap undone = {}, NEW o \in Stages[i].outs
                 PROVE  d.artifacts[o] = Output(i, d.artifacts)
    BY DEF Provenance
  <2>2. Manifest(d.artifacts, Marks)
    BY <2>1 DEF Inv, Papers, Document
  <2>3. ~ Unsure(i, Marks)
    BY <2>1, MarksFacts DEF Unsure, Marked, Inv
  <2>4. QED
    BY <2>2, <2>3 DEF Manifest
<1>2. QED
  BY <1>1, Invariance, PTL

\* When the files match a passport, its checks (_run_checks) read exactly
\* these contents, although they read the files after they were hashed: of
\* every file that was never edited and brought back.
THEOREM AssessedAsVerified ==
    ASSUME NoneIsMissing, OneCommand, OwnFiles
    PROVE  Spec => []VerifiedMeansAssessed
<1>1. Inv => VerifiedMeansAssessed
  <2>1. SUFFICES ASSUME Inv, NEW d \in Written, changed(d, file) = {}, NEW f \in Assessed \ undone
                 PROVE  d.assessed[f] = d.artifacts[f]
    BY DEF VerifiedMeansAssessed
  <2>2. Manifest(d.artifacts, Marks) /\ Seen(d.artifacts, d.assessed, Assessed, Marks)
    BY <2>1 DEF Inv, Papers, Document
  <2>3. f \in DOMAIN d.artifacts
    BY <2>2 DEF Manifest
  <2>4. file[f] = d.artifacts[f]
    BY <2>1, <2>3 DEF changed
  <2>5. ~ Older(f, file[f], Marks)
    <3>1. SUFFICES ASSUME Older(f, file[f], Marks) PROVE FALSE
      OBVIOUS
    <3>2. f \in Sources /\ Marks[f] = file[f] /\ ~ Marked(f, Marks)
      BY <2>1, <3>1, MarksFacts DEF Inv, Older, Marked
    <3>3. PICK n : n = file[f].saved
      OBVIOUS
    <3>4. n \in Nat /\ n < n
      BY <3>1, <3>2, <3>3 DEF Older
    <3>5. QED
      BY <3>4
  <2>6. QED
    BY <2>2, <2>4, <2>5 DEF Seen
<1>2. QED
  BY <1>1, Invariance, PTL

\* Every passport verifies with the events appended since it was signed, and
\* with an artifact or an event changed, taken out, exchanged or moved to
\* another passport it does not (core/identity.py, events.py, verifier.py).
THEOREM Verifiable ==
    ASSUME NoneIsMissing, OneCommand, OwnFiles
    PROVE  Spec => []VerifiesAsWritten
<1>1. Inv => TypeOK
  <2>1. SUFFICES ASSUME Inv PROVE TypeOK
    OBVIOUS
  <2>2. DOMAIN file = Paths /\ edits \in 0..MaxEdits /\ undone \subseteq Sources /\ keys \in 0..MaxKeys /\ made \in 0..MaxPassports
    BY <2>1 DEF Inv, Files, Keyring
  <2>3. {key, pub} \subseteq 1..MaxKeys \cup {NONE}
    <3>1. \A k \in 1..keys : k \in 1..MaxKeys
      BY <2>2, BoundsAssumption
    <3>2. QED
      BY <2>1, <3>1 DEF Inv, Keyring
  <2>4. \A d \in Written : d.id \in 1..made /\ d.key \in 1..keys
    BY <2>1 DEF Inv, Papers
  <2>5. \A p \in Procs : proc[p].cmd \in {"none", "init", "run", "build", "monitor"}
    <3>1. SUFFICES ASSUME NEW p \in Procs PROVE proc[p].cmd \in {"none", "init", "run", "build", "monitor"}
      OBVIOUS
    <3>2. PICK c : c = proc[p]
      OBVIOUS
    <3>3. Fits(c)
      BY <2>1, <3>2 DEF Inv, Commands
    <3>4. c.cmd \in {"none", "init", "run", "build", "monitor"}
      BY <3>3 DEF Fits, Idle
    <3>5. QED
      BY <3>2, <3>4
  <2>6. QED
    BY <2>2, <2>3, <2>4, <2>5 DEF TypeOK
<1>2. Inv => Intact
  BY DocumentVerifies DEF Inv, Papers, Intact
<1>3. Inv => VerifiesAsWritten
  BY <1>1, <1>2, Alterations DEF Inv, VerifiesAsWritten
<1>4. QED
  BY <1>3, Invariance, PTL

\* A revision's predecessor is in the history, whatever fails between the
\* archive and the new passport, or where --previous found it, and the
\* revision tells how the artifacts differ (core/revision.py, cli/project.py).
THEOREM Revised ==
    ASSUME NoneIsMissing, OneCommand, OwnFiles
    PROVE  Spec => []HistoryLinked
<1>1. Inv => HistoryLinked
  BY DEF Inv
<1>2. QED
  BY <1>1, Invariance, PTL

\* An event that monitor reported (monitoring/monitor.py) stays in the passport
\* or in its archived copy, until a build that does not link to this passport
\* replaces it.
THEOREM Kept ==
    ASSUME NoneIsMissing, OneCommand, OwnFiles
    PROVE  Spec => []EventsKept
<1>1. Inv => EventsKept
  BY DEF Inv
<1>2. QED
  BY <1>1, Invariance, PTL

-----------------------------------------------------------------------------
(* The registry. *)

\* Each passport is written by one machine.
OneWriter == \A c, d \in Clients : Holds[c] = Holds[d] => c = d

\* No row is taken for a missing one.
NoneIsNoRow == \A d, k : [document |-> d, key |-> k] # NONE

\* A passport with the events s, and what stands before the first of them.
Doc(id, s) == [Built(id) EXCEPT !.events = s]
Payload(id) == signing_payload(Built(id))

Begins(s, t) == IsChain(s) /\ Len(s) <= Len(t) /\ \A i \in 1..Len(s) : s[i] = t[i]

\* Events are linked, and no two have the same number, all below n.
Linked(c, n, s) ==
    /\ IsChain(s)
    /\ \A i \in 1..Len(s) :
          /\ s[i] = [payload |-> <<c, s[i].payload[2]>>, prev |-> IF i = 1 THEN Payload(Holds[c]) ELSE s[i - 1],
                     signature |-> s[i].signature]
          /\ s[i].payload[2] \in Nat /\ s[i].payload[2] < n
    /\ \A i, j \in 1..Len(s) : i < j => s[i].payload[2] < s[j].payload[2]

Machines ==
    /\ local = [c \in Clients |-> local[c]] /\ awaited = [c \in Clients |-> awaited[c]]
    /\ sent = [c \in Clients |-> sent[c]]
    /\ \A c \in Clients :
          /\ sent[c] \in Nat /\ awaited[c] \in 0..sent[c]
          /\ local[c] = Doc(Holds[c], local[c].events) /\ Linked(c, sent[c], local[c].events)

\* A row with the first of the events s, as it is in the database or was read
\* from it earlier.
Entry(c, s, x) ==
    /\ x = [document |-> Doc(Holds[c], x.document.events), key |-> Key[Holds[c]]]
    /\ Begins(x.document.events, s)
    /\ verify_events(x.document, x.key) = {}

Table(table) ==
    /\ table = [id \in Ids |-> table[id]]
    /\ \A id \in Ids : table[id] # NONE => \E c \in Clients : Holds[c] = id /\ Entry(c, local[c].events, table[id])

Rows == Table(store) /\ Table(view)

\* What is committed is the beginning of what the connection shows, unless a
\* rollback took something back.
Behind ==
    \A id \in Ids : id \notin rolled /\ store[id] # NONE =>
        view[id] # NONE /\ Begins(store[id].document.events, view[id].document.events)

\* The event that would come next in the row that was read is not in the row
\* there is: only the request that carries it can put it there.
NotYet(r) ==
    LET n == Len(r.stored.document.events) + 1 IN
    n <= Len(local[r.client].events) /\ r.event = local[r.client].events[n] =>
        Len(view[r.id].document.events) = Len(r.stored.document.events)

Carries(r) ==
    /\ r.id = Holds[r.client] /\ r.event.payload[2] = r.number - 1
    /\ \E i \in 1..Len(local[r.client].events) : r.event = local[r.client].events[i]

\* It will say, once it has committed, what the connection shows now.
Says(r) == \A a \in r.known : a[1] = r.id /\ (r.id \notin rolled => Has(view, a))

FitsIn(r) ==
    /\ r.client \in Clients /\ r.number \in 1..sent[r.client]
    /\ r.at \in {"upload", "get", "append", "inserted", "updated", "failed"}
    /\ r.at = "upload" =>
          /\ r = [at |-> "upload", client |-> r.client, number |-> r.number, document |-> r.document, key |-> r.key]
          /\ r.document = Doc(Holds[r.client], r.document.events)
          /\ Begins(r.document.events, local[r.client].events)
    /\ r.at = "get" =>
          /\ r = [at |-> "get", client |-> r.client, number |-> r.number, id |-> r.id, event |-> r.event]
          /\ Carries(r)
    /\ r.at = "append" =>
          /\ r = [at |-> "append", client |-> r.client, number |-> r.number, id |-> r.id, event |-> r.event,
                  stored |-> r.stored]
          /\ Carries(r) /\ Entry(r.client, local[r.client].events, r.stored)
          /\ r.id \notin rolled => view[r.id] # NONE /\ NotYet(r)
    /\ r.at \in {"inserted", "updated"} => r.id = Holds[r.client] /\ Says(r)

Requests ==
    /\ \A r \in requests : FitsIn(r)
    /\ \A r, q \in requests : r.client = q.client /\ r.number = q.number => r = q

Known == \A a \in acked : a[1] \in Ids /\ (a[1] \notin rolled => Has(store, a))

RegistryInv == Machines /\ Rows /\ Behind /\ Requests /\ Known

-----------------------------------------------------------------------------
(* Documents and events. *)

LEMMA SigningFacts ==
    ASSUME NEW i, NEW a, NEW m, NEW k, NEW v, NEW e, NEW x, NEW p,
           p = [id |-> i, artifacts |-> a, merkle_root |-> m, key |-> k, revision |-> v, events |-> e, signature |-> x]
    PROVE  signing_payload(p) = [id |-> i, artifacts |-> a, merkle_root |-> m, key |-> k,
                                 revision |-> v, events |-> <<>>, signature |-> NONE]
<1>1. PICK q : q = [p EXCEPT !.signature = NONE]
  OBVIOUS
<1>2. q = [id |-> i, artifacts |-> a, merkle_root |-> m, key |-> k, revision |-> v, events |-> e, signature |-> NONE]
  BY <1>1
<1>3. signing_payload(p) = [q EXCEPT !.events = <<>>]
  BY <1>1, Zenon DEF signing_payload
<1>4. QED
  BY <1>2, <1>3

LEMMA BuiltFacts ==
    ASSUME NEW id
    PROVE  \E arts :
              /\ Payload(id) = [id |-> id, artifacts |-> arts, merkle_root |-> merkle_root(arts), key |-> Key[id],
                                revision |-> NONE, events |-> <<>>, signature |-> NONE]
              /\ Built(id) = [id |-> id, artifacts |-> arts, merkle_root |-> merkle_root(arts), key |-> Key[id],
                              revision |-> NONE, events |-> <<>>, signature |-> sign(Key[id], Payload(id))]
<1>1. PICK arts : arts = [f \in {"model"} |-> id]
  OBVIOUS
<1>2. PICK root : root = merkle_root(arts)
  OBVIOUS
<1>3. PICK p : p = [id |-> id, artifacts |-> arts, merkle_root |-> root, key |-> Key[id],
                    revision |-> NONE, events |-> <<>>, signature |-> NONE]
  OBVIOUS
<1>4. signing_payload(p) = p
  BY <1>3, SigningFacts
<1>5. Built(id) = sign_passport(p, Key[id])
  BY <1>1, <1>2, <1>3 DEF Built
<1>6. PICK x : x = sign(Key[id], p)
  OBVIOUS
<1>7. Built(id) = [id |-> id, artifacts |-> arts, merkle_root |-> root, key |-> Key[id],
                   revision |-> NONE, events |-> <<>>, signature |-> x]
  BY <1>3, <1>4, <1>5, <1>6 DEF sign_passport
<1>8. Payload(id) = p
  BY <1>3, <1>7, SigningFacts DEF Payload
<1>9. QED
  BY <1>2, <1>3, <1>6, <1>7, <1>8

LEMMA DocFacts ==
    ASSUME NEW id, NEW s
    PROVE  /\ Doc(id, s).events = s /\ Doc(id, s).id = id /\ Doc(id, s).key = Key[id]
           /\ signing_payload(Doc(id, s)) = Payload(id)
           /\ verify_signature(Key[id], Payload(id), Doc(id, s).signature)
           /\ merkle_root(Doc(id, s).artifacts) = Doc(id, s).merkle_root
           /\ Doc(id, <<>>) = Built(id)
           /\ \A t : [Doc(id, s) EXCEPT !.events = t] = Doc(id, t)
<1>1. PICK arts :
         /\ Payload(id) = [id |-> id, artifacts |-> arts, merkle_root |-> merkle_root(arts), key |-> Key[id],
                           revision |-> NONE, events |-> <<>>, signature |-> NONE]
         /\ Built(id) = [id |-> id, artifacts |-> arts, merkle_root |-> merkle_root(arts), key |-> Key[id],
                         revision |-> NONE, events |-> <<>>, signature |-> sign(Key[id], Payload(id))]
  BY BuiltFacts
<1>2. PICK root, x, b, q : root = merkle_root(arts) /\ x = sign(Key[id], Payload(id)) /\ b = Built(id) /\ q = Payload(id)
  OBVIOUS
<1>3. \A t : Doc(id, t) = [id |-> id, artifacts |-> arts, merkle_root |-> root, key |-> Key[id],
                           revision |-> NONE, events |-> t, signature |-> x]
  BY <1>1, <1>2 DEF Doc
<1>4. Doc(id, s).events = s /\ Doc(id, s).id = id /\ Doc(id, s).key = Key[id] /\ Doc(id, <<>>) = Built(id)
  BY <1>1, <1>2, <1>3
<1>5. signing_payload(Doc(id, s)) = Payload(id)
  <2>1. PICK d : d = Doc(id, s)
    OBVIOUS
  <2>2. d = [id |-> id, artifacts |-> arts, merkle_root |-> root, key |-> Key[id],
             revision |-> NONE, events |-> s, signature |-> x]
    BY <1>3, <2>1
  <2>3. signing_payload(d) = [id |-> id, artifacts |-> arts, merkle_root |-> root, key |-> Key[id],
                              revision |-> NONE, events |-> <<>>, signature |-> NONE]
    BY <2>2, SigningFacts
  <2>4. QED
    BY <1>1, <1>2, <2>1, <2>3
<1>6. verify_signature(Key[id], Payload(id), Doc(id, s).signature)
  BY <1>2, <1>3 DEF verify_signature
<1>7. merkle_root(Doc(id, s).artifacts) = Doc(id, s).merkle_root
  <2>1. Doc(id, s).artifacts = arts /\ Doc(id, s).merkle_root = root
    BY <1>3
  <2>2. QED
    BY <1>2, <2>1
<1>8. ASSUME NEW t PROVE [Doc(id, s) EXCEPT !.events = t] = Doc(id, t)
  BY <1>3
<1>9. QED
  BY <1>4, <1>5, <1>6, <1>7, <1>8

\* Of a passport signed with its key only the events can be wrong.
LEMMA DocVerifies ==
    ASSUME NEW id, NEW s
    PROVE  verify_document(Doc(id, s), Key[id]) <=> verify_events(Doc(id, s), Key[id]) = {}
<1>1. PICK d : d = Doc(id, s)
  OBVIOUS
<1>2. /\ d.key = Key[id] /\ signing_payload(d) = Payload(id)
      /\ verify_signature(Key[id], Payload(id), d.signature) /\ merkle_root(d.artifacts) = d.merkle_root
  BY <1>1, DocFacts
<1>3. verify_document(d, Key[id]) <=> verify_events(d, Key[id]) = {}
  BY <1>2 DEF verify_document
<1>4. QED
  BY <1>1, <1>3

\* The same, for what an event is added to and what it is the beginning of.
LEMMA BeginsMore ==
    ASSUME NEW s, NEW t, Begins(s, t), IsChain(t), NEW e
    PROVE  /\ Begins(s, Append(t, e))
           /\ Len(s) < Len(t) /\ e = t[Len(s) + 1] => Begins(Append(s, e), t)
<1>1. PICK u, v : u = Append(t, e) /\ v = Append(s, e)
  OBVIOUS
<1>2. PICK m, n : m = Len(s) /\ n = Len(t)
  OBVIOUS
<1>3. IsChain(s) /\ m <= n /\ \A i \in 1..m : s[i] = t[i]
  BY <1>2 DEF Begins
<1>4. m \in Nat /\ n \in Nat
  BY <1>2, <1>3, ChainFacts
<1>5. Len(u) = n + 1 /\ u[n + 1] = e /\ \A i \in 1..n : u[i] = t[i]
  BY <1>1, <1>2, ChainFacts
<1>6. IsChain(v) /\ Len(v) = m + 1 /\ v[m + 1] = e /\ \A i \in 1..m : v[i] = s[i]
  BY <1>1, <1>2, <1>3, ChainFacts
<1>7. Begins(s, u)
  <2>1. m <= n + 1 /\ \A i \in 1..m : i \in 1..n
    BY <1>3, <1>4
  <2>2. QED
    BY <1>2, <1>3, <1>5, <2>1 DEF Begins
<1>8. ASSUME m < n, e = t[m + 1] PROVE Begins(v, t)
  <2>1. m + 1 <= n /\ \A i \in 1..(m + 1) : i \in 1..m \/ i = m + 1
    BY <1>4, <1>8
  <2>2. \A i \in 1..(m + 1) : v[i] = t[i]
    BY <1>3, <1>6, <1>8, <2>1
  <2>3. QED
    BY <1>2, <1>6, <2>1, <2>2 DEF Begins
<1>9. QED
  BY <1>1, <1>2, <1>7, <1>8

LEMMA BeginsTrans ==
    ASSUME NEW s, NEW t, NEW u, Begins(s, t), Begins(t, u), IsChain(u)
    PROVE  Begins(s, u)
<1>1. PICK m, n, k : m = Len(s) /\ n = Len(t) /\ k = Len(u)
  OBVIOUS
<1>2. m \in Nat /\ n \in Nat /\ k \in Nat
  BY <1>1, ChainFacts DEF Begins
<1>3. m <= n /\ n <= k /\ (\A i \in 1..m : s[i] = t[i]) /\ (\A i \in 1..n : t[i] = u[i])
  BY <1>1 DEF Begins
<1>4. m <= k /\ \A i \in 1..m : s[i] = u[i]
  BY <1>2, <1>3
<1>5. QED
  BY <1>1, <1>4 DEF Begins

LEMMA BeginsItself ==
    ASSUME NEW s, IsChain(s)
    PROVE  Begins(s, s)
<1>1. Len(s) <= Len(s)
  BY ChainFacts
<1>2. QED
  BY <1>1 DEF Begins

LEMMA LinkedLater ==
    ASSUME NEW c, NEW n \in Nat, NEW m \in Nat, n <= m, NEW s, Linked(c, n, s)
    PROVE  Linked(c, m, s)
<1>1. ASSUME NEW i \in 1..Len(s) PROVE s[i].payload[2] \in Nat /\ s[i].payload[2] < m
  <2>1. PICK k : k = s[i].payload[2]
    OBVIOUS
  <2>2. k \in Nat /\ k < n
    BY <2>1 DEF Linked
  <2>3. QED
    BY <2>1, <2>2
<1>2. QED
  BY <1>1 DEF Linked

-----------------------------------------------------------------------------
(* Machines. *)

\* Documents of the machines grow.
Grown ==
    \A d \in Clients :
        /\ sent'[d] \in Nat /\ sent[d] <= sent'[d]
        /\ IsChain(local'[d].events) /\ Begins(local[d].events, local'[d].events)
        /\ \A i \in 1..Len(local'[d].events) :
              i \in 1..Len(local[d].events) \/ local'[d].events[i].payload[2] = sent[d]

LEMMA FitsGrows ==
    ASSUME Machines, NEW r, FitsIn(r), Grown, UNCHANGED rows
    PROVE  FitsIn(r)'
<1>1. PICK c, s, t, m, n : c = r.client /\ s = local[c].events /\ t = local'[c].events /\ m = Len(s) /\ n = Len(t)
  OBVIOUS
<1>2. c \in Clients /\ r.number \in 1..sent[c] /\ sent[c] \in Nat /\ IsChain(s)
  BY <1>1 DEF FitsIn, Machines, Linked
<1>3. /\ sent'[c] \in Nat /\ sent[c] <= sent'[c] /\ IsChain(t) /\ Begins(s, t)
      /\ \A i \in 1..n : i \in 1..m \/ t[i].payload[2] = sent[c]
  BY <1>1, <1>2 DEF Grown
<1>4. m \in Nat /\ n \in Nat /\ m <= n /\ \A i \in 1..m : s[i] = t[i]
  BY <1>1, <1>2, <1>3, ChainFacts DEF Begins
<1>5. r.number \in 1..sent'[c]
  BY <1>2, <1>3
<1>6. Carries(r) => Carries(r)'
  BY <1>1, <1>4 DEF Carries
<1>7. rolled' = rolled /\ view' = view /\ (Says(r) => Says(r)')
  BY DEF rows, Says, Has, events
<1>8. CASE r.at = "upload"
  <2>1. r.document = Doc(Holds[c], r.document.events) /\ Begins(r.document.events, s)
    BY <1>1, <1>8 DEF FitsIn
  <2>2. Begins(r.document.events, t)
    BY <1>3, <2>1, BeginsTrans
  <2>3. QED
    BY <1>1, <1>2, <1>5, <1>8, <2>1, <2>2 DEF FitsIn
<1>9. CASE r.at = "get"
  BY <1>1, <1>2, <1>5, <1>6, <1>9 DEF FitsIn
<1>10. CASE r.at = "append"
  <2>1. Carries(r) /\ Entry(c, s, r.stored) /\ (r.id \notin rolled => view[r.id] # NONE /\ NotYet(r))
    BY <1>1, <1>10 DEF FitsIn
  <2>2. PICK p, k : p = r.stored.document.events /\ k = Len(p)
    OBVIOUS
  <2>3. Begins(p, s)
    BY <2>1, <2>2 DEF Entry
  <2>4. Begins(p, t) /\ k \in Nat
    BY <1>3, <2>2, <2>3, BeginsTrans, ChainFacts DEF Begins
  <2>5. Entry(c, t, r.stored)
    BY <2>1, <2>2, <2>4 DEF Entry
  <2>6. ASSUME NotYet(r), k + 1 <= n, r.event = t[k + 1]
        PROVE  Len(view[r.id].document.events) = k
    <3>1. r.event.payload[2] = r.number - 1
      BY <2>1 DEF Carries
    <3>2. t[k + 1].payload[2] # sent[c]
      BY <1>2, <2>6, <3>1
    <3>3. k + 1 \in 1..n
      BY <1>4, <2>4, <2>6
    <3>4. k + 1 \in 1..m
      BY <1>3, <3>2, <3>3
    <3>5. k + 1 <= m /\ r.event = s[k + 1]
      BY <1>4, <2>6, <3>4
    <3>6. QED
      BY <1>1, <2>2, <2>6, <3>5 DEF NotYet
  <2>7. NotYet(r) => NotYet(r)'
    BY <1>1, <1>7, <2>2, <2>6 DEF NotYet
  <2>8. QED
    BY <1>1, <1>2, <1>5, <1>6, <1>7, <1>10, <2>1, <2>5, <2>7 DEF FitsIn
<1>11. CASE r.at \in {"inserted", "updated", "failed"}
  BY <1>1, <1>2, <1>5, <1>7, <1>11 DEF FitsIn
<1>12. QED
  BY <1>8, <1>9, <1>10, <1>11 DEF FitsIn

\* Rows stay what they were while passports grow.
LEMMA TableGrows ==
    ASSUME NEW table, Table(table), Grown
    PROVE  /\ table = [id \in Ids |-> table[id]]
           /\ \A id \in Ids : table[id] # NONE =>
                 \E c \in Clients : Holds[c] = id /\ Entry(c, local'[c].events, table[id])
<1>1. ASSUME NEW id \in Ids, table[id] # NONE
      PROVE  \E c \in Clients : Holds[c] = id /\ Entry(c, local'[c].events, table[id])
  <2>1. PICK c \in Clients : Holds[c] = id /\ Entry(c, local[c].events, table[id])
    BY <1>1 DEF Table
  <2>2. PICK p, s, t : p = table[id].document.events /\ s = local[c].events /\ t = local'[c].events
    OBVIOUS
  <2>3. Begins(p, s) /\ Begins(s, t) /\ IsChain(t)
    BY <2>1, <2>2 DEF Entry, Grown
  <2>4. Begins(p, t)
    BY <2>3, BeginsTrans
  <2>5. Entry(c, t, table[id])
    BY <2>1, <2>2, <2>4 DEF Entry
  <2>6. QED
    BY <2>1, <2>2, <2>5
<1>2. QED
  BY <1>1 DEF Table

LEMMA RowsGrow ==
    ASSUME Rows, Grown, UNCHANGED rows
    PROVE  Rows'
<1>1. Table(store) /\ Table(view) /\ store' = store /\ view' = view
  BY DEF Rows, rows
<1>2. Table(store)'
  BY <1>1, TableGrows DEF Table
<1>3. Table(view)'
  BY <1>1, TableGrows DEF Table
<1>4. QED
  BY <1>2, <1>3 DEF Rows

\* A machine sends a request, with the events s in its passport.
LEMMA SendKeeps ==
    ASSUME RegistryInv, NEW c \in Clients, NEW q, Send(c, q), NEW s,
           local' = [local EXCEPT ![c] = Doc(Holds[c], s)],
           Linked(c, sent[c] + 1, s), Begins(local[c].events, s),
           \A i \in 1..Len(s) : i \in 1..Len(local[c].events) \/ s[i].payload[2] = sent[c],
           q.client = c, q.number = sent[c] + 1, FitsIn(q)'
    PROVE  RegistryInv'
<1>1. /\ sent' = [sent EXCEPT ![c] = sent[c] + 1] /\ awaited' = [awaited EXCEPT ![c] = sent[c] + 1]
      /\ requests' = requests \cup {q} /\ UNCHANGED <<rows, acked>>
  BY DEF Send
<1>2. /\ sent'[c] = sent[c] + 1 /\ awaited'[c] = sent[c] + 1 /\ local'[c] = Doc(Holds[c], s)
      /\ \A d \in Clients : d # c => sent'[d] = sent[d] /\ awaited'[d] = awaited[d] /\ local'[d] = local[d]
      /\ \A d \in Clients : sent[d] \in Nat
  BY <1>1 DEF RegistryInv, Machines
<1>3. local'[c].events = s
  BY <1>2, DocFacts
<1>4. Machines'
  <2>1. ASSUME NEW d \in Clients
        PROVE  /\ sent'[d] \in Nat /\ awaited'[d] \in 0..sent'[d]
               /\ local'[d] = Doc(Holds[d], local'[d].events) /\ Linked(d, sent'[d], local'[d].events)
    <3>1. CASE d = c
      BY <1>2, <1>3, <3>1
    <3>2. CASE d # c
      BY <1>2, <3>2 DEF RegistryInv, Machines
    <3>3. QED
      BY <3>1, <3>2
  <2>2. /\ local' = [d \in Clients |-> local'[d]] /\ awaited' = [d \in Clients |-> awaited'[d]]
        /\ sent' = [d \in Clients |-> sent'[d]]
    BY <1>1 DEF RegistryInv, Machines
  <2>3. QED
    BY <2>1, <2>2 DEF Machines
<1>5. Grown
  <2>1. ASSUME NEW d \in Clients
        PROVE  /\ sent'[d] \in Nat /\ sent[d] <= sent'[d]
               /\ IsChain(local'[d].events) /\ Begins(local[d].events, local'[d].events)
               /\ \A i \in 1..Len(local'[d].events) :
                     i \in 1..Len(local[d].events) \/ local'[d].events[i].payload[2] = sent[d]
    <3>1. CASE d = c
      BY <1>2, <1>3, <3>1 DEF Linked
    <3>2. CASE d # c
      <4>1. PICK u : u = local[d].events /\ u = local'[d].events
        BY <1>2, <3>2
      <4>2. IsChain(u)
        BY <4>1 DEF RegistryInv, Machines, Linked
      <4>3. Begins(u, u)
        BY <4>2, BeginsItself
      <4>4. QED
        BY <1>2, <3>2, <4>1, <4>2, <4>3
    <3>3. QED
      BY <3>1, <3>2
  <2>2. QED
    BY <2>1 DEF Grown
<1>6. \A r \in requests : FitsIn(r)'
  BY <1>1, <1>5, FitsGrows DEF RegistryInv, Requests
<1>7. \A r \in requests : ~ (r.client = q.client /\ r.number = q.number)
  BY <1>2 DEF RegistryInv, Requests, FitsIn
<1>8. \A r \in requests' : r \in requests \/ r = q
  BY <1>1
<1>9. Requests'
  <2>1. \A r, x \in requests' : r.client = x.client /\ r.number = x.number => r = x
    BY <1>7, <1>8 DEF RegistryInv, Requests
  <2>2. \A r \in requests' : FitsIn(r)'
    BY <1>6, <1>8
  <2>3. QED
    BY <2>1, <2>2 DEF Requests
<1>10. Rows' /\ Behind' /\ Known'
  BY <1>1, <1>5, RowsGrow DEF RegistryInv, Behind, Known, Has, events, rows
<1>11. QED
  BY <1>4, <1>9, <1>10 DEF RegistryInv

LEMMA pushKeeps ==
    ASSUME RegistryInv, NEW c \in Clients, push(c)
    PROVE  RegistryInv'
<1>1. PICK k : Send(c, [at |-> "upload", client |-> c, number |-> sent[c] + 1, document |-> local[c], key |-> k])
  BY DEF push
<1>2. PICK q : q = [at |-> "upload", client |-> c, number |-> sent[c] + 1, document |-> local[c], key |-> k]
  OBVIOUS
<1>3. PICK s : s = local[c].events
  OBVIOUS
<1>4. UNCHANGED local /\ Send(c, q)
  BY <1>1, <1>2 DEF push
<1>5. local[c] = Doc(Holds[c], s) /\ Linked(c, sent[c], s) /\ sent[c] \in Nat /\ local = [d \in Clients |-> local[d]]
  BY <1>3 DEF RegistryInv, Machines
<1>6. local' = [local EXCEPT ![c] = Doc(Holds[c], s)]
  BY <1>4, <1>5
<1>7. Linked(c, sent[c] + 1, s) /\ Begins(s, s)
  <2>1. PICK n \in Nat : n = sent[c]
    BY <1>5
  <2>2. n + 1 \in Nat /\ n <= n + 1 /\ Linked(c, n, s)
    BY <1>5, <2>1
  <2>3. Linked(c, n + 1, s)
    BY <2>2, LinkedLater
  <2>4. IsChain(s)
    BY <2>2 DEF Linked
  <2>5. QED
    BY <2>1, <2>3, <2>4, BeginsItself
<1>8. sent'[c] = sent[c] + 1
  BY <1>4 DEF Send, RegistryInv, Machines
<1>9. FitsIn(q)'
  <2>1. q.at = "upload" /\ q.client = c /\ q.number = sent[c] + 1 /\ q.document = Doc(Holds[c], s) /\ q.key = k
    BY <1>2, <1>5
  <2>2. q.document.events = s
    BY <2>1, DocFacts
  <2>3. q = [at |-> "upload", client |-> q.client, number |-> q.number, document |-> q.document, key |-> q.key]
    BY <1>2
  <2>4. q.number \in 1..sent'[c] /\ local'[c].events = s
    BY <1>3, <1>4, <1>5, <1>8, <2>1
  <2>5. QED
    BY <1>7, <2>1, <2>2, <2>3, <2>4 DEF FitsIn
<1>10. q.client = c /\ q.number = sent[c] + 1
  BY <1>2
<1>11. QED
  BY <1>3, <1>4, <1>6, <1>7, <1>9, <1>10, SendKeeps

LEMMA NewEvent ==
    ASSUME NEW p, NEW x, NEW k
    PROVE  \E y : new_event(p, x, k) = [payload |-> x, prev |-> next_prev_hash(p), signature |-> y]
<1>1. PICK e : e = [payload |-> x, prev |-> next_prev_hash(p), signature |-> NONE]
  OBVIOUS
<1>2. PICK y : y = sign(k, event_body(e))
  OBVIOUS
<1>3. new_event(p, x, k) = [e EXCEPT !.signature = y]
  BY <1>1, <1>2 DEF new_event
<1>4. QED
  BY <1>1, <1>3

\* The event is linked to the newest before it, and has a number of its own.
LEMMA LinkedAppend ==
    ASSUME NEW c, NEW n \in Nat, NEW s, Linked(c, n, s), NEW y, NEW e,
           e = [payload |-> <<c, n>>, prev |-> next_prev_hash(Doc(Holds[c], s)), signature |-> y]
    PROVE  Linked(c, n + 1, Append(s, e))
<1>1. PICK t, m : t = Append(s, e) /\ m = Len(s)
  OBVIOUS
<1>2. IsChain(s)
  BY DEF Linked
<1>3. /\ m \in Nat /\ IsChain(t) /\ Len(t) = m + 1 /\ t[m + 1] = e /\ \A i \in 1..m : t[i] = s[i]
  BY <1>1, <1>2, ChainFacts
<1>4. \A i \in 1..(m + 1) : i \in 1..m \/ i = m + 1
  BY <1>3
<1>5. e.prev = IF m = 0 THEN Payload(Holds[c]) ELSE s[m]
  <2>1. Doc(Holds[c], s).events = s /\ signing_payload(Doc(Holds[c], s)) = Payload(Holds[c])
    BY DocFacts
  <2>2. m = 0 <=> s = <<>>
    BY <1>1, <1>2 DEF IsChain
  <2>3. QED
    BY <1>1, <2>1, <2>2 DEF next_prev_hash
<1>6. ASSUME NEW i \in 1..(m + 1)
      PROVE  t[i] = [payload |-> <<c, t[i].payload[2]>>, prev |-> IF i = 1 THEN Payload(Holds[c]) ELSE t[i - 1],
                     signature |-> t[i].signature]
  <2>1. CASE i \in 1..m
    <3>1. i = 1 \/ t[i - 1] = s[i - 1]
      BY <1>3, <2>1
    <3>2. s[i] = [payload |-> <<c, s[i].payload[2]>>, prev |-> IF i = 1 THEN Payload(Holds[c]) ELSE s[i - 1],
                  signature |-> s[i].signature]
      BY <1>1, <2>1 DEF Linked
    <3>3. t[i] = s[i]
      BY <1>3, <2>1
    <3>4. QED
      BY <3>1, <3>2, <3>3
  <2>2. CASE i = m + 1
    <3>1. t[i] = e /\ i - 1 = m /\ (i = 1 <=> m = 0)
      BY <1>3, <2>2
    <3>2. m # 0 => t[m] = s[m]
      BY <1>3
    <3>3. e = [payload |-> <<c, n>>, prev |-> IF i = 1 THEN Payload(Holds[c]) ELSE t[i - 1], signature |-> y]
      BY <1>5, <3>1, <3>2
    <3>4. e.payload[2] = n /\ e.signature = y
      OBVIOUS
    <3>5. QED
      BY <3>1, <3>3, <3>4
  <2>3. QED
    BY <1>4, <2>1, <2>2
<1>7. \A i \in 1..(m + 1) : t[i].payload[2] = IF i = m + 1 THEN n ELSE s[i].payload[2]
  BY <1>3, <1>4
<1>8. \A i \in 1..m : s[i].payload[2] \in Nat /\ s[i].payload[2] < n
  BY <1>1 DEF Linked
<1>9. ASSUME NEW i \in 1..(m + 1) PROVE t[i].payload[2] \in Nat /\ t[i].payload[2] < n + 1
  <2>1. PICK k : k = t[i].payload[2]
    OBVIOUS
  <2>2. k = n \/ (k \in Nat /\ k < n)
    BY <1>4, <1>7, <1>8, <2>1
  <2>3. QED
    BY <2>1, <2>2
<1>10. ASSUME NEW i \in 1..(m + 1), NEW j \in 1..(m + 1), i < j PROVE t[i].payload[2] < t[j].payload[2]
  <2>1. i \in 1..m /\ i # m + 1
    BY <1>3, <1>10
  <2>2. CASE j \in 1..m
    <3>1. s[i].payload[2] < s[j].payload[2]
      BY <1>1, <1>10, <2>1, <2>2 DEF Linked
    <3>2. QED
      BY <1>3, <2>1, <2>2, <3>1
  <2>3. CASE j = m + 1
    BY <1>7, <1>8, <2>1, <2>3
  <2>4. QED
    BY <1>4, <2>2, <2>3
<1>11. QED
  BY <1>1, <1>3, <1>6, <1>9, <1>10 DEF Linked

LEMMA monitorKeeps ==
    ASSUME RegistryInv, NEW c \in Clients, monitor(c)
    PROVE  RegistryInv'
<1>1. PICK s, m, n, id : s = local[c].events /\ m = Len(s) /\ n = sent[c] /\ id = Holds[c]
  OBVIOUS
<1>2. local[c] = Doc(id, s) /\ Linked(c, n, s) /\ n \in Nat /\ IsChain(s)
  BY <1>1 DEF RegistryInv, Machines, Linked
<1>3. PICK e : e = new_event(local[c], <<c, n>>, local[c].key)
  OBVIOUS
<1>4. PICK y : e = [payload |-> <<c, n>>, prev |-> next_prev_hash(Doc(id, s)), signature |-> y]
  BY <1>2, <1>3, NewEvent
<1>5. PICK t : t = Append(s, e)
  OBVIOUS
<1>6. append_event(local[c], <<c, n>>, local[c].key) = Doc(id, t)
  <2>1. PICK d : d = Doc(id, s)
    OBVIOUS
  <2>2. d.events = s /\ [d EXCEPT !.events = t] = Doc(id, t)
    BY <2>1, DocFacts
  <2>3. append_event(d, <<c, n>>, d.key) = [d EXCEPT !.events = t]
    BY <1>2, <1>3, <1>5, <2>1, <2>2 DEF append_event
  <2>4. QED
    BY <1>2, <2>1, <2>2, <2>3
<1>7. m \in Nat /\ IsChain(t) /\ Len(t) = m + 1 /\ t[m + 1] = e /\ \A i \in 1..m : t[i] = s[i]
  <2>1. IsChain(s) /\ m = Len(s)
    BY <1>1, <1>2
  <2>2. QED
    BY <1>5, <2>1, ChainFacts
<1>8. PICK q : q = [at |-> "get", client |-> c, number |-> n + 1, id |-> id, event |-> e]
  OBVIOUS
<1>9. local' = [local EXCEPT ![c] = Doc(id, t)] /\ Send(c, q)
  <2>1. PICK d : d = Doc(id, t)
    OBVIOUS
  <2>2. d.id = id /\ d.events = t
    BY <2>1, DocFacts
  <2>3. local' = [local EXCEPT ![c] = d]
        /\ Send(c, [at |-> "get", client |-> c, number |-> n + 1, id |-> d.id, event |-> d.events[Len(d.events)]])
    BY <1>1, <1>6, <2>1 DEF monitor
  <2>4. QED
    BY <1>7, <1>8, <2>1, <2>2, <2>3
<1>10. Linked(c, n + 1, t)
  BY <1>1, <1>2, <1>4, <1>5, LinkedAppend
<1>11. Begins(s, t)
  BY <1>1, <1>2, <1>5, BeginsItself, BeginsMore
<1>12. \A i \in 1..Len(t) : i \in 1..Len(s) \/ t[i].payload[2] = n
  <2>1. e.payload[2] = n
    BY <1>4
  <2>2. \A i \in 1..(m + 1) : i \in 1..m \/ i = m + 1
    BY <1>7
  <2>3. QED
    BY <1>1, <1>7, <2>1, <2>2
<1>13. sent'[c] = n + 1 /\ local'[c].events = t
  <2>1. local'[c] = Doc(id, t)
    BY <1>9 DEF RegistryInv, Machines
  <2>2. sent'[c] = n + 1
    BY <1>1, <1>9 DEF Send, RegistryInv, Machines
  <2>3. QED
    BY <2>1, <2>2, DocFacts
<1>14. FitsIn(q)'
  <2>1. /\ q.at = "get" /\ q.client = c /\ q.number = n + 1 /\ q.id = id /\ q.event = e
        /\ q = [at |-> "get", client |-> q.client, number |-> q.number, id |-> q.id, event |-> q.event]
    BY <1>8
  <2>2. e.payload[2] = n /\ (n + 1) - 1 = n
    BY <1>2, <1>4
  <2>3. m + 1 \in 1..Len(local'[c].events) /\ q.event = local'[c].events[m + 1]
    BY <1>7, <1>13, <2>1
  <2>4. Carries(q)'
    BY <1>1, <2>1, <2>2, <2>3 DEF Carries
  <2>5. q.number \in 1..sent'[c]
    BY <1>2, <1>13, <2>1
  <2>6. QED
    BY <2>1, <2>4, <2>5 DEF FitsIn
<1>15. q.client = c /\ q.number = n + 1
  BY <1>8
<1>16. QED
  BY <1>1, <1>9, <1>10, <1>11, <1>12, <1>14, <1>15, SendKeeps

-----------------------------------------------------------------------------
(* The server. *)

LEMMA NumbersDiffer ==
    ASSUME NEW c, NEW n \in Nat, NEW s, Linked(c, n, s)
    PROVE  /\ \A i \in 1..Len(s) : s[i] # Payload(Holds[c])
           /\ \A i, j \in 1..Len(s) : s[i] = s[j] => i = j
<1>1. ASSUME NEW i \in 1..Len(s) PROVE s[i] # Payload(Holds[c])
  <2>1. s[i] = [payload |-> <<c, s[i].payload[2]>>, prev |-> IF i = 1 THEN Payload(Holds[c]) ELSE s[i - 1],
                signature |-> s[i].signature]
    BY DEF Linked
  <2>2. DOMAIN s[i] = {"payload", "prev", "signature"}
    BY <2>1
  <2>3. "key" \in DOMAIN Payload(Holds[c])
    BY BuiltFacts
  <2>4. QED
    BY <2>2, <2>3
<1>2. ASSUME NEW i \in 1..Len(s), NEW j \in 1..Len(s), s[i] = s[j] PROVE i = j
  <2>1. Len(s) \in Nat
    BY ChainFacts DEF Linked
  <2>2. i \in Nat /\ j \in Nat
    BY <2>1
  <2>3. PICK k : k = s[i].payload[2] /\ k = s[j].payload[2]
    BY <1>2
  <2>4. k \in Nat
    BY <2>3 DEF Linked
  <2>5. (i < j \/ j < i) => k < k
    BY <2>3 DEF Linked
  <2>6. QED
    BY <2>2, <2>4, <2>5
<1>3. QED
  BY <1>1, <1>2

LEMMA AcceptedLinks ==
    ASSUME NEW d, NEW k, verify_events(d, k) = {}, NEW i \in 1..Len(d.events)
    PROVE  d.events[i].prev = IF i = 1 THEN signing_payload(d) ELSE d.events[i - 1]
BY DEF verify_events

\* What the registry accepts after the events p is the next one.
LEMMA AcceptedIsNext ==
    ASSUME NEW c, NEW n \in Nat, NEW s, Linked(c, n, s), NEW p, Begins(p, s), NEW i \in 1..Len(s), NEW k,
           verify_events(Doc(Holds[c], Append(p, s[i])), k) = {}
    PROVE  i = Len(p) + 1
<1>1. PICK e, q, m, d : e = s[i] /\ q = Append(p, e) /\ m = Len(p) /\ d = Doc(Holds[c], q)
  OBVIOUS
<1>2. IsChain(p) /\ IsChain(s) /\ m <= Len(s) /\ \A j \in 1..m : p[j] = s[j]
  BY <1>1 DEF Begins, Linked
<1>3. m \in Nat /\ Len(s) \in Nat
  BY <1>1, <1>2, ChainFacts
<1>4. Len(q) = m + 1 /\ q[m + 1] = e /\ \A j \in 1..m : q[j] = p[j]
  BY <1>1, <1>2, ChainFacts
<1>5. d.events = q /\ signing_payload(d) = Payload(Holds[c])
  <2>1. Doc(Holds[c], q).events = q /\ signing_payload(Doc(Holds[c], q)) = Payload(Holds[c])
    BY DocFacts
  <2>2. QED
    BY <1>1, <2>1
<1>6. verify_events(d, k) = {}
  BY <1>1
<1>7. PICK l : l = m + 1
  OBVIOUS
<1>8. d.events[l].prev = IF l = 1 THEN signing_payload(d) ELSE d.events[l - 1]
  <2>1. l \in 1..Len(d.events)
    BY <1>3, <1>4, <1>5, <1>7
  <2>2. QED
    BY <1>6, <2>1, AcceptedLinks
<1>9. e.prev = IF m = 0 THEN Payload(Holds[c]) ELSE s[m]
  <2>1. q[l] = e
    BY <1>4, <1>7
  <2>2. CASE m = 0
    <3>1. l = 1
      BY <1>7, <2>2
    <3>2. QED
      BY <1>5, <1>8, <2>1, <2>2, <3>1
  <2>3. CASE m # 0
    <3>1. l # 1 /\ l - 1 = m /\ m \in 1..m
      BY <1>3, <1>7, <2>3
    <3>2. q[m] = s[m]
      BY <1>2, <1>4, <3>1
    <3>3. QED
      BY <1>5, <1>8, <2>1, <2>3, <3>1, <3>2
  <2>4. QED
    BY <2>2, <2>3
<1>10. e.prev = IF i = 1 THEN Payload(Holds[c]) ELSE s[i - 1]
  <2>1. s[i] = [payload |-> <<c, s[i].payload[2]>>, prev |-> IF i = 1 THEN Payload(Holds[c]) ELSE s[i - 1],
                signature |-> s[i].signature]
    BY DEF Linked
  <2>2. QED
    BY <1>1, <2>1
<1>11. /\ \A j \in 1..Len(s) : s[j] # Payload(Holds[c])
       /\ \A j, h \in 1..Len(s) : s[j] = s[h] => j = h
  BY NumbersDiffer
<1>12. i # 1 => i - 1 \in 1..Len(s)
  BY <1>3
<1>13. CASE m = 0
  BY <1>1, <1>9, <1>10, <1>11, <1>12, <1>13
<1>14. CASE m # 0
  <2>1. m \in 1..Len(s)
    BY <1>2, <1>3, <1>14
  <2>2. i # 1
    BY <1>9, <1>10, <1>11, <1>14, <2>1
  <2>3. m = i - 1
    BY <1>9, <1>10, <1>11, <1>12, <1>14, <2>1, <2>2
  <2>4. QED
    BY <1>1, <1>3, <2>3
<1>15. QED
  BY <1>13, <1>14

\* Whoever writes a passport knows the row of it.
LEMMA EntryOf ==
    ASSUME NEW table, Table(table), OneWriter, NEW c \in Clients, table[Holds[c]] # NONE
    PROVE  Entry(c, local[c].events, table[Holds[c]])
<1>1. Holds[c] \in Ids
  BY ClientsAssumption
<1>2. PICK d \in Clients : Holds[d] = Holds[c] /\ Entry(d, local[d].events, table[Holds[c]])
  BY <1>1 DEF Table
<1>3. d = c
  BY <1>2 DEF OneWriter
<1>4. QED
  BY <1>2, <1>3

\* The events of a row are a chain.
LEMMA RowChain ==
    ASSUME NEW table, Table(table), NEW id \in Ids, table[id] # NONE
    PROVE  IsChain(table[id].document.events)
BY DEF Table, Entry, Begins

LEMMA AnswerFacts ==
    ASSUME Machines, NEW r, NEW known, Answer(r, known)
    PROVE  /\ Machines' /\ UNCHANGED <<local, sent>> /\ requests' = requests \ {r} /\ acked' \subseteq acked \cup known
<1>1. UNCHANGED <<local, sent>> /\ requests' = requests \ {r} /\ acked' \subseteq acked \cup known
  BY DEF Answer
<1>2. awaited' = awaited \/ awaited' = [awaited EXCEPT ![r.client] = 0]
  BY DEF Answer
<1>3. awaited' = [c \in Clients |-> awaited'[c]] /\ \A c \in Clients : awaited'[c] = awaited[c] \/ awaited'[c] = 0
  BY <1>2 DEF Machines
<1>4. \A c \in Clients : awaited'[c] \in 0..sent[c]
  BY <1>3 DEF Machines
<1>5. QED
  BY <1>1, <1>3, <1>4 DEF Machines

\* What is in the beginning of a chain is in the chain.
LEMMA EventsGrow ==
    ASSUME NEW x, NEW y, Begins(x.events, y.events), IsChain(y.events), NEW id, NEW a \in events(id, x)
    PROVE  a \in events(id, y)
<1>1. PICK s, t : s = x.events /\ t = y.events
  OBVIOUS
<1>2. PICK i \in DOMAIN s : a = <<id, s[i]>>
  BY <1>1 DEF events
<1>3. Begins(s, t) /\ IsChain(s) /\ IsChain(t)
  BY <1>1 DEF Begins
<1>4. Len(s) \in Nat /\ Len(t) \in Nat /\ DOMAIN s = 1..Len(s) /\ DOMAIN t = 1..Len(t)
  BY <1>3, ChainFacts
<1>5. i \in DOMAIN t /\ s[i] = t[i]
  BY <1>2, <1>3, <1>4 DEF Begins
<1>6. QED
  BY <1>1, <1>2, <1>5 DEF events

\* What the connection shows of the passports that no rollback has touched
\* only grows.
ViewGrows ==
    /\ rolled \subseteq rolled'
    /\ \A id \in Ids : id \notin rolled' /\ view[id] # NONE =>
          /\ view'[id] # NONE /\ IsChain(view'[id].document.events)
          /\ Begins(view[id].document.events, view'[id].document.events)

LEMMA HasGrows ==
    ASSUME ViewGrows, NEW a, a[1] \in Ids, a[1] \notin rolled', Has(view, a)
    PROVE  Has(view, a)'
<1>1. PICK id, x, y : id = a[1] /\ x = view[id].document /\ y = view'[id].document
  OBVIOUS
<1>2. view'[id] # NONE /\ IsChain(y.events) /\ Begins(x.events, y.events) /\ a \in events(id, x)
  BY <1>1 DEF ViewGrows, Has
<1>3. a \in events(id, y)
  BY <1>2, EventsGrow
<1>4. QED
  BY <1>1, <1>2, <1>3 DEF Has, events

\* Of the passports that no rollback has touched the connection shows the same.
LEMMA SameGrows ==
    ASSUME RegistryInv, rolled \subseteq rolled', \A id \in Ids : id \notin rolled' => view'[id] = view[id]
    PROVE  ViewGrows
<1>1. ASSUME NEW id \in Ids, id \notin rolled', view[id] # NONE
      PROVE  /\ view'[id] # NONE /\ IsChain(view'[id].document.events)
             /\ Begins(view[id].document.events, view'[id].document.events)
  <2>1. view'[id] = view[id]
    BY <1>1
  <2>2. IsChain(view[id].document.events)
    BY <1>1, RowChain DEF RegistryInv, Rows
  <2>3. QED
    BY <1>1, <2>1, <2>2, BeginsItself
<1>2. QED
  BY <1>1 DEF ViewGrows

LEMMA FitsStays ==
    ASSUME NEW q, FitsIn(q), UNCHANGED <<local, sent>>, ViewGrows,
           q.at = "append" /\ q.id \notin rolled' => NotYet(q)'
    PROVE  FitsIn(q)'
<1>1. q.client \in Clients /\ (Carries(q) => Carries(q)')
  BY DEF FitsIn, Carries
<1>2. rolled \subseteq rolled'
  BY DEF ViewGrows
<1>3. CASE q.at \in {"upload", "get", "failed"}
  BY <1>1, <1>3 DEF FitsIn
<1>4. CASE q.at = "append"
  <2>1. Carries(q) /\ (q.id \notin rolled => view[q.id] # NONE)
    BY <1>4 DEF FitsIn
  <2>2. q.id \in Ids
    BY <1>1, <2>1, ClientsAssumption DEF Carries
  <2>3. q.id \notin rolled' => view'[q.id] # NONE /\ NotYet(q)'
    BY <1>2, <1>4, <2>1, <2>2 DEF ViewGrows
  <2>4. QED
    BY <1>1, <1>4, <2>3 DEF FitsIn
<1>5. CASE q.at \in {"inserted", "updated"}
  <2>1. q.id = Holds[q.client] /\ Says(q)
    BY <1>5 DEF FitsIn
  <2>2. q.id \in Ids
    BY <1>1, <2>1, ClientsAssumption
  <2>3. \A a \in q.known : a[1] = q.id /\ (q.id \notin rolled' => Has(view, a)')
    BY <1>2, <2>1, <2>2, HasGrows DEF Says
  <2>4. Says(q)'
    BY <2>3 DEF Says, Has, events
  <2>5. QED
    BY <1>1, <1>5, <2>1, <2>4 DEF FitsIn
<1>6. QED
  BY <1>3, <1>4, <1>5 DEF FitsIn

LEMMA BehindStays ==
    ASSUME RegistryInv, ViewGrows, UNCHANGED store
    PROVE  Behind'
<1>1. ASSUME NEW id \in Ids, id \notin rolled', store[id] # NONE
      PROVE  view'[id] # NONE /\ Begins(store[id].document.events, view'[id].document.events)
  <2>1. PICK s, t, u : s = store[id].document.events /\ t = view[id].document.events /\ u = view'[id].document.events
    OBVIOUS
  <2>2. view[id] # NONE /\ Begins(s, t)
    BY <1>1, <2>1 DEF RegistryInv, Behind, ViewGrows
  <2>3. view'[id] # NONE /\ Begins(t, u) /\ IsChain(u)
    BY <1>1, <2>1, <2>2 DEF ViewGrows
  <2>4. Begins(s, u)
    BY <2>2, <2>3, BeginsTrans
  <2>5. QED
    BY <2>1, <2>3, <2>4
<1>2. QED
  BY <1>1 DEF Behind

\* An answer to r that says nothing new, while the connection shows the same.
LEMMA RefusedKeeps ==
    ASSUME RegistryInv, NEW r, Answer(r, {}), UNCHANGED rows
    PROVE  RegistryInv'
<1>1. Machines' /\ UNCHANGED <<local, sent>> /\ requests' = requests \ {r} /\ acked' \subseteq acked
  BY AnswerFacts DEF RegistryInv
<1>2. store' = store /\ view' = view /\ rolled' = rolled
  BY DEF rows
<1>3. ViewGrows
  BY <1>2, SameGrows
<1>4. ASSUME NEW q \in requests' PROVE FitsIn(q)'
  <2>1. FitsIn(q) /\ NotYet(q)' = NotYet(q)
    BY <1>1, <1>2 DEF RegistryInv, Requests, NotYet
  <2>2. QED
    BY <1>1, <1>2, <1>3, <2>1, FitsStays DEF FitsIn
<1>5. Requests'
  BY <1>1, <1>4 DEF RegistryInv, Requests
<1>6. Rows' /\ Known'
  BY <1>1, <1>2 DEF RegistryInv, Rows, Table, Known, Has, events
<1>7. Behind'
  BY <1>2, <1>3, BehindStays
<1>8. QED
  BY <1>1, <1>5, <1>6, <1>7 DEF RegistryInv

\* The request r goes on as q.
LEMMA GoesOnKeeps ==
    ASSUME RegistryInv, NEW r \in requests, NEW q, GoesOn(r, q), UNCHANGED <<store, rolled>>,
           q.client = r.client, q.number = r.number, FitsIn(q)', ViewGrows, Rows',
           \A y \in requests \ {r} : y.at = "append" /\ y.id \notin rolled => NotYet(y)'
    PROVE  RegistryInv'
<1>1. requests' = (requests \ {r}) \cup {q} /\ UNCHANGED <<local, awaited, sent, acked>>
  BY DEF GoesOn
<1>2. Machines' /\ Known'
  BY <1>1 DEF RegistryInv, Machines, Known, Has, events
<1>3. \A y \in requests' : y = q \/ (y \in requests /\ y # r)
  BY <1>1
<1>4. ASSUME NEW y \in requests, y # r PROVE FitsIn(y)'
  <2>1. FitsIn(y) /\ (y.at = "append" /\ y.id \notin rolled' => NotYet(y)')
    BY <1>4 DEF RegistryInv, Requests
  <2>2. QED
    BY <1>1, <2>1, FitsStays
<1>5. \A y \in requests : y # r => ~ (y.client = q.client /\ y.number = q.number)
  BY DEF RegistryInv, Requests
<1>6. \A x, y \in requests' : x.client = y.client /\ x.number = y.number => x = y
  BY <1>3, <1>5 DEF RegistryInv, Requests
<1>7. Requests'
  BY <1>3, <1>4, <1>6 DEF Requests
<1>8. QED
  BY <1>2, <1>7, BehindStays DEF RegistryInv

\* The same, when nothing is written.
LEMMA WaitsKeeps ==
    ASSUME RegistryInv, NEW r \in requests, NEW q, GoesOn(r, q), UNCHANGED rows,
           q.client = r.client, q.number = r.number, FitsIn(q)
    PROVE  RegistryInv'
<1>1. store' = store /\ view' = view /\ rolled' = rolled /\ UNCHANGED <<local, sent>>
  BY DEF rows, GoesOn
<1>2. ViewGrows
  BY <1>1, SameGrows
<1>3. ASSUME NEW y, FitsIn(y) PROVE y.at = "append" /\ y.id \notin rolled => NotYet(y)'
  <2>1. NotYet(y)' = NotYet(y)
    BY <1>1 DEF NotYet
  <2>2. QED
    BY <1>3, <2>1 DEF FitsIn
<1>4. FitsIn(q)'
  BY <1>1, <1>2, <1>3, FitsStays
<1>5. \A y \in requests \ {r} : y.at = "append" /\ y.id \notin rolled => NotYet(y)'
  BY <1>3 DEF RegistryInv, Requests
<1>6. Rows'
  BY <1>1 DEF RegistryInv, Rows, Table
<1>7. QED
  BY <1>1, <1>2, <1>4, <1>5, <1>6, GoesOnKeeps

\* The row of a passport is written by its machine's request r: other requests
\* that have read it know what r does, and what was acknowledged is kept.
LEMMA WrittenKeeps ==
    ASSUME RegistryInv, NEW c \in Clients, NEW r \in requests, r.client = c, NEW x, NEW known,
           NEW at \in {"inserted", "updated"},
           GoesOn(r, Wrote(r, at, Holds[c], known)), UNCHANGED <<store, rolled>>,
           view' = [view EXCEPT ![Holds[c]] = x], Entry(c, local[c].events, x), x # NONE,
           \A a \in known : a[1] = Holds[c] /\ a \in events(Holds[c], x.document),
           Holds[c] \notin rolled /\ view[Holds[c]] # NONE => Begins(view[Holds[c]].document.events, x.document.events),
           \A q \in requests \ {r} : q.at = "append" /\ q.id = Holds[c] /\ q.id \notin rolled => NotYet(q)'
    PROVE  RegistryInv'
<1>1. PICK id : id = Holds[c] /\ id \in Ids
  BY ClientsAssumption
<1>2. UNCHANGED <<local, sent>>
  BY DEF GoesOn
<1>3. view'[id] = x /\ (\A y \in Ids : y # id => view'[y] = view[y]) /\ view' = [y \in Ids |-> view'[y]]
  BY <1>1 DEF RegistryInv, Rows, Table
<1>4. Rows'
  <2>1. ASSUME NEW y \in Ids, view'[y] # NONE
        PROVE  \E d \in Clients : Holds[d] = y /\ Entry(d, local'[d].events, view'[y])
    <3>1. CASE y = id
      BY <1>1, <1>2, <1>3, <3>1
    <3>2. CASE y # id
      BY <1>2, <1>3, <2>1, <3>2 DEF RegistryInv, Rows, Table
    <3>3. QED
      BY <3>1, <3>2
  <2>2. Table(view)'
    BY <1>3, <2>1 DEF Table
  <2>3. Table(store)'
    BY <1>2 DEF RegistryInv, Rows, Table
  <2>4. QED
    BY <2>2, <2>3 DEF Rows
<1>5. ViewGrows
  <2>1. ASSUME NEW y \in Ids, y \notin rolled, view[y] # NONE
        PROVE  /\ view'[y] # NONE /\ IsChain(view'[y].document.events)
               /\ Begins(view[y].document.events, view'[y].document.events)
    <3>1. CASE y = id
      BY <1>1, <1>3, <2>1, <3>1 DEF Entry, Begins
    <3>2. CASE y # id
      <4>1. IsChain(view[y].document.events)
        BY <2>1, RowChain DEF RegistryInv, Rows
      <4>2. QED
        BY <1>3, <2>1, <3>2, <4>1, BeginsItself
    <3>3. QED
      BY <3>1, <3>2
  <2>2. QED
    BY <2>1 DEF ViewGrows
<1>6. PICK q : q = Wrote(r, at, id, known)
  OBVIOUS
<1>7. q.at = at /\ q.client = c /\ q.number = r.number /\ q.id = id /\ q.known = known
  BY <1>6 DEF Wrote
<1>8. FitsIn(q)'
  <2>1. r.number \in 1..sent'[c]
    BY <1>2 DEF RegistryInv, Requests, FitsIn
  <2>2. Says(q)'
    BY <1>1, <1>3, <1>7 DEF Says, Has, events
  <2>3. QED
    BY <1>1, <1>7, <2>1, <2>2 DEF FitsIn
<1>9. ASSUME NEW y \in requests \ {r}, y.at = "append", y.id \notin rolled PROVE NotYet(y)'
  <2>1. CASE y.id = id
    BY <1>1, <1>9, <2>1
  <2>2. CASE y.id # id
    <3>1. y.id \in Ids /\ NotYet(y)
      BY <1>9, ClientsAssumption DEF RegistryInv, Requests, FitsIn, Carries
    <3>2. view'[y.id] = view[y.id]
      BY <1>3, <2>2, <3>1
    <3>3. QED
      BY <1>2, <3>1, <3>2 DEF NotYet
  <2>3. QED
    BY <2>1, <2>2
<1>10. GoesOn(r, q)
  BY <1>1, <1>6
<1>11. QED
  BY <1>4, <1>5, <1>7, <1>8, <1>9, <1>10, GoesOnKeeps

LEMMA uploadKeeps ==
    ASSUME RegistryInv, NoneIsNoRow, NEW r \in requests, upload(r)
    PROVE  RegistryInv'
<1>1. r.at = "upload" /\ FitsIn(r) /\ UNCHANGED <<store, rolled>>
  BY DEF upload, RegistryInv, Requests
<1>2. PICK c, s, id, d : c = r.client /\ s = r.document.events /\ id = Holds[c] /\ d = r.document
  OBVIOUS
<1>3. c \in Clients /\ d = Doc(id, s) /\ Begins(s, local[c].events)
  BY <1>1, <1>2 DEF FitsIn
<1>4. d.id = id /\ d.key = Key[id] /\ d.events = s
  BY <1>3, DocFacts
<1>5. CASE verify_document(d, r.key) /\ view[id] = NONE
  <2>1. r.key = Key[id] /\ verify_events(d, r.key) = {}
    BY <1>4, <1>5 DEF verify_document
  <2>2. PICK x : x = [document |-> d, key |-> r.key]
    OBVIOUS
  <2>3. x.document = d /\ x.key = Key[id] /\ x = [document |-> Doc(id, s), key |-> Key[id]] /\ x # NONE
    BY <1>3, <2>1, <2>2 DEF NoneIsNoRow
  <2>4. Entry(c, local[c].events, x)
    BY <1>2, <1>3, <1>4, <2>1, <2>3 DEF Entry
  <2>5. PICK known : known = events(id, d)
    OBVIOUS
  <2>6. view' = [view EXCEPT ![id] = x] /\ GoesOn(r, Wrote(r, "inserted", id, known))
    BY <1>2, <1>4, <1>5, <2>2, <2>5 DEF upload
  <2>7. \A a \in known : a[1] = id /\ a \in events(id, x.document)
    BY <2>3, <2>5 DEF events
  <2>8. ASSUME NEW q \in requests \ {r}, q.at = "append", q.id = id, q.id \notin rolled PROVE NotYet(q)'
    <3>1. view[id] # NONE
      BY <2>8 DEF RegistryInv, Requests, FitsIn
    <3>2. QED
      BY <1>5, <3>1
  <2>9. QED
    BY <1>1, <1>2, <1>3, <1>5, <2>3, <2>4, <2>6, <2>7, <2>8, WrittenKeeps
<1>6. CASE ~ verify_document(d, r.key)
  <2>1. Answer(r, {}) /\ UNCHANGED rows
    BY <1>1, <1>2, <1>6 DEF upload, rows
  <2>2. QED
    BY <2>1, RefusedKeeps
<1>7. CASE verify_document(d, r.key) /\ view[id] # NONE
  <2>1. PICK q : q = Wrote(r, "failed", id, {})
    OBVIOUS
  <2>2. GoesOn(r, q) /\ UNCHANGED rows
    BY <1>1, <1>2, <1>4, <1>7, <2>1 DEF upload, rows
  <2>3. q.at = "failed" /\ q.client = r.client /\ q.number = r.number
    BY <2>1 DEF Wrote
  <2>4. FitsIn(q)
    BY <1>1, <2>3 DEF FitsIn
  <2>5. QED
    BY <2>2, <2>3, <2>4, WaitsKeeps
<1>8. QED
  BY <1>5, <1>6, <1>7

LEMMA get_storedKeeps ==
    ASSUME RegistryInv, OneWriter, NEW r \in requests, get_stored(r)
    PROVE  RegistryInv'
<1>1. r.at = "get" /\ FitsIn(r) /\ UNCHANGED rows
  BY DEF get_stored, RegistryInv, Requests
<1>2. PICK c, q : c = r.client /\ q = Read(r)
  OBVIOUS
<1>3. c \in Clients /\ Carries(r) /\ r.id = Holds[c] /\ r.number \in 1..sent[c]
  BY <1>1, <1>2 DEF FitsIn, Carries
<1>4. CASE view[r.id] = NONE
  BY <1>1, <1>4, RefusedKeeps DEF get_stored
<1>5. CASE view[r.id] # NONE
  <2>1. GoesOn(r, q)
    BY <1>2, <1>5 DEF get_stored
  <2>2. q = [at |-> "append", client |-> c, number |-> r.number, id |-> r.id, event |-> r.event, stored |-> view[r.id]]
    BY <1>2 DEF Read
  <2>3. /\ q.at = "append" /\ q.client = c /\ q.number = r.number /\ q.id = r.id /\ q.event = r.event
        /\ q.stored = view[r.id]
        /\ q = [at |-> "append", client |-> q.client, number |-> q.number, id |-> q.id, event |-> q.event,
                stored |-> q.stored]
    BY <2>2
  <2>4. Entry(c, local[c].events, q.stored)
    BY <1>3, <1>5, <2>3, EntryOf DEF RegistryInv, Rows
  <2>5. Carries(q)
    BY <1>2, <1>3, <2>3 DEF Carries
  <2>6. NotYet(q)
    BY <2>3 DEF NotYet
  <2>7. FitsIn(q)
    BY <1>3, <1>5, <2>3, <2>4, <2>5, <2>6 DEF FitsIn
  <2>8. QED
    BY <1>1, <1>2, <2>1, <2>3, <2>7, WaitsKeeps
<1>6. QED
  BY <1>4, <1>5

\* Two requests do not carry the same event.
LEMMA append_storedKeeps ==
    ASSUME RegistryInv, OneWriter, NoneIsNoRow, NEW r \in requests, append_stored(r)
    PROVE  RegistryInv'
<1>1. r.at = "append" /\ FitsIn(r) /\ UNCHANGED <<store, rolled>>
  BY DEF append_stored, RegistryInv, Requests
<1>2. PICK c, id, e, t, n, k : c = r.client /\ id = Holds[c] /\ e = r.event /\ t = local[c].events /\ n = sent[c] /\ k = Key[id]
  OBVIOUS
<1>3. PICK old, p, m : old = r.stored /\ p = old.document.events /\ m = Len(p)
  OBVIOUS
<1>4. c \in Clients /\ Carries(r) /\ r.id = id /\ Entry(c, t, old) /\ (id \notin rolled => view[id] # NONE /\ NotYet(r))
      /\ e.payload[2] = r.number - 1 /\ r.number \in 1..n
  BY <1>1, <1>2, <1>3 DEF FitsIn, Carries
<1>5. Linked(c, n, t) /\ n \in Nat /\ IsChain(t) /\ id \in Ids
  <2>1. Linked(c, sent[c], local[c].events) /\ sent[c] \in Nat
    BY <1>4 DEF RegistryInv, Machines
  <2>2. Linked(c, n, t)
    BY <1>2, <2>1
  <2>3. IsChain(t)
    BY <2>2 DEF Linked
  <2>4. QED
    BY <1>2, <1>4, <2>1, <2>2, <2>3, ClientsAssumption
<1>6. old = [document |-> Doc(id, p), key |-> k] /\ Begins(p, t) /\ IsChain(p) /\ m \in Nat
  BY <1>2, <1>3, <1>4, ChainFacts DEF Entry, Begins
<1>7. PICK d, u : d = Doc(id, u) /\ u = Append(p, e)
  OBVIOUS
<1>8. [old.document EXCEPT !.events = Append(@, e)] = d
  <2>1. PICK b : b = Doc(id, p)
    OBVIOUS
  <2>2. b.events = p /\ [b EXCEPT !.events = u] = Doc(id, u)
    BY <2>1, DocFacts
  <2>3. old.document = b
    BY <1>6, <2>1
  <2>4. QED
    BY <1>7, <2>2, <2>3
<1>9. old.key = k
  BY <1>6
<1>10. PICK known : known = {<<id, e>>}
  OBVIOUS
<1>11. CASE verify_events(d, k) = {}
  <2>1. PICK i \in 1..Len(t) : e = t[i]
    BY <1>2, <1>4 DEF Carries
  <2>2. i = m + 1
    <3>1. verify_events(Doc(Holds[c], Append(p, t[i])), k) = {}
      BY <1>2, <1>7, <1>11, <2>1
    <3>2. Linked(c, n, t) /\ n \in Nat /\ Begins(p, t)
      BY <1>5, <1>6
    <3>3. i = Len(p) + 1
      BY <3>1, <3>2, AcceptedIsNext
    <3>4. QED
      BY <1>3, <3>3
  <2>3. m < Len(t) /\ m + 1 <= Len(t)
    <3>1. Len(t) \in Nat
      BY <1>5, ChainFacts
    <3>2. QED
      BY <1>6, <2>1, <2>2, <3>1
  <2>4. replace_document(r, d)
    BY <1>2, <1>3, <1>8, <1>9, <1>11 DEF append_stored
  <2>5. GoesOn(r, Wrote(r, "updated", id, known))
    BY <1>2, <1>4, <1>10, <2>4 DEF replace_document
  <2>6. CASE view[id] = NONE
    <3>1. UNCHANGED rows /\ id \in rolled
      BY <1>1, <1>4, <2>4, <2>6 DEF replace_document, rows
    <3>2. PICK q : q = Wrote(r, "updated", id, known)
      OBVIOUS
    <3>3. q.at = "updated" /\ q.client = r.client /\ q.number = r.number /\ q.id = id /\ q.known = known
      BY <3>2 DEF Wrote
    <3>4. FitsIn(q)
      BY <1>1, <1>2, <1>10, <3>1, <3>3 DEF FitsIn, Says
    <3>5. QED
      BY <2>5, <3>1, <3>2, <3>3, <3>4, WaitsKeeps
  <2>7. CASE view[id] # NONE
    <3>1. PICK row, s : row = view[id] /\ s = row.document.events
      OBVIOUS
    <3>2. id \notin rolled => Len(s) = m
      BY <1>2, <1>3, <1>4, <2>1, <2>2, <2>3, <3>1 DEF NotYet
    <3>3. Begins(u, t)
      BY <1>3, <1>5, <1>6, <1>7, <2>1, <2>2, <2>3, BeginsMore
    <3>4. row = [document |-> Doc(id, s), key |-> k] /\ Begins(s, t)
      <4>1. Table(view) /\ view[Holds[c]] # NONE /\ c \in Clients
        BY <1>2, <1>4, <2>7 DEF RegistryInv, Rows
      <4>2. Entry(c, local[c].events, view[Holds[c]])
        BY <4>1, EntryOf
      <4>3. QED
        BY <1>2, <3>1, <4>2 DEF Entry
    <3>5. PICK x : x = [document |-> d, key |-> k]
      OBVIOUS
    <3>6. view' = [view EXCEPT ![id] = x]
      <4>1. view' = [view EXCEPT ![id].document = d]
        BY <1>4, <2>4, <2>7 DEF replace_document
      <4>2. [row EXCEPT !.document = d] = x
        BY <3>4, <3>5
      <4>3. QED
        BY <3>1, <4>1, <4>2
    <3>7. d.events = u
      <4>1. Doc(id, u).events = u
        BY DocFacts
      <4>2. QED
        BY <1>7, <4>1
    <3>8. x.document = d /\ x.key = k /\ x # NONE
      BY <3>5 DEF NoneIsNoRow
    <3>9. Entry(c, t, x)
      <4>1. x.document.events = u /\ x = [document |-> Doc(id, u), key |-> k]
        BY <1>7, <3>5, <3>7, <3>8
      <4>2. QED
        BY <1>2, <1>11, <3>3, <3>8, <4>1 DEF Entry
    <3>10. Len(u) = m + 1 /\ u[m + 1] = e /\ DOMAIN u = 1..Len(u) /\ \A j \in 1..m : u[j] = p[j]
      <4>1. IsChain(u)
        BY <3>3 DEF Begins
      <4>2. DOMAIN u = 1..Len(u)
        BY <4>1, ChainFacts
      <4>3. IsChain(p)
        BY <1>6
      <4>4. Len(Append(p, e)) = Len(p) + 1 /\ Append(p, e)[Len(p) + 1] = e /\ \A j \in 1..Len(p) : Append(p, e)[j] = p[j]
        BY <4>3, ChainFacts
      <4>5. QED
        BY <1>3, <1>7, <4>2, <4>4
    <3>11. id \notin rolled => Begins(s, u)
      <4>1. SUFFICES ASSUME id \notin rolled PROVE Begins(s, u)
        OBVIOUS
      <4>2. Len(s) = m
        BY <3>2, <4>1
      <4>3. IsChain(s) /\ (\A j \in 1..m : s[j] = t[j]) /\ (\A j \in 1..m : p[j] = t[j])
        BY <1>3, <1>6, <3>4, <4>2 DEF Begins
      <4>4. Len(s) <= Len(u) /\ \A j \in 1..Len(s) : s[j] = u[j]
        BY <1>6, <3>10, <4>2, <4>3
      <4>5. QED
        BY <4>3, <4>4 DEF Begins
    <3>12. \A a \in known : a[1] = id /\ a \in events(id, d)
      <4>1. m + 1 \in DOMAIN u
        BY <1>6, <3>10
      <4>2. <<id, e>> \in events(id, d)
        BY <3>7, <3>10, <4>1 DEF events
      <4>3. QED
        BY <1>10, <4>2
    <3>13. ASSUME NEW q \in requests \ {r}, q.at = "append", q.id = id, id \notin rolled PROVE NotYet(q)'
      <4>1. FitsIn(q) /\ NotYet(q) /\ Carries(q) /\ q.client \in Clients
        BY <3>13 DEF RegistryInv, Requests, FitsIn
      <4>2. q.client = c
        BY <1>2, <1>4, <3>13, <4>1 DEF OneWriter, Carries
      <4>3. PICK l, v : v = q.stored.document.events /\ l = Len(v)
        OBVIOUS
      <4>4. l \in Nat /\ q.number \in 1..n /\ q.event.payload[2] = q.number - 1
        <5>1. Entry(q.client, local[q.client].events, q.stored)
          BY <3>13, <4>1 DEF FitsIn
        <5>2. IsChain(v)
          BY <4>3, <5>1 DEF Entry, Begins
        <5>3. QED
          BY <1>2, <4>1, <4>2, <4>3, <5>2, ChainFacts DEF FitsIn, Carries
      <4>5. ~ (l + 1 <= Len(t) /\ q.event = t[l + 1])
        <5>1. SUFFICES ASSUME l + 1 <= Len(t), q.event = t[l + 1] PROVE FALSE
          OBVIOUS
        <5>2. Len(s) = l
          BY <1>2, <3>1, <3>13, <4>1, <4>2, <4>3, <5>1 DEF NotYet
        <5>3. q.event = e
          BY <2>1, <2>2, <3>2, <3>13, <5>1, <5>2
        <5>4. q.number = r.number
          BY <1>4, <1>5, <4>4, <5>3
        <5>5. q = r
          BY <1>2, <3>13, <4>2, <5>4 DEF RegistryInv, Requests
        <5>6. QED
          BY <3>13, <5>5
      <4>6. UNCHANGED local
        BY <2>5 DEF GoesOn
      <4>7. QED
        BY <1>2, <4>2, <4>3, <4>5, <4>6 DEF NotYet
    <3>14. QED
      <4>1. Holds[c] \notin rolled /\ view[Holds[c]] # NONE => Begins(view[Holds[c]].document.events, x.document.events)
        BY <1>2, <3>1, <3>7, <3>8, <3>11
      <4>2. \A a \in known : a[1] = Holds[c] /\ a \in events(Holds[c], x.document)
        BY <1>2, <3>8, <3>12
      <4>3. \A q \in requests \ {r} : q.at = "append" /\ q.id = Holds[c] /\ q.id \notin rolled => NotYet(q)'
        BY <1>2, <3>13
      <4>4. /\ view' = [view EXCEPT ![Holds[c]] = x] /\ GoesOn(r, Wrote(r, "updated", Holds[c], known))
            /\ Entry(c, local[c].events, x) /\ x # NONE /\ c \in Clients /\ r.client = c
        BY <1>2, <1>4, <2>5, <3>6, <3>8, <3>9
      <4>5. QED
        BY <1>1, <4>1, <4>2, <4>3, <4>4, WrittenKeeps
  <2>8. QED
    BY <2>6, <2>7
<1>12. CASE verify_events(d, k) # {}
  <2>1. Answer(r, {}) /\ UNCHANGED rows
    BY <1>1, <1>2, <1>3, <1>8, <1>9, <1>12 DEF append_stored, rows
  <2>2. QED
    BY <2>1, RefusedKeeps
<1>13. QED
  BY <1>11, <1>12

\* Whoever commits commits what the connection shows, others' writes included.
LEMMA CommitKeeps ==
    ASSUME RegistryInv, NEW r \in requests, Commit(r)
    PROVE  RegistryInv'
<1>1. r.at \in {"inserted", "updated"} /\ FitsIn(r) /\ store' = view /\ UNCHANGED <<view, rolled>>
  BY DEF Commit, RegistryInv, Requests
<1>2. PICK known : Answer(r, known) /\ known \subseteq r.known
  BY DEF Commit
<1>3. Machines' /\ UNCHANGED <<local, sent>> /\ requests' = requests \ {r} /\ acked' \subseteq acked \cup known
  BY <1>2, AnswerFacts DEF RegistryInv
<1>4. ViewGrows
  BY <1>1, SameGrows
<1>5. ASSUME NEW q \in requests' PROVE FitsIn(q)'
  <2>1. FitsIn(q) /\ NotYet(q)' = NotYet(q)
    BY <1>1, <1>3 DEF RegistryInv, Requests, NotYet
  <2>2. QED
    BY <1>1, <1>3, <1>4, <2>1, FitsStays DEF FitsIn
<1>6. Requests'
  BY <1>3, <1>5 DEF RegistryInv, Requests
<1>7. Rows'
  BY <1>1, <1>3 DEF RegistryInv, Rows, Table
<1>8. Behind'
  <2>1. ASSUME NEW id \in Ids, view[id] # NONE
        PROVE  Begins(view[id].document.events, view[id].document.events)
    BY <2>1, RowChain, BeginsItself DEF RegistryInv, Rows
  <2>2. QED
    BY <1>1, <2>1 DEF Behind
<1>9. ASSUME NEW a \in acked' PROVE a[1] \in Ids /\ (a[1] \notin rolled => Has(view, a))
  <2>1. CASE a \in known
    <3>1. r.client \in Clients /\ r.id = Holds[r.client] /\ a[1] = r.id /\ (r.id \notin rolled => Has(view, a))
      BY <1>1, <1>2, <2>1 DEF FitsIn, Says
    <3>2. QED
      BY <3>1, ClientsAssumption
  <2>2. CASE a \in acked
    <3>1. a[1] \in Ids /\ (a[1] \notin rolled => Has(store, a))
      BY <2>2 DEF RegistryInv, Known
    <3>2. ASSUME a[1] \notin rolled PROVE Has(view, a)
      <4>1. PICK id, x, y : id = a[1] /\ x = store[id].document /\ y = view[id].document
        OBVIOUS
      <4>2. store[id] # NONE /\ a \in events(id, x)
        BY <3>1, <3>2, <4>1 DEF Has
      <4>3. view[id] # NONE /\ Begins(x.events, y.events)
        BY <3>1, <3>2, <4>1, <4>2 DEF RegistryInv, Behind
      <4>4. IsChain(y.events)
        BY <3>1, <4>1, <4>3, RowChain DEF RegistryInv, Rows
      <4>5. a \in events(id, y)
        BY <4>2, <4>3, <4>4, EventsGrow
      <4>6. QED
        BY <4>1, <4>3, <4>5 DEF Has
    <3>3. QED
      BY <3>1, <3>2
  <2>3. QED
    BY <1>3, <2>1, <2>2
<1>10. Known'
  BY <1>1, <1>9 DEF Known, Has, events
<1>11. QED
  BY <1>3, <1>6, <1>7, <1>8, <1>10 DEF RegistryInv

\* What a rollback takes back is written down in rolled.
LEMMA RollbackKeeps ==
    ASSUME RegistryInv, NEW r \in requests, Rollback(r)
    PROVE  RegistryInv'
<1>1. view' = store /\ rolled' = rolled \cup {id \in Ids : view[id] # store[id]} /\ UNCHANGED store /\ Answer(r, {})
  BY DEF Rollback
<1>2. Machines' /\ UNCHANGED <<local, sent>> /\ requests' = requests \ {r} /\ acked' \subseteq acked
  BY <1>1, AnswerFacts DEF RegistryInv
<1>3. rolled \subseteq rolled' /\ \A id \in Ids : id \notin rolled' => view'[id] = view[id]
  BY <1>1
<1>4. ViewGrows
  BY <1>3, SameGrows
<1>5. ASSUME NEW q \in requests' PROVE FitsIn(q)'
  <2>1. FitsIn(q)
    BY <1>2 DEF RegistryInv, Requests
  <2>2. ASSUME q.at = "append", q.id \notin rolled' PROVE NotYet(q)'
    <3>1. NotYet(q) /\ q.id \in Ids
      BY <1>3, <2>1, <2>2, ClientsAssumption DEF FitsIn, Carries
    <3>2. view'[q.id] = view[q.id]
      BY <1>3, <2>2, <3>1
    <3>3. QED
      BY <1>2, <3>1, <3>2 DEF NotYet
  <2>3. QED
    BY <1>2, <1>4, <2>1, <2>2, FitsStays
<1>6. Requests'
  BY <1>2, <1>5 DEF RegistryInv, Requests
<1>7. Rows'
  BY <1>1, <1>2 DEF RegistryInv, Rows, Table
<1>8. Behind'
  BY <1>1, <1>4, BehindStays
<1>9. Known'
  BY <1>1, <1>2, <1>3 DEF RegistryInv, Known, Has, events
<1>10. QED
  BY <1>2, <1>6, <1>7, <1>8, <1>9 DEF RegistryInv

-----------------------------------------------------------------------------
(* The invariant, and what it means. *)

\* A client gives up, or nothing happens.
LEMMA QuietKeeps ==
    ASSUME RegistryInv, UNCHANGED <<rows, local, requests, sent, acked>>,
           awaited' = awaited \/ \E c \in Clients : awaited' = [awaited EXCEPT ![c] = 0]
    PROVE  RegistryInv'
<1>1. awaited' = [c \in Clients |-> awaited'[c]] /\ \A c \in Clients : awaited'[c] = awaited[c] \/ awaited'[c] = 0
  BY DEF RegistryInv, Machines
<1>2. \A c \in Clients : awaited'[c] \in 0..sent[c]
  BY <1>1 DEF RegistryInv, Machines
<1>3. Machines'
  BY <1>1, <1>2 DEF RegistryInv, Machines
<1>4. store' = store /\ view' = view /\ rolled' = rolled
  BY DEF rows
<1>5. ViewGrows
  BY <1>4, SameGrows
<1>6. ASSUME NEW q \in requests' PROVE FitsIn(q)'
  <2>1. FitsIn(q) /\ NotYet(q)' = NotYet(q)
    BY <1>4, <1>6 DEF RegistryInv, Requests, NotYet
  <2>2. QED
    BY <1>4, <1>5, <2>1, FitsStays DEF FitsIn
<1>7. Requests'
  BY <1>6 DEF RegistryInv, Requests
<1>8. Rows' /\ Known'
  BY <1>4 DEF RegistryInv, Rows, Table, Known, Has, events
<1>9. QED
  BY <1>3, <1>4, <1>5, <1>7, <1>8, BehindStays DEF RegistryInv

LEMMA RegistryInitInv == RegistryInit => RegistryInv
<1> SUFFICES ASSUME RegistryInit PROVE RegistryInv
  OBVIOUS
<1>1. /\ store = [id \in Ids |-> NONE] /\ view = store /\ rolled = {} /\ local = [c \in Clients |-> Built(Holds[c])] /\ requests = {}
      /\ awaited = [c \in Clients |-> 0] /\ sent = [c \in Clients |-> 0] /\ acked = {}
  BY DEF RegistryInit
<1>2. ASSUME NEW c \in Clients
      PROVE  local[c] = Doc(Holds[c], local[c].events) /\ Linked(c, 0, local[c].events)
  <2>1. local[c] = Doc(Holds[c], <<>>)
    BY <1>1, DocFacts
  <2>2. local[c].events = <<>>
    BY <2>1, DocFacts
  <2>3. IsChain(<<>>) /\ Len(<<>>) = 0
    BY DEF IsChain
  <2>4. Linked(c, 0, <<>>)
    BY <2>3 DEF Linked
  <2>5. QED
    BY <2>1, <2>2, <2>4
<1>3. Machines
  BY <1>1, <1>2 DEF Machines
<1>4. Rows /\ Behind /\ Requests /\ Known
  BY <1>1 DEF Rows, Table, Behind, Requests, Known
<1>5. QED
  BY <1>3, <1>4 DEF RegistryInv

LEMMA RegistryNextKeeps ==
    ASSUME OneWriter, NoneIsNoRow, RegistryInv, [RegistryNext]_tables
    PROVE  RegistryInv'
<1>1. ASSUME NEW c \in Clients, push(c) PROVE RegistryInv'
  BY <1>1, pushKeeps
<1>2. ASSUME NEW c \in Clients, monitor(c) PROVE RegistryInv'
  BY <1>2, monitorKeeps
<1>3. ASSUME NEW c \in Clients, Timeout(c) PROVE RegistryInv'
  BY <1>3, QuietKeeps DEF Timeout
<1>4. ASSUME NEW r \in requests, Serve(r) PROVE RegistryInv'
  BY <1>4, uploadKeeps, get_storedKeeps, append_storedKeeps, CommitKeeps, RollbackKeeps DEF Serve
<1>5. CASE UNCHANGED tables
  BY <1>5, QuietKeeps DEF tables, rows
<1>6. QED
  BY <1>1, <1>2, <1>3, <1>4, <1>5 DEF RegistryNext

LEMMA Consequence ==
    ASSUME OneWriter, RegistryInv
    PROVE  RegistryFollows
<1>1. ASSUME NEW table \in {store, view}, NEW id \in Ids, table[id] # NONE
      PROVE  \E s : /\ table[id] = [document |-> Doc(id, s), key |-> Key[id]] /\ verify_events(Doc(id, s), Key[id]) = {}
                    /\ table[id].document.events = s
  <2>1. PICK c \in Clients : Holds[c] = id /\ Entry(c, local[c].events, table[id])
    BY <1>1 DEF RegistryInv, Rows, Table
  <2>2. PICK s : s = table[id].document.events
    OBVIOUS
  <2>3. table[id] = [document |-> Doc(id, s), key |-> Key[id]]
    BY <2>1, <2>2 DEF Entry
  <2>4. table[id].document = Doc(id, s) /\ table[id].key = Key[id]
    BY <2>3
  <2>5. QED
    BY <2>1, <2>2, <2>3, <2>4 DEF Entry
<1>2. TablesOK
  <2>1. ASSUME NEW table \in {store, view}, NEW id \in Ids, table[id] # NONE
        PROVE  DOMAIN table[id] = {"document", "key"} /\ table[id].document.id = id
    <3>1. PICK s : table[id] = [document |-> Doc(id, s), key |-> Key[id]]
      BY <1>1, <2>1
    <3>2. Doc(id, s).id = id
      BY DocFacts
    <3>3. QED
      BY <3>1, <3>2
  <2>2. ASSUME NEW c \in Clients PROVE local[c].id = Holds[c] /\ awaited[c] \in 0..sent[c]
    <3>1. local[c] = Doc(Holds[c], local[c].events) /\ awaited[c] \in 0..sent[c]
      BY DEF RegistryInv, Machines
    <3>2. Doc(Holds[c], local[c].events).id = Holds[c]
      BY DocFacts
    <3>3. QED
      BY <3>1, <3>2
  <2>3. QED
    BY <2>1, <2>2 DEF TablesOK, RegistryInv, Requests, FitsIn
<1>3. StoredVerifies
  <2>1. ASSUME NEW table \in {store, view}, NEW id \in Ids, table[id] # NONE
        PROVE  verify_document(table[id].document, table[id].key)
    <3>1. PICK s : table[id] = [document |-> Doc(id, s), key |-> Key[id]] /\ verify_events(Doc(id, s), Key[id]) = {}
      BY <1>1, <2>1
    <3>2. verify_document(Doc(id, s), Key[id])
      BY <3>1, DocVerifies
    <3>3. QED
      BY <3>1, <3>2
  <2>2. QED
    BY <2>1 DEF StoredVerifies
<1>4. AckedKept
  BY DEF RegistryInv, Known, AckedKept, Has
<1>5. RegistryBehind
  <2>1. ASSUME NEW table \in {store, view}, NEW c \in Clients, table[Holds[c]] # NONE
        PROVE  LET s == table[Holds[c]].document.events IN
               Len(s) <= Len(local[c].events) /\ s = SubSeq(local[c].events, 1, Len(s))
    <3>1. PICK s, t : s = table[Holds[c]].document.events /\ t = local[c].events
      OBVIOUS
    <3>2. Begins(s, t) /\ IsChain(s) /\ IsChain(t)
      <4>1. Table(table)
        BY DEF RegistryInv, Rows
      <4>2. Entry(c, local[c].events, table[Holds[c]])
        BY <2>1, <4>1, EntryOf
      <4>3. IsChain(t)
        BY <3>1 DEF RegistryInv, Machines, Linked
      <4>4. QED
        BY <3>1, <4>2, <4>3 DEF Entry, Begins
    <3>3. PICK m \in Nat, n \in Nat : m = Len(s) /\ n = Len(t) /\ m <= n /\ \A i \in 1..m : s[i] = t[i]
      BY <3>2, ChainFacts DEF Begins
    <3>4. s = [i \in 1..m |-> s[i]]
      BY <3>2, <3>3 DEF IsChain
    <3>5. SubSeq(t, 1, m) = [i \in 1..m |-> t[i]]
      <4>1. PICK S : t \in Seq(S)
        BY <3>2 DEF IsChain
      <4>2. PICK q : q = SubSeq(t, 1, m)
        OBVIOUS
      <4>3. q \in Seq(S) /\ Len(q) = m /\ \A i \in 1..m : q[i] = t[i]
        BY <3>3, <4>1, <4>2
      <4>4. q = [i \in 1..m |-> q[i]]
        BY <4>3
      <4>5. QED
        BY <4>2, <4>3, <4>4
    <3>6. s = SubSeq(t, 1, m)
      BY <3>3, <3>4, <3>5
    <3>7. QED
      BY <3>1, <3>3, <3>6
  <2>2. QED
    BY <2>1 DEF RegistryBehind
<1>6. QED
  BY <1>2, <1>3, <1>4, <1>5 DEF RegistryFollows

\* Whatever requests overlap, time out or are served late over the one
\* connection to the database (registry/api.py, db.py: read, write and commit are
\* separate steps, and a rollback takes back what other requests have written),
\* everything in the registry verifies, its chain is the beginning of the chain
\* of the one machine that writes the passport, and what it acknowledged it keeps
\* of every passport that no rollback has touched.
THEOREM Follows ==
    ASSUME OneWriter, NoneIsNoRow
    PROVE  RegistrySpec => []RegistryFollows
<1>1. RegistryInv /\ [RegistryNext]_tables => RegistryInv'
  BY RegistryNextKeeps
<1>2. RegistryInv => RegistryFollows
  BY Consequence
<1>3. QED
  BY <1>1, <1>2, RegistryInitInv, PTL DEF RegistrySpec
=============================================================================
