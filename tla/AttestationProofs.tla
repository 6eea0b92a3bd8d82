-------------------------- MODULE AttestationProofs --------------------------
(***************************************************************************)
(* Theorems about Attestation, for any number of tenants, datasets,        *)
(* versions and workers and any tree of versions.                          *)
(***************************************************************************)
EXTENDS Attestation, TLAPS

Locked == {"key", "put", "attest"}
DatasetTask == [pc : {"dataset"}, tenant : Tenants, name : Names, content : Corpora]
AuditTask == [pc : Locked, version : Versions, key : Nat, fresh : BOOLEAN]

\* An object that was encrypted for its context, when n keys were generated.
Genuine(b, n) ==
    /\ b = [key |-> b.key, context |-> b.context, data |-> b.data]
    /\ b.context[2] = KEY_OBJECT => \E i \in 1..n : b.data = pem(i)
    /\ \A c \in Corpora : b.context[2] = dataset_key(c) => b.data = corpus(c)

Bucket ==
    /\ objects = [t \in Tenants |-> [k \in ObjectKeys |-> objects[t][k]]]
    /\ \A t \in Tenants, k \in ObjectKeys : objects[t][k] # NONE => Genuine(objects[t][k], generated)
    /\ generated > 0 => objects[Owner][KEY_OBJECT] # NONE

\* What is in a row, or will be, is in the bucket before.
Rows ==
    /\ datasets = [t \in Tenants |-> [n \in Names |-> datasets[t][n]]]
    /\ \A t \in Tenants, n \in Names : datasets[t][n] # NONE =>
          datasets[t][n] \in Corpora /\ objects[t][dataset_key(datasets[t][n])] # NONE

Uploads == \A w \in Workers : task[w].pc = "dataset" =>
              objects[task[w].tenant][dataset_key(task[w].content)] # NONE

Tasks ==
    /\ task = [w \in Workers |-> task[w]]
    /\ \A w \in Workers : task[w] = Idle \/ task[w] \in DatasetTask \/ task[w] \in AuditTask
    /\ \A w, x \in Workers : task[w].pc \in Locked /\ task[x].pc \in Locked => w = x

\* While an audit holds the chain's lock its version waits, and the log has
\* room for its events; it signs with a key that was generated and, as long as
\* the storage answers, generates the first one only.
Audits ==
    \A w \in Workers : task[w].pc \in Locked =>
        /\ state[task[w].version] = "auditing" /\ Len(log) + 2 <= MaxLog
        /\ task[w].pc = "attest" => task[w].key \in 1..generated
        /\ task[w].pc = "put" /\ outages = 0 => generated = 0

KeysGenerated ==
    /\ generated \in Nat /\ outages \in Nat
    /\ outages = 0 => generated <= 1
    /\ public_key # NONE => public_key \in 1..generated

\* A version that has been registered has superseded its parent.
Replaced ==
    /\ state \in [Versions -> States \cup {NONE}]
    /\ \A v \in Versions : Parent[v] # NONE /\ state[v] # NONE => state[Parent[v]] = "superseded"

Signed ==
    /\ attestation = [v \in Versions |-> attestation[v]]
    /\ \A v \in Versions : attestation[v] # NONE =>
          /\ state[v] # NONE /\ attestation[v].body.version = v
          /\ attestation[v].signature.key \in 1..generated
          /\ attestation[v].signature.of = attestation[v].body
    /\ ParentChain

\* Event i is the newest about the attestation of v.
NewestOf(v, i) ==
    /\ i \in DOMAIN log /\ log[i].kind = "version.attested" /\ log[i].what = <<v>>
    /\ \A j \in DOMAIN log : log[j].kind = "version.attested" /\ log[j].what = <<v>> => j <= i

Logged ==
    /\ \E S : log \in Seq(S)
    /\ Len(log) <= MaxLog
    /\ \A v \in Versions : attestation[v] # NONE =>
          \E i \in DOMAIN log :
             /\ NewestOf(v, i) /\ log[i].sha = sha256(attestation[v])
             /\ attestation[v].body.audit_log_head.seq = i - 1
             /\ i - 1 \in DOMAIN log /\ log[i - 1].what = <<v, attestation[v].body.state>>

Inv == Bucket /\ Rows /\ Uploads /\ Tasks /\ Audits /\ KeysGenerated /\ Replaced /\ Signed /\ Logged

LEMMA NoneFacts == NONE \notin Versions /\ NONE \notin States
BY NoneAssumption

LEMMA InitInv == Init => Inv
<1> SUFFICES ASSUME Init PROVE Inv
  OBVIOUS
<1>1. Bucket
  <2>1. KEY_OBJECT \in ObjectKeys
    BY DEF ObjectKeys
  <2>2. \A t \in Tenants, k \in ObjectKeys : objects[t][k] = NONE
    BY DEF Init
  <2>3. objects = [t \in Tenants |-> [k \in ObjectKeys |-> objects[t][k]]]
    BY DEF Init
  <2>4. QED
    BY <2>2, <2>3 DEF Bucket, Init
<1>2. Rows
  <2>1. \A t \in Tenants, n \in Names : datasets[t][n] = NONE
    BY DEF Init
  <2>2. datasets = [t \in Tenants |-> [n \in Names |-> datasets[t][n]]]
    BY DEF Init
  <2>3. QED
    BY <2>1, <2>2 DEF Rows
<1>3. Uploads /\ Tasks /\ Audits
  BY DEF Init, Uploads, Tasks, Audits, Idle, Locked
<1>4. KeysGenerated
  BY DEF Init, KeysGenerated
<1>5. Replaced
  BY NoneFacts DEF Init, Replaced, States
<1>6. Signed
  BY DEF Init, Signed, ParentChain
<1>7. Logged
  <2>1. log \in Seq({}) /\ Len(log) = 0
    BY DEF Init
  <2>2. QED
    BY <2>1, BoundAssumption DEF Logged, Init
<1>8. QED
  BY <1>1, <1>2, <1>3, <1>4, <1>5, <1>6, <1>7 DEF Inv

-----------------------------------------------------------------------------
(* The bucket. *)

LEMMA KeyFacts ==
    /\ KEY_OBJECT \in ObjectKeys
    /\ \A c \in Corpora : dataset_key(c) \in ObjectKeys /\ dataset_key(c) # KEY_OBJECT
    /\ \A c, d \in Corpora : dataset_key(c) = dataset_key(d) => c = d
BY DEF ObjectKeys, dataset_key, KEY_OBJECT

LEMMA GenuineMore ==
    ASSUME NEW b, NEW n \in Nat, NEW m \in Nat, n <= m, Genuine(b, n)
    PROVE  Genuine(b, m)
<1>1. \A i \in 1..n : i \in 1..m
  OBVIOUS
<1>2. QED
  BY <1>1 DEF Genuine

\* An object is written, by its owner or by whoever copies: what was there is
\* still there.
LEMMA BucketKeeps ==
    ASSUME Bucket, NEW t \in Tenants, NEW k \in ObjectKeys, NEW b, b # NONE,
           objects' = [objects EXCEPT ![t][k] = b], generated \in Nat, generated' \in Nat, generated <= generated',
           Genuine(b, generated'), generated' # generated => t = Owner /\ k = KEY_OBJECT
    PROVE  /\ Bucket'
           /\ \A u \in Tenants, l \in ObjectKeys : objects[u][l] # NONE => objects'[u][l] # NONE
<1>1. /\ objects'[t][k] = b
      /\ \A u \in Tenants, l \in ObjectKeys : u # t \/ l # k => objects'[u][l] = objects[u][l]
      /\ objects' = [u \in Tenants |-> [l \in ObjectKeys |-> objects'[u][l]]]
  BY DEF Bucket
<1>2. ASSUME NEW u \in Tenants, NEW l \in ObjectKeys, objects'[u][l] # NONE
      PROVE  Genuine(objects'[u][l], generated')
  <2>1. CASE u = t /\ l = k
    BY <1>1, <2>1
  <2>2. CASE ~(u = t /\ l = k)
    <3>1. objects'[u][l] = objects[u][l] /\ Genuine(objects[u][l], generated)
      BY <1>1, <1>2, <2>2 DEF Bucket
    <3>2. PICK o : o = objects[u][l]
      OBVIOUS
    <3>3. Genuine(o, generated')
      BY <3>1, <3>2, GenuineMore
    <3>4. QED
      BY <3>1, <3>2, <3>3
  <2>3. QED
    BY <2>1, <2>2
<1>3. ASSUME NEW u \in Tenants, NEW l \in ObjectKeys, objects[u][l] # NONE PROVE objects'[u][l] # NONE
  BY <1>1, <1>3
<1>4. generated' > 0 => objects'[Owner][KEY_OBJECT] # NONE
  BY <1>1, <1>3, OwnerAssumption, KeyFacts DEF Bucket
<1>5. Bucket'
  BY <1>1, <1>2, <1>4 DEF Bucket, Genuine
<1>6. QED
  BY <1>3, <1>5

\* What is encrypted for its place.
LEMMA EncryptedGenuine ==
    /\ \A t \in Tenants, c \in Corpora, n \in Nat :
          /\ encrypted(t, dataset_key(c), corpus(c)) # NONE
          /\ Genuine(encrypted(t, dataset_key(c), corpus(c)), n)
    /\ \A t \in Tenants, n \in Nat \ {0} :
          /\ encrypted(t, KEY_OBJECT, pem(n)) # NONE
          /\ Genuine(encrypted(t, KEY_OBJECT, pem(n)), n)
<1>1. ASSUME NEW t \in Tenants, NEW c \in Corpora, NEW n \in Nat
      PROVE  /\ encrypted(t, dataset_key(c), corpus(c)) # NONE
             /\ Genuine(encrypted(t, dataset_key(c), corpus(c)), n)
  <2>1. encrypted(t, dataset_key(c), corpus(c)) \in Blobs
    BY KeyFacts DEF encrypted, Blobs, _context, corpus
  <2>2. Genuine(encrypted(t, dataset_key(c), corpus(c)), n)
    BY KeyFacts DEF Genuine, encrypted, _context
  <2>3. QED
    BY <2>1, <2>2, NoneAssumption
<1>2. ASSUME NEW t \in Tenants, NEW n \in Nat \ {0}
      PROVE  /\ encrypted(t, KEY_OBJECT, pem(n)) # NONE
             /\ Genuine(encrypted(t, KEY_OBJECT, pem(n)), n)
  <2>1. encrypted(t, KEY_OBJECT, pem(n)) \in Blobs
    BY KeyFacts DEF encrypted, Blobs, _context, pem
  <2>2. Genuine(encrypted(t, KEY_OBJECT, pem(n)), n)
    <3>1. n \in 1..n
      OBVIOUS
    <3>2. QED
      BY <3>1, KeyFacts DEF Genuine, encrypted, _context
  <2>3. QED
    BY <2>1, <2>2, NoneAssumption
<1>3. QED
  BY <1>1, <1>2

\* get gives the key that was generated, or an error.
LEMMA KeyRead ==
    ASSUME Bucket, generated \in Nat
    PROVE  \/ get(Owner, KEY_OBJECT) = MISSING /\ objects[Owner][KEY_OBJECT] = NONE
           \/ get(Owner, KEY_OBJECT) = UNDECRYPTABLE
           \/ \E i \in 1..generated : get(Owner, KEY_OBJECT) = pem(i)
<1> DEFINE b == objects[Owner][KEY_OBJECT]
<1>1. CASE b = NONE
  BY <1>1 DEF get
<1>2. CASE b # NONE /\ b.key = data_key(Owner) /\ b.context = _context(Owner, KEY_OBJECT)
  <2>1. Genuine(b, generated) /\ b.context[2] = KEY_OBJECT
    BY <1>2, OwnerAssumption, KeyFacts DEF Bucket, _context
  <2>2. \E i \in 1..generated : b.data = pem(i)
    BY <2>1 DEF Genuine
  <2>3. get(Owner, KEY_OBJECT) = b.data
    BY <1>2 DEF get
  <2>4. QED
    BY <2>2, <2>3
<1>3. CASE b # NONE /\ ~(b.key = data_key(Owner) /\ b.context = _context(Owner, KEY_OBJECT))
  BY <1>3 DEF get
<1>4. QED
  BY <1>1, <1>2, <1>3

LEMMA ReadsDiffer ==
    /\ MISSING # UNDECRYPTABLE
    /\ \A n : pem(n) # MISSING /\ pem(n) # UNDECRYPTABLE /\ pem(n)[2] = n
BY DEF MISSING, UNDECRYPTABLE, pem

-----------------------------------------------------------------------------
(* Transactions. *)

\* A transaction goes on: another one has the lock, or it has.
LEMMA TaskGoes ==
    ASSUME Tasks, NEW w \in Workers, NEW s, Goes(w, s),
           s = Idle \/ s \in DatasetTask \/ s \in AuditTask,
           s.pc \in Locked => task[w].pc \in Locked \/ ChainFree
    PROVE  Tasks' /\ task'[w] = s /\ \A x \in Workers : x # w => task'[x] = task[x]
<1>1. /\ task'[w] = s /\ \A x \in Workers : x # w => task'[x] = task[x]
      /\ task' = [x \in Workers |-> task'[x]]
  BY DEF Tasks, Goes
<1>2. ASSUME NEW x \in Workers PROVE task'[x] = Idle \/ task'[x] \in DatasetTask \/ task'[x] \in AuditTask
  <2>1. CASE x = w
    BY <1>1, <2>1
  <2>2. CASE x # w
    BY <1>1, <2>2 DEF Tasks
  <2>3. QED
    BY <2>1, <2>2
<1>3. ASSUME NEW x \in Workers, NEW y \in Workers, task'[x].pc \in Locked, task'[y].pc \in Locked PROVE x = y
  BY <1>1, <1>3 DEF Tasks, ChainFree, Locked
<1>4. QED
  BY <1>1, <1>2, <1>3 DEF Tasks

LEMMA IdleTask == Idle.pc = "idle" /\ Idle.pc \notin Locked
BY DEF Idle, Locked

\* Rows and uploads stay when objects do.
LEMMA RowsKeep ==
    ASSUME Rows, datasets' = datasets,
           \A u \in Tenants, l \in ObjectKeys : objects[u][l] # NONE => objects'[u][l] # NONE
    PROVE  Rows'
BY KeyFacts DEF Rows

LEMMA UploadsKeep ==
    ASSUME Uploads, Tasks,
           \A u \in Tenants, l \in ObjectKeys : objects[u][l] # NONE => objects'[u][l] # NONE,
           \A w \in Workers : task'[w].pc = "dataset" => task'[w] = task[w]
    PROVE  Uploads'
<1> SUFFICES ASSUME NEW w \in Workers, task'[w].pc = "dataset"
             PROVE  objects'[task'[w].tenant][dataset_key(task'[w].content)] # NONE
  BY DEF Uploads
<1>1. task'[w] = task[w] /\ task[w].pc = "dataset"
  OBVIOUS
<1>2. task[w] \in DatasetTask
  BY <1>1 DEF Tasks, Idle, AuditTask, Locked
<1>3. task[w].tenant \in Tenants /\ task[w].content \in Corpora
  BY <1>2 DEF DatasetTask
<1>4. QED
  BY <1>1, <1>3, KeyFacts DEF Uploads

\* The locked transaction goes on as it was, with nothing that matters to it changed.
LEMMA AuditsKeep ==
    ASSUME Audits, \A w \in Workers : task'[w].pc \in Locked => task'[w] = task[w],
           \A w \in Workers : task[w].pc \in Locked => state'[task[w].version] = state[task[w].version],
           (\E w \in Workers : task'[w].pc \in Locked) => log' = log /\ generated' = generated /\ outages' = outages
    PROVE  Audits'
BY DEF Audits

\* Steps that leave versions, attestations and the log alone.
LEMMA SignedKeeps ==
    ASSUME Signed, attestation' = attestation, generated \in Nat, generated' \in Nat, generated <= generated',
           \A v \in Versions : state[v] # NONE => state'[v] # NONE
    PROVE  Signed'
<1>1. \A i \in 1..generated : i \in 1..generated'
  OBVIOUS
<1>2. QED
  BY <1>1 DEF Signed, ParentChain

LEMMA LoggedKeeps ==
    ASSUME Logged, attestation' = attestation, log' = log
    PROVE  Logged'
BY DEF Logged, NewestOf

-----------------------------------------------------------------------------
(* The steps. *)

LEMMA CopyKeeps ==
    ASSUME Inv, Copy
    PROVE  Inv'
<1>1. PICK t \in Tenants, u \in Tenants, k \in ObjectKeys, l \in ObjectKeys :
         objects[t][k] # NONE /\ objects' = [objects EXCEPT ![u][l] = objects[t][k]]
  BY DEF Copy
<1>2. PICK b : b = objects[t][k]
  OBVIOUS
<1>3. b # NONE /\ Genuine(b, generated) /\ objects' = [objects EXCEPT ![u][l] = b]
  BY <1>1, <1>2 DEF Inv, Bucket
<1>4. UNCHANGED <<datasets, public_key, state, attestation, log, task, generated, outages>>
  BY DEF Copy
<1>5. /\ Bucket'
      /\ \A x \in Tenants, y \in ObjectKeys : objects[x][y] # NONE => objects'[x][y] # NONE
  <2>1. Bucket /\ generated \in Nat /\ generated' \in Nat /\ generated' = generated /\ generated <= generated'
        /\ Genuine(b, generated')
    BY <1>3, <1>4 DEF Inv, KeysGenerated
  <2>2. QED
    BY <1>3, <2>1, BucketKeeps
<1>6. Rows' /\ Uploads'
  BY <1>4, <1>5, RowsKeep, UploadsKeep DEF Inv
<1>7. Tasks' /\ Audits' /\ KeysGenerated' /\ Replaced'
  BY <1>4 DEF Inv, Tasks, Audits, KeysGenerated, Replaced
<1>8. Signed' /\ Logged'
  BY <1>4, LoggedKeeps DEF Inv, Signed, ParentChain
<1>9. QED
  BY <1>5, <1>6, <1>7, <1>8 DEF Inv

\* Steps that move versions and nothing else.
LEMMA MovesKeep ==
    ASSUME Inv, UNCHANGED <<objects, datasets, public_key, attestation, log, task, generated, outages>>,
           Replaced', \A v \in Versions : state[v] # NONE => state'[v] # NONE,
           \A w \in Workers : task[w].pc \in Locked => state'[task[w].version] = state[task[w].version]
    PROVE  Inv'
<1>1. Bucket' /\ Rows' /\ Uploads' /\ Tasks' /\ KeysGenerated'
  BY DEF Inv, Bucket, Genuine, Rows, Uploads, Tasks, KeysGenerated
<1>2. Audits'
  BY AuditsKeep DEF Inv
<1>3. Signed' /\ Logged'
  BY LoggedKeeps DEF Inv, Signed, ParentChain
<1>4. QED
  BY <1>1, <1>2, <1>3 DEF Inv

LEMMA StartAuditKeeps ==
    ASSUME Inv, NEW v \in Versions, StartAudit(v)
    PROVE  Inv'
<1>1. /\ state[v] \in {"registered", "clean", "findings"} /\ state' = [state EXCEPT ![v] = "auditing"]
      /\ UNCHANGED <<objects, datasets, public_key, attestation, log, task, generated, outages>>
      /\ state \in [Versions -> States \cup {NONE}]
  BY DEF StartAudit, Inv, Replaced
<1>2. state'[v] = "auditing" /\ \A x \in Versions : x # v => state'[x] = state[x]
  BY <1>1
<1>3. Replaced'
  <2>1. state' \in [Versions -> States \cup {NONE}]
    BY <1>1 DEF States
  <2>2. \A x \in Versions : Parent[x] # NONE => Parent[x] \in Versions
    BY ParentAssumption
  <2>3. state[v] # NONE
    BY <1>1, NoneFacts DEF States
  <2>4. ASSUME NEW x \in Versions, Parent[x] # NONE, state'[x] # NONE PROVE state'[Parent[x]] = "superseded"
    <3>1. state[x] # NONE
      BY <1>2, <2>3, <2>4
    <3>2. state[Parent[x]] = "superseded"
      BY <2>4, <3>1 DEF Inv, Replaced
    <3>3. QED
      BY <1>1, <1>2, <2>2, <2>4, <3>2
  <2>5. QED
    BY <2>1, <2>4 DEF Replaced
<1>4. \A x \in Versions : state[x] # NONE => state'[x] # NONE
  BY <1>2, NoneFacts DEF States
<1>5. ASSUME NEW w \in Workers, task[w].pc \in Locked PROVE state'[task[w].version] = state[task[w].version]
  <2>1. state[task[w].version] = "auditing" /\ task[w].version \in Versions
    BY <1>5 DEF Inv, Audits, Tasks, AuditTask, DatasetTask, Idle, Locked
  <2>2. QED
    BY <1>1, <1>2, <2>1
<1>6. QED
  BY <1>1, <1>3, <1>4, <1>5, MovesKeep

LEMMA RemediateKeeps ==
    ASSUME Inv, NEW v \in Versions, Remediate(v)
    PROVE  Inv'
<1> DEFINE p == Parent[v]
<1>1. /\ p \in Versions /\ state[v] = NONE /\ state[p] = "findings" /\ ChainFree
      /\ state' = [state EXCEPT ![p] = "superseded", ![v] = "auditing"]
      /\ UNCHANGED <<objects, datasets, public_key, attestation, log, task, generated, outages>>
      /\ state \in [Versions -> States \cup {NONE}]
  BY ParentAssumption DEF Remediate, Inv, Replaced
<1>2. NONE \notin {"findings", "superseded", "auditing"}
  BY NoneFacts DEF States
<1>3. p # v
  BY <1>1, <1>2
<1>4. /\ state'[v] = "auditing" /\ state'[p] = "superseded"
      /\ \A x \in Versions : x # v /\ x # p => state'[x] = state[x]
  BY <1>1, <1>3
<1>5. Replaced'
  <2>1. state' \in [Versions -> States \cup {NONE}]
    BY <1>1 DEF States
  <2>2. ASSUME NEW x \in Versions, Parent[x] # NONE, state'[x] # NONE PROVE state'[Parent[x]] = "superseded"
    <3>1. CASE x = v
      BY <1>4, <3>1
    <3>2. CASE x # v
      <4>1. state[x] # NONE
        BY <1>1, <1>2, <1>4, <2>2, <3>2
      <4>2. state[Parent[x]] = "superseded" /\ Parent[x] \in Versions
        BY <2>2, <4>1, ParentAssumption DEF Inv, Replaced
      <4>3. Parent[x] # v /\ Parent[x] # p
        BY <1>1, <1>2, <4>2
      <4>4. QED
        BY <1>4, <4>2, <4>3
    <3>3. QED
      BY <3>1, <3>2
  <2>3. QED
    BY <2>1, <2>2 DEF Replaced
<1>6. \A x \in Versions : state[x] # NONE => state'[x] # NONE
  BY <1>2, <1>4
<1>7. \A w \in Workers : task[w].pc \notin Locked
  BY <1>1 DEF ChainFree, Locked
<1>8. QED
  BY <1>1, <1>5, <1>6, <1>7, MovesKeep

LEMMA PutDatasetKeeps ==
    ASSUME Inv, NEW w \in Workers, NEW t \in Tenants, NEW n \in Names, NEW c \in Corpora, PutDataset(w, t, n, c)
    PROVE  Inv'
<1>1. PICK s : s = [pc |-> "dataset", tenant |-> t, name |-> n, content |-> c]
  OBVIOUS
<1>2. s \in DatasetTask /\ s.pc = "dataset" /\ s.pc \notin Locked /\ s.tenant = t /\ s.content = c
  BY <1>1 DEF DatasetTask, Locked
<1>3. Goes(w, s) /\ UNCHANGED <<datasets, public_key, state, attestation, log, generated, outages>>
  BY <1>1 DEF PutDataset
<1>4. PICK b : b = encrypted(t, dataset_key(c), corpus(c))
  OBVIOUS
<1>5. objects' = [objects EXCEPT ![t][dataset_key(c)] = b]
  BY <1>4 DEF PutDataset, put
<1>6. generated \in Nat /\ generated' \in Nat /\ generated' = generated /\ generated <= generated'
  BY <1>3 DEF Inv, KeysGenerated
<1>7. b # NONE /\ Genuine(b, generated')
  BY <1>4, <1>6, EncryptedGenuine
<1>8. PICK k \in ObjectKeys : k = dataset_key(c)
  BY KeyFacts
<1>9. /\ Bucket'
      /\ \A u \in Tenants, l \in ObjectKeys : objects[u][l] # NONE => objects'[u][l] # NONE
  <2>1. Bucket /\ objects' = [objects EXCEPT ![t][k] = b]
    BY <1>5, <1>8 DEF Inv
  <2>2. QED
    BY <1>6, <1>7, <2>1, BucketKeeps
<1>10. objects'[t][dataset_key(c)] # NONE
  BY <1>5, <1>7, KeyFacts DEF Inv, Bucket
<1>11. Tasks' /\ task'[w] = s /\ \A x \in Workers : x # w => task'[x] = task[x]
  BY <1>2, <1>3, TaskGoes DEF Inv
<1>12. Rows'
  BY <1>3, <1>9, RowsKeep DEF Inv
<1>13. Uploads'
  <2>1. ASSUME NEW x \in Workers, task'[x].pc = "dataset"
        PROVE  objects'[task'[x].tenant][dataset_key(task'[x].content)] # NONE
    <3>1. CASE x = w
      BY <1>2, <1>10, <1>11, <3>1
    <3>2. CASE x # w
      <4>1. task'[x] = task[x] /\ task[x].pc = "dataset"
        BY <1>11, <2>1, <3>2
      <4>2. task[x] \in DatasetTask
        BY <4>1 DEF Inv, Tasks, Idle, AuditTask, Locked
      <4>3. task[x].tenant \in Tenants /\ task[x].content \in Corpora
        BY <4>2 DEF DatasetTask
      <4>4. QED
        BY <1>9, <4>1, <4>3, KeyFacts DEF Inv, Uploads
    <3>3. QED
      BY <3>1, <3>2
  <2>2. QED
    BY <2>1 DEF Uploads
<1>14. Audits'
  BY <1>2, <1>3, <1>11, AuditsKeep DEF Inv
<1>15. KeysGenerated' /\ Replaced' /\ Signed' /\ Logged'
  BY <1>3, LoggedKeeps DEF Inv, KeysGenerated, Replaced, Signed, ParentChain
<1>16. QED
  BY <1>9, <1>11, <1>12, <1>13, <1>14, <1>15 DEF Inv

\* An event that is about no attestation.
LEMMA LogGrows ==
    ASSUME Logged, NEW e, log' = Append(log, e), e.kind # "version.attested", Len(log) < MaxLog,
           attestation' = attestation
    PROVE  Logged'
<1>1. PICK S : log \in Seq(S)
  BY DEF Logged
<1>2. /\ log' \in Seq(S \cup {e}) /\ Len(log') = Len(log) + 1 /\ Len(log) \in Nat
      /\ DOMAIN log = 1..Len(log) /\ DOMAIN log' = 1..(Len(log) + 1)
      /\ log'[Len(log) + 1] = e /\ \A i \in 1..Len(log) : log'[i] = log[i]
  BY <1>1
<1>3. Len(log') <= MaxLog
  BY <1>2, BoundAssumption
<1>4. ASSUME NEW v \in Versions, attestation[v] # NONE
      PROVE  \E i \in DOMAIN log' :
                /\ NewestOf(v, i)' /\ log'[i].sha = sha256(attestation'[v])
                /\ attestation'[v].body.audit_log_head.seq = i - 1
                /\ i - 1 \in DOMAIN log' /\ log'[i - 1].what = <<v, attestation'[v].body.state>>
  <2>1. PICK i \in DOMAIN log :
           /\ NewestOf(v, i) /\ log[i].sha = sha256(attestation[v])
           /\ attestation[v].body.audit_log_head.seq = i - 1
           /\ i - 1 \in DOMAIN log /\ log[i - 1].what = <<v, attestation[v].body.state>>
    BY <1>4 DEF Logged
  <2>2. i \in DOMAIN log' /\ log'[i] = log[i] /\ i - 1 \in DOMAIN log' /\ log'[i - 1] = log[i - 1]
    BY <1>2, <2>1
  <2>3. ASSUME NEW j \in DOMAIN log', log'[j].kind = "version.attested", log'[j].what = <<v>> PROVE j <= i
    <3>1. j \in DOMAIN log /\ log'[j] = log[j]
      BY <1>2, <2>3
    <3>2. QED
      BY <2>1, <2>3, <3>1 DEF NewestOf
  <2>4. NewestOf(v, i)'
    BY <2>1, <2>2, <2>3 DEF NewestOf
  <2>5. QED
    BY <2>1, <2>2, <2>4
<1>5. QED
  BY <1>2, <1>3, <1>4 DEF Logged

LEMMA CommitDatasetKeeps ==
    ASSUME Inv, NEW w \in Workers, CommitDataset(w)
    PROVE  Inv'
<1> DEFINE d == task[w]
<1>1. d.pc = "dataset" /\ d \in DatasetTask /\ d.tenant \in Tenants /\ d.name \in Names /\ d.content \in Corpora
  <2>1. d.pc = "dataset"
    BY DEF CommitDataset
  <2>2. d \in DatasetTask
    BY <2>1 DEF Inv, Tasks, Idle, AuditTask, Locked
  <2>3. QED
    BY <2>1, <2>2 DEF DatasetTask
<1>2. /\ datasets' = [datasets EXCEPT ![d.tenant][d.name] = d.content] /\ Goes(w, Idle)
      /\ UNCHANGED <<objects, public_key, state, attestation, generated, outages>>
  BY DEF CommitDataset
<1>3. Tasks' /\ task'[w] = Idle /\ \A x \in Workers : x # w => task'[x] = task[x]
  BY <1>2, IdleTask, TaskGoes DEF Inv
<1>4. Bucket' /\ KeysGenerated' /\ Replaced' /\ Signed'
  BY <1>2 DEF Inv, Bucket, Genuine, KeysGenerated, Replaced, Signed, ParentChain
<1>5. Rows'
  <2>1. datasets = [t \in Tenants |-> [n \in Names |-> datasets[t][n]]]
    BY DEF Inv, Rows
  <2>2. /\ datasets'[d.tenant][d.name] = d.content
        /\ \A t \in Tenants, n \in Names : t # d.tenant \/ n # d.name => datasets'[t][n] = datasets[t][n]
        /\ datasets' = [t \in Tenants |-> [n \in Names |-> datasets'[t][n]]]
    BY <1>1, <1>2, <2>1
  <2>3. objects'[d.tenant][dataset_key(d.content)] # NONE
    BY <1>1, <1>2 DEF Inv, Uploads
  <2>4. ASSUME NEW t \in Tenants, NEW n \in Names, datasets'[t][n] # NONE
        PROVE  datasets'[t][n] \in Corpora /\ objects'[t][dataset_key(datasets'[t][n])] # NONE
    <3>1. CASE t = d.tenant /\ n = d.name
      BY <1>1, <2>2, <2>3, <3>1
    <3>2. CASE ~(t = d.tenant /\ n = d.name)
      <4>1. datasets'[t][n] = datasets[t][n] /\ datasets[t][n] # NONE
        BY <2>2, <2>4, <3>2
      <4>2. datasets[t][n] \in Corpora /\ objects[t][dataset_key(datasets[t][n])] # NONE
        BY <4>1 DEF Inv, Rows
      <4>3. QED
        BY <1>2, <4>1, <4>2
    <3>3. QED
      BY <3>1, <3>2
  <2>5. QED
    BY <2>2, <2>4 DEF Rows
<1>6. Uploads'
  BY <1>2, <1>3, IdleTask, UploadsKeep DEF Inv
<1>7. CASE d.tenant = Owner
  <2>1. ChainFree /\ Len(log) < MaxLog /\ log' = Append(log, Event("dataset.added", <<d.name>>, NONE))
    BY <1>7 DEF CommitDataset
  <2>2. PICK e : e = Event("dataset.added", <<d.name>>, NONE)
    OBVIOUS
  <2>3. e.kind # "version.attested" /\ log' = Append(log, e)
    BY <2>1, <2>2 DEF Event
  <2>4. Logged'
    BY <1>2, <2>1, <2>3, LogGrows DEF Inv
  <2>5. \A x \in Workers : task'[x].pc \notin Locked
    BY <1>3, <2>1, IdleTask DEF ChainFree, Locked
  <2>6. Audits'
    BY <2>5 DEF Audits
  <2>7. QED
    BY <1>3, <1>4, <1>5, <1>6, <2>4, <2>6 DEF Inv
<1>8. CASE d.tenant # Owner
  <2>1. log' = log
    BY <1>8 DEF CommitDataset
  <2>2. Logged'
    BY <1>2, <2>1, LoggedKeeps DEF Inv
  <2>3. Audits'
    BY <1>2, <1>3, <2>1, IdleTask, AuditsKeep DEF Inv
  <2>4. QED
    BY <1>3, <1>4, <1>5, <1>6, <2>2, <2>3 DEF Inv
<1>9. QED
  BY <1>7, <1>8

\* A transaction goes on, or ends, without writing anything but its own state.
LEMMA QuietKeeps ==
    ASSUME Inv, NEW w \in Workers, NEW s, Goes(w, s), s = Idle \/ s \in AuditTask,
           s.pc \in Locked => task[w].pc \in Locked \/ ChainFree,
           s.pc \in Locked => /\ state[s.version] = "auditing" /\ Len(log) + 2 <= MaxLog
                              /\ s.pc = "attest" => s.key \in 1..generated
                              /\ s.pc = "put" /\ outages' = 0 => generated = 0,
           outages' \in Nat, outages' = 0 => outages = 0,
           UNCHANGED <<objects, datasets, public_key, state, attestation, log, generated>>
    PROVE  Inv'
<1>1. Tasks' /\ task'[w] = s /\ \A x \in Workers : x # w => task'[x] = task[x]
  BY TaskGoes DEF Inv
<1>2. s.pc # "dataset"
  BY DEF Idle, AuditTask, Locked
<1>3. Bucket' /\ Rows' /\ Replaced' /\ Signed' /\ Logged'
  BY LoggedKeeps DEF Inv, Bucket, Genuine, Rows, Replaced, Signed, ParentChain
<1>4. Uploads'
  BY <1>1, <1>2, UploadsKeep DEF Inv
<1>5. KeysGenerated'
  BY DEF Inv, KeysGenerated
<1>6. Audits'
  <2>1. ASSUME NEW x \in Workers, task'[x].pc \in Locked
        PROVE  /\ state'[task'[x].version] = "auditing" /\ Len(log') + 2 <= MaxLog
               /\ task'[x].pc = "attest" => task'[x].key \in 1..generated'
               /\ task'[x].pc = "put" /\ outages' = 0 => generated' = 0
    <3>1. CASE x = w
      BY <1>1, <2>1, <3>1
    <3>2. CASE x # w
      <4>1. task'[x] = task[x]
        BY <1>1, <3>2
      <4>2. QED
        BY <2>1, <4>1 DEF Inv, Audits
    <3>3. QED
      BY <3>1, <3>2
  <2>2. QED
    BY <2>1 DEF Audits
<1>7. QED
  BY <1>1, <1>3, <1>4, <1>5, <1>6 DEF Inv

LEMMA DatasetConflictKeeps ==
    ASSUME Inv, NEW w \in Workers, DatasetConflict(w)
    PROVE  Inv'
<1>1. /\ Goes(w, Idle) /\ outages' = outages /\ outages \in Nat
      /\ UNCHANGED <<objects, datasets, public_key, state, attestation, log, generated>>
  BY DEF DatasetConflict, Inv, KeysGenerated
<1>2. PICK s : s = Idle
  OBVIOUS
<1>3. QED
  BY <1>1, <1>2, IdleTask, QuietKeeps

LEMMA AuditMoveKeeps ==
    ASSUME Inv, NEW w \in Workers, NEW v \in Versions, AuditMove(w, v)
    PROVE  Inv'
<1>1. PICK s : s = [pc |-> "key", version |-> v, key |-> 0, fresh |-> FALSE]
  OBVIOUS
<1>2. s \in AuditTask /\ s.pc = "key" /\ s.version = v
  BY <1>1 DEF AuditTask, Locked
<1>3. /\ Goes(w, s) /\ ChainFree /\ state[v] = "auditing" /\ Len(log) + 2 <= MaxLog
      /\ outages' = outages /\ outages \in Nat
      /\ UNCHANGED <<objects, datasets, public_key, state, attestation, log, generated>>
  BY <1>1 DEF AuditMove, Inv, KeysGenerated
<1>4. QED
  BY <1>2, <1>3, QuietKeeps

\* A transaction of an audit that has the lock.
LEMMA LockedTask ==
    ASSUME Inv, NEW w \in Workers, task[w].pc \in Locked
    PROVE  /\ task[w] \in AuditTask /\ task[w].version \in Versions
           /\ state[task[w].version] = "auditing" /\ Len(log) + 2 <= MaxLog
           /\ \A x \in Workers : x # w => task[x].pc \notin Locked
<1>1. task[w] \in AuditTask
  BY DEF Inv, Tasks, Idle, DatasetTask, Locked
<1>2. QED
  BY <1>1 DEF Inv, Tasks, Audits, AuditTask

LEMMA GetKeyKeeps ==
    ASSUME Inv, NEW w \in Workers, GetKey(w)
    PROVE  Inv'
<1> DEFINE data == get(Owner, KEY_OBJECT)
<1>1. /\ task[w].pc = "key" /\ data # UNDECRYPTABLE /\ outages' = outages /\ outages \in Nat
      /\ UNCHANGED <<objects, datasets, public_key, state, attestation, log, generated>>
  BY DEF GetKey, Inv, KeysGenerated
<1>2. /\ task[w] \in AuditTask /\ task[w].pc \in Locked
      /\ state[task[w].version] = "auditing" /\ Len(log) + 2 <= MaxLog
  BY <1>1, LockedTask DEF Locked
<1>3. CASE data = MISSING
  <2>1. PICK s : s = [task[w] EXCEPT !.pc = "put"]
    OBVIOUS
  <2>2. s \in AuditTask /\ s.pc = "put" /\ s.version = task[w].version
    BY <1>2, <2>1 DEF AuditTask, Locked
  <2>3. Goes(w, s)
    BY <1>3, <2>1 DEF GetKey
  <2>4. generated = 0
    <3>1. objects[Owner][KEY_OBJECT] = NONE
      BY <1>3, KeyRead, ReadsDiffer DEF Inv, KeysGenerated
    <3>2. QED
      BY <3>1 DEF Inv, Bucket, KeysGenerated
  <2>5. QED
    BY <1>1, <1>2, <2>2, <2>3, <2>4, QuietKeeps
<1>4. CASE data # MISSING
  <2>1. PICK s : s = [task[w] EXCEPT !.pc = "attest", !.key = data[2]]
    OBVIOUS
  <2>2. PICK i \in 1..generated : data = pem(i)
    BY <1>1, <1>4, KeyRead DEF Inv, KeysGenerated
  <2>3. data[2] = i /\ i \in Nat
    BY <2>2, ReadsDiffer
  <2>4. s \in AuditTask /\ s.pc = "attest" /\ s.version = task[w].version /\ s.key = i
    BY <1>2, <2>1, <2>3 DEF AuditTask, Locked
  <2>5. Goes(w, s)
    BY <1>4, <2>1 DEF GetKey
  <2>6. QED
    BY <1>1, <1>2, <2>4, <2>5, QuietKeeps
<1>5. QED
  BY <1>3, <1>4

LEMMA GetKeyOutageKeeps ==
    ASSUME Inv, NEW w \in Workers, GetKeyOutage(w)
    PROVE  Inv'
<1>1. /\ task[w].pc = "key" /\ outages' = outages + 1 /\ outages \in Nat
      /\ UNCHANGED <<objects, datasets, public_key, state, attestation, log, generated>>
  BY DEF GetKeyOutage, Inv, KeysGenerated
<1>2. /\ task[w] \in AuditTask /\ task[w].pc \in Locked
      /\ state[task[w].version] = "auditing" /\ Len(log) + 2 <= MaxLog
  BY <1>1, LockedTask DEF Locked
<1>3. PICK s : s = [task[w] EXCEPT !.pc = "put"]
  OBVIOUS
<1>4. s \in AuditTask /\ s.pc = "put" /\ s.version = task[w].version
  BY <1>2, <1>3 DEF AuditTask, Locked
<1>5. Goes(w, s)
  BY <1>3 DEF GetKeyOutage
<1>6. outages' \in Nat /\ outages' # 0
  BY <1>1
<1>7. QED
  BY <1>1, <1>2, <1>4, <1>5, <1>6, QuietKeeps

LEMMA PutKeyKeeps ==
    ASSUME Inv, NEW w \in Workers, PutKey(w)
    PROVE  Inv'
<1>1. /\ task[w].pc = "put" /\ generated' = generated + 1 /\ generated \in Nat
      /\ UNCHANGED <<datasets, public_key, state, attestation, log, outages>>
  BY DEF PutKey, Inv, KeysGenerated
<1>2. /\ task[w] \in AuditTask /\ task[w].pc \in Locked
      /\ state[task[w].version] = "auditing" /\ Len(log) + 2 <= MaxLog
      /\ \A x \in Workers : x # w => task[x].pc \notin Locked
  BY <1>1, LockedTask DEF Locked
<1>3. PICK s : s = [task[w] EXCEPT !.pc = "attest", !.key = generated + 1, !.fresh = TRUE]
  OBVIOUS
<1>4. s \in AuditTask /\ s.pc = "attest" /\ s.version = task[w].version /\ s.key = generated + 1
  <2>1. PICK n \in Nat : n = generated + 1
    BY <1>1
  <2>2. s = [task[w] EXCEPT !.pc = "attest", !.key = n, !.fresh = TRUE]
    BY <1>3, <2>1
  <2>3. s = [pc |-> "attest", version |-> task[w].version, key |-> n, fresh |-> TRUE]
    BY <1>2, <2>2 DEF AuditTask
  <2>4. QED
    BY <1>2, <2>1, <2>3 DEF AuditTask, Locked
<1>5. Goes(w, s)
  BY <1>3 DEF PutKey
<1>6. Tasks' /\ task'[w] = s /\ \A x \in Workers : x # w => task'[x] = task[x]
  BY <1>2, <1>4, <1>5, TaskGoes DEF Inv
<1>7. PICK b : b = encrypted(Owner, KEY_OBJECT, pem(generated + 1))
  OBVIOUS
<1>8. b # NONE /\ Genuine(b, generated')
  BY <1>1, <1>7, EncryptedGenuine, OwnerAssumption
<1>9. /\ Bucket'
      /\ \A u \in Tenants, l \in ObjectKeys : objects[u][l] # NONE => objects'[u][l] # NONE
  <2>1. /\ Bucket /\ objects' = [objects EXCEPT ![Owner][KEY_OBJECT] = b]
        /\ generated' \in Nat /\ generated <= generated'
    BY <1>1, <1>7 DEF Inv, PutKey, put
  <2>2. Owner \in Tenants /\ KEY_OBJECT \in ObjectKeys
    BY OwnerAssumption, KeyFacts
  <2>3. QED
    BY <1>1, <1>8, <2>1, <2>2, BucketKeeps
<1>10. Rows' /\ Uploads'
  <2>1. \A x \in Workers : task'[x].pc = "dataset" => task'[x] = task[x]
    BY <1>4, <1>6
  <2>2. QED
    BY <1>1, <1>9, <2>1, RowsKeep, UploadsKeep DEF Inv
<1>11. Audits'
  <2>1. \A x \in Workers : x # w => task'[x].pc \notin Locked
    BY <1>2, <1>6
  <2>2. /\ state'[s.version] = "auditing" /\ Len(log') + 2 <= MaxLog /\ s.key \in 1..generated'
    BY <1>1, <1>2, <1>4
  <2>3. QED
    BY <1>4, <1>6, <2>1, <2>2 DEF Audits
<1>12. KeysGenerated'
  <2>1. outages = 0 => generated = 0
    BY <1>1, <1>2 DEF Inv, Audits
  <2>2. public_key # NONE => public_key \in 1..generated
    BY DEF Inv, KeysGenerated
  <2>3. QED
    BY <1>1, <2>1, <2>2 DEF Inv, KeysGenerated
<1>13. Replaced' /\ Logged'
  BY <1>1, LoggedKeeps DEF Inv, Replaced
<1>14. Signed'
  <2>1. generated' \in Nat /\ generated <= generated' /\ state' = state /\ attestation' = attestation
    BY <1>1
  <2>2. QED
    BY <1>1, <2>1, SignedKeeps DEF Inv
<1>15. QED
  BY <1>6, <1>9, <1>10, <1>11, <1>12, <1>13, <1>14 DEF Inv

LEMMA AbortKeeps ==
    ASSUME Inv, NEW w \in Workers, Abort(w)
    PROVE  Inv'
<1> DEFINE v == task[w].version
<1>1. /\ task[w].pc \in Locked /\ Goes(w, Idle)
      /\ UNCHANGED <<objects, datasets, public_key, attestation, log, generated, outages>>
  BY DEF Abort, Locked
<1>2. PICK to \in {"auditing", "registered"} : state' = [state EXCEPT ![v] = to]
  BY DEF Abort
<1>3. v \in Versions /\ state[v] = "auditing" /\ \A x \in Workers : x # w => task[x].pc \notin Locked
  BY <1>1, LockedTask
<1>4. /\ state \in [Versions -> States \cup {NONE}] /\ to \in States /\ to # NONE
      /\ state'[v] = to /\ \A x \in Versions : x # v => state'[x] = state[x]
  BY <1>2, <1>3, NoneFacts DEF Inv, Replaced, States
<1>5. Tasks' /\ task'[w] = Idle /\ \A x \in Workers : x # w => task'[x] = task[x]
  BY <1>1, IdleTask, TaskGoes DEF Inv
<1>6. Bucket' /\ Rows' /\ KeysGenerated' /\ Logged'
  BY <1>1, LoggedKeeps DEF Inv, Bucket, Genuine, Rows, KeysGenerated
<1>7. Uploads'
  BY <1>1, <1>5, IdleTask, UploadsKeep DEF Inv
<1>8. \A x \in Workers : task'[x].pc \notin Locked
  BY <1>3, <1>5, IdleTask
<1>9. Audits'
  BY <1>8 DEF Audits
<1>10. Replaced'
  <2>1. state' \in [Versions -> States \cup {NONE}]
    BY <1>2, <1>4
  <2>2. ASSUME NEW x \in Versions, Parent[x] # NONE, state'[x] # NONE PROVE state'[Parent[x]] = "superseded"
    <3>1. state[x] # NONE
      BY <1>3, <1>4, <2>2, NoneFacts DEF States
    <3>2. state[Parent[x]] = "superseded" /\ Parent[x] \in Versions
      BY <2>2, <3>1, ParentAssumption DEF Inv, Replaced
    <3>3. QED
      BY <1>3, <1>4, <3>2
  <2>3. QED
    BY <2>1, <2>2 DEF Replaced
<1>11. Signed'
  <2>1. \A x \in Versions : state[x] # NONE => state'[x] # NONE
    BY <1>4
  <2>2. QED
    BY <1>1, <2>1 DEF Inv, Signed, ParentChain
<1>12. QED
  BY <1>5, <1>6, <1>7, <1>9, <1>10, <1>11 DEF Inv

\* The move and the attestation are logged together.
LEMMA AttestedLogged ==
    ASSUME Logged, NEW v \in Versions, NEW d, NEW e, NEW f, log' = log \o <<e, f>>,
           e.kind = "version.state", e.what = <<v, d.body.state>>,
           f.kind = "version.attested", f.what = <<v>>, f.sha = sha256(d),
           Len(log) + 2 <= MaxLog, d.body.audit_log_head.seq = Len(log) + 1,
           attestation'[v] = d, \A x \in Versions : x # v => attestation'[x] = attestation[x]
    PROVE  Logged'
<1>1. PICK S : log \in Seq(S)
  BY DEF Logged
<1>2. /\ log' \in Seq(S \cup {e, f}) /\ Len(log') = Len(log) + 2 /\ Len(log) \in Nat
      /\ DOMAIN log = 1..Len(log) /\ DOMAIN log' = 1..(Len(log) + 2)
      /\ log'[Len(log) + 1] = e /\ log'[Len(log) + 2] = f /\ \A i \in 1..Len(log) : log'[i] = log[i]
  BY <1>1
<1>3. Len(log') <= MaxLog
  BY <1>2
<1>4. ASSUME NEW x \in Versions, attestation'[x] # NONE
      PROVE  \E i \in DOMAIN log' :
                /\ NewestOf(x, i)' /\ log'[i].sha = sha256(attestation'[x])
                /\ attestation'[x].body.audit_log_head.seq = i - 1
                /\ i - 1 \in DOMAIN log' /\ log'[i - 1].what = <<x, attestation'[x].body.state>>
  <2>1. CASE x = v
    <3>1. PICK i \in DOMAIN log' : i = Len(log) + 2
      BY <1>2
    <3>2. i - 1 = Len(log) + 1 /\ i - 1 \in DOMAIN log' /\ log'[i] = f /\ log'[i - 1] = e
      BY <1>2, <3>1
    <3>3. NewestOf(x, i)'
      BY <1>2, <2>1, <3>1, <3>2 DEF NewestOf
    <3>4. QED
      BY <2>1, <3>2, <3>3
  <2>2. CASE x # v
    <3>1. attestation'[x] = attestation[x] /\ attestation[x] # NONE
      BY <1>4, <2>2
    <3>2. PICK i \in DOMAIN log :
             /\ NewestOf(x, i) /\ log[i].sha = sha256(attestation[x])
             /\ attestation[x].body.audit_log_head.seq = i - 1
             /\ i - 1 \in DOMAIN log /\ log[i - 1].what = <<x, attestation[x].body.state>>
      BY <3>1 DEF Logged
    <3>3. i \in DOMAIN log' /\ log'[i] = log[i] /\ i - 1 \in DOMAIN log' /\ log'[i - 1] = log[i - 1]
      BY <1>2, <3>2
    <3>4. ASSUME NEW j \in DOMAIN log', log'[j].kind = "version.attested", log'[j].what = <<x>> PROVE j <= i
      <4>1. log'[j] # e /\ log'[j] # f
        BY <2>2, <3>4
      <4>2. j \in DOMAIN log /\ log'[j] = log[j]
        BY <1>2, <4>1
      <4>3. QED
        BY <3>2, <3>4, <4>2 DEF NewestOf
    <3>5. NewestOf(x, i)'
      BY <3>2, <3>3, <3>4 DEF NewestOf
    <3>6. QED
      BY <3>1, <3>2, <3>3, <3>5
  <2>3. QED
    BY <2>1, <2>2
<1>5. QED
  BY <1>2, <1>3, <1>4 DEF Logged

\* No successor of v has been attested when v is audited: it would have
\* superseded v.  So the hash v's successors have of it is never out of date.
LEMMA AttestKeeps ==
    ASSUME Inv, NEW w \in Workers, NEW to \in {"findings", "clean"}, Attest(w, to)
    PROVE  Inv'
<1>1. PICK v : v = task[w].version
  OBVIOUS
<1>2. PICK h : h = [seq |-> Len(log) + 1]
  OBVIOUS
<1>3. PICK b : b = Body(v, to, h)
  OBVIOUS
<1>4. PICK d : d = signed(b, task[w].key)
  OBVIOUS
<1>5. /\ task[w].pc = "attest" /\ Goes(w, Idle)
      /\ state' = [state EXCEPT ![v] = to] /\ attestation' = [attestation EXCEPT ![v] = d]
      /\ public_key' = IF task[w].fresh THEN task[w].key ELSE public_key
      /\ log' = log \o <<Event("version.state", <<v, to>>, NONE), Event("version.attested", <<v>>, sha256(d))>>
      /\ UNCHANGED <<objects, datasets, generated, outages>>
  BY <1>1, <1>2, <1>3, <1>4 DEF Attest
<1>6. /\ v \in Versions /\ state[v] = "auditing" /\ Len(log) + 2 <= MaxLog
      /\ \A x \in Workers : x # w => task[x].pc \notin Locked
  BY <1>1, <1>5, LockedTask DEF Locked
<1>7. /\ d.body = b /\ d.signature.key = task[w].key /\ d.signature.of = b /\ b.version = v /\ b.state = to
      /\ b.audit_log_head = h
      /\ b.parent = IF Parent[v] = NONE THEN NONE
                    ELSE [version |-> Parent[v], sha |-> sha256(attestation[Parent[v]])]
  BY <1>3, <1>4 DEF signed, Body
<1>8. task[w].key \in 1..generated
  BY <1>5 DEF Inv, Audits, Locked
<1>9. /\ state'[v] = to /\ to \in States /\ to # NONE /\ \A x \in Versions : x # v => state'[x] = state[x]
      /\ state' \in [Versions -> States \cup {NONE}]
  BY <1>5, <1>6, NoneFacts DEF Inv, Replaced, States
<1>10. /\ attestation' = [x \in Versions |-> attestation'[x]]
       /\ attestation'[v] = d /\ \A x \in Versions : x # v => attestation'[x] = attestation[x]
  <2>1. attestation = [x \in Versions |-> attestation[x]]
    BY DEF Inv, Signed
  <2>2. QED
    BY <1>5, <1>6, <2>1
<1>11. Tasks' /\ task'[w] = Idle /\ \A x \in Workers : x # w => task'[x] = task[x]
  BY <1>5, IdleTask, TaskGoes DEF Inv
<1>12. Bucket' /\ Rows'
  BY <1>5 DEF Inv, Bucket, Genuine, Rows
<1>13. Uploads'
  BY <1>5, <1>11, IdleTask, UploadsKeep DEF Inv
<1>14. Audits'
  <2>1. \A x \in Workers : task'[x].pc \notin Locked
    BY <1>6, <1>11, IdleTask
  <2>2. QED
    BY <2>1 DEF Audits
<1>15. KeysGenerated'
  BY <1>5, <1>8 DEF Inv, KeysGenerated
<1>16. \A x \in Versions : Parent[x] = v => state[x] = NONE
  BY <1>6, NoneFacts DEF Inv, Replaced
<1>17. Replaced'
  <2>1. ASSUME NEW x \in Versions, Parent[x] # NONE, state'[x] # NONE PROVE state'[Parent[x]] = "superseded"
    <3>1. state[x] # NONE
      BY <1>6, <1>9, <2>1, NoneFacts DEF States
    <3>2. state[Parent[x]] = "superseded" /\ Parent[x] \in Versions
      BY <2>1, <3>1, ParentAssumption DEF Inv, Replaced
    <3>3. QED
      BY <1>6, <1>9, <3>2
  <2>2. QED
    BY <1>9, <2>1 DEF Replaced
<1>18. Signed'
  <2>1. ASSUME NEW x \in Versions, attestation'[x] # NONE
        PROVE  /\ state'[x] # NONE /\ attestation'[x].body.version = x
               /\ attestation'[x].signature.key \in 1..generated
               /\ attestation'[x].signature.of = attestation'[x].body
    <3>1. CASE x = v
      BY <1>7, <1>8, <1>9, <1>10, <3>1
    <3>2. CASE x # v
      BY <1>9, <1>10, <2>1, <3>2 DEF Inv, Signed
    <3>3. QED
      BY <3>1, <3>2
  <2>2. ASSUME NEW x \in Versions, attestation'[x] # NONE, Parent[x] # NONE
        PROVE  attestation'[x].body.parent.sha = sha256(attestation'[Parent[x]])
    <3>1. CASE x = v
      <4>1. state[Parent[v]] = "superseded" /\ Parent[v] \in Versions
        BY <1>6, <2>2, <3>1, NoneFacts, ParentAssumption DEF Inv, Replaced, States
      <4>2. attestation'[Parent[v]] = attestation[Parent[v]]
        BY <1>6, <1>10, <4>1
      <4>3. b.parent = [version |-> Parent[v], sha |-> sha256(attestation[Parent[v]])]
        BY <1>7, <2>2, <3>1
      <4>4. QED
        BY <1>7, <1>10, <3>1, <4>2, <4>3
    <3>2. CASE x # v
      <4>1. attestation'[x] = attestation[x] /\ state[x] # NONE
        BY <1>10, <2>2, <3>2 DEF Inv, Signed
      <4>2. Parent[x] # v /\ Parent[x] \in Versions
        BY <1>16, <2>2, <4>1, ParentAssumption
      <4>3. attestation'[Parent[x]] = attestation[Parent[x]]
        BY <1>10, <4>2
      <4>4. attestation[x].body.parent.sha = sha256(attestation[Parent[x]])
        BY <2>2, <4>1 DEF Inv, Signed, ParentChain
      <4>5. QED
        BY <4>1, <4>3, <4>4
    <3>3. QED
      BY <3>1, <3>2
  <2>3. QED
    BY <1>5, <1>10, <2>1, <2>2 DEF Signed, ParentChain
<1>19. Logged'
  <2>1. PICK e : e = Event("version.state", <<v, to>>, NONE)
    OBVIOUS
  <2>2. PICK f : f = Event("version.attested", <<v>>, sha256(d))
    OBVIOUS
  <2>3. /\ e.kind = "version.state" /\ e.what = <<v, to>>
        /\ f.kind = "version.attested" /\ f.what = <<v>> /\ f.sha = sha256(d) /\ log' = log \o <<e, f>>
    BY <1>5, <2>1, <2>2 DEF Event
  <2>4. d.body.audit_log_head.seq = Len(log) + 1 /\ d.body.state = to
    BY <1>2, <1>7
  <2>5. /\ Logged /\ e.what = <<v, d.body.state>> /\ Len(log) + 2 <= MaxLog
        /\ attestation'[v] = d /\ \A x \in Versions : x # v => attestation'[x] = attestation[x]
    BY <1>6, <1>10, <2>3, <2>4 DEF Inv
  <2>6. QED
    BY <1>6, <2>3, <2>4, <2>5, AttestedLogged
<1>20. QED
  BY <1>11, <1>12, <1>13, <1>14, <1>15, <1>17, <1>18, <1>19 DEF Inv

-----------------------------------------------------------------------------
(* What follows for every behavior. *)

LEMMA NextKeeps == Inv /\ [Next]_vars => Inv'
<1> SUFFICES ASSUME Inv, [Next]_vars PROVE Inv'
  OBVIOUS
<1>1. CASE Copy
  BY <1>1, CopyKeeps
<1>2. ASSUME NEW v \in Versions, StartAudit(v) PROVE Inv'
  BY <1>2, StartAuditKeeps
<1>3. ASSUME NEW v \in Versions, Remediate(v) PROVE Inv'
  BY <1>3, RemediateKeeps
<1>4. ASSUME NEW w \in Workers, NEW t \in Tenants, NEW n \in Names, NEW c \in Corpora, PutDataset(w, t, n, c)
      PROVE  Inv'
  BY <1>4, PutDatasetKeeps
<1>5. ASSUME NEW w \in Workers, CommitDataset(w) \/ DatasetConflict(w) PROVE Inv'
  BY <1>5, CommitDatasetKeeps, DatasetConflictKeeps
<1>6. ASSUME NEW w \in Workers, NEW v \in Versions, AuditMove(w, v) PROVE Inv'
  BY <1>6, AuditMoveKeeps
<1>7. ASSUME NEW w \in Workers, GetKey(w) \/ GetKeyOutage(w) PROVE Inv'
  BY <1>7, GetKeyKeeps, GetKeyOutageKeeps
<1>8. ASSUME NEW w \in Workers, PutKey(w) \/ Abort(w) PROVE Inv'
  BY <1>8, PutKeyKeeps, AbortKeeps
<1>9. ASSUME NEW w \in Workers, NEW to \in {"findings", "clean"}, Attest(w, to) PROVE Inv'
  BY <1>9, AttestKeeps
<1>10. CASE UNCHANGED vars
  <2>1. UNCHANGED <<objects, datasets, public_key, state, attestation, log, task, generated, outages>>
    BY <1>10 DEF vars
  <2>2. Bucket' /\ Rows' /\ Uploads'
    BY <2>1 DEF Inv, Bucket, Genuine, Rows, Uploads
  <2>3. Tasks' /\ Audits' /\ KeysGenerated' /\ Replaced'
    BY <2>1 DEF Inv, Tasks, Audits, KeysGenerated, Replaced
  <2>4. Signed' /\ Logged'
    BY <2>1, LoggedKeeps DEF Inv, Signed, ParentChain
  <2>5. QED
    BY <2>2, <2>3, <2>4 DEF Inv
<1>11. QED
  BY <1>1, <1>2, <1>3, <1>4, <1>5, <1>6, <1>7, <1>8, <1>9, <1>10 DEF Next

LEMMA Invariance == Spec => []Inv
BY InitInv, NextKeeps, PTL DEF Spec

\* Whatever is copied inside the bucket, TenantStore.get returns the dataset
\* that this tenant uploaded under this hash, or fails to decrypt it, and the
\* signing key read for an attestation was generated for the tenant
\* (storage.py, attest.py signing_key).
THEOREM Foreign == Spec => []NothingForeign
<1>1. Inv => NothingForeign
  <2> SUFFICES ASSUME Inv PROVE NothingForeign
    OBVIOUS
  <2>1. ASSUME NEW t \in Tenants, NEW n \in Names, datasets[t][n] # NONE
        PROVE  get(t, dataset_key(datasets[t][n])) \in {corpus(datasets[t][n]), UNDECRYPTABLE}
    <3>1. PICK c \in Corpora : c = datasets[t][n]
      BY <2>1 DEF Inv, Rows
    <3>2. PICK k \in ObjectKeys : k = dataset_key(c)
      BY KeyFacts
    <3>3. objects[t][k] # NONE /\ Genuine(objects[t][k], generated)
      BY <2>1, <3>1, <3>2 DEF Inv, Rows, Bucket
    <3>4. objects[t][k].context = <<t, k>> => objects[t][k].data = corpus(c)
      BY <3>2, <3>3 DEF Genuine
    <3>5. get(t, k) \in {corpus(c), UNDECRYPTABLE}
      BY <3>3, <3>4 DEF get, _context
    <3>6. QED
      BY <3>1, <3>2, <3>5
  <2>2. get(Owner, KEY_OBJECT) \in {MISSING, UNDECRYPTABLE} \cup {pem(n) : n \in 1..generated}
    <3>1. Bucket /\ generated \in Nat
      BY DEF Inv, KeysGenerated
    <3>2. QED
      BY <3>1, KeyRead
  <2>3. QED
    BY <2>1, <2>2 DEF NothingForeign
<1>2. QED
  BY <1>1, Invariance, PTL

\* As long as the storage answers, signing_key generates one key whatever
\* audits overlap, are retried or given up, and every attestation the report
\* looks at verifies under the published one (attest.py, reports.py _version).
THEOREM OneKey == Spec => []OneKeyVerifies
<1>1. Inv => OneKeyVerifies
  <2> SUFFICES ASSUME Inv, outages = 0
               PROVE  generated <= 1 /\ (public_key # NONE => all_attestations_verified)
    BY DEF OneKeyVerifies, OneSigningKey, PublishedVerifies
  <2>1. generated <= 1 /\ generated \in Nat
    BY DEF Inv, KeysGenerated
  <2>2. ASSUME public_key # NONE, NEW v \in Versions, attestation[v] # NONE
        PROVE  attestation_verified(v)
    <3>1. public_key \in 1..generated
      BY <2>2 DEF Inv, KeysGenerated
    <3>2. attestation[v].signature.key \in 1..generated /\ attestation[v].signature.of = attestation[v].body
      BY <2>2 DEF Inv, Signed
    <3>3. attestation[v].signature.key = public_key
      BY <2>1, <3>1, <3>2
    <3>4. QED
      BY <2>2, <3>2, <3>3 DEF attestation_verified, verify
  <2>3. QED
    BY <2>1, <2>2 DEF all_attestations_verified
<1>2. QED
  BY <1>1, Invariance, PTL

\* Through every new audit the parent's hash in a version's attestation is the
\* hash of the parent's attestation, and the newest event of the log about a
\* version's attestation is the one about the attestation stored, right after
\* the move that the attestation names as the log's head (attest.py attest).
THEOREM Linked == Spec => []AttestationsLinked
<1>1. Inv => TypeOK
  <2> SUFFICES ASSUME Inv PROVE TypeOK
    OBVIOUS
  <2>1. \A t \in Tenants, k \in ObjectKeys : objects[t][k] # NONE =>
           DOMAIN objects[t][k] = {"key", "context", "data"}
    <3> SUFFICES ASSUME NEW t \in Tenants, NEW k \in ObjectKeys, objects[t][k] # NONE
                 PROVE  DOMAIN objects[t][k] = {"key", "context", "data"}
      OBVIOUS
    <3>1. PICK b : b = objects[t][k]
      OBVIOUS
    <3>2. b = [key |-> b.key, context |-> b.context, data |-> b.data]
      BY <3>1 DEF Inv, Bucket, Genuine
    <3>3. DOMAIN b = {"key", "context", "data"}
      BY <3>2
    <3>4. QED
      BY <3>1, <3>3
  <2>2. \A t \in Tenants, n \in Names : datasets[t][n] \in Corpora \cup {NONE}
    BY DEF Inv, Rows
  <2>3. QED
    BY <2>1, <2>2 DEF TypeOK, Inv, KeysGenerated, Signed, Logged
<1>2. Inv => Anchored
  <2> SUFFICES ASSUME Inv, NEW v \in Versions, attestation[v] # NONE,
                      NEW A, A = {i \in DOMAIN log : log[i].kind = "version.attested" /\ log[i].what = <<v>>}
               PROVE  /\ A # {} /\ log[Max(A)].sha = sha256(attestation[v])
                      /\ attestation[v].body.audit_log_head.seq = Max(A) - 1
                      /\ log[attestation[v].body.audit_log_head.seq].what = <<v, attestation[v].body.state>>
    BY DEF Anchored
  <2>1. PICK i \in DOMAIN log :
           /\ NewestOf(v, i) /\ log[i].sha = sha256(attestation[v])
           /\ attestation[v].body.audit_log_head.seq = i - 1
           /\ i - 1 \in DOMAIN log /\ log[i - 1].what = <<v, attestation[v].body.state>>
    BY DEF Inv, Logged
  <2>2. A \subseteq Nat
    <3>1. PICK S : log \in Seq(S)
      BY DEF Inv, Logged
    <3>2. DOMAIN log = 1..Len(log) /\ Len(log) \in Nat
      BY <3>1
    <3>3. QED
      BY <3>2
  <2>3. i \in A /\ \A j \in A : i >= j
    BY <2>1, <2>2 DEF NewestOf
  <2>4. Max(A) \in A /\ \A j \in A : Max(A) >= j
    BY <2>3 DEF Max
  <2>5. Max(A) = i
    BY <2>2, <2>3, <2>4
  <2>6. QED
    BY <2>1, <2>3, <2>5
<1>3. Inv => ParentChain
  BY DEF Inv, Signed
<1>4. QED
  BY <1>1, <1>2, <1>3, Invariance, PTL DEF AttestationsLinked
=============================================================================
