------------------------------ MODULE Project -------------------------------
(***************************************************************************)
(* A project directory and the commands that work on it: passport init,    *)
(* run, build and monitor (cli/project.py, cli/ops.py and core/), while    *)
(* its owner goes on editing files.  A command reads files, works on what  *)
(* it has read, and writes later.                                          *)
(***************************************************************************)
EXTENDS Passport

CONSTANTS
    Stages,        \* the pipeline: a sequence of [script, deps, outs]
    Datasets,      \* the paths declared as datasets
    Model,         \* the model's path
    Config,        \* passport.yaml
    Sources,       \* the paths that exist from the start and that people edit
    Procs,         \* commands that may run at a time
    MaxEdits, MaxPassports, MaxEvents, MaxKeys

VARIABLES
    file,      \* contents of every path, NONE for a missing one
    edits,     \* how often anything was edited
    undone,    \* history variable: the sources ever brought back to earlier contents
    run,       \* .passport/run.json
    key, pub,  \* private and public key in .passport
    keys,      \* key pairs generated so far
    passport,  \* passport.json
    made,      \* passports built so far
    history,   \* .passport/history
    copies,    \* passports as they were written, which people keep elsewhere too
    detached,  \* history variable: passports built with --previous another file than --out
    reported,  \* events that monitor said it appended to passport.json
    proc       \* commands in progress

vars == <<file, edits, undone, run, key, pub, keys, passport, made, history, copies, detached, reported,
          proc>>
files == <<file, edits, undone>>
kept == <<copies, detached>>
keyring == <<key, pub, keys>>
documents == <<passport, made, history, kept, reported>>

Products == UNION {Stages[i].outs : i \in DOMAIN Stages}
Paths == Sources \cup Products
ASSUME StagesAssumption ==
    /\ Len(Stages) \in Nat /\ DOMAIN Stages = 1..Len(Stages)
    /\ \A i \in DOMAIN Stages :
          Stages[i].script \in Sources /\ Stages[i].deps \subseteq Paths
    /\ Datasets \subseteq Paths /\ Model \in Products /\ Config \in Sources
ASSUME BoundsAssumption == {MaxEdits, MaxPassports, MaxKeys} \subseteq Nat
ASSUME NoneAssumption == NONE \notin Nat

\* What a stage makes is determined by its script and by what it reads.
Output(i, contents) ==
    [by |-> i, script |-> contents[Stages[i].script],
     deps |-> [d \in Stages[i].deps |-> contents[d]]]

Idle == [cmd |-> "none", pc |-> "idle"]

Init ==
    /\ file = [f \in Paths |-> IF f \in Sources THEN [saved |-> 0] ELSE NONE]
    /\ edits = 0 /\ undone = {}
    /\ run = NONE /\ key = NONE /\ pub = NONE /\ keys = 0
    /\ passport = NONE /\ made = 0 /\ history = {} /\ reported = {}
    /\ copies = {} /\ detached = {}
    /\ proc = [p \in Procs |-> Idle]

\* The owner saves a file with new contents.
Edit ==
    /\ edits < MaxEdits
    /\ edits' = edits + 1
    /\ \E f \in Sources : file' = [file EXCEPT ![f] = [saved |-> edits + 1]]
    /\ UNCHANGED <<undone, run, keyring, documents, proc>>

\* The owner brings earlier contents back: an editor's undo, git checkout.
Undo ==
    /\ edits < MaxEdits
    /\ edits' = edits + 1
    /\ \E f \in Sources : \E n \in 0..(file[f].saved - 1) :
          /\ file' = [file EXCEPT ![f] = [saved |-> n]]
          /\ undone' = undone \cup {f}
    /\ UNCHANGED <<run, keyring, documents, proc>>

Start(p, state) == proc[p] = Idle /\ proc' = [proc EXCEPT ![p] = state]
Continue(p, pc, state) == proc[p].pc = pc /\ proc' = [proc EXCEPT ![p] = state]

-----------------------------------------------------------------------------
(* passport init, in a project that has its config. *)

\* save_keypair writes the private key first: there is none, or --force is given.
InitPrivate(p) ==
    /\ keys < MaxKeys
    /\ Start(p, [cmd |-> "init", pc |-> "public", key |-> keys + 1])
    /\ keys' = keys + 1 /\ key' = keys + 1
    /\ UNCHANGED <<files, run, pub, documents>>

InitPublic(p) ==
    /\ Continue(p, "public", Idle)
    /\ pub' = proc[p].key
    /\ UNCHANGED <<files, run, key, keys, documents>>

\* The private key is kept; a public key that is missing is written again.
InitKept(p) ==
    /\ proc[p] = Idle
    /\ key # NONE /\ pub = NONE /\ pub' = key
    /\ UNCHANGED <<files, run, key, keys, documents, proc>>

-----------------------------------------------------------------------------
(* passport run. *)

RunBegin(p) ==
    /\ Start(p, [cmd |-> "run", pc |-> "hash_inputs", stages |-> file[Config], record |-> <<>>])
    /\ UNCHANGED <<files, run, keyring, documents>>

StageOf(p) == Len(proc[p].record) + 1

\* run_stage: the script and the inputs are hashed before the stage runs.
HashInputs(p) ==
    LET s == Stages[StageOf(p)]
        present == \A f \in {s.script} \cup s.deps : file[f] # NONE IN
    /\ Continue(p, "hash_inputs",
         IF present THEN [cmd |-> "run", pc |-> "execute", stages |-> proc[p].stages,
                          record |-> proc[p].record, script |-> file[s.script],
                          inputs |-> [d \in s.deps |-> file[d]]]
         ELSE Idle)
    /\ UNCHANGED <<files, run, keyring, documents>>

\* The subprocess reads the files as they are now.
Execute(p) ==
    LET i == StageOf(p) IN
    /\ Continue(p, "execute", [proc[p] EXCEPT !.pc = "hash_outputs"])
    /\ file' = [f \in Paths |-> IF f \in Stages[i].outs THEN Output(i, file) ELSE file[f]]
    /\ UNCHANGED <<edits, undone, run, keyring, documents>>

\* Faulty HashOutputs: the inputs are hashed after the stage has run.
HashAllAfter(p) ==
    LET i == StageOf(p)
        s == Stages[i]
        record == Append(proc[p].record,
                    [script |-> file[s.script], inputs |-> [d \in s.deps |-> file[d]],
                     outputs |-> [o \in s.outs |-> file[o]]]) IN
    /\ Continue(p, "hash_outputs",
         IF i = Len(Stages) THEN Idle
         ELSE [cmd |-> "run", pc |-> "hash_inputs", stages |-> proc[p].stages, record |-> record])
    /\ run' = IF i = Len(Stages) THEN [stages |-> proc[p].stages, record |-> record] ELSE run
    /\ UNCHANGED <<files, keyring, documents>>

\* The outputs are hashed; after the last stage the record is saved.
HashOutputs(p) ==
    LET i == StageOf(p)
        record == Append(proc[p].record,
                    [script |-> proc[p].script, inputs |-> proc[p].inputs,
                     outputs |-> [o \in Stages[i].outs |-> file[o]]]) IN
    /\ Continue(p, "hash_outputs",
         IF i = Len(Stages) THEN Idle
         ELSE [cmd |-> "run", pc |-> "hash_inputs", stages |-> proc[p].stages, record |-> record])
    /\ run' = IF i = Len(Stages) THEN [stages |-> proc[p].stages, record |-> record] ELSE run
    /\ UNCHANGED <<files, keyring, documents>>

-----------------------------------------------------------------------------
(* passport build. *)

\* Every path the run record mentions, with the hash it has there.
Recorded(record) ==
    UNION {{<<Stages[i].script, record[i].script>>}
             \cup {<<d, record[i].inputs[d]>> : d \in Stages[i].deps}
             \cup {<<o, record[i].outputs[o]>> : o \in Stages[i].outs} : i \in DOMAIN record}

\* A run record made with these stages, and load_previous: the passport at
\* --out, none (--no-link, no file, another model's or one that does not load),
\* or the passport that --previous names in another place.
BuildBegin(p) ==
    \E out \in BOOLEAN : \E prior \in IF out THEN {passport, NONE} ELSE copies :
        /\ run # NONE /\ run.stages = file[Config] /\ made < MaxPassports
        /\ Start(p, [cmd |-> "build", pc |-> "hash", run |-> run.record, previous |-> prior,
                     archives |-> out /\ prior # NONE])
        /\ UNCHANGED <<files, run, keyring, documents>>

\* _add_run_artifacts: nothing changed since the run.
Unchanged(record) == \A e \in Recorded(record) : file[e[1]] = e[2]

\* What the scanners and auditors read.
Assessed == Datasets \cup {Model}

\* The manifest is hashed and compared with the run, and the key is loaded.
BuildHash(p) ==
    LET paths == {Config} \cup Assessed \cup {e[1] : e \in Recorded(proc[p].run)} IN
    /\ Continue(p, "hash",
         IF Unchanged(proc[p].run) /\ key # NONE
         THEN [cmd |-> "build", pc |-> "assess", previous |-> proc[p].previous,
               archives |-> proc[p].archives, key |-> key, artifacts |-> [f \in paths |-> file[f]]]
         ELSE Idle)
    /\ UNCHANGED <<files, run, keyring, documents>>

\* _run_checks reads the datasets and the model again; then the passport is signed.
BuildAssess(p) ==
    LET artifacts == proc[p].artifacts
        previous == proc[p].previous
        document == [id |-> made + 1, artifacts |-> artifacts,
                     merkle_root |-> merkle_root(artifacts), key |-> proc[p].key,
                     assessed |-> [f \in Assessed |-> file[f]],
                     revision |-> IF previous = NONE THEN NONE
                                  ELSE compute_revision(previous, artifacts),
                     events |-> <<>>, signature |-> NONE] IN
    /\ Continue(p, "assess", [cmd |-> "build", pc |-> "archive", previous |-> previous,
                              archives |-> proc[p].archives,
                              new |-> sign_passport(document, proc[p].key)])
    /\ made' = made + 1
    /\ UNCHANGED <<files, run, keyring, passport, history, kept, reported>>

\* Faulty Archive: the passport that was read goes to the history, not the file.
ArchiveRead(p) ==
    /\ Continue(p, "archive", [proc[p] EXCEPT !.pc = "write"])
    /\ history' = IF proc[p].archives THEN history \ {passport} ELSE history
    /\ UNCHANGED <<files, run, keyring, passport, made, kept, reported>>

\* The file that is about to be replaced, as it is now, goes to the history
\* when it is the predecessor.
Archive(p) ==
    /\ Continue(p, "archive", [proc[p] EXCEPT !.pc = "write"])
    /\ history' = IF proc[p].archives
                  THEN {d \in history : d.id # passport.id} \cup {passport} ELSE history
    /\ UNCHANGED <<files, run, keyring, passport, made, kept, reported>>

\* A passport that was not archived is given up, and its events with it.
BuildWrite(p) ==
    LET new == proc[p].new IN
    /\ Continue(p, "write", Idle)
    /\ passport' = new /\ copies' = copies \cup {new}
    /\ detached' = IF proc[p].previous # NONE /\ ~ proc[p].archives THEN detached \cup {new.id}
                   ELSE detached
    /\ reported' = IF proc[p].archives THEN reported
                   ELSE {e \in reported : passport = NONE \/ e[1] # passport.id}
    /\ UNCHANGED <<files, run, keyring, made, history>>

-----------------------------------------------------------------------------
(* passport monitor drift. *)

\* The key is the one that signed, and the reference data are unchanged.
MonitorRead(p) ==
    /\ passport # NONE /\ key = passport.key
    /\ \E d \in Datasets : file[d] = passport.artifacts[d]
    /\ Cardinality(reported) < MaxEvents
    /\ Start(p, [cmd |-> "monitor", pc |-> "append", raw |-> passport])
    /\ UNCHANGED <<files, run, keyring, documents>>

\* Faulty MonitorWrite: the event takes the place of the last one.
MonitorReplace(p) ==
    LET raw == proc[p].raw
        n == Len(raw.events)
        new == append_event([raw EXCEPT !.events = IF n = 0 THEN @ ELSE SubSeq(@, 1, n - 1)],
                            Cardinality(reported) + 1, raw.key) IN
    /\ Continue(p, "append", Idle)
    /\ passport' = new
    /\ reported' = reported \cup {<<new.id, new.events[Len(new.events)]>>}
    /\ UNCHANGED <<files, run, keyring, made, history, kept>>

\* The event is appended to what was read, and all of it is written back.
MonitorWrite(p) ==
    LET batch == Cardinality(reported) + 1
        new == append_event(proc[p].raw, batch, proc[p].raw.key) IN
    /\ Continue(p, "append", Idle)
    /\ passport' = new
    /\ reported' = reported \cup {<<new.id, new.events[Len(new.events)]>>}
    /\ UNCHANGED <<files, run, keyring, made, history, kept>>

\* A stage fails, a check raises or the process is stopped before it writes.
Fail(p) ==
    /\ proc[p] # Idle
    /\ proc' = [proc EXCEPT ![p] = Idle]
    /\ UNCHANGED <<files, run, keyring, documents>>

Command(p) ==
    \/ InitPrivate(p) \/ InitPublic(p) \/ InitKept(p)
    \/ RunBegin(p) \/ HashInputs(p) \/ Execute(p) \/ HashOutputs(p)
    \/ BuildBegin(p) \/ BuildHash(p) \/ BuildAssess(p) \/ Archive(p) \/ BuildWrite(p)
    \/ MonitorRead(p) \/ MonitorWrite(p) \/ Fail(p)

Next == Edit \/ Undo \/ \E p \in Procs : Command(p)

Spec == Init /\ [][Next]_vars

-----------------------------------------------------------------------------
(* Properties. *)

Written == history \cup ({passport} \ {NONE})

\* Types of the directory's parts.
TypeOK ==
    /\ DOMAIN file = Paths /\ edits \in 0..MaxEdits /\ undone \subseteq Sources
    /\ keys \in 0..MaxKeys /\ {key, pub} \subseteq 1..MaxKeys \cup {NONE}
    /\ made \in 0..MaxPassports
    /\ \A d \in Written : d.id \in 1..made /\ d.key \in 1..keys
    /\ \A p \in Procs : proc[p].cmd \in {"none", "init", "run", "build", "monitor"}

\* Whatever is edited while a pipeline runs and a passport is built: every
\* output that a passport certifies was made by the certified script from the
\* certified inputs, unless one of these was edited and brought back (the
\* hashes before the stage and at the build then agree on what it did not read).
Provenance ==
    \A d \in Written : \A i \in DOMAIN Stages :
        ({Stages[i].script} \cup Stages[i].deps) \cap undone = {} =>
            \A o \in Stages[i].outs : d.artifacts[o] = Output(i, d.artifacts)

\* Files may change between their hashing and the checks, but then the
\* passport no longer verifies: when the files match a passport, what it says
\* of the data and the model was found on exactly these contents, of every
\* file that was never edited and brought back.
VerifiedMeansAssessed ==
    \A d \in Written :
        changed(d, file) = {} => \A f \in Assessed \ undone : d.assessed[f] = d.artifacts[f]

\* Every passport in the directory, with the events appended since, verifies
\* against the key that signed it.
Intact == \A d \in Written : verify_document(d, d.key)

\* Documents that differ from d in one place: a hash, an event changed, taken
\* out (the last one aside), exchanged with its neighbour or moved to another passport.
Altered(d) ==
    {[d EXCEPT !.artifacts[f] = NONE] : f \in DOMAIN d.artifacts}
    \cup {[d EXCEPT !.events[i].payload = NONE] : i \in DOMAIN d.events}
    \cup {[d EXCEPT !.events = [j \in 1..(Len(@) - 1) |-> IF j < i THEN @[j] ELSE @[j + 1]]]
            : i \in 1..(Len(d.events) - 1)}
    \cup {[d EXCEPT !.events[i] = d.events[i + 1], !.events[i + 1] = d.events[i]]
            : i \in 1..(Len(d.events) - 1)}
    \cup {[d EXCEPT !.events = x.events] : x \in {y \in Written : y.id # d.id /\ y.events # <<>>}}

\* "Reordering, deleting, or editing any event, or moving events to a
\* different passport, breaks the chain", and so does editing the rest.
AlterationsDetected ==
    \A d \in Written : \A a \in Altered(d) : ~ verify_document(a, d.key)

\* A revision's predecessor is in the history, one step back in the sequence,
\* and the revision tells exactly how its artifacts differ.  One that was named
\* with --previous in another place is not archived: it is wherever it was kept.
HistoryLinked ==
    \A d \in Written : d.revision # NONE =>
        \E h \in (IF d.id \in detached THEN copies ELSE history) :
            /\ h.id = d.revision.previous
            /\ d.revision = compute_revision(h, d.artifacts)

\* "Append-only": an event that monitor reported stays in the passport or in
\* its archived copy, unless a build that did not link to this passport
\* (--no-link, --previous another file, one that did not load) replaced it.
EventsKept ==
    \A r \in reported : \E d \in Written : d.id = r[1] /\ r[2] \in {d.events[i] : i \in DOMAIN d.events}

\* A passport verifies exactly as it was written: with the events appended
\* since, whatever happened to keys and files meanwhile, and in no other form.
VerifiesAsWritten == TypeOK /\ Intact /\ AlterationsDetected
=============================================================================
