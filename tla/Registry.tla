------------------------------ MODULE Registry ------------------------------
(***************************************************************************)
(* The passport registry (registry/api.py, db.py) and the commands that    *)
(* write to it, push and monitor --registry (cli/ops.py, client.py).       *)
(*                                                                         *)
(* Requests run side by side in a thread pool; each reads, checks, writes  *)
(* and commits in steps, all over one connection to the database and in    *)
(* one transaction: who commits commits for all, and who rolls back rolls  *)
(* back what others have written.  A client waits a limited time for an    *)
(* answer, and the server goes on without it.                              *)
(***************************************************************************)
EXTENDS Passport

CONSTANTS
    Clients,      \* machines with a copy of a passport and its signing key
    Ids,          \* passports
    Holds,        \* [Clients -> Ids]
    Key,          \* [Ids -> keys]: the key that signed each passport
    MaxMade,      \* events a client makes
    MaxSent       \* requests a client sends

VARIABLES
    store,     \* the database: a document and the uploaded key of each id, or NONE
    view,      \* the same as the connection shows it, with what is not committed
    rolled,    \* history variable: the ids of which a rollback took a write back
    local,     \* passport.json of each client
    requests,  \* requests at the server
    awaited,   \* number of the request each client waits for, or 0
    sent,      \* requests each client has sent
    acked      \* events the server said it has, with their passport

tables == <<store, view, rolled, local, requests, awaited, sent, acked>>
rows == <<store, view, rolled>>

ASSUME ClientsAssumption == Holds \in [Clients -> Ids]

\* A passport as it was built: signed, without events.
Built(id) ==
    LET artifacts == [f \in {"model"} |-> id] IN
    sign_passport([id |-> id, artifacts |-> artifacts, merkle_root |-> merkle_root(artifacts),
                   key |-> Key[id], revision |-> NONE, events |-> <<>>, signature |-> NONE], Key[id])

RegistryInit ==
    /\ store = [id \in Ids |-> NONE] /\ view = store /\ rolled = {}
    /\ local = [c \in Clients |-> Built(Holds[c])]
    /\ requests = {}
    /\ awaited = [c \in Clients |-> 0]
    /\ sent = [c \in Clients |-> 0]
    /\ acked = {}

events(id, document) == {<<id, document.events[i]>> : i \in DOMAIN document.events}

-----------------------------------------------------------------------------
(* Clients. *)

Send(c, request) ==
    /\ awaited[c] = 0 /\ sent[c] < MaxSent
    /\ sent' = [sent EXCEPT ![c] = @ + 1]
    /\ awaited' = [awaited EXCEPT ![c] = sent[c] + 1]
    /\ requests' = requests \cup {request}
    /\ UNCHANGED <<rows, acked>>

\* push: the document and a public key file, which need not be the right one.
push(c) ==
    /\ \E k \in {Key[id] : id \in Ids} :
          Send(c, [at |-> "upload", client |-> c, number |-> sent[c] + 1, document |-> local[c], key |-> k])
    /\ UNCHANGED local

\* monitor: the event is in passport.json before it is sent.
monitor(c) ==
    LET document == append_event(local[c], <<c, sent[c]>>, local[c].key) IN
    /\ Len(local[c].events) < MaxMade
    /\ local' = [local EXCEPT ![c] = document]
    /\ Send(c, [at |-> "get", client |-> c, number |-> sent[c] + 1,
                id |-> document.id, event |-> document.events[Len(document.events)]])

\* The client gives up; the request stays where it is.
Timeout(c) ==
    /\ awaited[c] # 0
    /\ awaited' = [awaited EXCEPT ![c] = 0]
    /\ UNCHANGED <<rows, local, requests, sent, acked>>

-----------------------------------------------------------------------------
(* The server. *)

\* The answer counts when the client still waits for it.
Answer(r, known) ==
    /\ requests' = requests \ {r}
    /\ IF awaited[r.client] = r.number
       THEN awaited' = [awaited EXCEPT ![r.client] = 0] /\ acked' = acked \cup known
       ELSE UNCHANGED <<awaited, acked>>
    /\ UNCHANGED <<local, sent>>

\* The request goes on.
GoesOn(r, next) ==
    /\ requests' = (requests \ {r}) \cup {next}
    /\ UNCHANGED <<local, awaited, sent, acked>>

\* It has written, and what it will say the registry has when it has committed.
Wrote(r, at, id, known) ==
    [at |-> at, client |-> r.client, number |-> r.number, id |-> id, known |-> known]

\* Verified (422), then one INSERT, which fails on an id that is there.
upload(r) ==
    LET id == r.document.id IN
    /\ r.at = "upload"
    /\ \/ /\ ~ verify_document(r.document, r.key)
          /\ UNCHANGED view /\ Answer(r, {})
       \/ /\ verify_document(r.document, r.key) /\ view[id] = NONE
          /\ view' = [view EXCEPT ![id] = [document |-> r.document, key |-> r.key]]
          /\ GoesOn(r, Wrote(r, "inserted", id, events(id, r.document)))
       \/ /\ verify_document(r.document, r.key) /\ view[id] # NONE
          /\ UNCHANGED view /\ GoesOn(r, Wrote(r, "failed", id, {}))
    /\ UNCHANGED <<store, rolled>>

\* The request with what was read for it.
Read(r) == [at |-> "append", client |-> r.client, number |-> r.number, id |-> r.id, event |-> r.event,
            stored |-> view[r.id]]

\* Faulty get_stored: a missing row leaves the request hanging.
get_stored_silent(r) ==
    /\ r.at = "get" /\ view[r.id] # NONE
    /\ GoesOn(r, Read(r))
    /\ UNCHANGED rows

\* get_stored: the row is read before the handler runs (404).
get_stored(r) ==
    /\ r.at = "get"
    /\ IF view[r.id] = NONE THEN Answer(r, {}) ELSE GoesOn(r, Read(r))
    /\ UNCHANGED rows

\* replace_document: an UPDATE of a row that is gone changes nothing.
replace_document(r, document) ==
    /\ view' = IF view[r.id] = NONE THEN view ELSE [view EXCEPT ![r.id].document = document]
    /\ GoesOn(r, Wrote(r, "updated", r.id, {<<r.id, r.event>>}))

\* Faulty append_event: only the new event's signature is checked.
append_event_unlinked(r) ==
    LET document == [r.stored.document EXCEPT !.events = Append(@, r.event)] IN
    /\ r.at = "append"
    /\ IF verify_signature(r.stored.key, event_body(r.event), r.event.signature)
       THEN replace_document(r, document)
       ELSE UNCHANGED view /\ Answer(r, {})
    /\ UNCHANGED <<store, rolled>>

\* The event is added to what was read; the whole document is written back.
append_stored(r) ==
    LET document == [r.stored.document EXCEPT !.events = Append(@, r.event)] IN
    /\ r.at = "append"
    /\ IF verify_events(document, r.stored.key) = {}
       THEN replace_document(r, document)
       ELSE UNCHANGED view /\ Answer(r, {})
    /\ UNCHANGED <<store, rolled>>

\* _tx ends well: everything written over the connection is committed.  insert
\* looks for its row again (500); replace_document does not.
Commit(r) ==
    /\ r.at \in {"inserted", "updated"}
    /\ store' = view
    /\ Answer(r, IF r.at = "inserted" /\ view[r.id] = NONE THEN {} ELSE r.known)
    /\ UNCHANGED <<view, rolled>>

\* _tx ends with the failed INSERT (409): whatever is not committed is gone.
Rollback(r) ==
    /\ r.at = "failed"
    /\ view' = store
    /\ rolled' = rolled \cup {id \in Ids : view[id] # store[id]}
    /\ Answer(r, {})
    /\ UNCHANGED store

Serve(r) == upload(r) \/ get_stored(r) \/ append_stored(r) \/ Commit(r) \/ Rollback(r)

RegistryNext ==
    \/ \E c \in Clients : push(c) \/ monitor(c) \/ Timeout(c)
    \/ \E r \in requests : Serve(r)

\* The server works off what it has.
RegistrySpec == RegistryInit /\ [][RegistryNext]_tables /\ WF_tables(\E r \in requests : Serve(r))

-----------------------------------------------------------------------------
(* Properties. *)

\* Types of the tables and of what clients keep.
TablesOK ==
    /\ \A table \in {store, view} : \A id \in Ids : table[id] # NONE =>
          DOMAIN table[id] = {"document", "key"} /\ table[id].document.id = id
    /\ \A c \in Clients : local[c].id = Holds[c] /\ awaited[c] \in 0..sent[c]
    /\ \A r \in requests : r.client \in Clients /\ r.number \in 1..sent[r.client]

\* "GET /verify" answers ok for everything in the registry, committed or not,
\* at any time and with the key stored beside it.
StoredVerifies ==
    \A table \in {store, view} : \A id \in Ids :
        table[id] # NONE => verify_document(table[id].document, table[id].key)

Has(table, a) == table[a[1]] # NONE /\ a \in events(a[1], table[a[1]].document)

\* An event or a passport that the registry said it has is never lost, when
\* each passport is monitored from one machine: not by a client that gives up
\* and goes on, and not by requests that overlap, as long as no rollback of
\* another request took back what was written of this passport.
AckedKept == \A a \in acked : a[1] \notin rolled => Has(store, a)

\* "Append-only ... lifecycle events": what the registry said it appended
\* (append_event answers 200) is there, whatever other requests do.
AckedStays == \A a \in acked : Has(store, a)

\* The registry's chain of a passport is never ahead of the only machine that
\* writes it, nor on another branch.
RegistryBehind ==
    \A table \in {store, view} : \A c \in Clients : table[Holds[c]] # NONE =>
        LET s == table[Holds[c]].document.events IN
        Len(s) <= Len(local[c].events) /\ s = SubSeq(local[c].events, 1, Len(s))

\* Every request is answered or given up: no client waits for ever.
Answered == \A c \in Clients : (awaited[c] # 0) ~> (awaited[c] = 0)

\* The registry follows the machine that writes a passport, whichever requests
\* are given up and served late: what it has verifies, what it acknowledged it
\* keeps unless a rollback took it back, and its chain is the beginning of the
\* machine's.
RegistryFollows == TablesOK /\ StoredVerifies /\ AckedKept /\ RegistryBehind
=============================================================================
