------------------------------- MODULE Guard --------------------------------
(***************************************************************************)
(* MP Guard: personal values in a chat request are replaced before the AI  *)
(* provider sees them, and the reply is reviewed before the app sees it    *)
(* (guard/engine.py, guard/chat.py, platform/guard.py, routes_guard.py).   *)
(*                                                                         *)
(* A text is the sequence of what the detector finds in it: values, and    *)
(* placeholders, which a user may also have typed.  A request's text is    *)
(* what the guard looks at, the text contents and tool arguments of all    *)
(* messages in their order; the rest of it (other parts, other fields) is  *)
(* a set of values that nobody looks at.                                   *)
(***************************************************************************)
EXTENDS Naturals, Sequences, FiniteSets, Functions

CONSTANTS
    Values,      \* values, as Value(type, name)
    Trained,     \* the values that audits may find memorized
    High,        \* types of high impact
    Texts,       \* what apps send as text
    Rests,       \* what they send in other parts and fields of a request
    Answers,     \* what a model says of its own accord
    Policies,    \* what administrators choose, the default among them
    Default,     \* the policy before anyone has saved one
    Keys,        \* API keys that may be issued
    Apps,        \* callers, each with one request at a time
    TTL,         \* MEMORIZED_TTL
    MaxClock, MaxRuns,
    NONE

Value(type, name) == <<"value", type, name>>
Token(type, n) == <<"token", type, n>>
Gone(type) == <<"gone", type>>
is_value(x) == x[1] = "value"

ASSUME ValuesAssumption == \A v \in Values : is_value(v)
ASSUME TextsAssumption == Texts \subseteq Seq(Values \cup ({"token"} \X STRING \X Nat))
ASSUME RestsAssumption == Rests \subseteq SUBSET Values
ASSUME DefaultAssumption == Default \in Policies
ASSUME TTLAssumption == TTL \in Nat

VARIABLES
    settings,   \* GuardSettings: policy, and whether a provider key is stored
    key,        \* state of every API key
    found,      \* when the newest audit that confirms a value as memorized was stored, or NONE
    cache,      \* MemorizedCache entry: [expires, known], or NONE
    clock,
    chat,       \* the request of each app
    log         \* GuardEvent rows

vars == <<settings, key, found, cache, clock, chat, log>>
admin == <<settings, key, found, clock>>

Idle == [pc |-> "idle", run |-> 0]

Init ==
    /\ settings = [policy |-> Default, upstream |-> FALSE]
    /\ key = [k \in Keys |-> "none"]
    /\ found = [v \in Values |-> NONE]
    /\ cache = NONE
    /\ clock = 0
    /\ chat = [a \in Apps |-> Idle]
    /\ log = {}

-----------------------------------------------------------------------------
(* The engine. *)

\* Dates pass unless the policy names them.
for_request(policy, type) ==
    IF type \in DOMAIN policy.inbound THEN policy.inbound[type]
    ELSE IF type = "DATE" THEN "allow" ELSE policy.inbound_default

for_reply(policy, type) ==
    IF type \in DOMAIN policy.outbound THEN policy.outbound[type]
    ELSE IF type \in High THEN "redact" ELSE "allow"

\* The values of a request that get a placeholder, at their places: its vault.
vault(policy, text) ==
    Restrict(text, {i \in DOMAIN text : is_value(text[i]) /\ for_request(policy, text[i][2]) = "mask"})

first(masked, x) == CHOOSE i \in DOMAIN masked : masked[i] = x /\ \A j \in DOMAIN masked : masked[j] = x => i <= j

\* Values are numbered by type in the order of their first appearance.
placeholder(masked, x) ==
    Token(x[2], Cardinality({y \in Range(masked) : y[2] = x[2] /\ first(masked, y) <= first(masked, x)}))

\* Faulty protect: only the first value is looked at.
protect_first(policy, text) ==
    [i \in DOMAIN text |->
        IF \/ ~ is_value(text[i]) \/ for_request(policy, text[i][2]) = "allow"
           \/ \E j \in 1..(i - 1) : is_value(text[j]) THEN text[i]
        ELSE IF for_request(policy, text[i][2]) = "mask" THEN placeholder(vault(policy, text), text[i])
        ELSE Gone(text[i][2])]

\* The request as the model may see it.
protect(policy, text) ==
    [i \in DOMAIN text |->
        IF ~ is_value(text[i]) \/ for_request(policy, text[i][2]) = "allow" THEN text[i]
        ELSE IF for_request(policy, text[i][2]) = "mask" THEN placeholder(vault(policy, text), text[i])
        ELSE Gone(text[i][2])]

request_blocked(policy, text) ==
    \E i \in DOMAIN text : is_value(text[i]) /\ for_request(policy, text[i][2]) = "block"

\* What is done with a value of a reply that the vault does not know.
decision(policy, known, x) == IF x \in known THEN policy.memorized ELSE for_reply(policy, x[2])

unknown(masked, x) == is_value(x) /\ x \notin Range(masked)

reply_blocked(policy, known, masked, text) ==
    \E i \in DOMAIN text : unknown(masked, text[i]) /\ decision(policy, known, text[i]) = "block"

\* Faulty restore: the vault of any request will do.
restore_shared(masked, x) ==
    LET vaults == {chat[a].vault : a \in {b \in Apps : chat[b].pc = "sent"}}
        owners == UNION {{<<m, y>> : y \in {z \in Range(m) : placeholder(m, z) = x}} : m \in vaults}
    IN  IF owners # {} THEN (CHOOSE o \in owners : TRUE)[2] ELSE x

restore(masked, x) ==
    LET values == {y \in Range(masked) : placeholder(masked, y) = x}
    IN  IF values # {} THEN CHOOSE y \in values : TRUE ELSE x

\* The reply as the user may see it.
review(policy, known, masked, text) ==
    [i \in DOMAIN text |->
        IF unknown(masked, text[i])
        THEN IF decision(policy, known, text[i]) = "allow" THEN text[i] ELSE Gone(text[i][2])
        ELSE restore(masked, text[i])]

-----------------------------------------------------------------------------
(* Settings, keys, audits. *)

\* issue_key, revoke_key.
IssueKey(k) ==
    /\ key[k] = "none" /\ key' = [key EXCEPT ![k] = "active"]
    /\ UNCHANGED <<settings, found, cache, clock, chat, log>>

\* The key is revoked, or its organization suspended.
RevokeKey(k) ==
    /\ key[k] = "active" /\ key' = [key EXCEPT ![k] = "revoked"]
    /\ UNCHANGED <<settings, found, cache, clock, chat, log>>

\* A provider key is given, removed, or kept.
update_settings ==
    /\ \E p \in Policies, upstream \in {TRUE, FALSE, settings.upstream} :
          settings' = [policy |-> p, upstream |-> upstream]
    /\ UNCHANGED <<key, found, cache, clock, chat, log>>

\* An audit stores a confirmed finding of high severity.
AuditFinds(v) ==
    /\ found[v] = NONE /\ found' = [found EXCEPT ![v] = clock]
    /\ UNCHANGED <<settings, key, cache, clock, chat, log>>

\* The next audit of the version replaces its findings.
AuditForgets(v) ==
    /\ found[v] # NONE /\ found' = [found EXCEPT ![v] = NONE]
    /\ UNCHANGED <<settings, key, cache, clock, chat, log>>

Tick ==
    /\ clock < MaxClock /\ clock' = clock + 1
    /\ UNCHANGED <<settings, key, found, cache, chat, log>>

memorized_fingerprints == {v \in Values : found[v] # NONE}

\* Faulty get: an entry, once there, stays.
get_once == IF cache = NONE THEN [expires |-> clock + TTL, known |-> memorized_fingerprints] ELSE cache

\* MemorizedCache.get: the entry after it was asked for.
get ==
    IF cache = NONE \/ cache.expires < clock
    THEN [expires |-> clock + TTL, known |-> memorized_fingerprints]
    ELSE cache

-----------------------------------------------------------------------------
(* Requests. *)

Runs == Cardinality(log) + Cardinality({a \in Apps : chat[a].pc \in {"called", "sent"}})
Free(a) == chat[a].pc \in {"idle", "done"} /\ Runs < MaxRuns

\* _caller: the key is checked in a transaction of its own.
Call(a) ==
    /\ Free(a)
    /\ \E k \in Keys : key[k] = "active"
    /\ \E text \in Texts, rest \in Rests :
          chat' = [chat EXCEPT ![a] = [pc |-> "called", run |-> @.run + 1, text |-> text, rest |-> rest]]
    /\ UNCHANGED <<admin, cache, log>>

\* _outcome: was anything masked, redacted or recognised?
outcome(before, seen, reply, shown, known) ==
    IF seen # before \/ shown # reply \/ Range(reply) \cap known # {} THEN "protected" ELSE "passed"

Finish(a, result, fields) ==
    /\ chat' = [chat EXCEPT ![a] = [fields EXCEPT !.pc = "done"]]
    /\ log' = log \cup {[app |-> a, run |-> chat[a].run, outcome |-> result]}

\* run_chat up to the provider: settings and memorized values are read here.
\* The provider is sent the protected text and the rest as it came.
Forward(a) ==
    LET policy == settings.policy
        text == chat[a].text
        seen == protect(policy, text)
        fields == [pc |-> "sent", run |-> chat[a].run, text |-> text, rest |-> chat[a].rest, policy |-> policy,
                   known |-> get.known, start |-> clock, vault |-> vault(policy, text),
                   seen |-> seen, reply |-> <<>>, shown |-> <<>>] IN
    /\ chat[a].pc = "called"
    /\ cache' = get
    /\ IF request_blocked(policy, text)
       THEN Finish(a, "blocked", [fields EXCEPT !.seen = <<>>])
       ELSE IF ~ settings.upstream
       THEN Finish(a, "error", [fields EXCEPT !.seen = <<>>])
       ELSE /\ chat' = [chat EXCEPT ![a] = fields]
            /\ UNCHANGED log
    /\ UNCHANGED admin

\* The model answers with what it was told, or with what it knows.
Replies(seen, rest) == {seen} \cup {<<x>> : x \in Answers \cup rest}

Reply(a) ==
    LET c == chat[a] IN
    /\ c.pc = "sent"
    /\ \E reply \in Replies(c.seen, c.rest) :
          IF reply_blocked(c.policy, c.known, c.vault, reply)
          THEN Finish(a, "blocked", c)
          ELSE LET shown == review(c.policy, c.known, c.vault, reply) IN
               Finish(a, outcome(c.text, c.seen, reply, shown, c.known), [c EXCEPT !.reply = reply, !.shown = shown])
    /\ UNCHANGED <<admin, cache>>

\* Unreachable, not JSON, or an error of its own, which is passed on.
ProviderFails(a) ==
    /\ chat[a].pc = "sent"
    /\ Finish(a, "error", chat[a])
    /\ UNCHANGED <<admin, cache>>

\* POST /scan of a text that comes from a model: there is no vault.
Scan(a) ==
    LET c == chat[a] IN
    /\ c.pc = "called"
    /\ cache' = get
    /\ LET shown == review(settings.policy, get.known, <<>>, c.text)
           fields == [pc |-> "scan", run |-> c.run, text |-> c.text, rest |-> {}, policy |-> settings.policy,
                      known |-> get.known, start |-> clock, vault |-> <<>>,
                      seen |-> c.text, reply |-> c.text, shown |-> shown] IN
       IF reply_blocked(settings.policy, get.known, <<>>, c.text)
       THEN Finish(a, "blocked", [fields EXCEPT !.reply = <<>>, !.shown = <<>>])
       ELSE Finish(a, outcome(c.text, c.text, c.text, shown, get.known), fields)
    /\ UNCHANGED <<admin>>

Next ==
    \/ \E k \in Keys : IssueKey(k) \/ RevokeKey(k)
    \/ update_settings \/ Tick
    \/ \E v \in Trained : AuditFinds(v) \/ AuditForgets(v)
    \/ \E a \in Apps : Call(a) \/ Forward(a) \/ Reply(a) \/ ProviderFails(a) \/ Scan(a)

Spec == Init /\ [][Next]_vars

-----------------------------------------------------------------------------
(* Properties. *)

Done == {a \in Apps : chat[a].pc = "done"}

\* Types of the tables and of the requests.
TypeOK ==
    /\ settings.policy \in Policies
    /\ cache # NONE => cache.expires <= clock + TTL /\ cache.known \subseteq Values
    /\ \A a \in Apps : chat[a].pc \in {"idle", "called", "sent", "done"}
    /\ \A e \in log : e.outcome \in {"passed", "protected", "blocked", "error"}

\* Other values of the same types in place of the ones that are held back.
Renamings(policy) ==
    {f \in [Values -> Values] :
        /\ \A x \in Values : f[x][2] = x[2] /\ (for_request(policy, x[2]) = "allow" => f[x] = x)
        /\ \A x, y \in Values : f[x] = f[y] => x = y}

rename(f, text) == [i \in DOMAIN text |-> IF text[i] \in Values THEN f[text[i]] ELSE text[i]]

\* "The model never saw the data", as far as text goes: the provider would have
\* been sent the very same text, numbers of placeholders included, if each value
\* that is masked or redacted had been another one of its type.
MaskedUnseen ==
    \A a \in Apps : chat[a].pc = "sent" =>
        \A f \in Renamings(chat[a].policy) : protect(chat[a].policy, rename(f, chat[a].text)) = chat[a].seen

\* Placeholders have the same names in every request; still a user is only
\* shown values that the user sent or that the provider answered with.
OwnValuesOnly ==
    \A a \in Done : \A x \in Range(chat[a].shown) :
        is_value(x) => x \in Range(chat[a].text) \cup Range(chat[a].reply)

\* A model that repeats what it was told gives the user back every masked
\* value in its place, even when a typed text looks like a placeholder.
EchoRestored ==
    \A a \in Done : chat[a].reply # <<>> /\ chat[a].reply = chat[a].seen =>
        \A i \in DOMAIN chat[a].text :
            chat[a].text[i] \in Range(chat[a].vault) => chat[a].shown[i] = chat[a].text[i]

\* A value that the audits on record confirm as memorized and the policy does
\* not allow is held back from every request that starts more than the cache's
\* time to live after the audit.
MemorizedHeld ==
    \A a \in Done : \A x \in Range(chat[a].shown) :
        /\ x \in Values /\ x \notin Range(chat[a].vault)
        /\ found[x] # NONE /\ chat[a].policy.memorized # "allow"
        => chat[a].start <= found[x] + TTL

\* A request logged as passed went to the provider and came back as it was.
PassedUntouched ==
    \A a \in Done :
        [app |-> a, run |-> chat[a].run, outcome |-> "passed"] \in log =>
            chat[a].seen = chat[a].text /\ chat[a].shown = chat[a].reply

\* Every request gets its own values back, and its log entry tells whether
\* anything was changed on the way.
RepliesFaithful == TypeOK /\ OwnValuesOnly /\ EchoRestored /\ PassedUntouched
=============================================================================
