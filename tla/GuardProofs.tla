----------------------------- MODULE GuardProofs -----------------------------
(***************************************************************************)
(* Theorems about Guard, for any texts, answers, policies, apps and audits. *)
(***************************************************************************)
EXTENDS Guard, FiniteSetTheorems, WellFoundedInduction, TLAPS

\* A request that has been forwarded, scanned or stopped.
Shape(c) ==
    c = [pc |-> c.pc, run |-> c.run, text |-> c.text, rest |-> c.rest, policy |-> c.policy, known |-> c.known, start |-> c.start,
         vault |-> c.vault, seen |-> c.seen, reply |-> c.reply, shown |-> c.shown]

CalledShape(c) == c = [pc |-> "called", run |-> c.run, text |-> c.text, rest |-> c.rest]

\* What a user is shown of the request c.
OwnValues(c) == \A x \in Range(c.shown) : is_value(x) => x \in Range(c.text) \cup Range(c.reply)

Echoes(c) ==
    c.reply # <<>> /\ c.reply = c.seen =>
        \A i \in DOMAIN c.text : c.text[i] \in Range(c.vault) => c.shown[i] = c.text[i]

KnownHeld(c) ==
    \A x \in Range(c.shown) : x \in Values /\ x \notin Range(c.vault) /\ c.policy.memorized # "allow" => x \notin c.known

\* What an unknown value may be at a time: found by a later audit only.
Unfound(known, time) == \A v \in Values : v \notin known /\ found[v] # NONE => time <= found[v] + TTL

Settings ==
    /\ settings = [policy |-> settings.policy, upstream |-> settings.upstream]
    /\ settings.policy \in Policies
    /\ clock \in Nat
    /\ found = [v \in Values |-> found[v]]
    /\ \A v \in Values : found[v] # NONE => found[v] \in Nat

Cached ==
    cache # NONE =>
        /\ cache = [expires |-> cache.expires, known |-> cache.known]
        /\ cache.expires \in Nat /\ cache.expires <= clock + TTL /\ cache.known \subseteq Values
        /\ Unfound(cache.known, cache.expires)

Sent(c) ==
    /\ c.text \in Texts /\ c.policy \in Policies
    /\ c.vault = vault(c.policy, c.text) /\ c.seen = protect(c.policy, c.text)
    /\ c.reply = <<>> /\ c.shown = <<>>

Told(c) == OwnValues(c) /\ Echoes(c) /\ KnownHeld(c)

Started(c) == c.start \in Nat /\ c.start <= clock /\ Unfound(c.known, c.start)

Chats ==
    /\ chat = [a \in Apps |-> chat[a]]
    /\ \A a \in Apps :
          /\ chat[a].pc \in {"idle", "called", "sent", "done"} /\ chat[a].run \in Nat
          /\ chat[a].pc = "idle" => chat[a] = Idle
          /\ chat[a].pc = "called" => CalledShape(chat[a]) /\ chat[a].text \in Texts
          /\ chat[a].pc \in {"sent", "done"} => Shape(chat[a]) /\ Started(chat[a])
          /\ chat[a].pc = "sent" => Sent(chat[a])
          /\ chat[a].pc = "done" => Told(chat[a])

\* One event of each run, when it is done.
Events ==
    \A e \in log :
        /\ e = [app |-> e.app, run |-> e.run, outcome |-> e.outcome]
        /\ e.app \in Apps /\ e.run \in Nat /\ e.run <= chat[e.app].run
        /\ e.outcome \in {"passed", "protected", "blocked", "error"}
        /\ e.run = chat[e.app].run => chat[e.app].pc = "done"
        /\ e.run = chat[e.app].run /\ e.outcome = "passed" =>
              chat[e.app].seen = chat[e.app].text /\ chat[e.app].shown = chat[e.app].reply

Inv == Settings /\ Cached /\ Chats /\ Events

-----------------------------------------------------------------------------
(* Placeholders. *)

LEMMA Least ==
    ASSUME NEW T, T \subseteq Nat, T # {}
    PROVE  \E i \in T : \A j \in T : i <= j
<1>1. PICK i \in T : \A j \in T : ~ (<<j, i>> \in OpToRel(<, Nat))
  BY WFMin, NatLessThanWellFounded
<1>2. \A j \in T : ~ (j < i)
  BY <1>1 DEF OpToRel
<1>3. QED
  BY <1>2

\* A vault: some places of a text of length n.
VaultOf(m, n) == n \in Nat /\ DOMAIN m \subseteq 1..n /\ m = [i \in DOMAIN m |-> m[i]]

LEMMA FirstPlace ==
    ASSUME NEW m, NEW n, VaultOf(m, n), NEW x \in Range(m)
    PROVE  /\ first(m, x) \in DOMAIN m /\ m[first(m, x)] = x
           /\ \A j \in DOMAIN m : m[j] = x => first(m, x) <= j
<1>1. PICK T : T = {i \in DOMAIN m : m[i] = x}
  OBVIOUS
<1>2. T \subseteq Nat /\ T # {}
  BY <1>1 DEF VaultOf, Range
<1>3. PICK i \in T : \A j \in T : i <= j
  BY <1>2, Least
<1>4. i \in DOMAIN m /\ m[i] = x /\ \A j \in DOMAIN m : m[j] = x => i <= j
  BY <1>1, <1>3
<1>5. QED
  BY <1>4 DEF first

LEMMA FiniteVault ==
    ASSUME NEW m, NEW n, VaultOf(m, n)
    PROVE  IsFiniteSet(Range(m))
<1>1. IsFiniteSet(1..n)
  BY FS_Interval DEF VaultOf
<1>2. IsFiniteSet(DOMAIN m)
  BY <1>1, FS_Subset DEF VaultOf
<1>3. m \in Surjection(DOMAIN m, Range(m))
  BY DEF VaultOf, Surjection, Range
<1>4. QED
  BY <1>2, <1>3, FS_Surjection

\* A placeholder stands for one value of its request.
LEMMA PlaceholdersDiffer ==
    ASSUME NEW m, NEW n, VaultOf(m, n), NEW x \in Range(m), NEW y \in Range(m),
           placeholder(m, x) = placeholder(m, y)
    PROVE  x = y
<1> DEFINE upto(z) == {v \in Range(m) : v[2] = z[2] /\ first(m, v) <= first(m, z)}
<1>1. x[2] = y[2] /\ Cardinality(upto(x)) = Cardinality(upto(y))
  BY DEF placeholder, Token
<1>2. first(m, x) \in Nat /\ first(m, y) \in Nat /\ m[first(m, x)] = x /\ m[first(m, y)] = y
  BY FirstPlace DEF VaultOf
<1>3. upto(x) \subseteq Range(m) /\ upto(y) \subseteq Range(m) /\ x \in upto(x) /\ y \in upto(y)
  BY <1>2
<1>4. IsFiniteSet(upto(x)) /\ IsFiniteSet(upto(y))
  BY <1>3, FiniteVault, FS_Subset
<1>5. \A v \in Range(m) : first(m, v) \in Nat
  BY FirstPlace DEF VaultOf
<1>6. upto(x) \subseteq upto(y) \/ upto(y) \subseteq upto(x)
  BY <1>1, <1>2, <1>5
<1>7. upto(x) = upto(y)
  BY <1>1, <1>4, <1>6, FS_Subset
<1>8. first(m, x) <= first(m, y) /\ first(m, y) <= first(m, x)
  BY <1>3, <1>7
<1>9. QED
  BY <1>2, <1>8

LEMMA NotValues ==
    /\ \A type, n : ~ is_value(Token(type, n))
    /\ \A type : ~ is_value(Gone(type))
BY DEF is_value, Token, Gone

LEMMA TextFacts ==
    ASSUME NEW text \in Texts
    PROVE  Len(text) \in Nat /\ DOMAIN text = 1..Len(text)
BY TextsAssumption

LEMMA VaultFacts ==
    ASSUME NEW policy, NEW text \in Texts
    PROVE  /\ VaultOf(vault(policy, text), Len(text))
           /\ \A x \in Range(vault(policy, text)) :
                 x \in Range(text) /\ is_value(x) /\ for_request(policy, x[2]) = "mask"
<1>1. Len(text) \in Nat /\ DOMAIN text = 1..Len(text)
  BY TextFacts
<1>2. PICK D : D = {i \in DOMAIN text : is_value(text[i]) /\ for_request(policy, text[i][2]) = "mask"}
  OBVIOUS
<1>3. vault(policy, text) = [i \in D |-> text[i]]
  BY <1>2 DEF vault, Restrict
<1>4. VaultOf(vault(policy, text), Len(text))
  BY <1>1, <1>2, <1>3 DEF VaultOf
<1>5. ASSUME NEW x \in Range(vault(policy, text))
      PROVE  x \in Range(text) /\ is_value(x) /\ for_request(policy, x[2]) = "mask"
  <2>1. PICK i \in D : x = text[i]
    BY <1>3 DEF Range
  <2>2. QED
    BY <1>2, <2>1 DEF Range
<1>6. QED
  BY <1>4, <1>5

\* What the provider gets at the place of a masked value is its placeholder.
LEMMA ProtectFacts ==
    ASSUME NEW policy, NEW text \in Texts
    PROVE  /\ DOMAIN protect(policy, text) = DOMAIN text
           /\ \A i \in DOMAIN text : text[i] \in Range(vault(policy, text)) =>
                 protect(policy, text)[i] = placeholder(vault(policy, text), text[i])
<1>1. DOMAIN protect(policy, text) = DOMAIN text
  BY DEF protect
<1>2. \A i \in DOMAIN text : text[i] \in Range(vault(policy, text)) =>
         is_value(text[i]) /\ for_request(policy, text[i][2]) = "mask"
  BY VaultFacts
<1>3. QED
  BY <1>1, <1>2 DEF protect

LEMMA RestoreFacts ==
    ASSUME NEW m, NEW x
    PROVE  restore(m, x) = x \/ restore(m, x) \in Range(m)
BY DEF restore

\* What the user gets: values of the vault, or of the reply if the policy lets
\* them pass.
LEMMA ReviewFacts ==
    ASSUME NEW policy, NEW known, NEW m, NEW reply, NEW x \in Range(review(policy, known, m, reply)), is_value(x)
    PROVE  \/ x \in Range(m)
           \/ x \in Range(reply) /\ unknown(m, x) /\ decision(policy, known, x) = "allow"
<1>1. PICK i \in DOMAIN reply : x = review(policy, known, m, reply)[i]
  BY DEF review, Range
<1>2. CASE unknown(m, reply[i])
  <2>1. x = IF decision(policy, known, reply[i]) = "allow" THEN reply[i] ELSE Gone(reply[i][2])
    BY <1>1, <1>2 DEF review
  <2>2. x = reply[i] /\ decision(policy, known, x) = "allow"
    BY <2>1, NotValues
  <2>3. QED
    BY <1>2, <2>2 DEF Range
<1>3. CASE ~ unknown(m, reply[i])
  <2>1. x = restore(m, reply[i])
    BY <1>1, <1>3 DEF review
  <2>2. CASE x = reply[i]
    BY <1>3, <2>2 DEF unknown
  <2>3. QED
    BY <2>1, <2>2, RestoreFacts
<1>4. QED
  BY <1>2, <1>3

LEMMA EchoFacts ==
    ASSUME NEW policy, NEW known, NEW text \in Texts, NEW i \in DOMAIN text,
           text[i] \in Range(vault(policy, text))
    PROVE  review(policy, known, vault(policy, text), protect(policy, text))[i] = text[i]
<1>1. PICK m : m = vault(policy, text)
  OBVIOUS
<1>2. VaultOf(m, Len(text))
  BY <1>1, VaultFacts
<1>3. PICK t : t = placeholder(m, text[i])
  OBVIOUS
<1>4. i \in DOMAIN protect(policy, text) /\ protect(policy, text)[i] = t
  BY <1>1, <1>3, ProtectFacts
<1>5. ~ unknown(m, t)
  BY <1>3, NotValues DEF unknown, placeholder
<1>6. review(policy, known, m, protect(policy, text))[i] = restore(m, t)
  BY <1>4, <1>5 DEF review
<1>7. \A y \in Range(m) : placeholder(m, y) = t => y = text[i]
  BY <1>1, <1>2, <1>3, PlaceholdersDiffer
<1>8. restore(m, t) = text[i]
  BY <1>1, <1>3, <1>7 DEF restore
<1>9. QED
  BY <1>1, <1>6, <1>8

-----------------------------------------------------------------------------
(* Other values in their place. *)

\* The vault of a text whose values are renamed is the vault, renamed.
LEMMA FirstRenamed ==
    ASSUME NEW m, NEW n, VaultOf(m, n), NEW u, VaultOf(u, n), DOMAIN u = DOMAIN m, NEW f,
           \A i \in DOMAIN m : u[i] = f[m[i]], \A x, y \in Range(m) : f[x] = f[y] => x = y,
           NEW x \in Range(m)
    PROVE  f[x] \in Range(u) /\ first(u, f[x]) = first(m, x) /\ first(m, x) \in Nat
<1>1. PICK k \in DOMAIN m : m[k] = x
  BY DEF Range
<1>2. f[x] \in Range(u)
  BY <1>1 DEF Range
<1>3. PICK i, j : i = first(m, x) /\ j = first(u, f[x])
  OBVIOUS
<1>4. i \in DOMAIN m /\ m[i] = x /\ \A h \in DOMAIN m : m[h] = x => i <= h
  BY <1>3, FirstPlace
<1>5. j \in DOMAIN u /\ u[j] = f[x] /\ \A h \in DOMAIN u : u[h] = f[x] => j <= h
  BY <1>2, <1>3, FirstPlace
<1>6. m[j] = x
  BY <1>5 DEF Range
<1>7. i <= j /\ j <= i /\ i \in Nat /\ j \in Nat
  BY <1>4, <1>5, <1>6 DEF VaultOf
<1>8. QED
  BY <1>2, <1>3, <1>7

\* Placeholders are numbered by places, not by values.
LEMMA PlaceholderRenamed ==
    ASSUME NEW m, NEW n, VaultOf(m, n), NEW u, VaultOf(u, n), DOMAIN u = DOMAIN m, NEW f,
           \A i \in DOMAIN m : u[i] = f[m[i]], \A x, y \in Range(m) : f[x] = f[y] => x = y,
           \A x \in Range(m) : f[x][2] = x[2], NEW x \in Range(m)
    PROVE  placeholder(u, f[x]) = placeholder(m, x)
<1>1. PICK A : A = {y \in Range(m) : y[2] = x[2] /\ first(m, y) <= first(m, x)}
  OBVIOUS
<1>2. PICK B : B = {z \in Range(u) : z[2] = f[x][2] /\ first(u, z) <= first(u, f[x])}
  OBVIOUS
<1>3. \A y \in Range(m) : f[y] \in Range(u) /\ first(u, f[y]) = first(m, y)
  BY FirstRenamed
<1>4. \A y \in A : f[y] \in B
  BY <1>1, <1>2, <1>3
<1>5. ASSUME NEW z \in B PROVE \E y \in A : z = f[y]
  <2>1. PICK i \in DOMAIN u : z = u[i]
    BY <1>2 DEF Range
  <2>2. PICK y : y = m[i] /\ y \in Range(m)
    BY <2>1 DEF Range
  <2>3. z = f[y]
    BY <2>1, <2>2
  <2>4. y \in A
    BY <1>1, <1>2, <1>3, <2>2, <2>3
  <2>5. QED
    BY <2>3, <2>4
<1>6. PICK g : g = [y \in A |-> f[y]]
  OBVIOUS
<1>7. g \in Bijection(A, B)
  <2>1. g \in [A -> B] /\ A \subseteq Range(m)
    BY <1>1, <1>4, <1>6
  <2>2. \A y, z \in A : g[y] = g[z] => y = z
    BY <1>6, <2>1
  <2>3. \A z \in B : \E y \in A : g[y] = z
    BY <1>5, <1>6
  <2>4. QED
    BY <2>1, <2>2, <2>3 DEF Bijection, Injection, IsInjective, Surjection
<1>8. IsFiniteSet(A)
  BY <1>1, FiniteVault, FS_Subset
<1>9. Cardinality(A) = Cardinality(B)
  BY <1>7, <1>8, FS_Bijection DEF ExistsBijection
<1>10. placeholder(m, x) = Token(x[2], Cardinality(A)) /\ placeholder(u, f[x]) = Token(f[x][2], Cardinality(B))
  BY <1>1, <1>2 DEF placeholder
<1>11. QED
  BY <1>9, <1>10

LEMMA ProtectRenamed ==
    ASSUME NEW policy, NEW text \in Texts, NEW f \in Renamings(policy)
    PROVE  protect(policy, rename(f, text)) = protect(policy, text)
<1>1. /\ f \in [Values -> Values]
      /\ \A x \in Values : f[x][2] = x[2] /\ (for_request(policy, x[2]) = "allow" => f[x] = x)
      /\ \A x, y \in Values : f[x] = f[y] => x = y
  BY DEF Renamings
<1>2. PICK other : other = rename(f, text)
  OBVIOUS
<1>3. Len(text) \in Nat /\ DOMAIN text = 1..Len(text) /\ DOMAIN other = DOMAIN text
  BY <1>2, TextFacts DEF rename
<1>4. ASSUME NEW i \in DOMAIN text
      PROVE  /\ is_value(text[i]) => text[i] \in Values /\ other[i] = f[text[i]] /\ is_value(other[i])
                                       /\ other[i][2] = text[i][2]
             /\ ~ is_value(text[i]) => other[i] = text[i]
  <2>1. text[i] \in Values \cup ({"token"} \X STRING \X Nat)
    BY <1>3, TextsAssumption
  <2>2. text[i] \in Values <=> is_value(text[i])
    BY <2>1, ValuesAssumption DEF is_value
  <2>3. other[i] = IF text[i] \in Values THEN f[text[i]] ELSE text[i]
    BY <1>2 DEF rename
  <2>4. QED
    BY <1>1, <2>2, <2>3, ValuesAssumption
<1>5. PICK D : D = {i \in DOMAIN text : is_value(text[i]) /\ for_request(policy, text[i][2]) = "mask"}
  OBVIOUS
<1>6. D = {i \in DOMAIN other : is_value(other[i]) /\ for_request(policy, other[i][2]) = "mask"}
  BY <1>3, <1>4, <1>5
<1>7. PICK m, u : m = vault(policy, text) /\ u = vault(policy, other)
  OBVIOUS
<1>8. m = [i \in D |-> text[i]] /\ u = [i \in D |-> other[i]]
  <2>1. m = [i \in D |-> text[i]]
    BY <1>5, <1>7 DEF vault, Restrict
  <2>2. u = [i \in D |-> other[i]]
    BY <1>6, <1>7 DEF vault, Restrict
  <2>3. QED
    BY <2>1, <2>2
<1>9. D \subseteq 1..Len(text)
  BY <1>3, <1>5
<1>10. VaultOf(m, Len(text)) /\ VaultOf(u, Len(text)) /\ DOMAIN u = DOMAIN m
  BY <1>3, <1>8, <1>9 DEF VaultOf
<1>11. \A i \in DOMAIN m : u[i] = f[m[i]] /\ m[i] \in Values
  BY <1>4, <1>5, <1>8
<1>12. Range(m) \subseteq Values
  BY <1>11 DEF Range
<1>13. \A x \in Range(m) : placeholder(u, f[x]) = placeholder(m, x)
  <2>1. (\A x, y \in Range(m) : f[x] = f[y] => x = y) /\ \A x \in Range(m) : f[x][2] = x[2]
    BY <1>1, <1>12
  <2>2. QED
    BY <1>10, <1>11, <2>1, PlaceholderRenamed
<1>14. ASSUME NEW i \in DOMAIN text PROVE protect(policy, other)[i] = protect(policy, text)[i]
  <2>1. CASE ~ is_value(text[i])
    <3>1. other[i] = text[i]
      BY <1>4, <2>1
    <3>2. QED
      BY <1>3, <2>1, <3>1 DEF protect
  <2>2. CASE is_value(text[i])
    <3>1. /\ text[i] \in Values /\ other[i] = f[text[i]] /\ is_value(other[i]) /\ other[i][2] = text[i][2]
      BY <1>4, <2>2
    <3>2. CASE for_request(policy, text[i][2]) = "allow"
      <4>1. other[i] = text[i]
        BY <1>1, <3>1, <3>2
      <4>2. QED
        BY <1>3, <2>2, <3>2, <4>1 DEF protect
    <3>3. CASE for_request(policy, text[i][2]) = "mask"
      <4>1. text[i] \in Range(m)
        BY <1>5, <1>8, <2>2, <3>3 DEF Range
      <4>2. placeholder(u, other[i]) = placeholder(m, text[i])
        BY <1>13, <3>1, <4>1
      <4>3. protect(policy, other)[i] = placeholder(u, other[i]) /\ protect(policy, text)[i] = placeholder(m, text[i])
        BY <1>3, <1>7, <2>2, <3>1, <3>3 DEF protect
      <4>4. QED
        BY <4>2, <4>3
    <3>4. CASE for_request(policy, text[i][2]) \notin {"allow", "mask"}
      <4>1. protect(policy, other)[i] = Gone(other[i][2]) /\ protect(policy, text)[i] = Gone(text[i][2])
        BY <1>3, <2>2, <3>1, <3>4 DEF protect
      <4>2. QED
        BY <3>1, <4>1
    <3>5. QED
      BY <3>2, <3>3, <3>4
  <2>3. QED
    BY <2>1, <2>2
<1>15. /\ protect(policy, text) = [i \in DOMAIN text |-> protect(policy, text)[i]]
       /\ protect(policy, other) = [i \in DOMAIN text |-> protect(policy, other)[i]]
  BY <1>3 DEF protect
<1>16. protect(policy, other) = protect(policy, text)
  BY <1>14, <1>15
<1>17. QED
  BY <1>2, <1>16

-----------------------------------------------------------------------------
(* The steps. *)

LEMMA InitInv == Init => Inv
<1> SUFFICES ASSUME Init PROVE Inv
  OBVIOUS
<1>1. Settings
  BY DefaultAssumption DEF Init, Settings
<1>2. Chats
  BY DEF Init, Chats, Idle
<1>3. QED
  BY <1>1, <1>2 DEF Init, Inv, Cached, Events

LEMMA UnfoundKeeps ==
    ASSUME NEW known, NEW time \in Nat, Unfound(known, time), clock \in Nat, time <= clock + TTL,
           \A v \in Values : found'[v] \in {NONE, found[v], clock}
    PROVE  Unfound(known, time)'
BY DEF Unfound

\* Settings, keys, audits and time leave requests and the cache as they are.
LEMMA AdminKeeps ==
    ASSUME Inv, UNCHANGED <<cache, chat, log>>, Settings', clock <= clock',
           \A v \in Values : found'[v] \in {NONE, found[v], clock}
    PROVE  Inv'
<1>1. clock \in Nat /\ clock' \in Nat
  BY DEF Inv, Settings
<1>2. Cached'
  <2>1. SUFFICES ASSUME cache # NONE
                 PROVE  cache.expires <= clock' + TTL /\ Unfound(cache.known, cache.expires)'
    BY DEF Inv, Cached
  <2>2. cache.expires \in Nat /\ cache.expires <= clock + TTL /\ Unfound(cache.known, cache.expires)
    BY <2>1 DEF Inv, Cached
  <2>3. PICK k, t : k = cache.known /\ t = cache.expires
    OBVIOUS
  <2>4. Unfound(k, t)'
    BY <1>1, <2>2, <2>3, UnfoundKeeps
  <2>5. QED
    BY <1>1, <2>2, <2>3, <2>4, TTLAssumption
<1>3. Chats'
  <2>1. SUFFICES ASSUME NEW a \in Apps, chat[a].pc \in {"sent", "done"}
                 PROVE  Started(chat[a])'
    BY DEF Inv, Chats
  <2>2. PICK k, t : k = chat[a].known /\ t = chat[a].start
    OBVIOUS
  <2>3. t \in Nat /\ t <= clock /\ Unfound(k, t)
    BY <2>1, <2>2 DEF Inv, Chats, Started
  <2>4. t <= clock + TTL /\ t <= clock'
    BY <1>1, <2>3, TTLAssumption
  <2>5. Unfound(k, t)'
    BY <1>1, <2>3, <2>4, UnfoundKeeps
  <2>6. QED
    BY <2>2, <2>3, <2>4, <2>5 DEF Started
<1>4. Events'
  BY DEF Inv, Events
<1>5. QED
  BY <1>2, <1>3, <1>4 DEF Inv

LEMMA AdminStepKeeps ==
    ASSUME Inv,
           \/ \E k \in Keys : IssueKey(k) \/ RevokeKey(k)
           \/ update_settings \/ Tick
           \/ \E v \in Trained : AuditFinds(v) \/ AuditForgets(v)
    PROVE  Inv'
<1>1. UNCHANGED <<cache, chat, log>>
  BY DEF IssueKey, RevokeKey, update_settings, Tick, AuditFinds, AuditForgets
<1>2. clock \in Nat /\ (clock' = clock \/ clock' = clock + 1)
  BY DEF Inv, Settings, IssueKey, RevokeKey, update_settings, Tick, AuditFinds, AuditForgets
<1>3. found' = found \/ \E v \in Trained, n \in {NONE, clock} : found' = [found EXCEPT ![v] = n]
  BY DEF IssueKey, RevokeKey, update_settings, Tick, AuditFinds, AuditForgets
<1>4. /\ found' = [v \in Values |-> found'[v]]
      /\ \A v \in Values : found'[v] \in {NONE, found[v], clock}
  BY <1>3 DEF Inv, Settings
<1>5. settings' = settings \/ \E p \in Policies, u \in {TRUE, FALSE, settings.upstream} :
         settings' = [policy |-> p, upstream |-> u]
  BY DEF IssueKey, RevokeKey, update_settings, Tick, AuditFinds, AuditForgets
<1>6. Settings'
  <2>1. settings' = [policy |-> settings'.policy, upstream |-> settings'.upstream] /\ settings'.policy \in Policies
    BY <1>5 DEF Inv, Settings
  <2>2. \A v \in Values : found'[v] # NONE => found'[v] \in Nat
    BY <1>2, <1>4 DEF Inv, Settings
  <2>3. clock' \in Nat
    BY <1>2
  <2>4. QED
    BY <1>4, <2>1, <2>2, <2>3 DEF Settings
<1>7. QED
  BY <1>1, <1>2, <1>4, <1>6, AdminKeeps

\* What a request is told of the memorized values: all that were found, but for
\* the time to live.
LEMMA GetFacts ==
    ASSUME Inv
    PROVE  /\ get = [expires |-> get.expires, known |-> get.known]
           /\ get.expires \in Nat /\ get.expires <= clock + TTL /\ get.known \subseteq Values
           /\ Unfound(get.known, get.expires) /\ Unfound(get.known, clock)
<1>1. clock \in Nat
  BY DEF Inv, Settings
<1>2. CASE cache = NONE \/ cache.expires < clock
  <2>1. get = [expires |-> clock + TTL, known |-> memorized_fingerprints]
    BY <1>2 DEF get
  <2>2. get.expires = clock + TTL /\ get.known = memorized_fingerprints
    BY <2>1
  <2>3. \A v \in Values : v \notin get.known => found[v] = NONE
    BY <2>2 DEF memorized_fingerprints
  <2>4. Unfound(get.known, get.expires) /\ Unfound(get.known, clock)
    BY <2>3 DEF Unfound
  <2>5. get.known \subseteq Values
    BY <2>2 DEF memorized_fingerprints
  <2>6. QED
    BY <1>1, <2>1, <2>2, <2>4, <2>5, TTLAssumption
<1>3. CASE ~ (cache = NONE \/ cache.expires < clock)
  <2>1. get = cache /\ Cached /\ cache # NONE
    BY <1>3 DEF get, Inv
  <2>2. cache.expires \in Nat /\ clock <= cache.expires
    BY <1>1, <1>3, <2>1 DEF Cached
  <2>3. \A v \in Values : found[v] # NONE => found[v] \in Nat
    BY DEF Inv, Settings
  <2>4. Unfound(cache.known, cache.expires)
    BY <2>1 DEF Cached
  <2>5. Unfound(cache.known, clock)
    BY <1>1, <2>2, <2>3, <2>4, TTLAssumption DEF Unfound
  <2>6. QED
    BY <2>1, <2>4, <2>5 DEF Cached
<1>4. QED
  BY <1>2, <1>3

LEMMA CachedKeeps ==
    ASSUME Inv, cache' \in {cache, get}, UNCHANGED admin
    PROVE  Settings' /\ Cached'
<1>1. UNCHANGED <<settings, found, clock>>
  BY DEF admin
<1>2. Settings'
  BY <1>1 DEF Inv, Settings
<1>3. CASE cache' = cache
  BY <1>1, <1>2, <1>3 DEF Inv, Cached, Unfound
<1>4. CASE cache' = get
  <2>1. PICK g : g = get
    OBVIOUS
  <2>2. /\ g = [expires |-> g.expires, known |-> g.known]
        /\ g.expires \in Nat /\ g.expires <= clock + TTL /\ g.known \subseteq Values
        /\ Unfound(g.known, g.expires)
    BY <2>1, GetFacts
  <2>3. cache' = g
    BY <1>4, <2>1
  <2>4. QED
    BY <1>1, <1>2, <2>2, <2>3 DEF Cached, Unfound
<1>5. QED
  BY <1>2, <1>3, <1>4

\* The request of one app goes on.
LEMMA ChatsKeep ==
    ASSUME Chats, NEW a \in Apps, NEW c, chat' = [chat EXCEPT ![a] = c], UNCHANGED <<found, clock>>,
           c.pc \in {"called", "sent", "done"}, c.run \in Nat,
           c.pc = "called" => CalledShape(c) /\ c.text \in Texts,
           c.pc \in {"sent", "done"} => Shape(c) /\ Started(c),
           c.pc = "sent" => Sent(c),
           c.pc = "done" => Told(c)
    PROVE  Chats' /\ chat'[a] = c /\ \A b \in Apps : b # a => chat'[b] = chat[b]
<1>1. chat'[a] = c /\ \A b \in Apps : b # a => chat'[b] = chat[b]
  BY DEF Chats
<1>2. chat' = [b \in Apps |-> chat'[b]]
  BY DEF Chats
<1>3. \A d : Started(d) => Started(d)'
  BY DEF Started, Unfound
<1>4. ASSUME NEW b \in Apps
      PROVE  /\ chat'[b].pc \in {"idle", "called", "sent", "done"} /\ chat'[b].run \in Nat
             /\ chat'[b].pc = "idle" => chat'[b] = Idle
             /\ chat'[b].pc = "called" => CalledShape(chat'[b]) /\ chat'[b].text \in Texts
             /\ chat'[b].pc \in {"sent", "done"} => Shape(chat'[b]) /\ Started(chat[b])'
             /\ chat'[b].pc = "sent" => Sent(chat'[b])
             /\ chat'[b].pc = "done" => Told(chat'[b])
  <2>1. CASE b = a
    <3>1. c.pc \in {"sent", "done"} => Started(c)'
      BY <1>3
    <3>2. chat'[b] = c
      BY <1>1, <2>1
    <3>3. c.pc \in {"sent", "done"} => Started(chat[b])'
      BY <3>1, <3>2 DEF Started, Unfound
    <3>4. QED
      BY <3>2, <3>3
  <2>2. CASE b # a
    <3>1. PICK d : d = chat[b]
      OBVIOUS
    <3>2. chat'[b] = d
      BY <1>1, <2>2, <3>1
    <3>3. d.pc \in {"sent", "done"} => Started(d)'
      BY <1>3, <3>1 DEF Chats
    <3>4. d.pc \in {"sent", "done"} => Started(chat[b])'
      BY <3>2, <3>3 DEF Started, Unfound
    <3>5. QED
      BY <3>1, <3>2, <3>4 DEF Chats
  <2>3. QED
    BY <2>1, <2>2
<1>5. QED
  BY <1>1, <1>2, <1>4 DEF Chats

\* A request starts or goes to the provider: its run has no event yet.
LEMMA EventsKeep ==
    ASSUME Events, NEW a \in Apps, chat[a].run \in Nat, chat'[a].run \in Nat, log' = log,
           \A b \in Apps : b # a => chat'[b] = chat[b],
           \/ chat'[a].run = chat[a].run + 1
           \/ chat'[a].run = chat[a].run /\ chat[a].pc # "done"
    PROVE  Events'
<1> SUFFICES ASSUME NEW e \in log
             PROVE  /\ e = [app |-> e.app, run |-> e.run, outcome |-> e.outcome]
                    /\ e.app \in Apps /\ e.run \in Nat /\ e.run <= chat'[e.app].run
                    /\ e.outcome \in {"passed", "protected", "blocked", "error"}
                    /\ e.run = chat'[e.app].run => chat'[e.app].pc = "done"
                    /\ e.run = chat'[e.app].run /\ e.outcome = "passed" =>
                          chat'[e.app].seen = chat'[e.app].text /\ chat'[e.app].shown = chat'[e.app].reply
  BY DEF Events
<1>1. /\ e = [app |-> e.app, run |-> e.run, outcome |-> e.outcome]
      /\ e.app \in Apps /\ e.run \in Nat /\ e.run <= chat[e.app].run
      /\ e.outcome \in {"passed", "protected", "blocked", "error"}
      /\ e.run = chat[e.app].run => chat[e.app].pc = "done"
      /\ e.run = chat[e.app].run /\ e.outcome = "passed" =>
            chat[e.app].seen = chat[e.app].text /\ chat[e.app].shown = chat[e.app].reply
  BY DEF Events
<1>2. CASE e.app = a
  <2>1. e.run <= chat'[a].run /\ e.run # chat'[a].run
    BY <1>1, <1>2
  <2>2. QED
    BY <1>1, <1>2, <2>1
<1>3. CASE e.app # a
  BY <1>1, <1>3
<1>4. QED
  BY <1>2, <1>3

LEMMA EventAdded ==
    ASSUME Events, NEW a \in Apps, NEW result \in {"passed", "protected", "blocked", "error"},
           chat[a].run \in Nat, chat[a].pc # "done", chat'[a].pc = "done", chat'[a].run = chat[a].run,
           \A b \in Apps : b # a => chat'[b] = chat[b],
           log' = log \cup {[app |-> a, run |-> chat[a].run, outcome |-> result]},
           result = "passed" => chat'[a].seen = chat'[a].text /\ chat'[a].shown = chat'[a].reply
    PROVE  Events'
<1> SUFFICES ASSUME NEW e \in log'
             PROVE  /\ e = [app |-> e.app, run |-> e.run, outcome |-> e.outcome]
                    /\ e.app \in Apps /\ e.run \in Nat /\ e.run <= chat'[e.app].run
                    /\ e.outcome \in {"passed", "protected", "blocked", "error"}
                    /\ e.run = chat'[e.app].run => chat'[e.app].pc = "done"
                    /\ e.run = chat'[e.app].run /\ e.outcome = "passed" =>
                          chat'[e.app].seen = chat'[e.app].text /\ chat'[e.app].shown = chat'[e.app].reply
  BY DEF Events
<1>1. CASE e \in log
  <2>1. /\ e = [app |-> e.app, run |-> e.run, outcome |-> e.outcome]
        /\ e.app \in Apps /\ e.run \in Nat /\ e.run <= chat[e.app].run
        /\ e.outcome \in {"passed", "protected", "blocked", "error"}
        /\ e.run = chat[e.app].run => chat[e.app].pc = "done"
        /\ e.run = chat[e.app].run /\ e.outcome = "passed" =>
              chat[e.app].seen = chat[e.app].text /\ chat[e.app].shown = chat[e.app].reply
    BY <1>1 DEF Events
  <2>2. CASE e.app = a
    BY <2>1, <2>2
  <2>3. CASE e.app # a
    BY <2>1, <2>3
  <2>4. QED
    BY <2>2, <2>3
<1>2. CASE e = [app |-> a, run |-> chat[a].run, outcome |-> result]
  <2>1. e.app = a /\ e.run = chat[a].run /\ e.outcome = result
    BY <1>2
  <2>2. QED
    BY <1>2, <2>1
<1>3. QED
  BY <1>1, <1>2

LEMMA CallKeeps ==
    ASSUME Inv, NEW a \in Apps, Call(a)
    PROVE  Inv'
<1>1. PICK text \in Texts, rest \in Rests :
         chat' = [chat EXCEPT ![a] = [pc |-> "called", run |-> @.run + 1, text |-> text, rest |-> rest]]
  BY DEF Call
<1>2. chat[a].run \in Nat /\ chat = [b \in Apps |-> chat[b]]
  BY DEF Inv, Chats
<1>3. PICK c : c = [pc |-> "called", run |-> chat[a].run + 1, text |-> text, rest |-> rest]
  OBVIOUS
<1>4. chat' = [chat EXCEPT ![a] = c] /\ UNCHANGED <<admin, cache, log, found, clock>>
  BY <1>1, <1>2, <1>3 DEF Call, admin
<1>5. c.pc = "called" /\ c.run \in Nat /\ CalledShape(c) /\ c.text \in Texts /\ c.run = chat[a].run + 1
  BY <1>2, <1>3 DEF CalledShape
<1>6. Chats' /\ chat'[a] = c /\ \A b \in Apps : b # a => chat'[b] = chat[b]
  BY <1>4, <1>5, ChatsKeep DEF Inv
<1>7. Events'
  BY <1>2, <1>4, <1>5, <1>6, EventsKeep DEF Inv
<1>8. Settings' /\ Cached'
  BY <1>4, CachedKeeps
<1>9. QED
  BY <1>6, <1>7, <1>8 DEF Inv

\* A request ends, with its event.
LEMMA FinishKeeps ==
    ASSUME Inv, NEW a \in Apps, chat[a].pc \in {"called", "sent"},
           NEW result \in {"passed", "protected", "blocked", "error"},
           NEW c, c.pc = "done", c.run = chat[a].run, Shape(c), Started(c), Told(c),
           chat' = [chat EXCEPT ![a] = c],
           log' = log \cup {[app |-> a, run |-> chat[a].run, outcome |-> result]},
           result = "passed" => c.seen = c.text /\ c.shown = c.reply,
           cache' \in {cache, get}, UNCHANGED <<admin>>
    PROVE  Inv'
<1>1. chat[a].run \in Nat /\ UNCHANGED <<found, clock>>
  BY DEF Inv, Chats, admin
<1>2. Chats' /\ chat'[a] = c /\ \A b \in Apps : b # a => chat'[b] = chat[b]
  BY <1>1, ChatsKeep DEF Inv
<1>3. Events'
  BY <1>1, <1>2, EventAdded DEF Inv
<1>4. Settings' /\ Cached'
  BY CachedKeeps
<1>5. QED
  BY <1>2, <1>3, <1>4 DEF Inv

LEMMA ForwardKeeps ==
    ASSUME Inv, NEW a \in Apps, Forward(a)
    PROVE  Inv'
<1>1. PICK p, t, w, k, s, m : /\ p = settings.policy /\ t = chat[a].text /\ w = chat[a].rest /\ k = get.known
                              /\ s = protect(p, t) /\ m = vault(p, t)
  OBVIOUS
<1>2. PICK c : c = [pc |-> "sent", run |-> chat[a].run, text |-> t, rest |-> w, policy |-> p, known |-> k, start |-> clock,
                    vault |-> m, seen |-> s, reply |-> <<>>, shown |-> <<>>]
  OBVIOUS
<1>3. /\ chat[a].pc = "called" /\ cache' = get /\ UNCHANGED admin
      /\ IF request_blocked(p, t)
         THEN Finish(a, "blocked", [c EXCEPT !.seen = <<>>])
         ELSE IF ~ settings.upstream
         THEN Finish(a, "error", [c EXCEPT !.seen = <<>>])
         ELSE /\ chat' = [chat EXCEPT ![a] = c]
              /\ UNCHANGED log
  BY <1>1, <1>2 DEF Forward
<1>4. t \in Texts /\ p \in Policies /\ chat[a].run \in Nat /\ clock \in Nat
  BY <1>1, <1>3 DEF Inv, Chats, Settings
<1>5. Unfound(k, clock)
  BY <1>1, GetFacts
<1>6. ASSUME NEW result \in {"blocked", "error"}, Finish(a, result, [c EXCEPT !.seen = <<>>])
      PROVE  Inv'
  <2>1. PICK d : d = [pc |-> "done", run |-> chat[a].run, text |-> t, rest |-> w, policy |-> p, known |-> k, start |-> clock,
                      vault |-> m, seen |-> <<>>, reply |-> <<>>, shown |-> <<>>]
    OBVIOUS
  <2>2. [[c EXCEPT !.seen = <<>>] EXCEPT !.pc = "done"] = d
    <3>1. PICK b : b = [c EXCEPT !.seen = <<>>]
      OBVIOUS
    <3>2. b = [pc |-> "sent", run |-> chat[a].run, text |-> t, rest |-> w, policy |-> p, known |-> k, start |-> clock,
               vault |-> m, seen |-> <<>>, reply |-> <<>>, shown |-> <<>>]
      BY <1>2, <3>1
    <3>3. [b EXCEPT !.pc = "done"] = d
      BY <2>1, <3>2
    <3>4. QED
      BY <3>1, <3>3
  <2>3. /\ chat' = [chat EXCEPT ![a] = d]
        /\ log' = log \cup {[app |-> a, run |-> chat[a].run, outcome |-> result]}
    BY <1>6, <2>2 DEF Finish
  <2>4. d.pc = "done" /\ d.run = chat[a].run /\ Shape(d) /\ d.start = clock /\ d.known = k
        /\ d.shown = <<>> /\ d.reply = <<>>
    BY <2>1 DEF Shape
  <2>5. Started(d)
    BY <1>4, <1>5, <2>4 DEF Started
  <2>6. Told(d)
    BY <2>4 DEF Told, OwnValues, Echoes, KnownHeld, Range
  <2>7. QED
    BY <1>3, <1>6, <2>3, <2>4, <2>5, <2>6, FinishKeeps
<1>7. CASE /\ chat' = [chat EXCEPT ![a] = c] /\ UNCHANGED log
  <2>1. /\ c.pc = "sent" /\ c.run = chat[a].run /\ Shape(c) /\ c.start = clock /\ c.known = k /\ c.text = t
        /\ c.policy = p /\ c.vault = m /\ c.seen = s /\ c.reply = <<>> /\ c.shown = <<>>
    BY <1>2 DEF Shape
  <2>2. Started(c)
    BY <1>4, <1>5, <2>1 DEF Started
  <2>3. Sent(c)
    BY <1>1, <1>4, <2>1 DEF Sent
  <2>4. UNCHANGED <<found, clock>>
    BY <1>3 DEF admin
  <2>5. Chats' /\ chat'[a] = c /\ \A b \in Apps : b # a => chat'[b] = chat[b]
    BY <1>4, <1>7, <2>1, <2>2, <2>3, <2>4, ChatsKeep DEF Inv
  <2>6. Events'
    BY <1>3, <1>4, <1>7, <2>1, <2>5, EventsKeep DEF Inv
  <2>7. Settings' /\ Cached'
    BY <1>3, CachedKeeps
  <2>8. QED
    BY <2>5, <2>6, <2>7 DEF Inv
<1>8. QED
  BY <1>3, <1>6, <1>7

\* What the user is told of a reply.
LEMMA ReviewTold ==
    ASSUME NEW d, NEW p, NEW k, NEW m, NEW r, d.shown = review(p, k, m, r),
           d.reply = r, d.policy = p, d.known = k, d.vault = m, Range(m) \subseteq Range(d.text)
    PROVE  OwnValues(d) /\ KnownHeld(d)
<1>1. \A x \in Range(d.shown) : is_value(x) =>
         \/ x \in Range(m)
         \/ x \in Range(r) /\ unknown(m, x) /\ decision(p, k, x) = "allow"
  BY ReviewFacts
<1>2. OwnValues(d)
  BY <1>1 DEF OwnValues
<1>3. KnownHeld(d)
  BY <1>1, ValuesAssumption DEF KnownHeld, decision
<1>4. QED
  BY <1>2, <1>3

\* Nothing is logged as passed unless nothing was changed.
LEMMA OutcomeFacts ==
    ASSUME NEW before, NEW seen, NEW reply, NEW shown, NEW known
    PROVE  /\ outcome(before, seen, reply, shown, known) \in {"passed", "protected"}
           /\ outcome(before, seen, reply, shown, known) = "passed" => seen = before /\ shown = reply
BY DEF outcome

LEMMA SentFacts ==
    ASSUME Inv, NEW a \in Apps, chat[a].pc = "sent"
    PROVE  Shape(chat[a]) /\ Started(chat[a]) /\ Sent(chat[a]) /\ chat[a].run \in Nat
BY DEF Inv, Chats

\* A request that was sent ends without an answer.
LEMMA StoppedKeeps ==
    ASSUME Inv, NEW a \in Apps, chat[a].pc = "sent", NEW result \in {"blocked", "error"},
           Finish(a, result, chat[a]), UNCHANGED <<admin, cache>>
    PROVE  Inv'
<1>1. PICK c : c = chat[a]
  OBVIOUS
<1>2. Shape(c) /\ Started(c) /\ Sent(c)
  BY <1>1, SentFacts
<1>3. PICK d : d = [c EXCEPT !.pc = "done"]
  OBVIOUS
<1>4. d = [pc |-> "done", run |-> c.run, text |-> c.text, rest |-> c.rest, policy |-> c.policy, known |-> c.known, start |-> c.start,
           vault |-> c.vault, seen |-> c.seen, reply |-> c.reply, shown |-> c.shown]
  BY <1>2, <1>3 DEF Shape
<1>5. /\ d.pc = "done" /\ d.run = chat[a].run /\ Shape(d) /\ d.start = c.start /\ d.known = c.known
      /\ d.reply = <<>> /\ d.shown = <<>>
  BY <1>1, <1>2, <1>4 DEF Shape, Sent
<1>6. Started(d)
  BY <1>2, <1>5 DEF Started
<1>7. Told(d)
  BY <1>5 DEF Told, OwnValues, Echoes, KnownHeld, Range
<1>8. /\ chat' = [chat EXCEPT ![a] = d]
      /\ log' = log \cup {[app |-> a, run |-> chat[a].run, outcome |-> result]}
  BY <1>1, <1>3 DEF Finish
<1>9. QED
  BY <1>5, <1>6, <1>7, <1>8, FinishKeeps

LEMMA ReplyKeeps ==
    ASSUME Inv, NEW a \in Apps, Reply(a)
    PROVE  Inv'
<1>1. PICK c : c = chat[a]
  OBVIOUS
<1>2. chat[a].pc = "sent" /\ UNCHANGED <<admin, cache>>
  BY DEF Reply
<1>3. Shape(c) /\ Started(c) /\ Sent(c)
  BY <1>1, <1>2, SentFacts
<1>4. PICK r \in Replies(c.seen, c.rest) :
         IF reply_blocked(c.policy, c.known, c.vault, r)
         THEN Finish(a, "blocked", c)
         ELSE LET shown == review(c.policy, c.known, c.vault, r) IN
              Finish(a, outcome(c.text, c.seen, r, shown, c.known), [c EXCEPT !.reply = r, !.shown = shown])
  BY <1>1 DEF Reply
<1>5. CASE reply_blocked(c.policy, c.known, c.vault, r)
  <2>1. Finish(a, "blocked", chat[a])
    BY <1>1, <1>4, <1>5
  <2>2. QED
    BY <1>2, <2>1, StoppedKeeps
<1>6. CASE ~ reply_blocked(c.policy, c.known, c.vault, r)
  <2>1. PICK s : s = review(c.policy, c.known, c.vault, r)
    OBVIOUS
  <2>2. PICK o : o = outcome(c.text, c.seen, r, s, c.known)
    OBVIOUS
  <2>3. Finish(a, o, [c EXCEPT !.reply = r, !.shown = s])
    BY <1>4, <1>6, <2>1, <2>2
  <2>4. PICK d : d = [pc |-> "done", run |-> c.run, text |-> c.text, rest |-> c.rest, policy |-> c.policy, known |-> c.known,
                      start |-> c.start, vault |-> c.vault, seen |-> c.seen, reply |-> r, shown |-> s]
    OBVIOUS
  <2>5. [[c EXCEPT !.reply = r, !.shown = s] EXCEPT !.pc = "done"] = d
    <3>1. PICK b : b = [c EXCEPT !.reply = r, !.shown = s]
      OBVIOUS
    <3>2. b = [pc |-> c.pc, run |-> c.run, text |-> c.text, rest |-> c.rest, policy |-> c.policy, known |-> c.known,
               start |-> c.start, vault |-> c.vault, seen |-> c.seen, reply |-> r, shown |-> s]
      BY <1>3, <3>1 DEF Shape
    <3>3. [b EXCEPT !.pc = "done"] = d
      BY <2>4, <3>2
    <3>4. QED
      BY <3>1, <3>3
  <2>6. /\ chat' = [chat EXCEPT ![a] = d]
        /\ log' = log \cup {[app |-> a, run |-> chat[a].run, outcome |-> o]}
    BY <2>3, <2>5 DEF Finish
  <2>7. /\ d.pc = "done" /\ d.run = chat[a].run /\ Shape(d) /\ d.start = c.start /\ d.known = c.known
        /\ d.text = c.text /\ d.policy = c.policy /\ d.vault = c.vault /\ d.seen = c.seen /\ d.reply = r /\ d.shown = s
    BY <1>1, <2>4 DEF Shape
  <2>8. Started(d)
    BY <1>3, <2>7 DEF Started
  <2>9. /\ c.text \in Texts /\ c.vault = vault(c.policy, c.text) /\ c.seen = protect(c.policy, c.text)
        /\ Range(c.vault) \subseteq Range(c.text)
    BY <1>3, VaultFacts DEF Sent
  <2>10. OwnValues(d) /\ KnownHeld(d)
    BY <2>1, <2>7, <2>9, ReviewTold
  <2>11. Echoes(d)
    <3>1. SUFFICES ASSUME r = c.seen, NEW i \in DOMAIN c.text, c.text[i] \in Range(c.vault)
                   PROVE  s[i] = c.text[i]
      BY <2>7 DEF Echoes
    <3>2. review(c.policy, c.known, vault(c.policy, c.text), protect(c.policy, c.text))[i] = c.text[i]
      BY <2>9, <3>1, EchoFacts
    <3>3. QED
      BY <2>1, <2>9, <3>1, <3>2
  <2>12. o \in {"passed", "protected"} /\ (o = "passed" => d.seen = d.text /\ d.shown = d.reply)
    BY <2>2, <2>7, OutcomeFacts
  <2>13. Told(d)
    BY <2>10, <2>11 DEF Told
  <2>14. QED
    BY <1>2, <2>6, <2>7, <2>8, <2>12, <2>13, FinishKeeps
<1>7. QED
  BY <1>5, <1>6

LEMMA ProviderFailsKeeps ==
    ASSUME Inv, NEW a \in Apps, ProviderFails(a)
    PROVE  Inv'
<1>1. chat[a].pc = "sent" /\ Finish(a, "error", chat[a]) /\ UNCHANGED <<admin, cache>>
  BY DEF ProviderFails
<1>2. QED
  BY <1>1, StoppedKeeps

LEMMA ScanKeeps ==
    ASSUME Inv, NEW a \in Apps, Scan(a)
    PROVE  Inv'
<1>1. PICK p, t, w, k, s : p = settings.policy /\ t = chat[a].text /\ w = {} /\ k = get.known /\ s = review(p, k, <<>>, t)
  OBVIOUS
<1>2. PICK c : c = [pc |-> "scan", run |-> chat[a].run, text |-> t, rest |-> w, policy |-> p, known |-> k, start |-> clock,
                    vault |-> <<>>, seen |-> t, reply |-> t, shown |-> s]
  OBVIOUS
<1>3. /\ chat[a].pc = "called" /\ cache' = get /\ UNCHANGED <<admin>>
      /\ IF reply_blocked(p, k, <<>>, t)
         THEN Finish(a, "blocked", [c EXCEPT !.reply = <<>>, !.shown = <<>>])
         ELSE Finish(a, outcome(t, t, t, s, k), c)
  BY <1>1, <1>2 DEF Scan
<1>4. t \in Texts /\ chat[a].run \in Nat /\ clock \in Nat
  BY <1>1, <1>3 DEF Inv, Chats, Settings
<1>5. Unfound(k, clock)
  BY <1>1, GetFacts
<1>6. CASE reply_blocked(p, k, <<>>, t)
  <2>1. PICK d : d = [pc |-> "done", run |-> chat[a].run, text |-> t, rest |-> w, policy |-> p, known |-> k, start |-> clock,
                      vault |-> <<>>, seen |-> t, reply |-> <<>>, shown |-> <<>>]
    OBVIOUS
  <2>2. [[c EXCEPT !.reply = <<>>, !.shown = <<>>] EXCEPT !.pc = "done"] = d
    <3>1. PICK b : b = [c EXCEPT !.reply = <<>>, !.shown = <<>>]
      OBVIOUS
    <3>2. b = [pc |-> "scan", run |-> chat[a].run, text |-> t, rest |-> w, policy |-> p, known |-> k, start |-> clock,
               vault |-> <<>>, seen |-> t, reply |-> <<>>, shown |-> <<>>]
      BY <1>2, <3>1
    <3>3. [b EXCEPT !.pc = "done"] = d
      BY <2>1, <3>2
    <3>4. QED
      BY <3>1, <3>3
  <2>3. /\ chat' = [chat EXCEPT ![a] = d]
        /\ log' = log \cup {[app |-> a, run |-> chat[a].run, outcome |-> "blocked"]}
    BY <1>3, <1>6, <2>2 DEF Finish
  <2>4. d.pc = "done" /\ d.run = chat[a].run /\ Shape(d) /\ d.start = clock /\ d.known = k
        /\ d.shown = <<>> /\ d.reply = <<>>
    BY <2>1 DEF Shape
  <2>5. Started(d)
    BY <1>4, <1>5, <2>4 DEF Started
  <2>6. Told(d)
    BY <2>4 DEF Told, OwnValues, Echoes, KnownHeld, Range
  <2>7. QED
    BY <1>3, <2>3, <2>4, <2>5, <2>6, FinishKeeps
<1>7. CASE ~ reply_blocked(p, k, <<>>, t)
  <2>1. PICK d : d = [pc |-> "done", run |-> chat[a].run, text |-> t, rest |-> w, policy |-> p, known |-> k, start |-> clock,
                      vault |-> <<>>, seen |-> t, reply |-> t, shown |-> s]
    OBVIOUS
  <2>2. [c EXCEPT !.pc = "done"] = d
    BY <1>2, <2>1
  <2>3. PICK o : o = outcome(t, t, t, s, k)
    OBVIOUS
  <2>4. /\ chat' = [chat EXCEPT ![a] = d]
        /\ log' = log \cup {[app |-> a, run |-> chat[a].run, outcome |-> o]}
    BY <1>3, <1>7, <2>2, <2>3 DEF Finish
  <2>5. /\ d.pc = "done" /\ d.run = chat[a].run /\ Shape(d) /\ d.start = clock /\ d.known = k /\ d.vault = <<>>
        /\ d.text = t /\ d.policy = p /\ d.seen = t /\ d.reply = t /\ d.shown = s
    BY <2>1 DEF Shape
  <2>6. Started(d)
    BY <1>4, <1>5, <2>5 DEF Started
  <2>7. Range(<<>>) = {}
    BY DEF Range
  <2>8. OwnValues(d) /\ KnownHeld(d)
    BY <1>1, <2>5, <2>7, ReviewTold
  <2>9. Told(d)
    BY <2>5, <2>7, <2>8 DEF Told, Echoes
  <2>10. o \in {"passed", "protected"} /\ (o = "passed" => d.seen = d.text /\ d.shown = d.reply)
    BY <2>3, <2>5, OutcomeFacts
  <2>11. QED
    BY <1>3, <2>4, <2>5, <2>6, <2>9, <2>10, FinishKeeps
<1>8. QED
  BY <1>6, <1>7

LEMMA NextKeeps == Inv /\ [Next]_vars => Inv'
<1> SUFFICES ASSUME Inv, [Next]_vars PROVE Inv'
  OBVIOUS
<1>1. CASE \/ \E k \in Keys : IssueKey(k) \/ RevokeKey(k)
           \/ update_settings \/ Tick
           \/ \E v \in Trained : AuditFinds(v) \/ AuditForgets(v)
  BY <1>1, AdminStepKeeps
<1>2. ASSUME NEW a \in Apps, Call(a) PROVE Inv'
  BY <1>2, CallKeeps
<1>3. ASSUME NEW a \in Apps, Forward(a) PROVE Inv'
  BY <1>3, ForwardKeeps
<1>4. ASSUME NEW a \in Apps, Reply(a) \/ ProviderFails(a) PROVE Inv'
  BY <1>4, ReplyKeeps, ProviderFailsKeeps
<1>5. ASSUME NEW a \in Apps, Scan(a) PROVE Inv'
  BY <1>5, ScanKeeps
<1>6. CASE UNCHANGED vars
  <2>1. UNCHANGED <<settings, found, cache, clock, chat, log>>
    BY <1>6 DEF vars
  <2>2. Settings' /\ clock \in Nat
    BY <2>1 DEF Inv, Settings
  <2>3. QED
    BY <2>1, <2>2, AdminKeeps
<1>7. QED
  BY <1>1, <1>2, <1>3, <1>4, <1>5, <1>6 DEF Next

LEMMA Invariance == Spec => []Inv
BY InitInv, NextKeeps, PTL DEF Spec

-----------------------------------------------------------------------------
(* What follows for every behavior. *)

\* Whatever texts apps send and whoever changes the settings meanwhile, the
\* text sent to the provider would be the same for any other values of the
\* masked and redacted types, so that it tells their types and which of them
\* are equal, and nothing else (engine.py Guard.protect, Vault.placeholder,
\* routes_guard.py run_chat).
THEOREM Sealed == Spec => []MaskedUnseen
<1>1. Inv => MaskedUnseen
  <2> SUFFICES ASSUME Inv, NEW a \in Apps, chat[a].pc = "sent", NEW f \in Renamings(chat[a].policy)
               PROVE  protect(chat[a].policy, rename(f, chat[a].text)) = chat[a].seen
    BY DEF MaskedUnseen
  <2>1. PICK p, t : p = chat[a].policy /\ t = chat[a].text
    OBVIOUS
  <2>2. t \in Texts /\ chat[a].seen = protect(p, t)
    BY <2>1 DEF Inv, Chats, Sent
  <2>3. protect(p, rename(f, t)) = protect(p, t)
    BY <2>1, <2>2, ProtectRenamed
  <2>4. QED
    BY <2>1, <2>2, <2>3
<1>2. QED
  BY <1>1, Invariance, PTL

\* A user is shown the user's own values or the provider's, gets every masked
\* value back from a model that repeats it, and a request is logged as passed
\* only when nothing was changed (engine.py Vault, Guard.review;
\* routes_guard.py _outcome).
THEOREM Faithful == Spec => []RepliesFaithful
<1>1. Inv => TypeOK
  <2> SUFFICES ASSUME Inv PROVE TypeOK
    OBVIOUS
  <2>1. settings.policy \in Policies /\ \A a \in Apps : chat[a].pc \in {"idle", "called", "sent", "done"}
    BY DEF Inv, Settings, Chats
  <2>2. cache # NONE => cache.expires <= clock + TTL /\ cache.known \subseteq Values
    BY DEF Inv, Cached
  <2>3. \A e \in log : e.outcome \in {"passed", "protected", "blocked", "error"}
    BY DEF Inv, Events
  <2>4. QED
    BY <2>1, <2>2, <2>3 DEF TypeOK
<1>2. Inv => OwnValuesOnly /\ EchoRestored
  BY DEF Inv, Chats, Told, OwnValues, Echoes, OwnValuesOnly, EchoRestored, Done
<1>3. Inv => PassedUntouched
  <2> SUFFICES ASSUME Inv, NEW a \in Apps, NEW e \in log, e = [app |-> a, run |-> chat[a].run, outcome |-> "passed"]
               PROVE  chat[a].seen = chat[a].text /\ chat[a].shown = chat[a].reply
    BY DEF PassedUntouched, Done
  <2>1. e.app = a /\ e.run = chat[a].run /\ e.outcome = "passed"
    OBVIOUS
  <2>2. QED
    BY <2>1 DEF Inv, Events
<1>4. QED
  BY <1>1, <1>2, <1>3, Invariance, PTL DEF RepliesFaithful

\* A value that the audits on record confirm as memorized is held back from
\* every request that starts more than the cache's time to live after the
\* audit, however requests, audits and the cache interleave
\* (platform/guard.py MemorizedCache).
THEOREM Held == Spec => []MemorizedHeld
<1>1. Inv => MemorizedHeld
  <2> SUFFICES ASSUME Inv, NEW a \in Done, NEW x \in Range(chat[a].shown), x \in Values,
                      x \notin Range(chat[a].vault), found[x] # NONE, chat[a].policy.memorized # "allow"
               PROVE  chat[a].start <= found[x] + TTL
    BY DEF MemorizedHeld
  <2>1. KnownHeld(chat[a]) /\ Started(chat[a])
    BY DEF Inv, Chats, Told, Done
  <2>2. x \notin chat[a].known
    BY <2>1 DEF KnownHeld
  <2>3. QED
    BY <2>1, <2>2 DEF Started, Unfound
<1>2. QED
  BY <1>1, Invariance, PTL
=============================================================================
