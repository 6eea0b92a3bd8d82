--------------------------- MODULE AuditLogProofs ---------------------------
(***************************************************************************)
(* Proofs about AuditLog, for any tenants, writers, values and bounds and  *)
(* for both dialects.  The invariant: what a writer sees, the committed    *)
(* rows and its own, is one linked chain, and at most one writer of a      *)
(* tenant has rows that are not committed.                                 *)
(***************************************************************************)
EXTENDS MCAuditLog, SequenceTheorems, NaturalsInduction, WellFoundedInduction, TLAPS

\* The sequence numbers are 1..n, each once, and every event carries its own
\* digest and the hash of its predecessor.
Linked(t, R) ==
    /\ \E n \in Nat : /\ \A i \in 1..n : \E e \in R : e.seq = i
                      /\ \A e \in R : e.seq \in 1..n
    /\ \A e, f \in R : e.seq = f.seq => e = f
    /\ \A e \in R : e.hash = Digest(t, e.seq, e.body, e.prev_hash)
    /\ \A e \in R : e.seq = 1 => e.prev_hash = GENESIS
    /\ \A e, f \in R : e.seq = f.seq + 1 => e.prev_hash = f.hash
    /\ \A e \in R : e = [seq |-> e.seq, body |-> e.body, prev_hash |-> e.prev_hash, hash |-> e.hash]

\* s was read from the chain R, perhaps when R was shorter.
ReadFrom(s, R) ==
    \/ s.seq = 0 /\ s.hash = GENESIS
    \/ \E e \in R : s.seq = e.seq /\ s.hash = e.hash

\* Last finds the row with the highest sequence number.
LEMMA LastIsNewest ==
    ASSUME NEW t, NEW R, Linked(t, R), R # {}
    PROVE  \E e \in R : /\ \A f \in R : f.seq <= e.seq
                        /\ Last(R).seq = e.seq
                        /\ Last(R).hash = e.hash
<1>1. PICK n \in Nat : (\A i \in 1..n : \E e \in R : e.seq = i) /\ (\A e \in R : e.seq \in 1..n)
  BY DEF Linked
<1>2. n \in 1..n
  BY <1>1
<1>3. PICK e \in R : e.seq = n
  BY <1>1, <1>2
<1>4. \E g \in R : \A f \in R : f.seq <= g.seq
  BY <1>1, <1>3
<1> DEFINE top == CHOOSE g \in R : \A f \in R : f.seq <= g.seq
<1>5. top \in R /\ \A f \in R : f.seq <= top.seq
  BY <1>4
<1>6. Last(R) = [seq |-> top.seq, hash |-> top.hash]
  BY DEF Last
<1> HIDE DEF top
<1>7. Last(R).seq = top.seq /\ Last(R).hash = top.hash
  BY <1>6
<1>8. QED
  BY <1>5, <1>7

\* verify_chain finds nothing wrong in a linked chain.
LEMMA LinkedVerifies ==
    ASSUME NEW t, NEW R, Linked(t, R)
    PROVE  verify_chain(t, R) = {}
<1> SUFFICES ASSUME NEW e \in R
             PROVE  LET previous == Last({f \in R : f.seq < e.seq})
                    IN  /\ e.seq = previous.seq + 1
                        /\ e.prev_hash = previous.hash
                        /\ e.hash = Digest(t, e.seq, e.body, e.prev_hash)
  BY DEF verify_chain, Linked
<1> DEFINE B == {f \in R : f.seq < e.seq}
<1>1. PICK n \in Nat : (\A i \in 1..n : \E f \in R : f.seq = i) /\ (\A f \in R : f.seq \in 1..n)
  BY DEF Linked
<1>2. e.seq \in 1..n
  BY <1>1
<1>3. e.hash = Digest(t, e.seq, e.body, e.prev_hash)
  BY DEF Linked
<1>4. CASE e.seq = 1
  <2>1. B = {}
    BY <1>1, <1>4
  <2>2. Last(B) = [seq |-> 0, hash |-> GENESIS]
    BY <2>1 DEF Last, Empty
  <2>3. e.prev_hash = GENESIS
    BY <1>4 DEF Linked
  <2>4. QED
    BY <1>3, <1>4, <2>2, <2>3
<1>5. CASE e.seq # 1
  <2>1. e.seq - 1 \in 1..n
    BY <1>2, <1>5
  <2>2. PICK p \in R : p.seq = e.seq - 1
    BY <1>1, <2>1
  <2>3. p \in B
    BY <1>2, <2>2
  <2>4. \A f \in B : f.seq <= p.seq /\ f.seq \in Nat
    BY <1>1, <1>2, <2>2
  <2> DEFINE top == CHOOSE g \in B : \A f \in B : f.seq <= g.seq
  <2>5. top \in B /\ \A f \in B : f.seq <= top.seq
    BY <2>3, <2>4
  <2>6. top.seq = p.seq
    BY <2>3, <2>4, <2>5
  <2>7. Last(B) = [seq |-> top.seq, hash |-> top.hash]
    BY <2>3 DEF Last
  <2>8. e.seq = top.seq + 1
    BY <1>2, <2>2, <2>6
  <2>9. e.prev_hash = top.hash
    BY <2>5, <2>8 DEF Linked
  <2> HIDE DEF top
  <2>10. Last(B).seq = top.seq /\ Last(B).hash = top.hash
    BY <2>7
  <2>11. QED
    BY <1>3, <2>8, <2>9, <2>10
<1>6. QED
  BY <1>4, <1>5

\* What Last returns was read from the chain.
LEMMA LastIsRead ==
    ASSUME NEW t, NEW R, Linked(t, R)
    PROVE  ReadFrom(Last(R), R)
<1>1. CASE R = {}
  BY <1>1 DEF Last, Empty, ReadFrom
<1>2. CASE R # {}
  BY <1>2, LastIsNewest DEF ReadFrom
<1>3. QED
  BY <1>1, <1>2

\* An event that chains from a row read earlier, with a number that is still
\* free, continues the chain: nothing was added since that read.
LEMMA EventExtends ==
    ASSUME NEW t, NEW R, NEW s, NEW b, Linked(t, R), ReadFrom(s, R),
           \A f \in R : f.seq # s.seq + 1
    PROVE  Linked(t, R \cup {Event(t, s, b)})
<1>1. PICK n \in Nat : (\A i \in 1..n : \E f \in R : f.seq = i) /\ (\A f \in R : f.seq \in 1..n)
  BY DEF Linked
<1>2. s.seq = n
  <2>1. s.seq \in 0..n
    BY <1>1 DEF ReadFrom
  <2>2. s.seq + 1 \notin 1..n
    BY <1>1
  <2>3. QED
    BY <2>1, <2>2
<1> DEFINE e == Event(t, s, b)
<1>3. e.seq = n + 1 /\ e.prev_hash = s.hash /\ e.hash = Digest(t, e.seq, e.body, e.prev_hash)
  BY <1>2 DEF Event
<1> HIDE DEF e
<1> DEFINE S == R \cup {e}
<1>4. \E m \in Nat : (\A i \in 1..m : \E f \in S : f.seq = i) /\ (\A f \in S : f.seq \in 1..m)
  <2>1. \A i \in 1..(n + 1) : \E f \in S : f.seq = i
    <3> TAKE i \in 1..(n + 1)
    <3>1. CASE i = n + 1
      BY <1>3, <3>1
    <3>2. CASE i # n + 1
      BY <1>1, <3>2
    <3>3. QED
      BY <3>1, <3>2
  <2>2. \A f \in S : f.seq \in 1..(n + 1)
    BY <1>1, <1>3
  <2>3. QED
    BY <2>1, <2>2
<1>5. \A x, y \in S : x.seq = y.seq => x = y
  BY <1>1, <1>3 DEF Linked
<1>6. \A x \in S : x.hash = Digest(t, x.seq, x.body, x.prev_hash)
  BY <1>3 DEF Linked
<1>7. \A x \in S : x.seq = 1 => x.prev_hash = GENESIS
  <2>1. e.seq = 1 => e.prev_hash = GENESIS
    BY <1>1, <1>2, <1>3 DEF ReadFrom
  <2>2. QED
    BY <2>1 DEF Linked
<1>8. \A x, y \in S : x.seq = y.seq + 1 => x.prev_hash = y.hash
  <2> TAKE x, y \in S
  <2> HAVE x.seq = y.seq + 1
  <2>1. x.seq \in 1..(n+1) /\ y.seq \in 1..(n+1)
    BY <1>1, <1>3
  <2>2. y \in R
    BY <1>3, <2>1
  <2>3. CASE x \in R
    BY <2>2, <2>3 DEF Linked
  <2>4. CASE x = e
    <3>1. y.seq = n
      BY <1>3, <2>1, <2>4
    <3>2. s.seq # 0
      BY <1>2, <2>1, <3>1
    <3>3. PICK g \in R : s.seq = g.seq /\ s.hash = g.hash
      BY <3>2 DEF ReadFrom
    <3>4. g = y
      BY <1>2, <2>2, <3>1, <3>3 DEF Linked
    <3>5. QED
      BY <1>3, <2>4, <3>3, <3>4
  <2>5. QED
    BY <2>3, <2>4
<1>9. \A x \in S : x = [seq |-> x.seq, body |-> x.body, prev_hash |-> x.prev_hash, hash |-> x.hash]
  <2>1. e = [seq |-> e.seq, body |-> e.body, prev_hash |-> e.prev_hash, hash |-> e.hash]
    BY DEF e, Event
  <2>2. QED
    BY <2>1 DEF Linked
<1>10. QED
  BY <1>4, <1>5, <1>6, <1>7, <1>8, <1>9 DEF Linked, e

\* Its number is the highest so far.
LEMMA EventIsNewest ==
    ASSUME NEW t, NEW R, NEW s, NEW b, Linked(t, R), ReadFrom(s, R),
           \A f \in R : f.seq # s.seq + 1
    PROVE  \A f \in R : f.seq < Event(t, s, b).seq
<1>1. PICK n \in Nat : (\A i \in 1..n : \E f \in R : f.seq = i) /\ (\A f \in R : f.seq \in 1..n)
  BY DEF Linked
<1>2. s.seq \in 0..n
  BY <1>1 DEF ReadFrom
<1>3. s.seq + 1 \notin 1..n
  BY <1>1
<1>4. Event(t, s, b).seq = n + 1
  BY <1>2, <1>3 DEF Event
<1>5. QED
  BY <1>1, <1>4

-----------------------------------------------------------------------------
(* The inductive invariant. *)

Open == {"row", "chain", "select", "insert"}

\* The lock under which a writer inserts.
Holds(w) ==
    LET t == work[w].tenant IN
    IF Dialect = "postgresql" THEN chain_lock[t] = w ELSE row_lock[t] = w

\* Among a writer's rows one reports the value it writes, if it writes one.
Announces(w) ==
    IF work[w].value = Other THEN \A e \in mine[w] : e.body = Other
    ELSE \E e \in mine[w] : /\ e.body = work[w].value
                             /\ \A f \in mine[w] : f.body # Other => f = e

\* On PostgreSQL nothing was added to the chain since a writer read its end.
UpToDate(w) ==
    /\ pc[w] # "conflict"
    /\ pc[w] = "insert" => \A f \in Visible(w) : f.seq <= seen[w].seq

\* What holds of one writer.
WriterInv(w) ==
    /\ pc[w] = "idle" => mine[w] = {}
    /\ pc[w] \in Open => left[w] >= 1
    /\ pc[w] = "insert" => ReadFrom(seen[w], Visible(w))
    /\ Linked(work[w].tenant, Visible(w))
    /\ \A e \in mine[w] : e.body \in Bodies
    /\ \A e \in mine[w], f \in audit_events[work[w].tenant] : f.seq < e.seq
    /\ pc[w] = "commit" => mine[w] # {}
    /\ mine[w] # {} => Holds(w) /\ Announces(w)
    /\ Dialect = "postgresql" /\ pc[w] \in {"select", "insert", "conflict", "commit"}
         => chain_lock[work[w].tenant] = w
    /\ Dialect = "postgresql" => UpToDate(w)

Inv ==
    /\ TypeOK
    /\ \A t \in Tenants : Linked(t, audit_events[t])
    /\ \A w \in Writers : WriterInv(w)
    /\ LogMatchesData

\* The locks exclude each other: only one writer of a tenant has rows that
\* are not committed.
LEMMA OneInserter ==
    ASSUME Inv, NEW w \in Writers, NEW x \in Writers, w # x,
           work[w].tenant = work[x].tenant, mine[w] # {}
    PROVE  mine[x] = {}
BY DEF Inv, WriterInv, Holds

\* A chain without events is linked.
LEMMA EmptyLinked ==
    ASSUME NEW t
    PROVE  Linked(t, {})
<1>1. 0 \in Nat /\ 1..0 = {}
  OBVIOUS
<1>2. QED
  BY <1>1 DEF Linked

\* An idle writer has a well-typed piece of work (some tenant exists).
LEMMA NoWorkTyped == NoWork \in Work
BY TenantsAssumption, DialectAssumption DEF NoWork, Work, Doors, Bodies

\* Empty tables and idle writers satisfy the invariant.
LEMMA InitInv == Init => Inv
<1> SUFFICES ASSUME Init PROVE Inv
  OBVIOUS
<1> USE DEF Init
<1>1. TypeOK
  BY NoWorkTyped, ValuesAssumption, BoundsAssumption DEF TypeOK, PCs, Bodies
<1>2. \A t \in Tenants : Linked(t, audit_events[t])
  BY EmptyLinked
<1>3. ASSUME NEW w \in Writers PROVE WriterInv(w)
  <2>1. Visible(w) = {} /\ mine[w] = {}
    BY NoWorkTyped DEF Visible, Work
  <2>2. QED
    BY <2>1, EmptyLinked DEF WriterInv, Open, UpToDate
<1>4. LogMatchesData
  BY DEF LogMatchesData, Reported
<1>5. QED
  BY <1>1, <1>2, <1>3, <1>4 DEF Inv

\* Log and data stay together while neither changes.
LEMMA LogStays ==
    ASSUME Inv, UNCHANGED committed
    PROVE  LogMatchesData'
BY DEF Inv, LogMatchesData, Reported, committed

\* A writer that a step leaves alone keeps its invariant if the tables it sees
\* and the locks it holds stay.
LEMMA OthersKeep ==
    ASSUME Inv, NEW x \in Writers,
           pc'[x] = pc[x], work'[x] = work[x], left'[x] = left[x], seen'[x] = seen[x],
           mine'[x] = mine[x], audit_events' = audit_events,
           chain_lock[work[x].tenant] = x => chain_lock'[work[x].tenant] = x,
           row_lock[work[x].tenant] = x => row_lock'[work[x].tenant] = x
    PROVE  WriterInv(x)'
<1>1. Visible(x)' = Visible(x)
  BY DEF Visible
<1>2. QED
  BY <1>1 DEF Inv, WriterInv, Holds, Open, Announces, UpToDate

\* Opening a transaction touches nothing that others rely on.
LEMMA BeginKeeps ==
    ASSUME Inv, NEW w \in Writers, Begin(w)
    PROVE  Inv'
<1> USE DEF Begin, committed, locks
<1>1. PICK k \in Work, n \in 1..MaxEvents :
        /\ work' = [work EXCEPT ![w] = k]
        /\ left' = [left EXCEPT ![w] = n]
        /\ pc' = [pc EXCEPT ![w] = IF k.door = "go" THEN "row" ELSE "chain"]
  OBVIOUS
<1>2. TypeOK'
  BY <1>1, BoundsAssumption DEF Inv, TypeOK, PCs
<1>3. ASSUME NEW x \in Writers PROVE WriterInv(x)'
  <2>1. CASE x # w
    BY <1>1, <2>1, OthersKeep DEF Inv, TypeOK
  <2>2. CASE x = w
    <3>1. mine[w] = {} /\ mine'[w] = {}
      BY DEF Inv, WriterInv
    <3>2. work'[w] = k /\ k.tenant \in Tenants /\ Visible(w)' = audit_events[k.tenant]
      BY <1>1, <3>1 DEF Visible, Inv, TypeOK, Work
    <3>3. Linked(k.tenant, Visible(w)')
      BY <3>2 DEF Inv
    <3>4. pc'[w] \in {"row", "chain"} /\ left'[w] >= 1
      BY <1>1 DEF Inv, TypeOK
    <3>5. QED
      BY <2>2, <3>1, <3>2, <3>3, <3>4 DEF WriterInv, UpToDate
  <2>3. QED
    BY <2>1, <2>2
<1>4. QED
  BY <1>2, <1>3, LogStays DEF Inv

\* GetVersion's row lock: the control plane now holds the row.
LEMMA LockRowKeeps ==
    ASSUME Inv, NEW w \in Writers, LockRow(w)
    PROVE  Inv'
<1> USE DEF LockRow, committed
<1>1. TypeOK'
  BY DEF Inv, TypeOK, PCs, Work
<1>2. ASSUME NEW x \in Writers PROVE WriterInv(x)'
  <2>1. CASE x # w
    BY <2>1, OthersKeep, NoneAssumption DEF Inv, TypeOK, Work
  <2>2. CASE x = w
    <3>1. Visible(w)' = Visible(w)
      BY DEF Visible
    <3>2. row_lock'[work[w].tenant] = w /\ pc'[w] = "chain"
      BY DEF Inv, TypeOK, Work
    <3>3. QED
      BY <2>2, <3>1, <3>2 DEF Inv, WriterInv, Holds, Open, Announces, UpToDate
  <2>3. QED
    BY <2>1, <2>2
<1>3. QED
  BY <1>1, <1>2, LogStays DEF Inv

\* record() takes the chain lock, on PostgreSQL only.
LEMMA LockChainKeeps ==
    ASSUME Inv, NEW w \in Writers, LockChain(w)
    PROVE  Inv'
<1> USE DEF LockChain, committed
<1>1. TypeOK'
  BY DEF Inv, TypeOK, PCs, Work
<1>2. ASSUME NEW x \in Writers PROVE WriterInv(x)'
  <2>1. CASE x # w
    BY <2>1, OthersKeep, NoneAssumption DEF Inv, TypeOK, Work
  <2>2. CASE x = w
    <3>1. Visible(w)' = Visible(w)
      BY DEF Visible
    <3>2. pc'[w] = "select" /\ (Dialect = "postgresql" => chain_lock'[work[w].tenant] = w)
      BY DEF Inv, TypeOK, Work
    <3>3. QED
      BY <2>2, <3>1, <3>2 DEF Inv, WriterInv, Holds, Open, Announces, UpToDate
  <2>3. QED
    BY <2>1, <2>2
<1>3. QED
  BY <1>1, <1>2, LogStays DEF Inv

\* The newest event is read: under the chain lock it stays the newest.
LEMMA SelectLastKeeps ==
    ASSUME Inv, NEW w \in Writers, SelectLast(w)
    PROVE  Inv'
<1> USE DEF SelectLast, committed
<1>1. TypeOK'
  BY DEF Inv, TypeOK, PCs, Work
<1>2. ASSUME NEW x \in Writers PROVE WriterInv(x)'
  <2>1. CASE x # w
    BY <2>1, OthersKeep, NoneAssumption, DialectAssumption DEF Inv, TypeOK, Work, CanWrite
  <2>2. CASE x = w
    <3>1. Visible(w)' = Visible(w)
      BY DEF Visible
    <3>2. ReadFrom(Last(Visible(w)), Visible(w))
      BY LastIsRead DEF Inv, WriterInv
    <3>3. pc'[w] = "insert" /\ seen'[w] = Last(Visible(w))
      BY DEF Inv, TypeOK
    <3>4. row_lock[work[w].tenant] = w => row_lock'[work[w].tenant] = w
      BY DEF Inv, TypeOK, Work
    <3>5. \A f \in Visible(w) : f.seq <= Last(Visible(w)).seq
      BY LastIsNewest DEF Inv, WriterInv
    <3>6. QED
      BY <2>2, <3>1, <3>2, <3>3, <3>4, <3>5 DEF Inv, WriterInv, Holds, Open, Announces, UpToDate
  <2>3. QED
    BY <2>1, <2>2
<1>3. QED
  BY <1>1, <1>2, LogStays DEF Inv

\* The new event continues what the writer sees, or the insert is refused.
LEMMA InsertKeeps ==
    ASSUME Inv, NEW w \in Writers, InsertEvent(w)
    PROVE  Inv'
<1> DEFINE t == work[w].tenant
           e == Event(t, seen[w], NextBody(w))
<1>1. pc[w] = "insert" /\ audit_events' = audit_events /\ data' = data /\ work' = work
      /\ seen' = seen /\ chain_lock' = chain_lock
  BY DEF InsertEvent, committed
<1>2. t \in Tenants /\ NextBody(w) \in Bodies /\ left[w] \in 1..MaxEvents
  BY <1>1 DEF Inv, TypeOK, Work, NextBody, Bodies, WriterInv, Open
<1>3. e.seq = seen[w].seq + 1 /\ e.body = NextBody(w)
  BY DEF Event
<1>4. /\ \A u \in Tenants : row_lock'[u] = row_lock[u] \/ (row_lock[u] \in {NONE, w} /\ row_lock'[u] = w)
      /\ Dialect # "postgresql" => row_lock'[t] = w
      /\ row_lock' \in [Tenants -> Writers \cup {NONE}]
  BY <1>2, DialectAssumption DEF InsertEvent, CanWrite, Inv, TypeOK
<1>5. CASE Taken(w, e.seq)
  <2>0. Dialect # "postgresql"
    <3>1. PICK f \in Visible(w) : f.seq = seen[w].seq + 1
      BY <1>3, <1>5 DEF Taken
    <3>2. seen[w].seq \in Nat
      BY <1>1 DEF Inv, WriterInv, ReadFrom, Linked
    <3>3. Dialect = "postgresql" => f.seq <= seen[w].seq
      BY <1>1 DEF Inv, WriterInv, UpToDate
    <3>4. QED
      BY <3>1, <3>2, <3>3
  <2>1. pc' = [pc EXCEPT ![w] = "conflict"] /\ left' = left /\ mine' = mine
    BY <1>5 DEF InsertEvent
  <2>2. TypeOK'
    BY <1>1, <1>4, <2>1 DEF Inv, TypeOK, PCs
  <2>3. ASSUME NEW x \in Writers PROVE WriterInv(x)'
    <3>1. CASE x # w
      BY <1>1, <1>4, <2>1, <3>1, OthersKeep, NoneAssumption DEF Inv, TypeOK, Work
    <3>2. CASE x = w
      <4>1. Visible(w)' = Visible(w) /\ pc'[w] = "conflict"
        BY <1>1, <2>1 DEF Visible, Inv, TypeOK
      <4>2. QED
        BY <1>1, <1>4, <2>0, <2>1, <3>2, <4>1 DEF Inv, WriterInv, Holds, Open, Announces
    <3>3. QED
      BY <3>1, <3>2
  <2>4. QED
    BY <1>1, <2>2, <2>3, LogStays DEF Inv, committed
<1>6. CASE ~ Taken(w, e.seq)
  <2>1. /\ mine' = [mine EXCEPT ![w] = @ \cup {e}]
        /\ left' = [left EXCEPT ![w] = @ - 1]
        /\ pc' = [pc EXCEPT ![w] = IF left[w] = 1 THEN "commit" ELSE "chain"]
    BY <1>6 DEF InsertEvent
  <2>2. TypeOK'
    BY <1>1, <1>2, <1>4, <2>1, BoundsAssumption DEF Inv, TypeOK, PCs
  <2>3. ASSUME NEW x \in Writers PROVE WriterInv(x)'
    <3>1. CASE x # w
      BY <1>1, <1>4, <2>1, <3>1, OthersKeep, NoneAssumption DEF Inv, TypeOK, Work
    <3>2. CASE x = w
      <4>1. mine'[w] = mine[w] \cup {e} /\ Visible(w)' = Visible(w) \cup {e}
        BY <1>1, <2>1 DEF Visible, Inv, TypeOK
      <4>2. Linked(t, Visible(w) \cup {e})
        BY <1>1, <1>3, <1>6, EventExtends DEF Inv, WriterInv, Taken
      <4>3. \A f \in mine'[w] : f.body \in Bodies
        BY <1>2, <1>3, <4>1 DEF Inv, WriterInv
      <4>4. pc'[w] \in {"commit", "chain"} /\ (pc'[w] = "chain" => left'[w] >= 1)
        BY <1>2, <2>1 DEF Inv, TypeOK
      <4>5. Holds(w)'
        BY <1>1, <1>4 DEF Inv, WriterInv, Holds
      <4>6. \A f \in Visible(w) : f.seq < e.seq
        BY <1>1, <1>3, <1>6, EventIsNewest DEF Inv, WriterInv, Taken
      <4>7. \A g \in mine'[w], f \in audit_events[t] : f.seq < g.seq
        BY <4>1, <4>6 DEF Inv, WriterInv, Visible
      <4>8. Announces(w)'
        <5>1. CASE mine[w] = {}
          <6>1. mine'[w] = {e} /\ e.body = work[w].value
            BY <1>3, <4>1, <5>1 DEF NextBody
          <6>2. QED
            BY <1>1, <6>1 DEF Announces
        <5>2. CASE mine[w] # {}
          <6>1. e.body = Other /\ Announces(w)
            BY <1>3, <5>2 DEF NextBody, Inv, WriterInv
          <6>2. QED
            BY <1>1, <4>1, <6>1 DEF Announces
        <5>3. QED
          BY <5>1, <5>2
      <4>9. UpToDate(w)'
        BY <4>4 DEF UpToDate
      <4>10. mine'[w] # {}
        BY <4>1
      <4>11. QED
        BY <1>1, <3>2, <4>1, <4>2, <4>3, <4>4, <4>5, <4>7, <4>8, <4>9, <4>10
        DEF Inv, WriterInv, Open
    <3>3. QED
      BY <3>1, <3>2
  <2>4. QED
    BY <1>1, <2>2, <2>3, LogStays DEF Inv, committed
<1>7. QED
  BY <1>5, <1>6

\* The end of a transaction, for the writer itself: nothing is left.
LEMMA EndedKeeps ==
    ASSUME Inv, NEW w \in Writers, End(w), \A t \in Tenants : Linked(t, audit_events'[t])
    PROVE  WriterInv(w)'
<1>1. pc'[w] = "idle" /\ mine'[w] = {} /\ work'[w] = NoWork
  BY DEF End, Inv, TypeOK
<1>2. NoWork.tenant \in Tenants
  BY NoWorkTyped DEF Work
<1>3. Visible(w)' = audit_events'[NoWork.tenant]
  BY <1>1 DEF Visible
<1>4. Linked(work'[w].tenant, Visible(w)')
  BY <1>1, <1>2, <1>3
<1>5. QED
  BY <1>1, <1>4 DEF WriterInv, Open, UpToDate

\* The types of everything but the committed tables.
LEMMA EndTyped ==
    ASSUME Inv, NEW w \in Writers, End(w)
    PROVE  /\ pc' \in [Writers -> PCs] /\ work' \in [Writers -> Work]
           /\ left' \in [Writers -> 0..MaxEvents]
           /\ chain_lock' \in [Tenants -> Writers \cup {NONE}]
           /\ row_lock' \in [Tenants -> Writers \cup {NONE}]
           /\ DOMAIN mine' = Writers /\ DOMAIN seen' = Writers
BY NoWorkTyped, BoundsAssumption DEF End, Inv, TypeOK, PCs

\* A transaction that is rolled back leaves no trace.
LEMMA RollbackKeeps ==
    ASSUME Inv, NEW w \in Writers, Rollback(w)
    PROVE  Inv'
<1> USE DEF Rollback, committed
<1>1. TypeOK'
  BY EndTyped DEF Inv, TypeOK
<1>2. \A t \in Tenants : Linked(t, audit_events'[t])
  BY DEF Inv
<1>3. ASSUME NEW x \in Writers PROVE WriterInv(x)'
  <2>1. CASE x # w
    BY <2>1, OthersKeep DEF End, Inv, TypeOK, Work
  <2>2. CASE x = w
    BY <1>2, <2>2, EndedKeeps
  <2>3. QED
    BY <2>1, <2>2
<1>4. QED
  BY <1>1, <1>2, <1>3, LogStays DEF Inv

\* A commit appends the writer's rows to the chain and the value they report.
LEMMA CommitKeeps ==
    ASSUME Inv, NEW w \in Writers, Commit(w)
    PROVE  Inv'
<1> DEFINE t == work[w].tenant
<1>1. /\ pc[w] = "commit" /\ End(w)
      /\ audit_events' = [audit_events EXCEPT ![t] = @ \cup mine[w]]
      /\ data' = IF work[w].value = Other THEN data ELSE [data EXCEPT ![t] = work[w].value]
  BY DEF Commit
<1>2. t \in Tenants /\ work[w].value \in Bodies /\ mine[w] # {} /\ Announces(w) /\ Holds(w)
  BY <1>1 DEF Inv, TypeOK, Work, WriterInv
<1>3. audit_events'[t] = Visible(w) /\ \A u \in Tenants : u # t => audit_events'[u] = audit_events[u]
  BY <1>1, <1>2 DEF Inv, TypeOK, Visible
<1>4. \A u \in Tenants : Linked(u, audit_events'[u])
  BY <1>3 DEF Inv, WriterInv
<1>5. TypeOK'
  <2>1. data' \in [Tenants -> Values] /\ DOMAIN audit_events' = Tenants
    BY <1>1, <1>2 DEF Inv, TypeOK, Bodies
  <2>2. \A u \in Tenants : \A e \in audit_events'[u] : e.seq \in Nat \ {0} /\ e.body \in Bodies
    <3> TAKE u \in Tenants
    <3> TAKE e \in audit_events'[u]
    <3>1. e.seq \in Nat \ {0}
      BY <1>4 DEF Linked
    <3>2. e.body \in Bodies
      BY <1>3 DEF Inv, TypeOK, WriterInv, Visible
    <3>3. QED
      BY <3>1, <3>2
  <2>3. QED
    BY <1>1, <2>1, <2>2, EndTyped DEF TypeOK
<1>6. ASSUME NEW x \in Writers PROVE WriterInv(x)'
  <2>1. CASE x = w
    BY <1>1, <1>4, <2>1, EndedKeeps
  <2>2. CASE x # w
    <3>1. /\ pc'[x] = pc[x] /\ work'[x] = work[x] /\ left'[x] = left[x] /\ seen'[x] = seen[x]
          /\ mine'[x] = mine[x] /\ work[x].tenant \in Tenants
          /\ chain_lock[work[x].tenant] = x => chain_lock'[work[x].tenant] = x
          /\ row_lock[work[x].tenant] = x => row_lock'[work[x].tenant] = x
      BY <1>1, <2>2 DEF End, Inv, TypeOK, Work
    <3>2. CASE work[x].tenant # t
      <4>1. Visible(x)' = Visible(x) /\ audit_events'[work[x].tenant] = audit_events[work[x].tenant]
        BY <1>3, <3>1, <3>2 DEF Visible
      <4>2. QED
        BY <3>1, <4>1 DEF Inv, WriterInv, Holds, Open, Announces, UpToDate
    <3>3. CASE work[x].tenant = t
      <4>1. mine[x] = {}
        BY <1>2, <2>2, <3>3, OneInserter
      <4>2. Visible(x)' = Visible(w) /\ Visible(x) \subseteq Visible(w)
        BY <1>3, <3>1, <3>3, <4>1 DEF Visible
      <4>3. Linked(work[x].tenant, Visible(x)')
        BY <3>3, <4>2 DEF Inv, WriterInv
      <4>4. ReadFrom(seen[x], Visible(x)) => ReadFrom(seen[x], Visible(x)')
        BY <4>2 DEF ReadFrom
      <4>5. Dialect = "postgresql" => UpToDate(x)'
        BY <1>1, <2>2, <3>1, <3>3 DEF Inv, WriterInv, UpToDate
      <4>6. QED
        BY <3>1, <4>1, <4>3, <4>4, <4>5 DEF Inv, WriterInv, Open
    <3>4. QED
      BY <3>2, <3>3
  <2>3. QED
    BY <2>1, <2>2
<1>7. LogMatchesData'
  <2> SUFFICES ASSUME NEW u \in Tenants PROVE data'[u] = Reported(u)'
    BY DEF LogMatchesData
  <2>1. CASE u # t
    BY <1>1, <1>3, <2>1 DEF Inv, TypeOK, LogMatchesData, Reported
  <2>2. CASE u = t /\ work[w].value = Other
    <3> DEFINE A == {e \in audit_events[u] : e.body # Other}
               B == {e \in audit_events'[u] : e.body # Other}
               body(S) == IF S = {} THEN InitValue
                          ELSE (CHOOSE e \in S : \A f \in S : f.seq <= e.seq).body
    <3>1. A = B
      BY <1>2, <1>3, <2>2 DEF Visible, Announces
    <3>2. Reported(u) = body(A) /\ Reported(u)' = body(B)
      BY DEF Reported
    <3>3. Reported(u)' = Reported(u)
      <4> HIDE DEF A, B, body
      <4>1. QED
        BY <3>1, <3>2
    <3>4. QED
      BY <1>1, <1>2, <2>2, <3>3 DEF Inv, LogMatchesData
  <2>3. CASE u = t /\ work[w].value # Other
    <3>1. PICK e \in mine[w] : e.body = work[w].value /\ \A f \in mine[w] : f.body # Other => f = e
      BY <1>2, <2>3 DEF Announces
    <3> DEFINE about == {f \in audit_events'[u] : f.body # Other}
               top == CHOOSE g \in about : \A f \in about : f.seq <= g.seq
    <3>2. e \in about
      BY <1>3, <2>3, <3>1 DEF Visible
    <3>3. \A f \in about : f = e \/ f.seq < e.seq
      BY <1>3, <2>3, <3>1 DEF Visible, Inv, WriterInv
    <3>4. \A f \in about : f.seq \in Nat
      BY <1>2, <2>3, <1>5 DEF TypeOK
    <3>5. \A f \in about : f.seq <= e.seq
      BY <3>2, <3>3, <3>4
    <3>6. top \in about /\ e.seq <= top.seq
      BY <3>2, <3>5
    <3>7. top = e
      BY <3>2, <3>3, <3>4, <3>6
    <3>8. Reported(u)' = top.body
      BY <3>2 DEF Reported
    <3>9. data'[u] = work[w].value
      BY <1>1, <1>2, <2>3 DEF Inv, TypeOK
    <3>10. QED
      BY <2>3, <3>1, <3>7, <3>8, <3>9
  <2>4. QED
    BY <2>1, <2>2, <2>3
<1>8. QED
  BY <1>4, <1>5, <1>6, <1>7 DEF Inv

\* A step that changes nothing keeps the invariant.
LEMMA StutterKeeps ==
    ASSUME Inv, UNCHANGED vars
    PROVE  Inv'
<1> USE DEF vars
<1>1. TypeOK'
  BY DEF Inv, TypeOK
<1>2. ASSUME NEW x \in Writers PROVE WriterInv(x)'
  BY OthersKeep
<1>3. QED
  BY <1>1, <1>2, LogStays DEF Inv, committed

\* Every step keeps the invariant.
LEMMA NextKeeps ==
    ASSUME Inv, [Next]_vars
    PROVE  Inv'
<1>1. ASSUME NEW w \in Writers, Begin(w) \/ Step(w) \/ Abort(w) PROVE Inv'
  <2>1. CASE Begin(w)
    BY <2>1, BeginKeeps
  <2>2. CASE LockRow(w)
    BY <2>2, LockRowKeeps
  <2>3. CASE LockChain(w)
    BY <2>3, LockChainKeeps
  <2>4. CASE SelectLast(w)
    BY <2>4, SelectLastKeeps
  <2>5. CASE InsertEvent(w)
    BY <2>5, InsertKeeps
  <2>6. CASE Commit(w)
    BY <2>6, CommitKeeps
  <2>7. CASE DeadlockVictim(w) \/ Abort(w)
    BY <2>7, RollbackKeeps DEF DeadlockVictim, Abort
  <2>8. QED
    BY <1>1, <2>1, <2>2, <2>3, <2>4, <2>5, <2>6, <2>7 DEF Step
<1>2. CASE UNCHANGED vars
  BY <1>2, StutterKeeps
<1>3. QED
  BY <1>1, <1>2 DEF Next

\* The invariant holds throughout: at the start, and after every step.
THEOREM Invariance == Spec => []Inv
<1>1. Inv /\ [Next]_vars => Inv'
  BY NextKeeps
<1>2. QED
  BY InitInv, <1>1, PTL DEF Spec

\* record() and the tables keep their types.
THEOREM TypeCorrect == Spec => []TypeOK
<1>1. Inv => TypeOK
  BY DEF Inv
<1>2. QED
  BY <1>1, Invariance, PTL

\* verify_chain never finds a problem in what record() and Record wrote, on
\* PostgreSQL and on SQLite, with any number of concurrent writers.
THEOREM ChainIntegrity == Spec => []ChainsIntact
<1>1. Inv => ChainsIntact
  BY LinkedVerifies DEF Inv, ChainsIntact
<1>2. QED
  BY <1>1, Invariance, PTL

\* On PostgreSQL the chain lock alone keeps writers off the unique constraint.
THEOREM NeverConflicts == Spec => []NoForkOnPostgres
<1>1. Inv => NoForkOnPostgres
  BY DEF Inv, WriterInv, UpToDate, NoForkOnPostgres
<1>2. QED
  BY <1>1, Invariance, PTL

\* An installation chooses its database once.  One on PostgreSQL never leaves
\* the behaviours of AuditLog with that dialect, so that no writer ever meets
\* the unique constraint there, whatever SQLite does elsewhere.
THEOREM Unforked == MCSpec => []NoFork
<1> DEFINE I == Postgres => Inv
<1>1. MCInit => I
  BY InitInv DEF MCInit
<1>2. I /\ [MCNext]_<<vars, dialect>> => I'
  <2> SUFFICES ASSUME I, [MCNext]_<<vars, dialect>>, Postgres' PROVE Inv'
    OBVIOUS
  <2>1. dialect' = dialect
    BY DEF MCNext
  <2>2. Postgres
    BY <2>1 DEF Postgres
  <2>3. [Next]_vars
    BY <2>2 DEF MCNext
  <2>4. QED
    BY <2>2, <2>3, NextKeeps
<1>3. I => NoFork
  BY DEF Inv, WriterInv, UpToDate, NoForkOnPostgres, NoFork
<1>4. QED
  BY <1>1, <1>2, <1>3, PTL DEF MCSpec

\* The log and the data cannot disagree, whatever the order of the locks.
THEOREM LogAgrees == Spec => []LogMatchesData
<1>1. Inv => LogMatchesData
  BY DEF Inv
<1>2. QED
  BY <1>1, Invariance, PTL
-----------------------------------------------------------------------------
(* Changed rows. *)

\* A set of natural numbers has a least element.
LEMMA Least ==
    ASSUME NEW T, T \subseteq Nat, T # {}
    PROVE  \E i \in T : \A j \in T : i <= j
<1>1. PICK i \in T : \A j \in T : ~ (<<j, i>> \in OpToRel(<, Nat))
  BY WFMin, NatLessThanWellFounded
<1>2. \A j \in T : ~ (j < i)
  BY <1>1 DEF OpToRel
<1>3. QED
  BY <1>2

\* Rows as the table can hold them, numbered up to m.
Row(e) == /\ e = [seq |-> e.seq, body |-> e.body, prev_hash |-> e.prev_hash, hash |-> e.hash]
          /\ e.seq \in Nat \ {0}
Table(S, m) == m \in Nat /\ \A e \in S : Row(e) /\ e.seq <= m

\* Last finds the row with the highest number, whatever rows there are.
LEMMA TableTop ==
    ASSUME NEW S, NEW m, Table(S, m), S # {}
    PROVE  \E e \in S : (\A f \in S : f.seq <= e.seq) /\ Last(S).seq = e.seq /\ Last(S).hash = e.hash
<1>1. m \in Nat /\ \A e \in S : e.seq \in Nat /\ e.seq <= m
  BY DEF Table, Row
<1> DEFINE T == {m - e.seq : e \in S}
<1>2. T \subseteq Nat /\ T # {}
  BY <1>1
<1>3. PICK i \in T : \A j \in T : i <= j
  <2> HIDE DEF T
  <2>1. QED
    BY <1>2, Least
<1>4. PICK g \in S : i = m - g.seq
  BY <1>3
<1>5. \A f \in S : f.seq <= g.seq
  <2>1. TAKE f \in S
  <2>2. m - g.seq <= m - f.seq
    BY <1>3, <1>4
  <2>3. QED
    BY <1>1, <2>2
<1> DEFINE top == CHOOSE h \in S : \A f \in S : f.seq <= h.seq
<1>6. top \in S /\ \A f \in S : f.seq <= top.seq
  BY <1>5
<1>7. Last(S) = [seq |-> top.seq, hash |-> top.hash]
  BY DEF Last
<1> HIDE DEF top
<1>8. Last(S).seq = top.seq /\ Last(S).hash = top.hash
  BY <1>7
<1>9. QED
  BY <1>6, <1>8

\* What verify_chain has seen to in a chain it accepts.
LEMMA Accepted ==
    ASSUME NEW t, NEW S, verify_chain(t, S) = {}, NEW e \in S
    PROVE  LET previous == Last({f \in S : f.seq < e.seq})
           IN  /\ e.seq = previous.seq + 1
               /\ \A f \in S : f.seq = e.seq => f = e
               /\ e.prev_hash = previous.hash
               /\ e.hash = Digest(t, e.seq, e.body, e.prev_hash)
<1>1. e \notin verify_chain(t, S)
  OBVIOUS
<1>2. QED
  BY <1>1 DEF verify_chain

\* A digest tells the number, the body and the previous hash.
LEMMA DigestTells ==
    ASSUME NEW t, NEW a, NEW b, NEW c, NEW x, NEW y, NEW z, Digest(t, a, b, c) = Digest(t, x, y, z)
    PROVE  a = x /\ b = y /\ c = z
  BY DEF Digest

\* Rows of the same hash are the same row.
LEMMA SameHash ==
    ASSUME NEW t, NEW e, NEW f, Row(e), Row(f), e.hash = f.hash,
           e.hash = Digest(t, e.seq, e.body, e.prev_hash), f.hash = Digest(t, f.seq, f.body, f.prev_hash)
    PROVE  e = f
<1>1. Digest(t, e.seq, e.body, e.prev_hash) = Digest(t, f.seq, f.body, f.prev_hash)
  OBVIOUS
<1>2. e.seq = f.seq /\ e.body = f.body /\ e.prev_hash = f.prev_hash
  BY <1>1, DigestTells
<1>3. QED
  BY <1>2 DEF Row

\* A linked chain is a table.
LEMMA LinkedRows ==
    ASSUME NEW t, NEW R, Linked(t, R)
    PROVE  \E m \in Nat : Table(R, m) /\ m = Last(R).seq
<1>1. PICK n \in Nat : (\A i \in 1..n : \E e \in R : e.seq = i) /\ (\A e \in R : e.seq \in 1..n)
  BY DEF Linked
<1>2. Table(R, n)
  BY <1>1 DEF Table, Row, Linked
<1>3. n = Last(R).seq
  <2>1. CASE R = {}
    <3>1. Last(R).seq = 0
      BY <2>1 DEF Last, Empty
    <3>2. QED
      BY <1>1, <2>1, <3>1
  <2>2. CASE R # {}
    <3>1. PICK e \in R : (\A f \in R : f.seq <= e.seq) /\ Last(R).seq = e.seq
      BY <2>2, LastIsNewest
    <3>2. n \in 1..n
      BY <1>1, <2>2
    <3>3. PICK f \in R : f.seq = n
      BY <1>1, <3>2
    <3>4. QED
      BY <1>1, <3>1, <3>3
  <2>3. QED
    BY <2>1, <2>2
<1>4. QED
  BY <1>2, <1>3

\* Going back from an event they share, an accepted chain and a recorded one
\* have the same events: each names the one before it by its hash.
LEMMA SamePast ==
    ASSUME NEW t, NEW R, NEW S, NEW m, Linked(t, R), Table(S, m), verify_chain(t, S) = {},
           NEW e \in R, e \in S
    PROVE  UpTo(S, e.seq) = UpTo(R, e.seq)
<1>1. PICK n \in Nat : (\A i \in 1..n : \E r \in R : r.seq = i) /\ (\A r \in R : r.seq \in 1..n)
  BY DEF Linked
<1>2. \A r \in R : Row(r) /\ r.hash = Digest(t, r.seq, r.body, r.prev_hash)
  BY <1>1 DEF Linked, Row
<1>3. \A r \in S : Row(r) /\ r.seq <= m
  BY DEF Table
<1>4. m \in Nat /\ e.seq \in Nat
  BY <1>1 DEF Table
<1> DEFINE Shared(i) == \E r \in R : r \in S /\ r.seq = i
           Missing == {d \in Nat : d < e.seq /\ ~ Shared(e.seq - d)}
<1>5. Missing = {}
  <2> SUFFICES ASSUME Missing # {} PROVE FALSE
    OBVIOUS
  <2>1. PICK d \in Missing : \A j \in Missing : d <= j
    <3>1. Missing \subseteq Nat
      OBVIOUS
    <3> HIDE DEF Missing
    <3>2. QED
      BY <3>1, Least
  <2>2. d \in Nat /\ d < e.seq /\ ~ Shared(e.seq - d)
    BY <2>1
  <2>3. d # 0
    <3>1. Shared(e.seq)
      OBVIOUS
    <3>2. QED
      BY <1>4, <2>2, <3>1
  <2>4. PICK k \in Nat : k = e.seq - d /\ k # 0
    BY <1>4, <2>2
  <2>5. Shared(k + 1)
    <3>1. d - 1 \in Nat /\ d - 1 < e.seq /\ d - 1 \notin Missing
      <4>1. d - 1 \in Nat /\ ~ (d <= d - 1)
        BY <2>2, <2>3
      <4>2. QED
        BY <1>4, <2>1, <2>2, <4>1
    <3>2. Shared(e.seq - (d - 1))
      BY <3>1
    <3>3. e.seq - (d - 1) = k + 1
      BY <1>4, <2>2, <2>4
    <3>4. QED
      BY <3>2, <3>3
  <2>6. PICK g \in R : g \in S /\ g.seq = k + 1
    BY <2>5
  <2>7. k \in 1..n
    BY <1>1, <2>4, <2>6
  <2>8. PICK r \in R : r.seq = k
    BY <1>1, <2>7
  <2>9. g.prev_hash = r.hash
    BY <2>6, <2>8 DEF Linked
  <2> DEFINE B == {f \in S : f.seq < g.seq}
  <2>10. g.seq = Last(B).seq + 1 /\ g.prev_hash = Last(B).hash
    BY <2>6, Accepted
  <2>11. B # {}
    <3>1. Last({}).seq = 0
      BY DEF Last, Empty
    <3>2. ASSUME B = {} PROVE FALSE
      <4>1. g.seq = 0 + 1
        BY <2>10, <3>1, <3>2
      <4>2. QED
        BY <2>4, <2>6, <4>1
    <3>3. QED
      BY <3>2
  <2>12. Table(B, m)
    BY DEF Table
  <2>13. PICK p \in B : Last(B).seq = p.seq /\ Last(B).hash = p.hash
    <3> HIDE DEF B
    <3>1. QED
      BY <2>11, <2>12, TableTop
  <2>14. p \in S /\ p.hash = r.hash /\ p.hash = Digest(t, p.seq, p.body, p.prev_hash)
    <3>1. p \in S
      OBVIOUS
    <3>2. p.hash = Digest(t, p.seq, p.body, p.prev_hash)
      BY <3>1, Accepted
    <3>3. QED
      BY <2>9, <2>10, <2>13, <3>1, <3>2
  <2>15. p = r
    BY <1>2, <1>3, <2>14, SameHash
  <2>16. QED
    BY <2>2, <2>4, <2>8, <2>14, <2>15
<1>6. ASSUME NEW i \in 1..e.seq PROVE Shared(i)
  <2>1. e.seq - i \in Nat /\ e.seq - i < e.seq /\ e.seq - (e.seq - i) = i
    BY <1>4
  <2>2. Shared(e.seq - (e.seq - i))
    BY <1>5, <2>1
  <2>3. QED
    BY <2>1, <2>2
<1>7. ASSUME NEW f \in S, f.seq <= e.seq PROVE f \in R
  <2>1. f.seq \in 1..e.seq
    BY <1>3, <1>4, <1>7 DEF Row
  <2>2. PICK r \in R : r \in S /\ r.seq = f.seq
    BY <1>6, <2>1
  <2>3. r = f
    BY <2>2, Accepted
  <2>4. QED
    BY <2>3
<1>8. ASSUME NEW f \in R, f.seq <= e.seq PROVE f \in S
  <2>1. f.seq \in 1..e.seq
    BY <1>1, <1>4, <1>8
  <2>2. PICK r \in R : r \in S /\ r.seq = f.seq
    BY <1>6, <2>1
  <2>3. r = f
    BY <2>2 DEF Linked
  <2>4. QED
    BY <2>2, <2>3
<1>9. QED
  BY <1>7, <1>8 DEF UpTo

\* Recording gives rows.
LEMMA EventRow ==
    ASSUME NEW t, NEW S, NEW m, Table(S, m), NEW b
    PROVE  Row(Event(t, Last(S), b)) /\ Event(t, Last(S), b).seq <= m + 1
<1>1. Last(S).seq \in Nat /\ Last(S).seq <= m
  <2>1. CASE S = {}
    BY <2>1 DEF Last, Empty, Table
  <2>2. CASE S # {}
    <3>1. PICK e \in S : Last(S).seq = e.seq
      BY <2>2, TableTop
    <3>2. QED
      BY <3>1 DEF Table, Row
  <2>3. QED
    BY <2>1, <2>2
<1>2. PICK x : x = Event(t, Last(S), b)
  OBVIOUS
<1>3. x = [seq |-> Last(S).seq + 1, body |-> b, prev_hash |-> Last(S).hash,
           hash |-> Digest(t, Last(S).seq + 1, b, Last(S).hash)]
  BY <1>2 DEF Event
<1>4. Row(x) /\ x.seq <= m + 1
  BY <1>1, <1>3 DEF Row, Table
<1>5. QED
  BY <1>2, <1>4

\* Adding one.
LEMMA TableGrows ==
    ASSUME NEW t, NEW S, NEW m, Table(S, m), NEW b
    PROVE  Table(S \cup {Event(t, Last(S), b)}, m + 1)
<1>1. Row(Event(t, Last(S), b)) /\ Event(t, Last(S), b).seq <= m + 1
  BY EventRow
<1>2. m \in Nat /\ \A e \in S : Row(e) /\ e.seq <= m
  BY DEF Table
<1>3. \A e \in S : e.seq <= m + 1
  BY <1>2 DEF Row
<1>4. QED
  BY <1>1, <1>2, <1>3 DEF Table

\* A row with another body or number is a row.
LEMMA RowChanged ==
    ASSUME NEW e, Row(e)
    PROVE  /\ \A b : Row([e EXCEPT !.body = b]) /\ [e EXCEPT !.body = b].seq = e.seq
           /\ \A n \in Nat \ {0} : Row([e EXCEPT !.seq = n]) /\ [e EXCEPT !.seq = n].seq = n
  BY DEF Row

\* Changed tables are tables.
LEMMA EditedRows ==
    ASSUME NEW R, NEW m, Table(R, m), NEW S \in Edited(R)
    PROVE  Table(S, m)
<1>1. PICK e \in R : S \in {(R \ {e}) \cup {[e EXCEPT !.body = b]} : b \in Bodies \ {e.body}}
  BY DEF Edited
<1>2. PICK b : S = (R \ {e}) \cup {[e EXCEPT !.body = b]}
  BY <1>1
<1>3. Row([e EXCEPT !.body = b]) /\ [e EXCEPT !.body = b].seq = e.seq
  BY RowChanged DEF Table
<1>4. QED
  BY <1>2, <1>3 DEF Table

\* The same of a deletion.
LEMMA DeletedRows ==
    ASSUME NEW R, NEW m, Table(R, m), NEW S \in Deleted(R)
    PROVE  Table(S, m)
  BY DEF Deleted, Table

\* The same of an insertion.
LEMMA InsertedRows ==
    ASSUME NEW t, NEW R, NEW m, Table(R, m), NEW S \in Inserted(t, R)
    PROVE  Table(S, m + 1)
<1>1. PICK n, b : S = InsertedAt(t, R, n, b)
  BY DEF Inserted
<1> DEFINE before == {f \in R : f.seq < n}
           after == {[f EXCEPT !.seq = @ + 1] : f \in R \ before}
<1>2. Table(before, m)
  BY DEF Table
<1>3. Table(before \cup {Event(t, Last(before), b)}, m + 1)
  <2> HIDE DEF before
  <2>1. QED
    BY <1>2, TableGrows
<1>4. Table(after, m + 1)
  <2> SUFFICES ASSUME NEW x \in after PROVE Row(x) /\ x.seq <= m + 1
    BY DEF Table
  <2>1. PICK f \in R : x = [f EXCEPT !.seq = f.seq + 1]
    OBVIOUS
  <2>2. Row(f) /\ f.seq \in Nat /\ f.seq <= m /\ m \in Nat
    BY DEF Table, Row
  <2>3. f.seq + 1 \in Nat \ {0} /\ f.seq + 1 <= m + 1
    BY <2>2
  <2>4. QED
    BY <2>1, <2>2, <2>3, RowChanged
<1>5. S = (before \cup {Event(t, Last(before), b)}) \cup after
  BY <1>1 DEF InsertedAt
<1> HIDE DEF before, after
<1>6. QED
  BY <1>3, <1>4, <1>5 DEF Table

\* The same of an exchange.
LEMMA ReorderedRows ==
    ASSUME NEW R, NEW m, Table(R, m), NEW S \in Reordered(R)
    PROVE  Table(S, m)
<1>1. PICK e \in R, f \in R : S = (R \ {e, f}) \cup {[e EXCEPT !.seq = f.seq], [f EXCEPT !.seq = e.seq]}
  BY DEF Reordered
<1>2. Row(e) /\ Row(f) /\ e.seq \in Nat \ {0} /\ f.seq \in Nat \ {0} /\ e.seq <= m /\ f.seq <= m
  BY DEF Table, Row
<1>3. /\ Row([e EXCEPT !.seq = f.seq]) /\ [e EXCEPT !.seq = f.seq].seq = f.seq
      /\ Row([f EXCEPT !.seq = e.seq]) /\ [f EXCEPT !.seq = e.seq].seq = e.seq
  BY <1>2, RowChanged
<1>4. QED
  BY <1>1, <1>2, <1>3 DEF Table

\* What the first j events computed anew give.
Makes(t, R, b, j, f) ==
    f = [i \in 0..j |-> IF i = 0 THEN R ELSE f[i - 1] \cup {Event(t, Last(f[i - 1]), b[i])}]

\* There is such a function, and it gives tables.
LEMMA MadeRows ==
    ASSUME NEW t, NEW R, NEW m, Table(R, m), NEW b, NEW k \in Nat
    PROVE  \E f : Makes(t, R, b, k, f) /\ Table(f[k], m + k)
<1> DEFINE Missing == {j \in Nat : ~ \E f : Makes(t, R, b, j, f) /\ Table(f[j], m + j)}
<1>1. SUFFICES ASSUME Missing # {} PROVE FALSE
  OBVIOUS
<1>2. PICK j \in Missing : \A l \in Missing : j <= l
  <2>1. Missing \subseteq Nat
    OBVIOUS
  <2> HIDE DEF Missing
  <2>2. QED
    BY <1>1, <2>1, Least
<1>3. CASE j = 0
  <2>1. PICK f : f = [i \in 0..0 |-> R]
    OBVIOUS
  <2>2. Makes(t, R, b, 0, f) /\ f[0] = R
    BY <2>1 DEF Makes
  <2>3. m + 0 = m
    BY DEF Table
  <2>4. QED
    BY <1>3, <2>2, <2>3
<1>4. CASE j # 0
  <2>1. j \in Nat /\ j - 1 \in Nat /\ j - 1 \notin Missing
    BY <1>2, <1>4
  <2>2. PICK f : Makes(t, R, b, j - 1, f) /\ Table(f[j - 1], m + (j - 1))
    BY <2>1
  <2>3. PICK a : a = f[j - 1] \cup {Event(t, Last(f[j - 1]), b[j])}
    OBVIOUS
  <2>4. PICK g : g = [i \in 0..j |-> IF i = j THEN a ELSE f[i]]
    OBVIOUS
  <2>5. ASSUME NEW i \in 0..j
        PROVE  g[i] = IF i = 0 THEN R ELSE g[i - 1] \cup {Event(t, Last(g[i - 1]), b[i])}
    <3>1. CASE i = j
      <4>1. g[j] = a /\ g[j - 1] = f[j - 1]
        BY <2>1, <2>4
      <4>2. QED
        BY <1>4, <2>3, <3>1, <4>1
    <3>2. CASE i # j
      <4>1. i \in 0..(j - 1) /\ g[i] = f[i]
        BY <2>1, <2>4, <3>2
      <4>2. f[i] = IF i = 0 THEN R ELSE f[i - 1] \cup {Event(t, Last(f[i - 1]), b[i])}
        BY <2>2, <4>1 DEF Makes
      <4>3. i # 0 => g[i - 1] = f[i - 1]
        BY <2>1, <2>4, <4>1
      <4>4. QED
        BY <4>1, <4>2, <4>3
    <3>3. QED
      BY <3>1, <3>2
  <2>6. Makes(t, R, b, j, g)
    <3>1. g = [i \in 0..j |-> g[i]]
      BY <2>4
    <3>2. [i \in 0..j |-> g[i]] =
            [i \in 0..j |-> IF i = 0 THEN R ELSE g[i - 1] \cup {Event(t, Last(g[i - 1]), b[i])}]
      BY <2>5
    <3>3. QED
      BY <3>1, <3>2 DEF Makes
  <2>7. Table(g[j], m + j)
    <3>1. Table(a, (m + (j - 1)) + 1)
      BY <2>2, <2>3, TableGrows
    <3>2. m \in Nat /\ (m + (j - 1)) + 1 = m + j
      BY <2>1 DEF Table
    <3>3. g[j] = a
      BY <2>1, <2>4
    <3>4. QED
      BY <3>1, <3>2, <3>3
  <2>8. QED
    BY <2>6, <2>7
<1>5. QED
  BY <1>3, <1>4

\* There is only one.
LEMMA MadeOnce ==
    ASSUME NEW t, NEW R, NEW b, NEW k \in Nat, NEW f, NEW g, Makes(t, R, b, k, f), Makes(t, R, b, k, g)
    PROVE  f[k] = g[k]
<1> DEFINE Differ == {i \in Nat : i <= k /\ f[i] # g[i]}
<1>1. SUFFICES ASSUME Differ # {} PROVE FALSE
  OBVIOUS
<1>2. PICK i \in Differ : \A l \in Differ : i <= l
  <2>1. Differ \subseteq Nat
    OBVIOUS
  <2> HIDE DEF Differ
  <2>2. QED
    BY <1>1, <2>1, Least
<1>3. i \in 0..k
  BY <1>2
<1>4. /\ f[i] = IF i = 0 THEN R ELSE f[i - 1] \cup {Event(t, Last(f[i - 1]), b[i])}
      /\ g[i] = IF i = 0 THEN R ELSE g[i - 1] \cup {Event(t, Last(g[i - 1]), b[i])}
  BY <1>3 DEF Makes
<1>5. i # 0 => f[i - 1] = g[i - 1]
  <2>1. i # 0 => i - 1 \in Nat /\ i - 1 <= k /\ ~ (i <= i - 1)
    BY <1>3
  <2>2. QED
    BY <1>2, <2>1
<1>6. QED
  BY <1>2, <1>4, <1>5

\* The same of a chain computed anew.
LEMMA RewrittenRows ==
    ASSUME NEW t, NEW R, NEW m, Table(R, m), NEW S \in Rewritten(t, R)
    PROVE  \E n : Table(S, n)
<1>1. \E k \in 0..MaxForged : \E n, b : S = Rechained(t, R, n, k, b)
  BY DEF Rewritten
<1> PICK k \in 0..MaxForged : \E n, b : S = Rechained(t, R, n, k, b)
  BY <1>1
<1> PICK n, b : S = Rechained(t, R, n, k, b)
  OBVIOUS
<1>2. k \in Nat
  BY <1>1, BoundsAssumption
<1>3. Table(UpTo(R, n), m)
  BY DEF Table, UpTo
<1>4. PICK f : Makes(t, UpTo(R, n), b, k, f) /\ Table(f[k], m + k)
  BY <1>2, <1>3, MadeRows
<1>5. PICK g : g = CHOOSE h : Makes(t, UpTo(R, n), b, k, h)
  OBVIOUS
<1>6. Makes(t, UpTo(R, n), b, k, g)
  BY <1>4, <1>5
<1>7. S = g[k]
  BY <1>1, <1>5 DEF Rechained, Makes
<1>8. f[k] = g[k]
  BY <1>2, <1>4, <1>6, MadeOnce
<1>9. QED
  BY <1>4, <1>7, <1>8

\* However a chain that record() and Record wrote is changed, with or without
\* new hashes: up to an event whose hash somebody has kept, as an attestation
\* keeps that of the head, a chain that verify_chain accepts is as it was.
THEOREM Anchored == Spec => []HistoryAnchored
<1>1. Inv => HistoryAnchored
  <2> SUFFICES ASSUME Inv, NEW t \in Tenants, NEW R, R = audit_events[t], NEW S \in Changed(t, R),
                      verify_chain(t, S) = {}, NEW e \in R, NEW f \in S, f.hash = e.hash
               PROVE  UpTo(S, f.seq) = UpTo(R, e.seq)
    BY DEF HistoryAnchored
  <2>1. Linked(t, R)
    BY DEF Inv
  <2>2. PICK m : Table(R, m)
    BY <2>1, LinkedRows
  <2>3. PICK n : Table(S, n)
    BY <2>2, EditedRows, DeletedRows, InsertedRows, ReorderedRows, RewrittenRows DEF Changed
  <2>4. Row(e) /\ Row(f) /\ e.hash = Digest(t, e.seq, e.body, e.prev_hash)
    BY <2>1, <2>2, <2>3 DEF Table, Linked
  <2>5. f.hash = Digest(t, f.seq, f.body, f.prev_hash)
    BY Accepted
  <2>6. e = f
    BY <2>4, <2>5, SameHash
  <2>7. QED
    BY <2>1, <2>3, <2>6, SamePast
<1>2. QED
  BY <1>1, Invariance, PTL

-----------------------------------------------------------------------------
(* The journal. *)

\* What the events R report, in the order of their numbers.
InOrder(R) == [i \in 1..Last(R).seq |-> (CHOOSE e \in R : e.seq = i).body]

\* A chain's numbers go from 1 to that of its newest event.
LEMMA LastCounts ==
    ASSUME NEW t, NEW R, Linked(t, R)
    PROVE  /\ Last(R).seq \in Nat
           /\ \A i \in 1..Last(R).seq : \E e \in R : e.seq = i
           /\ \A e \in R : e.seq \in 1..Last(R).seq
<1>1. PICK n \in Nat : (\A i \in 1..n : \E e \in R : e.seq = i) /\ (\A e \in R : e.seq \in 1..n)
  BY DEF Linked
<1>2. CASE R = {}
  <2>1. Last(R).seq = 0
    BY <1>2 DEF Last, Empty
  <2>2. QED
    BY <1>2, <2>1
<1>3. CASE R # {}
  <2>1. PICK e \in R : (\A f \in R : f.seq <= e.seq) /\ Last(R).seq = e.seq
    BY <1>3, LastIsNewest
  <2>2. e.seq = n
    <3>1. e.seq \in 1..n
      BY <1>1
    <3>2. PICK f \in R : f.seq = n
      BY <1>1, <3>1
    <3>3. QED
      BY <2>1, <3>1, <3>2
  <2>3. QED
    BY <1>1, <2>1, <2>2
<1>4. QED
  BY <1>2, <1>3

\* The event with a number is the only one.
LEMMA BodyAt ==
    ASSUME NEW t, NEW R, Linked(t, R), NEW e \in R
    PROVE  (CHOOSE f \in R : f.seq = e.seq).body = e.body
<1>1. PICK g : g = CHOOSE f \in R : f.seq = e.seq
  OBVIOUS
<1>2. g \in R /\ g.seq = e.seq
  BY <1>1
<1>3. g = e
  BY <1>2 DEF Linked
<1>4. QED
  BY <1>1, <1>3

\* The rows of a transaction are no more than it was to record, and the first
\* of them is the one that reports the value.
Chunk(w) ==
    /\ \A e, f \in mine[w] : e.seq - f.seq < MaxEvents - left[w]
    /\ \A e, f \in mine[w] : e.body # Other => e.seq <= f.seq

Chunks == \A w \in Writers : Chunk(w)

\* No writer has rows at the start.
LEMMA InitChunks == Init => Chunks
  BY DEF Init, Chunks, Chunk

\* A new event follows the newest one of its transaction.
LEMMA InsertChunk ==
    ASSUME Inv, Chunks, NEW w \in Writers, InsertEvent(w)
    PROVE  Chunks'
<1> DEFINE t == work[w].tenant
           e == Event(t, seen[w], NextBody(w))
<1>1. pc[w] = "insert" /\ left[w] \in 1..MaxEvents /\ DOMAIN mine = Writers /\ left \in [Writers -> 0..MaxEvents]
  BY DEF InsertEvent, Inv, TypeOK, WriterInv, Open
<1>2. CASE Taken(w, e.seq)
  <2>1. left' = left /\ mine' = mine
    BY <1>2 DEF InsertEvent
  <2>2. QED
    BY <2>1 DEF Chunks, Chunk
<1>3. CASE ~ Taken(w, e.seq)
  <2>1. mine' = [mine EXCEPT ![w] = @ \cup {e}] /\ left' = [left EXCEPT ![w] = @ - 1]
    BY <1>3 DEF InsertEvent
  <2>2. e.seq = seen[w].seq + 1 /\ e.body = NextBody(w)
    BY DEF Event
  <2>3. /\ Linked(t, Visible(w)) /\ ReadFrom(seen[w], Visible(w))
        /\ \A f \in Visible(w) : f.seq # seen[w].seq + 1
    BY <1>1, <1>3, <2>2 DEF Inv, WriterInv, Taken
  <2>4. Linked(t, Visible(w) \cup {e}) /\ \A f \in Visible(w) : f.seq < e.seq
    BY <2>3, EventExtends, EventIsNewest
  <2> HIDE DEF e
  <2>5. PICK n \in Nat : /\ \A i \in 1..n : \E f \in Visible(w) \cup {e} : f.seq = i
                         /\ \A f \in Visible(w) \cup {e} : f.seq \in 1..n
    BY <2>4 DEF Linked
  <2>6. ASSUME NEW f \in mine[w] PROVE e.seq - f.seq < MaxEvents - left[w] + 1
    <3>1. f \in Visible(w) /\ f.seq < e.seq /\ f.seq \in 1..n /\ e.seq \in 1..n
      BY <2>4, <2>5 DEF Visible
    <3>2. e.seq - 1 \in 1..n
      BY <3>1
    <3>3. PICK g \in Visible(w) : g.seq = e.seq - 1
      BY <2>5, <3>1, <3>2
    <3>4. g \in mine[w]
      <4>1. g \in audit_events[t] => g.seq < f.seq
        BY DEF Inv, WriterInv
      <4>2. QED
        BY <3>1, <3>3, <4>1 DEF Visible
    <3>5. g.seq - f.seq < MaxEvents - left[w]
      BY <3>4 DEF Chunks, Chunk
    <3>6. QED
      BY <1>1, <3>1, <3>3, <3>5, BoundsAssumption
  <2>7. ASSUME NEW x \in Writers PROVE Chunk(x)'
    <3>1. CASE x # w
      <4>1. mine'[x] = mine[x] /\ left'[x] = left[x]
        BY <1>1, <2>1, <3>1
      <4>2. QED
        BY <4>1 DEF Chunks, Chunk
    <3>2. CASE x = w
      <4>1. mine'[w] = mine[w] \cup {e} /\ left'[w] = left[w] - 1
        BY <1>1, <2>1
      <4>2. \A f \in mine[w] : f.seq < e.seq /\ f.seq \in Nat /\ e.seq \in Nat
        BY <2>4, <2>5 DEF Visible
      <4>3. e.seq \in Nat
        BY <2>5
      <4>4. ASSUME NEW f \in mine'[w], NEW g \in mine'[w]
            PROVE  f.seq - g.seq < MaxEvents - left'[w]
        <5>1. MaxEvents - left'[w] = MaxEvents - left[w] + 1 /\ MaxEvents - left[w] \in Nat
          BY <1>1, <4>1, BoundsAssumption
        <5>2. CASE f = e /\ g = e
          BY <4>3, <5>1, <5>2
        <5>3. CASE f = e /\ g \in mine[w]
          BY <2>6, <5>1, <5>3
        <5>4. CASE f \in mine[w] /\ g = e
          BY <4>2, <5>1, <5>4
        <5>5. CASE f \in mine[w] /\ g \in mine[w]
          <6>1. f.seq - g.seq < MaxEvents - left[w]
            BY <5>5 DEF Chunks, Chunk
          <6>2. QED
            BY <4>2, <5>1, <5>5, <6>1
        <5>6. QED
          BY <4>1, <5>2, <5>3, <5>4, <5>5
      <4>5. ASSUME NEW f \in mine'[w], NEW g \in mine'[w], f.body # Other
            PROVE  f.seq <= g.seq
        <5>1. CASE mine[w] = {}
          BY <4>1, <4>3, <5>1
        <5>2. CASE mine[w] # {}
          <6>1. f \in mine[w]
            BY <2>2, <4>1, <4>5, <5>2 DEF NextBody
          <6>2. CASE g = e
            BY <4>2, <6>1, <6>2
          <6>3. CASE g \in mine[w]
            BY <4>5, <6>1, <6>3 DEF Chunks, Chunk
          <6>4. QED
            BY <4>1, <6>2, <6>3
        <5>3. QED
          BY <5>1, <5>2
      <4>6. QED
        BY <3>2, <4>4, <4>5 DEF Chunk
    <3>3. QED
      BY <3>1, <3>2
  <2>8. QED
    BY <2>7 DEF Chunks
<1>4. QED
  BY <1>2, <1>3

\* A step keeps it: only an insertion adds to a transaction's rows.
LEMMA NextChunks == ASSUME Inv, Chunks, [Next]_vars PROVE Chunks'
<1>1. ASSUME NEW w \in Writers, Begin(w) PROVE Chunks'
  <2>1. mine[w] = {} /\ mine' = mine /\ \A x \in Writers : x # w => left'[x] = left[x]
    BY <1>1 DEF Begin, Inv, WriterInv, TypeOK
  <2>2. QED
    BY <2>1 DEF Chunks, Chunk
<1>2. ASSUME NEW w \in Writers, LockRow(w) \/ LockChain(w) \/ SelectLast(w) PROVE Chunks'
  <2>1. mine' = mine /\ left' = left
    BY <1>2 DEF LockRow, LockChain, SelectLast
  <2>2. QED
    BY <2>1 DEF Chunks, Chunk
<1>3. ASSUME NEW w \in Writers, End(w) PROVE Chunks'
  <2>1. mine'[w] = {} /\ \A x \in Writers : x # w => left'[x] = left[x] /\ mine'[x] = mine[x]
    BY <1>3 DEF End, Inv, TypeOK
  <2>2. QED
    BY <2>1 DEF Chunks, Chunk
<1>4. CASE UNCHANGED vars
  BY <1>4 DEF vars, Chunks, Chunk
<1>5. ASSUME NEW w \in Writers, Begin(w) \/ Step(w) \/ Abort(w) PROVE Chunks'
  <2>1. \/ Begin(w) \/ LockRow(w) \/ LockChain(w) \/ SelectLast(w) \/ InsertEvent(w) \/ End(w)
    BY <1>5 DEF Step, Commit, DeadlockVictim, Abort, Rollback
  <2>2. QED
    BY <1>1, <1>2, <1>3, <2>1, InsertChunk
<1>6. QED
  BY <1>4, <1>5 DEF Next
\* A function on 1..n is a sequence.
LEMMA SeqOf ==
    ASSUME NEW n \in Nat, NEW U, NEW f, f = [i \in 1..n |-> f[i]], \A i \in 1..n : f[i] \in U
    PROVE  f \in Seq(U) /\ Len(f) = n
  OBVIOUS

\* What it takes to be one sequence followed by another.
LEMMA Appended ==
    ASSUME NEW n \in Nat, NEW k \in Nat, NEW U, NEW a \in Seq(U), NEW r \in Seq(U), NEW b \in Seq(U),
           Len(a) = n, Len(r) = k, Len(b) = n + k,
           \A i \in 1..n : b[i] = a[i],
           \A i \in 1..k : b[n + i] = r[i]
    PROVE  b = a \o r
<1>1. PICK c : c = a \o r
  OBVIOUS
<1>2. c \in Seq(U) /\ Len(c) = n + k
      /\ \A i \in 1..(n + k) : c[i] = IF i <= n THEN a[i] ELSE r[i - n]
  BY <1>1, ConcatProperties
<1>3. ASSUME NEW i \in 1..(n + k) PROVE b[i] = c[i]
  <2>1. CASE i <= n
    BY <1>2, <2>1
  <2>2. CASE i > n
    <3>1. PICK j \in 1..k : j = i - n
      BY <2>2
    <3>2. i = n + j /\ c[i] = r[j]
      BY <1>2, <2>2, <3>1
    <3>3. QED
      BY <3>2
  <2>3. QED
    BY <2>1, <2>2
<1>4. Len(b) = Len(c) /\ \A i \in 1..Len(b) : b[i] = c[i]
  BY <1>2, <1>3
<1>5. b = c
  BY <1>2, <1>4, SeqEqual
<1>6. QED
  BY <1>1, <1>5

\* What the events of a transaction report.
Story(body, n) == [i \in 1..n |-> IF i = 1 THEN body ELSE Other]

\* The chain V continues the chain R of n events with k more, a transaction.
Adds(t, R, V, body, n, k) ==
    /\ Linked(t, R) /\ Linked(t, V) /\ R \subseteq V
    /\ n = Last(R).seq /\ n + k = Last(V).seq
    /\ \A e \in V : e.seq = n + 1 => e.body = body
    /\ \A e \in V : e.seq > n + 1 => e.body = Other

\* The same of what the chains report.
Follows(R, V, body, k) == InOrder(V) = InOrder(R) \o Story(body, k)

\* A linked chain that continues another one has the events of that one first.
LEMMA Continues ==
    ASSUME NEW t, NEW R, NEW V, NEW body, NEW n \in Nat, NEW k \in Nat, Adds(t, R, V, body, n, k)
    PROVE  Follows(R, V, body, k)
<1>0. /\ Linked(t, R) /\ Linked(t, V) /\ R \subseteq V
      /\ n = Last(R).seq /\ n + k = Last(V).seq
      /\ \A e \in V : e.seq = n + 1 => e.body = body
      /\ \A e \in V : e.seq > n + 1 => e.body = Other
  BY DEF Adds
<1>1. PICK m \in Nat : m = n + k
  OBVIOUS
<1>2. PICK U : (\A e \in V : e.body \in U) /\ body \in U /\ Other \in U
  <2>1. \A e \in V : e.body \in {f.body : f \in V} \cup {body, Other}
    OBVIOUS
  <2>2. QED
    BY <2>1
<1>3. PICK a, b, r : a = InOrder(R) /\ b = InOrder(V) /\ r = Story(body, k)
  OBVIOUS
<1>4. /\ a = [i \in 1..n |-> a[i]] /\ \A i \in 1..n : \E e \in R : e.seq = i /\ a[i] = e.body
  <2>1. a = [i \in 1..n |-> (CHOOSE e \in R : e.seq = i).body]
    BY <1>0, <1>3 DEF InOrder
  <2>2. ASSUME NEW i \in 1..n PROVE \E e \in R : e.seq = i /\ a[i] = e.body
    <3>1. PICK e \in R : e.seq = i
      BY <1>0, LastCounts
    <3>2. a[i] = e.body
      BY <1>0, <2>1, <3>1, BodyAt
    <3>3. QED
      BY <3>1, <3>2
  <2>3. QED
    BY <2>1, <2>2
<1>5. /\ b = [i \in 1..m |-> b[i]] /\ \A i \in 1..m : \E e \in V : e.seq = i /\ b[i] = e.body
  <2>1. m = Last(V).seq
    BY <1>0, <1>1
  <2>2. b = [i \in 1..m |-> (CHOOSE e \in V : e.seq = i).body]
    BY <1>3, <2>1 DEF InOrder
  <2>3. ASSUME NEW i \in 1..m PROVE \E e \in V : e.seq = i /\ b[i] = e.body
    <3>1. PICK e \in V : e.seq = i
      BY <1>0, <2>1, LastCounts
    <3>2. b[i] = e.body
      BY <1>0, <2>2, <3>1, BodyAt
    <3>3. QED
      BY <3>1, <3>2
  <2>4. QED
    BY <2>2, <2>3
<1>6. r = [i \in 1..k |-> r[i]] /\ \A i \in 1..k : r[i] = IF i = 1 THEN body ELSE Other
  BY <1>3 DEF Story
<1>7. a \in Seq(U) /\ Len(a) = n
  <2>1. PICK l \in Nat : l = n
    OBVIOUS
  <2>2. a = [i \in 1..l |-> a[i]] /\ \A i \in 1..l : a[i] \in U
    BY <1>0, <1>2, <1>4, <2>1
  <2>3. a \in Seq(U) /\ Len(a) = l
    BY <2>2, SeqOf
  <2>4. QED
    BY <2>1, <2>3
<1>8. b \in Seq(U) /\ Len(b) = n + k
  <2>1. \A i \in 1..m : b[i] \in U
    BY <1>2, <1>5
  <2>2. b \in Seq(U) /\ Len(b) = m
    BY <1>5, <2>1, SeqOf
  <2>3. QED
    BY <1>1, <2>2
<1>9. r \in Seq(U) /\ Len(r) = k
  <2>1. \A i \in 1..k : r[i] \in U
    BY <1>2, <1>6
  <2>2. QED
    BY <1>6, <2>1, SeqOf
<1>10. ASSUME NEW i \in 1..n PROVE b[i] = a[i]
  <2>1. i \in 1..m
    BY <1>1
  <2>2. PICK e \in V : e.seq = i /\ b[i] = e.body
    BY <1>5, <2>1
  <2>3. PICK f \in R : f.seq = i /\ a[i] = f.body
    BY <1>4
  <2>4. f = e
    BY <1>0, <2>2, <2>3 DEF Linked
  <2>5. QED
    BY <2>2, <2>3, <2>4
<1>11. ASSUME NEW i \in 1..k PROVE b[n + i] = r[i]
  <2>1. n + i \in 1..m
    BY <1>1
  <2>2. PICK e \in V : e.seq = n + i /\ b[n + i] = e.body
    BY <1>5, <2>1
  <2>3. CASE i = 1
    BY <1>0, <1>6, <2>2, <2>3
  <2>4. CASE i # 1
    <3>1. n + i > n + 1
      BY <2>4
    <3>2. QED
      BY <1>0, <1>6, <2>2, <2>4, <3>1
  <2>5. QED
    BY <2>3, <2>4
<1>12. b = a \o r
  BY <1>7, <1>8, <1>9, <1>10, <1>11, Appended
<1>13. QED
  BY <1>3, <1>12 DEF Follows

\* A commit adds the whole transaction to the journal.
LEMMA CommitJournals ==
    ASSUME Inv, Chunks, Inv', NEW w \in Writers, Commit(w)
    PROVE  Promise!Next
<1>1. PICK t, value, R, V : t = work[w].tenant /\ value = work[w].value /\ R = audit_events[t] /\ V = Visible(w)
  OBVIOUS
<1>2. /\ pc[w] = "commit" /\ audit_events' = [audit_events EXCEPT ![t] = @ \cup mine[w]]
      /\ data' = IF value = Other THEN data ELSE [data EXCEPT ![t] = value]
  BY <1>1 DEF Commit
<1>3. /\ t \in Tenants /\ value \in Values \cup {Other} /\ mine[w] # {} /\ Announces(w) /\ left[w] \in Nat
      /\ DOMAIN audit_events = Tenants
  BY <1>1, <1>2 DEF Inv, TypeOK, Work, WriterInv, Bodies
<1>4. V = R \cup mine[w] /\ audit_events'[t] = V /\ \A u \in Tenants : u # t => audit_events'[u] = audit_events[u]
  BY <1>1, <1>2, <1>3 DEF Visible
<1>5. Linked(t, R) /\ Linked(t, V)
  BY <1>1, <1>3 DEF Inv, WriterInv
<1>6. PICK n, m : n = Last(R).seq /\ m = Last(V).seq
  OBVIOUS
<1>7. /\ n \in Nat /\ (\A i \in 1..n : \E e \in R : e.seq = i) /\ (\A e \in R : e.seq \in 1..n)
      /\ m \in Nat /\ (\A i \in 1..m : \E e \in V : e.seq = i) /\ (\A e \in V : e.seq \in 1..m)
  BY <1>5, <1>6, LastCounts
<1>8. \A e \in mine[w] : e.seq \in (n + 1)..m
  <2>1. TAKE e \in mine[w]
  <2>2. e.seq \in 1..m
    BY <1>4, <1>7
  <2>3. n # 0 => \E f \in R : f.seq = n
    BY <1>7
  <2>4. \A f \in R : f.seq < e.seq
    BY <1>1 DEF Inv, WriterInv
  <2>5. QED
    BY <1>7, <2>2, <2>3, <2>4
<1>9. n < m
  BY <1>3, <1>7, <1>8
<1>10. \A e \in V : e.seq > n => e \in mine[w]
  BY <1>4, <1>7
<1>11. PICK first \in mine[w] : first.seq = n + 1
  <2>1. n + 1 \in 1..m
    BY <1>7, <1>9
  <2>2. PICK f \in V : f.seq = n + 1
    BY <1>7, <2>1
  <2>3. QED
    BY <1>7, <1>10, <2>2
<1>12. ASSUME NEW e \in V, e.seq = n + 1 PROVE e.body = value
  <2>1. e \in mine[w] /\ \A f \in mine[w] : f.seq = e.seq => f = e
    BY <1>4, <1>5, <1>7, <1>10, <1>12 DEF Linked
  <2>2. CASE value = Other
    BY <1>1, <1>3, <2>1, <2>2 DEF Announces
  <2>3. CASE value # Other
    <3>1. PICK a \in mine[w] : a.body = value
      BY <1>1, <1>3, <2>3 DEF Announces
    <3>2. a.seq <= e.seq
      BY <2>1, <2>3, <3>1 DEF Chunks, Chunk
    <3>3. a.seq = e.seq
      BY <1>7, <1>8, <1>12, <3>2
    <3>4. QED
      BY <2>1, <3>1, <3>3
  <2>4. QED
    BY <2>2, <2>3
<1>13. ASSUME NEW e \in V, e.seq > n + 1 PROVE e.body = Other
  <2>1. e \in mine[w]
    BY <1>7, <1>10, <1>13
  <2>2. e.body # Other => e.seq <= first.seq
    BY <2>1 DEF Chunks, Chunk
  <2>3. QED
    BY <1>7, <1>8, <1>11, <1>13, <2>1, <2>2
<1>14. PICK k \in 1..MaxEvents : m = n + k
  <2>1. m \in 1..m
    BY <1>7, <1>9
  <2>2. PICK e \in V : e.seq = m
    BY <1>7, <2>1
  <2>3. e \in mine[w]
    BY <1>7, <1>9, <1>10, <2>2
  <2>4. e.seq - first.seq < MaxEvents - left[w]
    BY <2>3 DEF Chunks, Chunk
  <2>5. PICK l \in Nat : l = left[w]
    BY <1>3
  <2>6. m - (n + 1) < MaxEvents - l
    BY <1>11, <2>2, <2>4, <2>5
  <2>7. n \in Nat /\ m \in Nat /\ MaxEvents \in Nat
    BY <1>7, BoundsAssumption
  <2>8. m - n \in 1..MaxEvents /\ m = n + (m - n)
    BY <1>9, <2>5, <2>6, <2>7
  <2>9. QED
    BY <2>8
<1>15. InOrder(V) = InOrder(R) \o Story(value, k)
  <2>1. k \in Nat /\ n \in Nat /\ n + k = Last(V).seq
    BY <1>6, <1>7, <1>14, BoundsAssumption
  <2>2. Adds(t, R, V, value, n, k)
    BY <1>4, <1>5, <1>6, <1>12, <1>13, <2>1 DEF Adds
  <2>3. Follows(R, V, value, k)
    BY <2>1, <2>2, Continues
  <2>4. QED
    BY <2>3 DEF Follows
<1>16. [u \in Tenants |-> Journalled(u)]' =
            [[u \in Tenants |-> Journalled(u)] EXCEPT ![t] = @ \o Story(value, k)]
  <2>1. ASSUME NEW u \in Tenants
        PROVE  Journalled(u) = InOrder(audit_events[u]) /\ Journalled(u)' = InOrder(audit_events'[u])
    BY DEF Journalled, InOrder
  <2>2. Journalled(t)' = Journalled(t) \o Story(value, k)
    BY <1>1, <1>3, <1>4, <1>15, <2>1
  <2>3. \A u \in Tenants : u # t => Journalled(u)' = Journalled(u)
    BY <1>4, <2>1
  <2>4. QED
    BY <1>3, <2>2, <2>3
<1>17. Promise!Transaction(t, value, k)
  <2>1. Promise!Report(value, k) = Story(value, k)
    BY DEF Promise!Report, Story
  <2>2. QED
    BY <1>2, <1>16, <2>1 DEF Promise!Transaction
<1>18. QED
  BY <1>3, <1>14, <1>17 DEF Promise!Next

\* Any writers, tenants and bounds, on either database: transactions are as if
\* each had happened at once when it committed, and the log only grows at its
\* end (auditlog.py: "append-only"; internal/audit appends to the same table).
THEOREM Journals == Spec => ImplementsJournal
<1>1. Init => Promise!Init
  <2> SUFFICES ASSUME Init PROVE Promise!Init
    OBVIOUS
  <2>1. ASSUME NEW t \in Tenants PROVE Journalled(t) = <<>>
    <3>1. Last(audit_events[t]).seq = 0
      BY DEF Init, Last, Empty
    <3>2. QED
      BY <3>1 DEF Journalled
  <2>2. QED
    BY <2>1 DEF Init, Promise!Init
<1>2. Inv /\ Inv' /\ Chunks /\ [Next]_vars => [Promise!Next]_<<[t \in Tenants |-> Journalled(t)], data>>
  <2> SUFFICES ASSUME Inv, Inv', Chunks, [Next]_vars
               PROVE  Promise!Next \/ UNCHANGED <<[t \in Tenants |-> Journalled(t)], data>>
    OBVIOUS
  <2>1. \/ UNCHANGED committed \/ \E w \in Writers : Commit(w)
    BY DEF Next, Step, Begin, LockRow, LockChain, SelectLast, InsertEvent, DeadlockVictim, Abort, Rollback, vars,
           committed
  <2>2. CASE UNCHANGED committed
    BY <2>2 DEF committed, Journalled
  <2>3. QED
    BY <2>1, <2>2, CommitJournals
<1>3. Inv /\ Chunks /\ [Next]_vars => Chunks'
  BY NextChunks
<1>4. QED
  BY <1>1, <1>2, <1>3, InitChunks, Invariance, PTL DEF Spec, ImplementsJournal, Promise!Spec
=============================================================================
