------------------------------- MODULE Journal -------------------------------
(***************************************************************************)
(* What the audit log promises to the rest of the platform: a change of a  *)
(* row and all the events of its transaction happen at once, at the end of *)
(* the tenant's journal, and nothing else ever happens to either.          *)
(***************************************************************************)
EXTENDS Naturals, Sequences

CONSTANTS Tenants, Values, InitValue, Other, MaxEvents

VARIABLES
    journal,  \* what the events of a tenant report, in order
    data      \* the value of the tenant's row

Init ==
    /\ journal = [t \in Tenants |-> <<>>]
    /\ data = [t \in Tenants |-> InitValue]

\* The first event reports the new value of the row; the others, and the first
\* one if the row is left alone, are about something else.
Report(body, n) == [i \in 1..n |-> IF i = 1 THEN body ELSE Other]

Transaction(t, body, n) ==
    /\ journal' = [journal EXCEPT ![t] = @ \o Report(body, n)]
    /\ data' = IF body = Other THEN data ELSE [data EXCEPT ![t] = body]

Next == \E t \in Tenants, body \in Values \cup {Other}, n \in 1..MaxEvents : Transaction(t, body, n)

Spec == Init /\ [][Next]_<<journal, data>>
=============================================================================
