------------------------------ MODULE MCRegistry -----------------------------
EXTENDS Registry, TLC

CONSTANTS c1, id1, id2, k1, k2

\* One machine monitors the model of id1.
MCHolds == c1 :> id1
MCKey == id1 :> k1 @@ id2 :> k2
=============================================================================
