---------------------------- MODULE MCAttestation ----------------------------
EXTENDS Attestation, TLC

\* Two models; the second version of one replaces its first.
MCParent == 1 :> NONE @@ 2 :> 1 @@ 3 :> NONE
Symmetry == Permutations(Workers)
=============================================================================
