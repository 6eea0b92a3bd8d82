----------------------------- MODULE MCRelease ------------------------------
(* Model-checking instances of Release. *)
EXTENDS Release, TLC

\* Versions of one model, and requests, are interchangeable.
ReleaseSymmetry == Permutations(Versions) \cup Permutations(Requests)

\* What the web app's buttons ask the transition endpoint for (lib/platform.ts).
WebTargets == {"canary", "verifying", "findings", "rejected", "released", "rolled_back"}

\* Those of them that go forward or take a version that serves away, and one
\* that has an endpoint of its own.
ReleaseTargets == {"canary", "released", "rolled_back", "killed"}
=============================================================================
