----------------------------- MODULE MCPipeline -----------------------------
(* Model-checking instances of Pipeline. *)
EXTENDS Pipeline, TLC

\* Workers, and requests, are interchangeable.
PipelineSymmetry == Permutations(Workers) \cup Permutations(Requests)

\* Steps of the web app that lead away from and back to this part of the flow.
WebTargets == {"canary", "verifying", "findings"}

\* States that have an endpoint which also enqueues the job.
JoblessTargets == {"auditing", "remediating"}
=============================================================================
