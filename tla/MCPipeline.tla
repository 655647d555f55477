----------------------------- MODULE MCPipeline -----------------------------
(* Small instances of the pipeline for TLC. *)
EXTENDS Pipeline, TLC

CONSTANTS j1, j2, r1, r2

JobSymmetry == Permutations({j1, j2})
=============================================================================
