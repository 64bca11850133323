--------------------------- MODULE MCOrchestrator ---------------------------
(***************************************************************************)
(* The values of Orchestrator's constants that TLC checks.                 *)
(***************************************************************************)
EXTENDS Orchestrator, TLC

CONSTANTS s1, s2, i1, i2, p1, p2

\* One hook for each session.
HookPerSession == p1 :> s1 @@ p2 :> s2

IdSymmetry == Permutations(Id)
=============================================================================
