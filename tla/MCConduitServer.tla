-------------------------- MODULE MCConduitServer ---------------------------
(***************************************************************************)
(* The values of ConduitServer's constants that TLC checks.                *)
(***************************************************************************)
EXTENDS ConduitServer, TLC

CONSTANTS alpha, beta, c1, c2, c3, d1, d2

\* One name is created twice and deleted twice.
Again == c1 :> alpha @@ c2 :> alpha @@ c3 :> beta @@ d1 :> alpha @@ d2 :> alpha

Twins == c1 :> alpha @@ c2 :> alpha

TwoPorts == 6000..6001
=============================================================================
