----------------------------- MODULE MCGitPump ------------------------------
(***************************************************************************)
(* The values of GitPump's constants that TLC checks.                      *)
(***************************************************************************)
EXTENDS GitPump

CONSTANTS f, g, m, n, a, b, c, p, q

\* Two Perforce users and three edits of git users, whose files cross.
Crossed == m :> f @@ n :> g @@ a :> f @@ b :> g @@ c :> f

DoubleAndOne == p :> <<a, b>> @@ q :> <<c>>

Single == p :> <<a>>

Double == p :> <<a, b>>

\* A push that adds f and then edits it, and another one.
AddAndEdit == p :> <<a, c>> @@ q :> <<b>>
=============================================================================
