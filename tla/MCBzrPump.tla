----------------------------- MODULE MCBzrPump ------------------------------
(***************************************************************************)
(* The values of BzrPump's constants that TLC checks.                      *)
(***************************************************************************)
EXTENDS BzrPump

CONSTANTS f, g, m, a, b, c, p, q, r

\* A Perforce user and three edits of bzr users, on two files.
OnTwoFiles == m :> f @@ a :> g @@ b :> g @@ c :> f

\* A push that adds a file, one that changes both, and one without a commit.
OneTwoNone == p :> {b} @@ q :> {a, c} @@ r :> {}
=============================================================================
