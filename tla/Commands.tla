------------------------------ MODULE Commands ------------------------------
(***************************************************************************)
(* The commands that the pumps run and read: what p4 or git means goes     *)
(* through its printed form, the pipes and threads of CommandRunner and a  *)
(* parser, and what the pump then acts on should be what was meant.        *)
(*                                                                         *)
(* A job of this module has two more fields: format, the parser that reads *)
(* its output, and meaning.                                                *)
(***************************************************************************)
EXTENDS CommandRunner, CommandOutput

\* What the command prints to say m.
Printed(format, m) ==
    CASE format = "changelists" -> PrintChangelists(m)
      [] format = "sync"        -> PrintSync(m)
      [] format = "status"      -> PrintStatus(m)
      [] format = "commit"      -> PrintCommit(m)

\* The string that run returns.
Output == SubSeq(job.text["out"], 1, copied["out"])

Reads(format) == pc = "returned" /\ job.format = format

-----------------------------------------------------------------------------
(* Properties                                                               *)

\* A pull sees the changelists that p4 listed, the oldest first, with their
\* numbers, authors, times and descriptions, even if a description looks like the
\* head of another changelist or has empty lines.
ChangelistsRead ==
    Reads("changelists") => ChangesBetween(Output) = [ok |-> TRUE, changes |-> job.meaning]

StagedBy(commands, names) ==
    UNION {{commands[i].args[k] : k \in DOMAIN commands[i].args} :
              i \in {i \in DOMAIN commands : commands[i].command \in names}}

PathsOf(changes, types) == {changes[i].path : i \in {i \in DOMAIN changes : changes[i].type \in types}}

\* However many files p4 sync reports, each of them is staged once: the deleted
\* ones with git rm, the others with git add, and no command takes more than ten.
SyncIsStaged ==
    Reads("sync") =>
        LET commands == Translate(ParseSync(Output)) IN
        /\ StagedBy(commands, {"rm"}) = PathsOf(job.meaning, {"DELETE"})
        /\ StagedBy(commands, {"add"}) = PathsOf(job.meaning, {"UPDATE"})
        /\ StagedBy(commands, {"add -f"}) = PathsOf(job.meaning, {"ADD"})
        /\ \A i \in DOMAIN commands : Len(commands[i].args) \in 1..GroupSize
        /\ FoldLeft(LAMBDA n, c : n + Len(c.args), 0, commands) = Len(job.meaning)


\* git status says of each file what is staged and what is not, blanks included.
StatusRead ==
    Reads("status") =>
        ParseStatus(Output) =
            [i \in DOMAIN job.meaning |->
                LET m == job.meaning[i] IN
                IF m.x = "?" THEN [staged |-> "none", unstaged |-> "none", name |-> m.name]
                ELSE [staged |-> IF m.x = " " THEN "none" ELSE m.x,
                      unstaged |-> IF m.y = " " THEN "none" ELSE m.y,
                      name |-> m.name]]

FirstParagraph(message) ==
    SelectInSeq(message, LAMBDA line : line = Blank)

\* A push opens in Perforce the files that its commit changed, each in its way, a
\* renamed one under both names, and takes over the message up to its first empty
\* line.
CommitRead ==
    Reads("commit") =>
        LET info == ParseCommit(Output)
            cut  == FirstParagraph(job.meaning.message)
        IN  /\ info.changes = job.meaning.changes
            /\ info.id = job.meaning.id
            /\ info.message = IF cut = 0 THEN job.meaning.message
                              ELSE SubSeq(job.meaning.message, 1, cut - 1)
=============================================================================
