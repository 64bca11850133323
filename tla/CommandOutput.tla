--------------------------- MODULE CommandOutput ----------------------------
(***************************************************************************)
(* What p4 and git print, and what the conduit reads out of it. A text is  *)
(* a sequence of lines. A line is a sequence of the words and blanks that  *)
(* its parser tells apart; names and messages are words.                   *)
(*                                                                         *)
(* Each format has a Print... of what the command means, after the         *)
(* commands' real outputs in the tests, and the parser of the code.        *)
(***************************************************************************)
EXTENDS Naturals, Sequences, SequencesExt

Failed == [failed |-> TRUE]

Blank == <<>>
Spaces == {" ", "\t", "    "}

-----------------------------------------------------------------------------
(* p4 changelists -lt: the newest changelist first, its description         *)
(* indented by a tab.                                                       *)

PrintChangelist(c) ==
    << <<"Change", c.num, c.when, c.who>>, Blank >>
    \o [i \in DOMAIN c.description |-> <<"\t">> \o c.description[i]]
    \o << Blank >>

PrintChangelists(changes) == FlattenSeq(Reverse([i \in DOMAIN changes |->
                                                    PrintChangelist(changes[i])]))

StartsWith(line, word) == line # <<>> /\ Head(line) = word

\* Mutant: a description that speaks of a change is taken for the next one.
HasChange(line) == \E i \in DOMAIN line : line[i] = "Change"

IsChange(line) == StartsWith(line, "Change")

Described(c, line) == [c EXCEPT !.description = Append(@, Tail(line))]

\* One line of parseChangesFromLongPlusTimeFormat: the head of a changelist, the
\* empty line that must follow it, or a line of its description.
ParseLine(at, line) ==
    IF at.expects = "empty" THEN [at EXCEPT !.expects = "body", !.ok = @ /\ line = Blank]
    ELSE IF IsChange(line)
    THEN [at EXCEPT !.expects = "empty", !.changes = Append(@,
             [num |-> line[2], when |-> line[3], who |-> line[4], description |-> <<>>])]
    ELSE IF at.expects = "change" THEN [at EXCEPT !.ok = FALSE]
    ELSE IF StartsWith(line, "\t")
    THEN [at EXCEPT !.changes[Len(at.changes)] = Described(@, line)]
    ELSE at

\* changesBetween: the list is turned around.
ChangesBetween(text) ==
    LET end == FoldLeft(ParseLine, [ok |-> TRUE, expects |-> "change", changes |-> <<>>], text)
    IN [ok |-> end.ok /\ end.expects # "empty", changes |-> Reverse(end.changes)]

-----------------------------------------------------------------------------
(* p4 sync: a line for every file, and how P42GitTranslator stages them     *)

PhraseOf == [UPDATE |-> " - updating ", ADD |-> " - added as ", DELETE |-> " - deleted as "]
ChangeTypes == <<"UPDATE", "ADD", "DELETE">>

PrintSync(changes) ==
    [i \in DOMAIN changes |->
        <<"//depot/">> \o changes[i].path \o <<"#", changes[i].version>>
        \o <<PhraseOf[changes[i].type]>> \o changes[i].path]

IndexOf(line, word) == Min({i \in DOMAIN line : line[i] = word})

\* P4SyncOutputParser.parse: the first of the phrases that is in a line decides,
\* what follows the last # before it is the version, and a line without a phrase
\* is passed over.
SyncLine(line) ==
    LET found == SelectSeq(ChangeTypes, LAMBDA t : Contains(line, PhraseOf[t])) IN
    IF found = <<>> THEN <<>>
    ELSE LET at   == IndexOf(line, PhraseOf[Head(found)])
             hash == Max({i \in 1..at : line[i] = "#"})
         IN << [type |-> Head(found), version |-> line[hash + 1],
                path |-> SubSeq(line, at + 1, Len(line))] >>

ParseSync(text) == FlattenSeq([i \in DOMAIN text |-> SyncLine(text[i])])

\* Mutant: the last group is dropped if it is not full.
FullGroups(s, size) ==
    [i \in 1..(Len(s) \div size) |-> SubSeq(s, (i - 1) * size + 1, i * size)]

Grouped(s, size) ==
    [i \in 1..((Len(s) + size - 1) \div size) |->
        SubSeq(s, (i - 1) * size + 1, IF i * size < Len(s) THEN i * size ELSE Len(s))]

GroupSize == 10

\* P42GitTranslator.translate: git rm and git add as the changes come, then git
\* add -f of what was added, ten files at a time.
Translate(changes) ==
    LET paths(s) == [i \in DOMAIN s |-> s[i].path]
        adds == paths(SelectSeq(changes, LAMBDA c : c.type = "ADD"))
        rest == SelectSeq(changes, LAMBDA c : c.type # "ADD")
        groups == Grouped(adds, GroupSize)
    IN  [i \in DOMAIN rest |->
            [command |-> IF rest[i].type = "DELETE" THEN "rm" ELSE "add",
             args |-> <<rest[i].path>>]]
        \o [i \in DOMAIN groups |-> [command |-> "add -f", args |-> groups[i]]]

-----------------------------------------------------------------------------
(* git status -s: two letters, a blank, and the name                        *)

PrintStatus(entries) ==
    [i \in DOMAIN entries |-> <<entries[i].x, entries[i].y, " ">> \o entries[i].name]

Codes == {"A", "M", "D", "U", "none"}

\* Mutant: what is staged does not matter.
UnstagedAtAll(line) == line[2] # " " /\ line[3] = " "

StagedOnly(line)   == line[2] = " " /\ line[3] = " "
UnstagedOnly(line) == line[1] = " " /\ line[2] # " " /\ line[3] = " "
StagedAndNot(line) == line[3] = " " /\ line[4] # " "
StagedTrimmed(line) == line[2] = " " /\ line[3] # " " /\ line[4] # " "

\* GitStatus: two question marks, or the patterns X__, _X_, XX_ and X_, in this
\* order. Codes it does not know, of renamed files for one, it refuses.
StatusLine(line) ==
    LET entry(staged, unstaged, from) ==
            IF {staged, unstaged} \subseteq Codes
            THEN [staged |-> staged, unstaged |-> unstaged, name |-> SubSeq(line, from, Len(line))]
            ELSE Failed
    IN  IF line[1] = "?" /\ line[2] = "?" /\ line[3] = " " THEN entry("none", "none", 4)
        ELSE IF Len(line) < 4 THEN Failed
        ELSE IF StagedOnly(line) THEN entry(line[1], "none", 4)
        ELSE IF UnstagedOnly(line) THEN entry("none", line[2], 4)
        ELSE IF StagedAndNot(line) THEN entry(line[1], line[2], 4)
        ELSE IF StagedTrimmed(line) THEN entry(line[1], "none", 3)
        ELSE Failed

ParseStatus(text) == [i \in DOMAIN text |-> StatusLine(text[i])]

-----------------------------------------------------------------------------
(* git log --name-status of one commit                                      *)

PrintCommit(c) ==
    << <<"commit ", c.id>>, <<"Author:", c.author>>, <<"Date:", c.date>>, Blank >>
    \o [i \in DOMAIN c.message |-> <<"    ">> \o c.message[i]]
    \o << Blank >>
    \o [i \in DOMAIN c.changes |->
           <<c.changes[i].kind>>
           \o (IF c.changes[i].kind = "R" THEN <<"100">> ELSE <<>>)
           \o <<"\t">> \o c.changes[i].path
           \o (IF c.changes[i].kind = "R" THEN <<"\t">> \o c.changes[i].destPath ELSE <<>>)]

IsEmptyLine(line) == \A i \in DOMAIN line : line[i] \in Spaces

TrimLeft(line) == SubSeq(line, Min({i \in DOMAIN line : line[i] \notin Spaces}), Len(line))

\* GitRevisionInfo: the message is read from the first empty line to the second,
\* and what is neither a header nor indented is a change.
LogLine(at, line) ==
    IF StartsWith(line, "Author:") THEN [at EXCEPT !.author = line[2]]
    ELSE IF StartsWith(line, "commit ") THEN [at EXCEPT !.id = line[2]]
    ELSE IF StartsWith(line, "Date:") THEN [at EXCEPT !.date = line[2]]
    ELSE IF IsEmptyLine(line) THEN [at EXCEPT !.blanks = @ + 1]
    ELSE IF ~StartsWith(line, "    ") THEN [at EXCEPT !.text = Append(@, line)]
    ELSE IF at.blanks = 1 THEN [at EXCEPT !.message = Append(@, TrimLeft(line))]
    ELSE at

\* The words of a change between blanks: what kind it is, and one path or two.
Words(line) ==
    LET starts == {i \in DOMAIN line : line[i] \notin Spaces /\
                                       (i = 1 \/ line[i - 1] \in Spaces)}
        end(i) == CHOOSE j \in i..Len(line) :
                     /\ \A k \in i..j : line[k] \notin Spaces
                     /\ j = Len(line) \/ line[j + 1] \in Spaces
        order == SetToSortSeq(starts, <)
    IN [k \in DOMAIN order |-> SubSeq(line, order[k], end(order[k]))]

\* Mutant: a file keeps its name.
ChangeInPlace(line) ==
    [kind |-> line[1], path |-> Words(line)[2], destPath |-> <<>>]

ChangeOf(line) ==
    LET words == Words(line) IN
    [kind |-> line[1],
     path |-> words[2],
     destPath |-> IF Len(words) > 2 THEN words[3] ELSE <<>>]

ParseCommit(text) ==
    LET end == FoldLeft(LogLine, [author |-> "", id |-> "", date |-> "", blanks |-> 0,
                                  message |-> <<>>, text |-> <<>>], text)
    IN [id |-> end.id, author |-> end.author, date |-> end.date, message |-> end.message,
        changes |-> [i \in DOMAIN end.text |-> ChangeOf(end.text[i])]]
=============================================================================
