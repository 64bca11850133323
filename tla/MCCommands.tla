----------------------------- MODULE MCCommands -----------------------------
(***************************************************************************)
(* The commands that TLC runs.                                             *)
(***************************************************************************)
EXTENDS Commands

Text(out, err) == [s \in Stream |-> IF s = "out" THEN out ELSE err]
Lines(n) == [i \in 1..n |-> <<"line">>]

-----------------------------------------------------------------------------
(* Commands that are read                                                   *)

Reading(format, meaning, err) ==
    LET out == Printed(format, meaning) IN
    [caller |-> "pump", text |-> Text(out, err), hasInput |-> FALSE, input |-> <<>>,
     reads |-> 0, before |-> [i \in DOMAIN out |-> 0],
     format |-> format, meaning |-> meaning]

Change(num, description) ==
    [num |-> num, when |-> "a day", who |-> "joe", description |-> description]

Changelists ==
    { <<>>,
      << Change("2", << <<"one">> >>) >>,
      << Change("2", << <<"Change", "1", "undone">>, <<>>, <<"\t", "two">> >>) >>,
      << Change("2", << <<"one">> >>), Change("3", << <<"Change", "2", "again">> >>),
         Change("5", << <<"a">>, <<"b">> >>) >> }

Digits == <<"0", "1", "2", "3", "4", "5", "6", "7", "8", "9">>
Path(i) == <<Digits[(i \div 10) + 1], Digits[(i % 10) + 1], "#">>

File(type, i) == [type |-> type, version |-> "7", path |-> Path(i)]
Files(type, n) == [i \in 1..n |-> File(type, i)]

Syncs ==
    {Files("ADD", n) : n \in {0, 1, 9, 10, 11, 20, 21}}
    \cup {<<File("DELETE", 31), File("UPDATE", 32)>> \o Files("ADD", 10) \o <<File("DELETE", 33)>>}

Entry(x, y) == [x |-> x, y |-> y, name |-> <<"a">>]

Statuses ==
    {<<Entry(x, y)>> : x \in {"A", "M", "D"}, y \in {" ", "M", "D"}}
    \cup {<<Entry(" ", y)>> : y \in {"M", "D"}}
    \cup {<<Entry("?", "?"), [x |-> "U", y |-> "U", name |-> <<"b", ".", "c">>]>>, <<>>}

OfCommit(message, changes) ==
    [id |-> "1a2b", author |-> "joe", date |-> "a day", message |-> message,
     changes |-> changes]
Changed(kind) == [kind |-> kind, path |-> <<"a", ".", "b">>, destPath |-> <<>>]
Renamed == [kind |-> "R", path |-> <<"a">>, destPath |-> <<"b", "b">>]

Messages == { << <<"one">> >>, << <<"one">>, <<"two">> >>, << <<"one">>, <<>>, <<"two">> >>,
              << <<"Author:", "me">>, <<>>, <<"commit ", "it">>, <<>> >> }
Commits == {OfCommit(m, c) : m \in Messages,
                             c \in { << Changed("M") >>, << Renamed, Changed("D"), Changed("A") >> }}

-----------------------------------------------------------------------------
(* Commands that read, fill their pipes, and are run for SSH clients        *)

Other(caller, out, err, hasInput, input, reads, before) ==
    [caller |-> caller, text |-> Text(Lines(out), Lines(err)), hasInput |-> hasInput,
     input |-> Lines(input), reads |-> reads, before |-> before,
     format |-> "none", meaning |-> <<>>]

Others ==
    { \* more of errors than a pipe holds, before anything else is printed
      Other("pump", 1, 3, FALSE, 0, 0, <<0>>),
      \* p4 client -i: read to the end, then speak
      Other("pump", 1, 1, TRUE, 3, 4, <<4>>),
      \* a command that asks on its standard input
      Other("pump", 1, 0, FALSE, 0, 1, <<0>>),
      \* git-receive-pack: a conversation, and an input that goes on
      Other("ssh", 3, 1, TRUE, 3, 2, <<0, 1, 2>>),
      \* bzr serve: it ends when the client hangs up
      Other("ssh", 3, 0, TRUE, 2, 3, <<1, 2, 2>>) }

AllJobs ==
    {Reading("changelists", m, <<>>) : m \in Changelists}
    \cup {Reading("sync", m, <<>>) : m \in Syncs}
    \cup {Reading("status", m, Lines(1)) : m \in Statuses}
    \cup {Reading("commit", m, <<>>) : m \in Commits}
    \cup Others
=============================================================================
