# scm-conduit: a verification project

scm-conduit hosts *conduits*: each mirrors a part of a Perforce depot in a git (or bzr)
repository that people clone and push to over SSH, and submits what they push to Perforce.
This directory holds TLA+ models of it, the TLC configurations that check them, and proofs for
TLAPS. All line numbers are of this repository.

1. [Inventory](#1-inventory)
2. [Modules and code](#2-modules-and-code)
3. [What the runs check](#3-what-the-runs-check)
4. [Fairness](#4-fairness)
5. [What is proved](#5-what-is-proved)
6. [Disagreements found](#6-disagreements-found)
7. [What is not modelled](#7-what-is-not-modelled)
8. [Plan](#8-plan)
9. [How to run](#9-how-to-run)

## 1. Inventory

### A push, from end to end

A user's `git push` goes to the SSH daemon of the conduit. At authentication the daemon asks the
orchestrator for a *session*: an id, a temporary directory, a clone of the conduit's repository
in it, and a post-receive hook. The push ends in that clone. The hook polls the server
(`GET /<conduit>/<id>`) every second. The first poll finds `WAITING_FOR_INPUT` and queues the push; the
conduit's pump thread takes it, has the pump merge and submit its commits, and stores how that
ended in the session; a later poll reads it, and the hook prints it. A cleanup thread removes
finished sessions. Between pushes the pump thread pulls from Perforce.

### Components

| Component | State | Operations | Hard | Correct when |
|---|---|---|---|---|
| `ConduitOrchestrator` (server) | `pushes` (id to session), `requestQueue`, `keepRunning` | `newSession`, `submitPush`, `popNextRequest`, `start`, `stop`, cleanup thread | four kinds of threads, few locks, wait/notify, id reuse | no accepted push is lost, run twice or run after its directory went; every push finishes |
| `CodeSubmissionSession` | `state`, `hadErrors`, `explanation`, `pushId`, directory | constructor, `inputReceived`, `markAsFinished`, `trash` | fields written one by one without a lock | the answers a hook gets are those of its push |
| `ConduitHttpResource`, `post-receive.py` | none | one handler per poll | check-then-act, lost and repeated polls | a push is submitted once; the hook is let go |
| `TempDirAllocatorImpl` | set of directories | `newTempDir`, `dispose` | called by two threads | what is disposed was allocated, once |
| `ConduitSshDaemon`, `Git/BzrSessionPrepStrategy` | the authenticated session | session at authentication, clone, hook | failures half-way | the session is known before a push ends in it |
| `GitToP4Pump` (pump) | git repository, p4 workspace, `.scm-conduit` | `pullChangesFromPerforce`, `pushChangesToPerforce`, `rollback`, `commit`, `forceSync`, `delete`, creation | dozens of external commands, any of which fails; Perforce users meanwhile; crashes | the mirror is exact; nothing submitted is lost; a failed push is undone |
| `Git2P4Translator`, `P42GitTranslator` | none | commit to p4 commands and back | adds, edits, deletes, moves | the commands do what the commit did |
| `BzrToP4Pump`, `Bzr2P4/P42Bzr` | the same with bzr, and a file with the pending changelist | the same | the same, and the rollback's file | the same |
| `P4Impl`, `P4Util`, `P4SyncOutputParser` | none | `changesBetween`, `doCommand`, parsing | text of another program, with texts of people in it | what is parsed is what p4 said |
| `PumpState` | `.scm-conduit` | read, write | written in place | the record is never torn |
| `GitStatus`, `GitRevisionInfo`, `BzrStatus` | none | parsing | columns, blanks, moves; what counts as clean | what is parsed is what git said; an interrupted pull is made good |
| `ConduitServerMain` | `conduits`, `creationThreads`, `ports.txt`, directories | create, delete, restart, port assignment | creation takes minutes and may fail anywhere; no locks; crash | what is listed is whole; a port stays with its conduit |
| `ShellCommand` (ssh) | a process and its three streams | `start`, `destroy`, the exit callback | threads that copy, a client that leaves, a command that cannot be started | the client gets the whole output and is told how the command ended |
| SSH file system (`NativeSshFile`) | none | path resolution for scp | | |
| stores and logs (`KeyValueStore`, `VFSResource`, `SelfResettingFileOutputStream`) | small files | get, put, append | size limit | what was put is read |
| `CommandRunnerImpl` (util) | a process and its streams | `run` | full pipes, the end of the process before the end of its output | what `run` returns is the whole output; a command that failed throws; no full pipe blocks it |
| `submit.py`, the status page's HTML and JavaScript | none | user's side | | |

### Interactions

- The SSH daemon, the HTTP handlers, the pump thread and the cleanup thread of one conduit share
  the orchestrator's fields and the sessions.
- The pump thread is the only one that calls the pump while the conduit runs; creation calls it
  before that thread is started, and deletion after `stop` has joined it.
- The pump shares the depot with Perforce users, and its branch with the sessions that clone it.
- A pump does everything by commands: it runs them with `CommandRunnerImpl` and decides from what
  the parsers make of their output. An SSH client's git or bzr runs by `ShellCommand`, with the same
  kind of copying threads.
- Conduits share the server's list, `ports.txt`, the port numbers and the name space of directories.

The behaviours that are hard, each at its line and with the properties that are about it, are the
`hazards` of `PROJECT.json`.

## 2. Modules and code

| Module | Models | Lines |
|---|---|---|
| `Orchestrator` | `ConduitOrchestrator`, `CodeSubmissionSession`, `ConduitHttpResource`, `post-receive.py`, `TempDirAllocatorImpl`, creation of sessions | detailed, concurrent |
| `PushService` | what a conduit promises to those who push | abstract, implemented by `Orchestrator` |
| `Bridge` | what a conduit promises to the people on its two sides | abstract, implemented by `GitPump` and by `BzrPump` |
| `GitPump` | `GitToP4Pump` with its translators, `P4Impl.changesBetween`, git, p4, and the people at both ends | sequential program against a concurrent world |
| `BzrPump` | `BzrToP4Pump` with its translators, `BzrStatus.isUnchanged`, bzr, p4, and the people at both ends | the same, with failures and crashes between any two commands |
| `CommandRunner` | `CommandRunnerImpl` and `ShellCommand`: the process, its pipes, the copying threads, the SSH client | concurrent |
| `CommandOutput` | what p4 and git print, and `P4Util`, `P4SyncOutputParser`, `P42GitTranslator`'s grouping, `GitStatus`, `GitRevisionInfo` | pure functions |
| `Commands` | `CommandRunner` with commands that print what `CommandOutput` parses | composition |
| `ConduitServer` | creation, deletion, ports and restart in `ConduitServerMain` | concurrent, with crashes |
| `OrchestratorProofs` | proofs about `Orchestrator`, and the proof that it implements `PushService`, with what it needs to know of each push | |
| `GitPumpProofs` | proofs about `GitPump`: its record, its types, and that its OK is true | |
| `BzrPumpProofs`, `CommandRunnerProofs`, `ConduitServerProofs` | proofs about the modules of these names | |
| `BzrBridgeProofs` | the proof that `BzrPump` implements `Bridge` | |
| `GitMirrorProofs` | the proof that the mirror of `GitPump` is exact | |
| `GitBridgeProofs` | the proof that `GitPump` implements `Bridge` | |
| `MCOrchestrator`, `MCGitPump`, `MCBzrPump`, `MCCommands`, `MCConduitServer` | the values of the constants that TLC checks | |

`GitPump` is what `Orchestrator` takes as one step per call: `PullSucceeds`/`PullFails` stand for
`Pull` of the pump, `PushChanges`, `Commit` and `Rollback` for the rest. `Orchestrator` is what
`ConduitServer` takes as "the pump thread runs" (`pumping`, `keepRunning`). And a command is a step
of `GitPump` and `BzrPump` because `Commands` shows that it ends with the whole output or an
exception, and that the output is understood. They are checked apart: composed, their product is out
of reach, and what they share is only these calls.

### Orchestrator

An atomic step is one access to a field that threads share, or one section under a lock; the
handler of a poll, for example, is `Lookup` (the map), `ReadState`, then `InputReceived` and
`SubmitPush`, or `ReadErrors` and `ReadExplanation`. `markAsFinished` is three steps, since it
writes three fields that a handler may read in between. `popNextRequest` and `wait` take the lock
one after the other, so that a `notify` can fall between them (`PopNothing`, `StartWaiting`).

- `pushes` is a function from ids to sessions; a session's state is spread over functions of the
  session, and `"NEW"` is one that is not created yet.
- Actions of the SSH daemon: `NewSession`, `NewSessionThrows`, `RacingPut`. `newSession` is
  `synchronized`, so it is one step but for the map, which the cleanup thread changes without the
  lock: `RacingPut` is the undefined outcome of two `HashMap` updates at once (one is lost), and of
  an iteration meanwhile (the cleanup thread dies of it).
- Actions of a hook: `StartHook`, `Lookup`, `GiveUp`. Of the handler: `ReadState` to
  `ReadExplanation`. Of the pump thread: `CheckKeepRunning` to `FinishExplanation`. Of the
  cleanup thread: `FindFinished` to `DisposeThrows`. `Stop` is the conduit's deletion.
- Left out: the orchestrator's own `state` and `error`, which only the status page shows.
- `executed` is a history variable, `told` the last answer each hook got.
- Rare events are switched on by the constant `Rare`, so that each run says what it includes:
  repeated ids, the map race, I/O failures, lost polls, deletion.

**Abstract specification.** `PushService` has a backlog and an outcome for each push: `Accept` and
`Settle`, in order, once. `Orchestrator` implements it under the mapping `Backlog` (the queue, and
before it the request being executed until it is marked finished) and `Outcome` (what the session's
fields, and before they are all written the pump thread's `verdict`, amount to). The premises are
one hook for each push and ids that do not repeat; without them it does not hold, since one
directory can then be submitted twice.

### GitPump

A file is the set of edits in it; the empty set is an absent file. A commit is a pair of functions
`from` and `to` on the files it changes, a branch is the set of the commits it contains, a
submitted changelist is a number and the depot's files after it. This is enough for what git and p4
do here to matter: merges, cherry-picking by patch identity, conflicts, checkouts that refuse to
overwrite, `reset --hard` that leaves untracked files, a have list that goes forward and backward,
submits that are refused or renumbered.

Every external command of the pump is one action, with the outcomes it has (`Sync`, `Stage`,
`CommitChange`, `TagChange`, `Record`, `Rebase`, `MergeRev`, `OpenFiles`, `Submit`, ...); between
any two of them Perforce users submit (`UserSubmits`) and git users clone (`SessionClones`).
`Thrown` is an exception: in the orchestrator's loop it only ends the pull; in a push it leads to
the rollback. `StartPull` to `Rebase` are `pullChangesFromPerforce`, which the loop runs and a push
runs again after each submit; `StartPush` to `NextRev` are `pushChangesToPerforce`; `ResetPush` is
its inner handler; `RevertOpened` and `ResetFiles` are `rollback`.

git, p4 and the people are external: they are modelled from the commands the pump gives and the
output it reads. `p4 changelists` lists the newest first (`Listed`), and `ChangesSince` turns the list
round as `changesBetween` does. Constant `Rare`: `"race"` lets Perforce users submit anywhere (without it they
submit between pushes, or to a file of the commit at hand, which Perforce then refuses); `"user
fails"` fails the translated commands and the submit, `"pump fails"` any command of the pump's own;
`"crash"` ends the process anywhere. The record `.scm-conduit` is written in one step.

### BzrPump

The representation is that of `GitPump`, without branches: bzr keeps one branch, whose last
revision is `tree`, the versioned files and a pending merge. The pump works in the order of the
code: `LookForChanges` to `Record` are `pullChangesFromPerforce` (sync, `bzr add` of what p4 said it
added, commit, record, one changelist after the other), `StartPush` to `WriteTemp` merge the push and
open its files in a changelist, whose number goes to `.scm-conduit-temp`; `Submit`, `CommitPush` and
`DeleteTemp` are `commit`; `RevertOpened` to `DropTemp` are `rollback`, which reads that file back.

A push is made with the Perforce credentials of its user (lines 305 and 217), but its rollback runs as
the conduit's own user, `p4ReadUser` (lines 192 and 197). `Own` are the pushes of that user, and
`foreign` the pending changelists of all others. Perforce does not let him delete those: then
`DropChangelist` ends the rollback, and leaves the changelist and `.scm-conduit-temp`. Whether
`p4 revert` takes back the files others have opened, the code does not tell; `RevertOpened` has both,
and where it does not, sets `hurt`, since nothing in the code takes them back later. If they are taken
back, what is left is an empty changelist and a file with its number. `MirrorExact` allows for them, and
shows that they leave the mirror alone; the next push writes its own number over that file.

Perforce users submit between any two commands, always. `CommandFails` and `Crash` may come at any
command, `MaxTroubles` times together. In four cases no later step of the code makes up for what
happened, and there the model sets `hurt`: the sync of a changelist added files that are not committed
yet (they are only named in p4's output) when a command fails or the server crashes; a command fails in
`commit` or in a rollback; the server crashes in a push after its merge; a rollback leaves files open.
From then on the properties claim nothing. Everything else is made good by the next pull, mostly since
`isUnchanged` ignores modified files, and the properties claim that it is.

### Bridge

The abstract specification of both pumps, in the terms of the people: `history`, the edits that are
in Perforce after each changelist; `taken`, how far the mirror has taken them over; `answer`, what
each push was told; `broken`. A changelist of a push brings exactly one part of it, once, after the
parts before it, while the push has no answer; nothing that is in Perforce is taken out. The mirror
takes one changelist after the other. Who is told OK finds all of the push in Perforce, who is told
that it failed does not find the end of it there. Once `broken`, a changelist of a push may leave
anything out that was in Perforce, and bring back what was left out before.

`BzrPump` implements it with a single part per push and `hurt` for `broken`. `GitPump` implements it,
without races and failures of its own commands, with a part per commit, and with `Carrying`: merged
commits are on `master`, which people clone, before Perforce has accepted them, so that a push can
bring what another one failed to submit. With `Carrying` switched off TLC finds such a push.

### CommandRunner, CommandOutput, Commands

A text is a sequence of pieces and a pipe holds `Capacity` of them. `Start` is `Runtime.exec` and the
start of three threads; `Prints`, `TakeInput`, `ExitWell` and `ExitBadly` are the process, which may
fail anywhere; `Copy` and `Feed` are `StreamConduit.run`, which dies of a write to a client that
left or a process that ended; `Join` and `WaitFor` are `ShellProcess.waitFor`. `Send`, `Close` and
`Leave` are an SSH client. Every step of every thread interleaves with every other.

`CommandOutput` has, for each of `p4 changelists -lt`, `p4 sync`, `git status -s` and
`git log --name-status`, a function from what is meant to what is printed, and the parser, line by
line, with its state. Lines are tuples of words or records of columns, as far as the parsers look. The
descriptions include those that a parser could trip over: empty lines, indented lines, lines that
look like the head of the next changelist.

`Commands` runs these commands in `CommandRunner` and states that what the pump makes of the output it
was given is what p4 or git meant. So `ChangelistsRead` and the others relate the two ends of a
chain of process, pipes, threads and parser.

### ConduitServer

On disk: a directory (`dir`: absent, empty, with a git repository, or with a `.scm-conduit`), a
Perforce workspace, a line of `ports.txt`. In memory: the list, the pump thread, the daemon on its
port. `AddConduit` to `Host` are `ConduitCreationThread.run` step by step, `Fail` is its catch
block, which deletes with the pump if there is one (`DeleteWorkspace`, `DeleteDirectory`);
`FindConduit` to `DeleteDirectory` is a `DELETE`; `StartServer`, `StartConduit`, `StartFails` and
`Serve` are `main` after a `Crash`. The *instance* of a conduit is the creation it came from, or
its name when a restart made it, so that a conduit made again is told from the one that was
deleted. As in the code, nothing stops the SSH daemon of a deleted conduit.

This is a git conduit; a bzr conduit differs in the order of its first commands. An addition to, or
a removal from, the server's list is one step.

## 3. What the runs check

`OneHookEach`, `HooksApart`, `Calm` and, in proofs, `EditsApart` and `EditsOnce` are the premises of properties that need them; the runs
that check those properties satisfy them.

| Run | Constants | Distinct states | Question |
|---|---|---|---|
| `hooks` | 2 sessions, 2 ids, a hook each; map race, I/O failures, lost polls, deletion | 1.1 million (up to symmetry of ids) | Is a push lost (`NoLostPush`), run twice (`PushedOnce`), run without its directory (`SourceKept`)? Are the answers about it (`AnswersAreOwn`)? Is this a push service (`ImplementsPushService`)? |
| `live` | 2 sessions, a hook each | 318,676 | Does every push that is `WORKING` finish (`PushAnswered`)? Do the hooks end (`HookReleased`), and are the directories deleted (`FinishedDirectoryDeleted`)? Can a session be found without its directory (`FoundHasDirectory`), or go before its time (`FinalStatusStays`)? |
| `reuse` | repeated ids | violation | `FinalStatusStays` |
| `pump` | pushes of 2 and 1 commits, 2 Perforce users, 2 files; commands fail | 66,901 | Is the mirror exact (`MirrorExact`)? Does the pump keep its promise to both sides (`ImplementsBridge`)? Does what users submit arrive (`SubmittedIsMirrored`), is every push answered (`PushConcluded`)? |
| `rough` | a push of 2 commits, 2 Perforce users; races, failures, crashes anywhere | 126,314 | Is the record sound (`SyncedIsTagged`, `NoChangelistSkipped`)? Is an OK true (`OkIsSubmitted`)? |
| `race` | 1 push; races | violation | `BothSidesKept` |
| `renamed` | 1 push; races | violation | `FinalChangelistTagged` |
| `stuck` | 2 pushes, one of which adds a file and edits it, a Perforce user, no race | violation | `PushConcluded` |
| `bzr` | pushes of a new file by the conduit's own user, of changes to 2 files by another and of nothing, a Perforce user at any time, 2 failures or crashes | 650,020 | Is the mirror exact (`MirrorExact`)? Does the pump implement `Bridge` (`ImplementsBridge`)? Does the mirror catch up (`Converges`), is every push answered (`PushConcluded`)? |
| `commands` | 38 commands of pumps and SSH clients, pipes of 2 pieces | 15,169 | Does the caller get all of the output (`WholeOutput`)? Is it understood (`ChangelistsRead`, `SyncIsStaged`, `StatusRead`, `CommitRead`)? Do commands end (`CommandEnds`), are SSH clients told so (`ClientReleased`)? |
| `server` | 2 names, 2 ports, 3 creations, 2 deletions; p4 fails, crashes | 106,706 | Is what is listed whole (`HostedIsWhole`)? Does anybody else work in its directory (`OneWorkerPerDirectory`)? Do ports stay (`PortsKept`)? Do deletions end (`DeletionEnds`)? |
| `twins` | 2 creations of one name | violation | `HostedIsWhole` |

Each module's `TypeOK` is checked in `hooks`, `pump`, `bzr`, `commands` and `server`. Every property that a run finds
true is also checked against a mutant of the code (`mutants` of `PROJECT.json`; the mutated
definitions stand above the ones they replace, marked "Mutant:"), which has to violate it.

**Why the bounds are enough.** In `Orchestrator` two sessions give all there is between pushes: one
executed, one queued behind it, either finished or cleaned up first; a third would only make the
queue longer. Two ids are one for each session, or one that is drawn again. Several
clients that poll for one push, and repeated ids with every other rare event, are in the theorem
`NothingLost`. The queue and `executed`
are not bounded but by the number of polls that find `WAITING_FOR_INPUT`. Nothing else counts. In
`GitPump` two files are one that both sides change and one that only one does, and both directions
of it, because the edits cross; a push of two commits has one that follows a submit. Change numbers
and commits are bounded by the edits, the pushes and the retries there are. In `ConduitServer` two
ports are one too few for three instances if ports were given back wrongly, and one name is made,
deleted, made again and deleted by two requests at once.

In `BzrPump` two troubles are one that interrupts something and one that interrupts its
repair; the three pushes differ in what the translator does with them (a file added, files edited,
no commit at all) and in whose they are, and the Perforce user's edit crosses one of their files. In `CommandRunner` what
counts is whether a pipe is empty, full or between, which 2 pieces and texts that are longer give;
two streams are all there are. The commands include each kind of line the parsers tell apart, alone
and next to another, and for `p4 sync` 9, 10, 11 and 20 files of a kind around the groups of ten.

Deadlock is checked in every run but three: the pump or the cleanup thread goes round for ever, and a
server can always crash and be started again. In `hooks` the race of the map can end the cleanup thread,
and then nothing is left to run in a conduit that was deleted; in `twins` the requests end and nothing follows, and in
`commands` a command ends; `CommandEnds` and `ClientReleased` say that it does not stop before.

## 4. Fairness

- `Orchestrator.FairSpec`: weak fairness of each handler that was called, of a polling hook's
  `Lookup`, of the pump thread and of the cleanup thread. These are threads the operating system
  runs, and the hook polls in a loop. A waiting pump thread wakes after five seconds at the latest
  (`WaitTimesOut`), which is why a lost `notify` does not matter. Nobody has to push. Pulls may fail
  for ever, and then the code never looks at the queue; the liveness of pushes has
  `PerforceRecovers` as its premise: the conduit is not deleted, and again and again a pull gets
  through.
- `GitPump.FairSpec`: weak fairness of the pump's steps as a whole, for the same reason. Which outcome
  a command has is not subject to fairness.
- `BzrPump.FairSpec`: the same as `GitPump.FairSpec`. A command that fails is not something that must
  happen, and `MaxTroubles` bounds how often it does.
- `CommandRunner.FairSpec`: weak fairness of the calling thread, of each copying thread, of the
  process (it goes on when it can; it need not fail) and of an SSH client that stays.
- `ConduitServer.FairSpec`: weak fairness of each thread that creates or deletes, and of the pump
  thread that was told to stop. Nobody has to ask for anything, and a server that crashed need not
  be started again.

## 5. What is proved

For all values of the constants that satisfy `ConstantsAssumption` or, of `CommandRunner`,
`JobAssumption` (which say what the constants are: an edit is of one file, no edit belongs to two
pushes, ports are numbers), machine-checked by TLAPS. A theorem with a premise has it as a
hypothesis; it is the one the property has, or its run satisfies.

| Theorem | States | Inductive invariant |
|---|---|---|
| `TypeCorrect` | `Spec => []TypeOK` of `Orchestrator` | `TypeInv`: a handler has a session that exists, a hook that polls has an id, mapped and queued sessions are created, the pump thread past `pop` has a request. `TypeOK` alone is not inductive: `pushes[id[s]]` needs an id to be one. |
| `NothingLost` | `Spec => []NoLostPush` | `TypeInv /\ NoLostPush`. Any number of sessions, ids and clients per session, and every rare event: a `WORKING` push is queued, executed, or about to be submitted. |
| `FoundSessionsHaveDirectories` | `Spec => []FoundHasDirectory` | `CleanInv` with `TypeInv`: the map's keys are the ids of its sessions, so that removing by id removes the victim; between removal and deletion the victim is in no map. Repeated ids included, the map race excluded. |
| `FinalStatusStaysForHooks` | `Spec => FinalStatusStays`, ids that do not repeat | `IdInv`: no two sessions were given one id, so that a `put` replaces nobody's entry and a removal by id removes that session; the cleanup thread lists only sessions that got as far as their id. |
| `PushesExecutedOnce` | `Spec => []PushedOnce`, a hook each and ids that do not repeat | `OnceInv`: the session a poll found is its hook's; between the `WAITING_FOR_INPUT` that was read and the `addLast` it is in no queue (`HandlersInStep`); queue and `executed` repeat nothing and share only what the pump thread has at hand; what is finished was executed. |
| `SourcesKept` | `Spec => []SourceKept`, the same premise | `OnceInv`: the victims are finished, and what is finished is not queued. |
| `AnswersOwned` | `Spec => []AnswersAreOwn`, the same premise | `AnswerInv`: what is stored, what a handler has read and what a hook was told come from the `verdict` of its own push, also while `markAsFinished` is between two of its writes. |
| `ConduitIsPushService` | `Spec => ImplementsPushService`, the same premise | `TypeInv`, `OnceInv` and `AnswerInv`: `SubmitPush` is `Accept`, `FinishState` is `Settle` of the oldest, every other action is a stutter, since the `verdict` stands for the fields of the session that are not written yet. |
| `RunnerTypeCorrect` | `Spec => []TypeOK` of `CommandRunner` | `TypeOK` itself, in its three parts: control, output, input. |
| `OutputIsWhole` | `Spec => []WholeOutput` of `CommandRunner` | `WholeInv`: a copying thread ended when the process had exited and nothing was left in the pipe (`EndedIsDrained`), or died because the client left (`DiedIsGone`); exit code 0 means everything was printed (`GoodExit`); and a caller past a join has found that thread at its end (`PastJoins`). Any commands, texts, inputs and pipe sizes. |
| `ServerTypeCorrect` | `Spec => []TypeOK` of `ConduitServer` | `TypeOK` itself. |
| `ConduitsKeepPorts` | `Spec => PortsKept` | `TypeOK`. Any number of names, ports, creations and deletions, twins and crashes included. |
| `ServerCorrect`, `ListedIsWhole`, `NobodySharesADirectory` | `Spec => []HostedIsWhole` and `Spec => []OneWorkerPerDirectory`, no two creations of one name at once | `ServerInv`: what each creation (`CreationKnows`), deletion (`DeletionKnows`) and restart relies on at its step; one port for each name, and the daemon that has it is the first that came (`FirstDaemons`); what is listed is `Hosted`, and a creation that fails cleans up only what it made. |
| `RecordHasTag` | `Spec => []SyncedIsTagged` of `GitPump` | `TagInv`: and a pump about to record a number has its tag, since no tag is ever taken away. Any files, pushes, users, failures, races and crashes. |
| `NothingSkipped` | `Spec => NoChangelistSkipped` of `GitPump` | `OrderInv`: changelists are numbered in order, and while a pull lasts `newStuff` holds the numbers of those right after the record, oldest first, which stays so when Perforce users submit more. |
| `GitTypeCorrect` | `Spec => []TypeOK` of `GitPump` | `TypeInv`: with `OrderInv`, commits are a sequence whose contents assign to files, a push under way has a commit left to take over, and a number about to be tagged is that of a changelist. |
| `OkMeansSubmitted` | `Spec => []OkIsSubmitted` of `GitPump`, if `EditsApart` | `TypeInv /\ Delivery`: until a push merges an edit, the edit is in no file, tag, branch, changelist or other clone, but in its session's commits from one on (`Kept`, `Born`), which `revs` still lists (`Due`); then it is in the file that is opened (`Merged`), and after the submit in Perforce. Any pushes, races, failures and crashes. |
| `MirrorIsExact` (`GitMirrorProofs`) | `Spec => []MirrorExact` of `GitPump` in calm runs | `TypeInv /\ Mirrors`: the commits of a branch build on one another (`Linked`); a tag has the files of its changelist (`TagsExact`), and every changelist of the past has one or is the user's that is still to come (`TagsOrUsers`, `TagsTaken`); and for each step of a pull, a push or a rollback, what the branch, index, files, have list and open files are (`Phase`). |
| `GitPumpIsBridge` | `Spec => ImplementsBridge` of `GitPump`, in calm runs, if `EditsOnce` | `CalmInv`: `TypeInv`, `Mirrors`, `Delivery`, and `BridgeInv`: each commit after the first brings one edit, and those of a push are its session's, in their order (`Authored`); what master or a clone has is in the mirror or of a push (`Imported`); a branch has a part of a push only with the parts before it (`BranchesClosed`); who was told ok has his commits in master (`Told`); the commit at hand is not in the tag on record (`Ahead`); and once the last part of a push is in Perforce, nothing can fail any more (`LastOut`). |
| `BzrTypeCorrect` | `Spec => []TypeOK` of `BzrPump` | `BaseInv`: with it, changelists are numbered in order, the record and the workspace are at numbers that exist, and at each step the pump has the number it works on (`AtStep`). |
| `MirrorIsExact` (`BzrPumpProofs`) | `Spec => []MirrorExact` of `BzrPump` | `SoundInv`: until `hurt`, for each step of the pump, what the branch, the files, the workspace, the pending merge and the open files are, failures and crashes at that step included; and that between pushes `.scm-conduit-temp` is gone or has the number of another user's changelist (`TempLeft`). Pushes of any users. |
| `BzrPumpIsBridge` | `Spec => ImplementsBridge` of `BzrPump` | `BridgeInv`: `BaseInv` and `SoundInv`; nothing is anywhere that was not in Perforce once or is of the push at hand (`KnownInv`), in its own file (`Homed`); what is of a push that was not accepted was never in Perforce (`Fresh`); and until `hurt` no changelist takes anything out, a clone has no more than its base and the push's edits, and what is opened is made on the files as they are in Perforce (`GrowsInv`). |

Each proof has one lemma for each group of actions and one case for each action. Arguments about
sorted numbers and repetitions are lemmas about sequences, stated once. What `GitPump` builds commit by
commit (`Ascending`, `Rebased`) is a recursive function, and its type is shown by the least number at
which it would fail, as no induction rule can be instantiated. The proof of
`BzrPumpIsBridge` maps each action to the one of `Bridge` it stands for (`UserMaps`, `SubmitMaps`,
`FailedMaps`, `RecordMaps`, `PushMaps`, `TroubleMaps`). It showed that `Bridge` had asked too much of a
broken conduit: a push after `hurt` can bring back what an earlier one had taken out, so that what is
in Perforce then is some of all that ever was there, and not of what was there last.

`MirrorIsExact` of `GitPump` is about calm runs, since the property is: `MirrorExact` has `Calm` as its
premise, and the runs `race` and `renamed` show what becomes of the mirror without it. Its argument
is about merges. A commit of a push is merged into a `master` that is not its author's, and
commits get into a branch in another order than the one they were made in. But git merges without a
conflict only where each file of the commit is as its author had it, so that in every branch the
commits of a file build on one another (`Built`), the files of a branch are the last ones in it
(`TreeHolds`), and merging one commit changes just its own files, to what the author made of them
(`MergeBuilds`): those are opened, submitted and tagged. The branch a push leaves is then the tag of
the last changelist. The proof attempt showed that this is not so of the working tree. Where a push
is rolled back after the first of its commits was submitted, an untracked file may stay, equal to
Perforce's, which the next checkout refuses to overwrite; so between pulls `Resting` allows for it.
`MirrorExact` holds, as no pull succeeds any more. That is finding 5, which the run `pump` does not
meet, because the two commits of its push are of different files.

`GitPumpIsBridge` turns the refinement into questions about commits. `Mirrors` says that what is submitted
is what merging one commit makes of Perforce's files. `Authored` says that this is one edit more: it is
taken from nobody, and it was not there before, as its file did not have it for the commit's author. So a
submit is `AcceptPart` if that edit is a part of the push at hand, or of one that failed, and the parts
before it are there. The commit is in the clone of the session that pushes (`BroughtBy`); it is not in the
tag on record (`Ahead`), hence not of a push that was told ok, nor of one that waits, whose edits nobody
has (`Delivery`). That a user may clone what a push left in master and bring it later is what `Carrying`
allows, and `BranchesClosed` why he brings the earlier parts first. A push that is told `failed` does not
have its last part in Perforce (`LastOut`), since after that submit a calm run has nothing left that can
fail. Its premises are needed: without `Calm` a user's change is lost (`race`) and a submitted push is
reported as failed (`renamed`); and `EditsOnce`, that no push has the same part as another or twice, is
how `Bridge` tells whose part it sees. `BridgeInv` was model-checked in `pump` and in the constants of
`stuck` before it was proved.

`OkMeansSubmitted` has a premise, that no two pushes make the same edit, and needs it. If two do, a
crash after the merge of the first leaves its commit in master without a changelist; the second clones
that, its commit changes nothing, and its push succeeds although Perforce never gets the edit. With
edits of its own a push is told the truth even then, whatever the working tree was left like: `git merge`
must write the file, since no branch had the edit before.

Only model-checked:

- what is beyond the prover: the liveness properties (`PushAnswered`, `HookReleased`,
  `FinishedDirectoryDeleted`, `SubmittedIsMirrored`, `PushConcluded`, `Converges`, `CommandEnds`,
  `ClientReleased`, `DeletionEnds`), and what the parsers make of a text (`ChangelistsRead`,
  `SyncIsStaged`, `StatusRead`, `CommitRead`), since they are folds over lines of any number.

## 6. Disagreements found

`PROJECT.json` has each with the lines on both sides.

1. **An id is reused while its hook still waits** (`reuse`). `findAvailableId` takes any id whose
   session is finished, and the new session replaces one whose final status nobody has fetched,
   though the cleanup thread lets it "sit around for while".
2. **A race with a Perforce user undoes a file** (`race`). The user submits between the pull and the
   submit of a push that adds a file: the pull inside the push syncs the workspace backward, `git rm`
   of an untracked file fails, and the user's change never gets to the mirror.
3. **A renumbered changelist is tagged `cl()`** (`renamed`), and a second one cannot be tagged at
   all, so that a push that was submitted is reported as failed.
4. **Two creations of one name** (`twins`): the second deletes the workspace and the directory of
   the first.
5. **A failed push leaves the conduit stuck** (`stuck`). The first commit of a push adds a file and is
   submitted, the second edits it and is refused: `git reset --hard` takes the file away, `p4 revert`
   writes it back, and git, which does not track it, neither removes it nor overwrites it, so that every
   later pull fails at its checkout. The test of a refused push says "The conduit should be left in a
   working state".

Model-checking also showed states which no document speaks of, and which are described by premises
or exceptions of the properties: a poll between the writes of `markAsFinished` gets OK for a push
that failed (`AnswersAreOwn` allows it); a push of several commits that fails half-way leaves the
first ones in Perforce (`Bridge` only asks for the last one); a bzr push whose `bzr commit` fails is in
Perforce and reported as failed, and the other cases of `hurt`; after a refused bzr push of anybody but
the conduit's own Perforce user, `changelist -d` (BzrToP4Pump.scala:197) throws, so that the changelist
and `.scm-conduit-temp` stay (the git pump's rollback uses the user's credentials, as
`rollbackShouldRemoveTheUsersPendingChangelistAndRollbackTheirFiles` tests; the tests of the bzr pump
have one user for everything), and the user's files may stay open; a command that asks for something on
its standard input hangs, since nobody closes it (`Starved`); the exit callback of an SSH command that
cannot be started is never called (`"silent"`), and a process whose SSH client left can block on a full
pipe for ever; a path with a blank is cut in `GitRevisionInfo` (`CommitRead` is about paths without); a
creation that fails after its pump was started leaves
the pump running in a deleted directory (`LeftBehind`); a crash leaves directories that stop every
further start of the server (`StartFails`); a crash while `ports.txt` is rewritten loses the ports
(`PortsKept` is about a server that lives on); two clients that poll for one session can submit it twice
(`PushedOnce` has one hook for each push); and pushes that are queued when their conduit is deleted are
abandoned, with their hooks. The hazards behind these states have no property in `PROJECT.json`, or
only for the part that holds, and a note that says so.

## 7. What is not modelled

- In `BzrPump`: creation and deletion of a conduit, renames, kinds and executable bits of files, the
  text of messages (a `$` in one makes `replaceAll` of line 336 throw). What Perforce does with a file
  that two users open in one workspace: it can only happen after `hurt`, where nothing is claimed, and
  the model lets the second open it too. Bzr conduits in `ConduitServer`.
- `NativeSshFile` and `SshFsView`, copies of the SSH library's; `FilesOnDiskKeyValueStore` (a file per
  key), `SelfResettingFileOutputStream` (a log that is truncated at five megabytes) and `VFSResource`:
  no state but files, and nothing that several of their calls could get wrong together.
- `P4DescribeOutputParser`, which only its test calls, `P4Time`, and the texts of command lines.
- In `GitPump`: `forceSync` (called by nothing in the server), `initialSync` command by command,
  moves, the text of descriptions and their dates, torn writes of `.scm-conduit`.
- In `ConduitServer`: `creationThreads`, the status pages, the users' secrets, static files. In
  `Orchestrator`: `state` and `error`.
- The races inside `HashSet` and `ArrayList` other than the map's.
- In `CommandRunner`: the log of commands with its hidden passwords, the character encoding, the
  rewriting of an SSH client's command line.
- SSH protocol, authentication, HTTP server, `submit.py`, the web pages, vendored JavaScript.

## 8. Plan

In this order, the most important behaviour first:

1. `Orchestrator`, `PushService`, `GitPump`, `ConduitServer`, with first theorems: done.
2. `Bridge`, and that `GitPump` and `BzrPump` implement it: done.
3. `CommandRunner`, `CommandOutput`, `Commands`, with `OutputIsWhole`: done.
4. Theorems: the service to pushes, the server and the bzr pump, each with its invariants and
   refinement, and the types and the order of `GitPump`'s record: done, and so are what
   its OK means, that its mirror is exact and that it implements `Bridge`.
5. `PumpState` with torn writes, `forceSync` of `GitPump`, creation of bzr conduits in
   `ConduitServer`.

## 9. How to run

    tlc -config MCOrchestrator_hooks.cfg MCOrchestrator
    tlc -config MCGitPump_calm.cfg MCGitPump
    tlc -config MCBzrPump.cfg MCBzrPump
    tlc -config MCCommands.cfg MCCommands
    tlc -config MCConduitServer_server.cfg MCConduitServer
    tlapm OrchestratorProofs.tla
    tlapm GitPumpProofs.tla
    tlapm GitMirrorProofs.tla
    tlapm GitBridgeProofs.tla
    tlapm BzrPumpProofs.tla
    tlapm BzrBridgeProofs.tla
    tlapm CommandRunnerProofs.tla
    tlapm ConduitServerProofs.tla

and so on: the configuration of a run is in `PROJECT.json`, next to its module. The longest run takes
a few minutes, and so do the proofs of each module; the longest, `GitMirrorProofs`, about eight.
