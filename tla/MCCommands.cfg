\* Every format, with 0, 1, 9, 10, 11, 20 and 21 files added around the groups of
\* ten, and commands whose output and input are longer than the pipes.
SPECIFICATION FairSpec
CONSTANTS
    Job <- AllJobs
    Capacity = 2
CHECK_DEADLOCK FALSE
INVARIANTS TypeOK WholeOutput ChangelistsRead SyncIsStaged StatusRead CommitRead
PROPERTIES CommandEnds ClientReleased
