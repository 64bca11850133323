\* Two sessions, each with its hook: what must happen to a push, its hook and its
\* directory, and how long its status can be read.
SPECIFICATION FairSpec
CONSTANTS
    s1 = s1  s2 = s2
    i1 = i1  i2 = i2
    p1 = p1  p2 = p2
    None = None
    Session = {s1, s2}
    Id = {i1, i2}
    Poller = {p1, p2}
    Target <- HookPerSession
    Rare = {}
INVARIANT FoundHasDirectory
PROPERTIES FinalStatusStays PushAnswered HookReleased FinishedDirectoryDeleted
