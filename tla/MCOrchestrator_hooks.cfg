\* Two pushes, each with its hook, whatever happens but for ids that repeat. Everything
\* stops when the conduit was deleted after the race had ended the cleanup thread.
SPECIFICATION Spec
CONSTANTS
    s1 = s1  s2 = s2
    i1 = i1  i2 = i2
    p1 = p1  p2 = p2
    None = None
    Session = {s1, s2}
    Id = {i1, i2}
    Poller = {p1, p2}
    Target <- HookPerSession
    Rare = {"lost poll", "deletion", "map race", "io failure"}
SYMMETRY IdSymmetry
INVARIANTS TypeOK NoLostPush PushedOnce SourceKept AnswersAreOwn
PROPERTY ImplementsPushService
CHECK_DEADLOCK FALSE
