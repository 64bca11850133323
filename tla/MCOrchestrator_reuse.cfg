\* Draws may hit the id of a finished session that is still in the map.
SPECIFICATION Spec
CONSTANTS
    s1 = s1  s2 = s2
    i1 = i1  i2 = i2
    p1 = p1  p2 = p2
    None = None
    Session = {s1, s2}
    Id = {i1, i2}
    Poller = {p1, p2}
    Target <- HookPerSession
    Rare = {"id reuse"}
PROPERTY FinalStatusStays
