\* A push of two commits, one of one, two Perforce users; pushes fail and conflict.
SPECIFICATION FairSpec
CONSTANTS
    f = f  g = g
    m = m  n = n  a = a  b = b  c = c
    p = p  q = q
    First = First
    None = None
    File = {f, g}
    Edit = {m, n, a, b, c}
    FileOf <- Crossed
    UserEdit = {m, n}
    Push = {p, q}
    Series <- DoubleAndOne
    Existing = {f}
    Rare = {"user fails"}
INVARIANTS TypeOK MirrorExact
PROPERTIES ImplementsBridge SubmittedIsMirrored PushConcluded
