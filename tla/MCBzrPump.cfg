\* A push that adds a file, of the conduit's own user, one of another user that changes
\* both files and one that brings nothing, a Perforce user, and two commands that fail
\* or crashes.
SPECIFICATION FairSpec
CONSTANTS
    f = f  g = g
    m = m  a = a  b = b  c = c
    p = p  q = q  r = r
    First = First
    None = None
    File = {f, g}
    Edit = {m, a, b, c}
    FileOf <- OnTwoFiles
    UserEdit = {m}
    Push = {p, q, r}
    EditsOf <- OneTwoNone
    Own = {p}
    Existing = {f}
    MaxTroubles = 2
INVARIANTS TypeOK MirrorExact
PROPERTIES ImplementsBridge Converges PushConcluded
