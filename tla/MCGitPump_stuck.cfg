\* The first commit of a push adds a file, the second one edits it and is refused.
SPECIFICATION FairSpec
CONSTANTS
    f = f  g = g
    m = m  n = n  a = a  b = b  c = c
    p = p  q = q
    First = First
    None = None
    File = {f, g}
    Edit = {m, n, a, b, c}
    FileOf <- Crossed
    UserEdit = {m}
    Push = {p, q}
    Series <- AddAndEdit
    Existing = {g}
    Rare = {"user fails"}
PROPERTY PushConcluded
