\* A Perforce user submits between the pull and the submit of a push.
SPECIFICATION Spec
CONSTANTS
    f = f  g = g
    m = m  n = n  a = a  b = b  c = c
    p = p  q = q
    First = First
    None = None
    File = {f, g}
    Edit = {m, n, a, b, c}
    FileOf <- Crossed
    UserEdit = {m, n}
    Push = {p}
    Series <- Single
    Existing = {g}
    Rare = {"race"}
INVARIANT BothSidesKept
