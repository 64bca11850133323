\* The changelist of a push gets a new number when it is submitted.
SPECIFICATION Spec
CONSTANTS
    f = f  g = g
    m = m  n = n  a = a  b = b  c = c
    p = p  q = q
    First = First
    None = None
    File = {f, g}
    Edit = {m, n, a, b, c}
    FileOf <- Crossed
    UserEdit = {m, n}
    Push = {p}
    Series <- Single
    Existing = {f}
    Rare = {"race"}
PROPERTY FinalChangelistTagged
