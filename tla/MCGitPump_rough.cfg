\* The same with races, failures and crashes anywhere.
SPECIFICATION Spec
CONSTANTS
    f = f  g = g
    m = m  n = n  a = a  b = b  c = c
    p = p  q = q
    First = First
    None = None
    File = {f, g}
    Edit = {m, n, a, b, c}
    FileOf <- Crossed
    UserEdit = {m, n}
    Push = {p}
    Series <- Double
    Existing = {f}
    Rare = {"race", "user fails", "pump fails", "crash"}
INVARIANTS SyncedIsTagged OkIsSubmitted
PROPERTIES NoChangelistSkipped
