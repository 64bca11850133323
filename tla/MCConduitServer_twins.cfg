\* Two requests to create the same conduit.
SPECIFICATION Spec
CONSTANTS
    alpha = alpha  beta = beta
    c1 = c1  c2 = c2  c3 = c3  d1 = d1  d2 = d2
    None = None
    Name = {alpha}
    Creation = {c1, c2}
    Deletion = {}
    NameOf <- Twins
    Port <- TwoPorts
    Rare = {"twins"}
CHECK_DEADLOCK FALSE
INVARIANT HostedIsWhole
