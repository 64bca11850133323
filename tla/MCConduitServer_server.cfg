\* Two names and two ports; one name is created and deleted twice. Perforce fails, crashes.
SPECIFICATION FairSpec
CONSTANTS
    alpha = alpha  beta = beta
    c1 = c1  c2 = c2  c3 = c3  d1 = d1  d2 = d2
    None = None
    Name = {alpha, beta}
    Creation = {c1, c2, c3}
    Deletion = {d1, d2}
    NameOf <- Again
    Port <- TwoPorts
    Rare = {"crash", "p4 fails"}
INVARIANTS TypeOK HostedIsWhole OneWorkerPerDirectory
PROPERTIES PortsKept DeletionEnds
