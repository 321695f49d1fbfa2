CONSTANTS
    p = p
    q = q
    r = r
    pm = pm
    ps = ps
    qm = qm
    qs = qs
    rm = rm
    Packages = {p, q, r}
    Root = p
    Messages = {pm, qm, rm}
    Services = {ps, qs}
    packageOf <- MCPackageOf
    IdlOnly = {qm, qs}
    MaxFields = 4
    Copies <- MCCopies
    Contents <- MCContents
SPECIFICATION FairTraversalSpec
INVARIANTS
    TraversalTypeOK
    FindsNeeded
    FailsForMissing
    FilesCoverTypes
PROPERTIES
    TraversalEnds
    StepsRunOut
CHECK_DEADLOCK FALSE
