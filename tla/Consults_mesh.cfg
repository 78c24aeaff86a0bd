SPECIFICATION Spec
CONSTANTS
    eng = eng
    ops = ops
    lab = lab
    acme = acme
    other = other
    ann = ann
    bob = bob
    cy = cy
    nobody = nobody
    j1 = j1
    j2 = j2
    j3 = j3
    L2s <- MCSiblings
    EnterpriseOf <- MCEnterpriseOf
    Personas <- MCSiblingUsers
    HomeOf <- MCHomeOf
    Users <- MCSiblingUsers
    Peers <- MCPeers
    Roster <- MCRoster
    Jobs <- MCThreeJobs
    Copies <- MCOneCopy
    MaxCrashes = 1
SYMMETRY MCSymmetry
INVARIANTS NoPhantomMessage OkMeansMirrored OneClosedEvent
CHECK_DEADLOCK FALSE
PROPERTIES ImplementsRecord
