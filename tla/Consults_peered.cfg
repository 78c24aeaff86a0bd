SPECIFICATION Spec
CONSTANTS
    eng = eng
    ops = ops
    lab = lab
    acme = acme
    other = other
    ann = ann
    bob = bob
    cy = cy
    nobody = nobody
    j1 = j1
    j2 = j2
    j3 = j3
    L2s <- MCAllL2s
    EnterpriseOf <- MCEnterpriseOf
    Personas <- MCAllPersonas
    HomeOf <- MCHomeOf
    Users <- MCAllUsers
    Peers <- MCPeers
    Roster <- MCRoster
    Jobs <- MCTwoJobs
    Copies <- MCTwoCopies
    MaxCrashes = 0
INVARIANTS PolicyRespected
PROPERTIES EveryRequestAnswered
CHECK_DEADLOCK FALSE
