\* Without faults, and with every kind of fault on one chain: locked writes,
\* failed upserts, stranded transactions, crashes.
SPECIFICATION Spec
CONSTANTS
    acme = acme
    other = other
    Enterprises <- MCOneEnterprise
    EventIds <- MCTwoEventIds
    LastDay = 1
    LastSecond = 1
    PageSize = 1
    Refused <- MCNobody
    AdminComputes = TRUE
INVARIANTS
    ChainNeverForks
    LateRootIsComplete
    DirectoryAgrees
PROPERTIES
    ImplementsLedger
    EveryRootPublished
