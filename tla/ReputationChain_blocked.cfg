\* A root whose INSERT timed out, then an event.
SPECIFICATION Spec
CONSTANTS
    acme = acme
    other = other
    Enterprises <- MCOneEnterprise
    EventIds <- MCTwoEventIds
    LastDay = 1
    LastSecond = 0
    PageSize = 1
    Refused <- MCNobody
    AdminComputes = TRUE
INVARIANTS
    WritersNotBlocked
