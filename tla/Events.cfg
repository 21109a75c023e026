SPECIFICATION Spec
CONSTANTS
    c1 = c1
    c2 = c2
    j1 = j1
    j2 = j2
    Clients = {c1}
    Jobs = {j1, j2}
    Capacity = 2
    MailboxCap = 2
    MaxEvents = 4
INVARIANTS
    EventsAccounted
PROPERTIES
    EventsArrive
    GoneIsClosed
CHECK_DEADLOCK FALSE
