SPECIFICATION Spec
CONSTANTS
    Callers = {c1, c2}
    Nobody = Nobody
    Unread = Unread
    Configured = {1, 2}
    Slots = 3
    MaxAborts = 1
INVARIANT
    NoOverProvisioning
