SPECIFICATION Spec
CONSTANTS
    Callers = {c1, c2}
    Nobody = Nobody
    Unread = Unread
    Configured = {1, 3}
    Slots = 4
    MaxAborts = 1
INVARIANTS
    TypeOK
    OneProvisioner
    LockAccounting
    FrozenViewSeesNoStart
    AllOrNothing
PROPERTY
    CallReturns
