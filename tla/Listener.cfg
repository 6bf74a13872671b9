SPECIFICATION Spec
CONSTANTS
    Clients = {k1, k2}
    NoClient = NoClient
    AcceptError = AcceptError
    MaxQueue = 2
    Requests <- MCRequests
    ErrorClasses = {"40", "42", "53", "XX", "timeout"}
INVARIANTS
    TypeOK
    NoRequestLost
    OnlyOntologyIsFatal
    NoEngineNoResult
PROPERTIES
    RequestsAreAnswered
    ServesInOrder
