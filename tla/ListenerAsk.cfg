SPECIFICATION Spec
CONSTANTS
    Clients = {k1}
    NoClient = NoClient
    AcceptError = AcceptError
    MaxQueue = 2
    Requests <- MCAsk
    ErrorClasses = {"40", "42", "53", "XX", "timeout"}
INVARIANT
    AskAnswersTruth
