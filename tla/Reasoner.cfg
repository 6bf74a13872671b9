SPECIFICATION RewritingSpec
CONSTANTS
    Classes = {"A", "B", "C"}
    Properties = {"p", "q"}
    NoClass = NoClass
    NoProperty = NoProperty
    Individuals = {a, b}
    TBoxes <- MCTBoxes
    Plans <- MCPlans
INVARIANTS
    TypeOK
    SaturationIsSound
    SaturationIsComplete
    HierarchiesAgree
PROPERTY Saturates
CHECK_DEADLOCK FALSE
