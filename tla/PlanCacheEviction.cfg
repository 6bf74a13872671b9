SPECIFICATION Spec
CONSTANTS
    t1 = t1
    t2 = t2
    t3 = t3
    t4 = t4
    k1 = k1
    k2 = k2
    k3 = k3
    k4 = k4
    Texts = {t1, t2, t3, t4}
    Keys = {k1, k2, k3, k4}
    Hash <- MCHash
    Callers = {c1, c2}
    Configs <- ReleaseConfigs
    NoPlan = NoPlan
    NoText = NoText
    NoAnswer = NoAnswer
    Word = 100
    MaxNow = 2
    MaxStepBacks = 0
    MaxCalls = 5
SYMMETRY MCSymmetry
PROPERTY
    KeepsTargetSize
CHECK_DEADLOCK FALSE
