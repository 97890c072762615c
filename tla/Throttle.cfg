SPECIFICATION FairSpec
CONSTANTS
    Full = 2
    Limit = 1
    PosMax = 3
    PosEst = 2
    Epsilon = 1
    Absurd = 0
    Readings = {0, 2, 3}
    SeqMod = 3
    MaxLine = 2
    Positions = {1}
    NaN = NaN
    PlusInf = PlusInf
    MinusInf = MinusInf
INVARIANTS TargetHeld CalibrationConfirmed
PROPERTIES CallImplemented CommandEnds
