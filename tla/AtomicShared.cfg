SPECIFICATION AwSpec
CONSTANTS
    p1 = p1
    p2 = p2
    old = old
    new = new
    Torn = Torn
    AwNil = AwNil
    Procs = {p1, p2}
    Texts = {old, new}
    Serial = FALSE
    MaxWrites = 2
    MaxReads = 0
CHECK_DEADLOCK FALSE
INVARIANTS HoldsOneText
