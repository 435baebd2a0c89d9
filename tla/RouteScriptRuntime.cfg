\* One worker slot: calls in line, an uncaught worker error, one close().
SPECIFICATION FairSpec
CONSTANTS
    e1 = e1  e2 = e2  e3 = e3  test = test  valid = valid  rule = rule
    Calls <- LineCalls
    Validations <- MCValidations
    Guarded <- MCGuarded
    KeyOf <- LineKeyOf
    SlotCount = 1
    MaxPending = 2
    Threshold = 2
    Window = 1
    OpenFor = 1
    MaxTime = 0
    MaxErrors = 1
    MaxCloses = 1
INVARIANTS TypeOK AnswersItsOwn
PROPERTY EveryCallReturns
\* The calls run out.
CHECK_DEADLOCK FALSE
