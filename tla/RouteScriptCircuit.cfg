\* What the documentation says of an open circuit.
SPECIFICATION FairSpec
CONSTANTS
    e1 = e1  e2 = e2  e3 = e3  test = test  valid = valid  rule = rule
    Calls <- OpenCalls
    Validations <- OpenValidations
    Guarded <- OpenCalls
    KeyOf <- OpenKeyOf
    SlotCount = 2
    MaxPending = 3
    Threshold = 2
    Window = 2
    OpenFor = 2
    MaxTime = 2
    MaxErrors = 0
    MaxCloses = 0
PROPERTY StaysOpen
\* The calls run out.
CHECK_DEADLOCK FALSE
