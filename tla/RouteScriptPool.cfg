\* Two workers that do not fail on their own, and the clock.
SPECIFICATION Spec
CONSTANTS
    e1 = e1  e2 = e2  e3 = e3  test = test  valid = valid  rule = rule
    Calls <- MCCalls
    Validations <- MCValidations
    Guarded <- MCGuarded
    KeyOf <- MCKeyOf
    SlotCount = 2
    MaxPending = 2
    Threshold = 2
    Window = 1
    OpenFor = 1
    MaxTime = 1
    MaxErrors = 0
    MaxCloses = 0
INVARIANT OpensOnFailures
SYMMETRY MCSymmetry
\* The calls run out.
CHECK_DEADLOCK FALSE
