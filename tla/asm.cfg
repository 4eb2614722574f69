CONSTANTS
    a = a
    b = b
    c = c
    R1 = R1
    R2 = R2
    Blank = Blank
    Overlong = Overlong
    RegNo <- MCRegNo
    Source <- MCSource
    Half = 2
    MaxLabels = 2
    MaxInsns = 3
    MaxErrors = 1
SPECIFICATION Spec
INVARIANTS PassesAgree WrittenMeansSource AcceptsExactly
CHECK_DEADLOCK FALSE
