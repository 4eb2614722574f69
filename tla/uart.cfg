CONSTANTS
    Bits = 2
    MaxGap = 1
    Divisors <- MCDivisors
SPECIFICATION Spec
INVARIANTS PromptReaderLosesNothing
PROPERTIES LinkDelivers ReadsFresh
