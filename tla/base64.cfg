SPECIFICATION Spec
CONSTANTS
    Inputs <- MCInputs
    Texts <- MCTexts
INVARIANTS
    RoundTrip
    MatchesReference
    AcceptsExactly
    BuffersSuffice
CHECK_DEADLOCK FALSE
