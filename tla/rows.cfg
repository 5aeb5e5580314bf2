SPECIFICATION RegexpSpec
CONSTANTS
    Parameters = 2
    Columns = 2
    Value <- MCValue
    Malformed <- MCMalformed
    NoPattern = NoPattern
    Freed = Freed
INVARIANTS
    RegexpTypeOK
    NoFalseAlarm
    NoSilentRun
    BindingsAsAsked
    MatchedAsBound
CHECK_DEADLOCK FALSE
