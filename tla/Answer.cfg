SPECIFICATION LiveSpec
CONSTANTS
    MaxAttempts = 2
    MaxLines = 3
    Cap = 2
INVARIANTS TextsAreAPrefix  EndingInOrder 
CHECK_DEADLOCK FALSE
PROPERTY BothEnd
