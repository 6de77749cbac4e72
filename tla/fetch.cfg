SPECIFICATION Spec
CONSTANTS
    Chains <- SomeChains
    HeaderLimit = 4
    Lines <- StreamLines
    MaxLines = 4
    Received <- SomeValues
    MinTime = 1
    MaxTime = 3
    MaxBytes = 256
INVARIANTS TunnelIsClean FirstTerminalDecides TokensReadBack
PROPERTIES ReadsOnePeer EndsWithItsContext
CHECK_DEADLOCK FALSE
