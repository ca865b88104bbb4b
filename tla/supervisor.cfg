CONSTANTS
    Payloads = {1}
    MaxFailures = 3
    SlowPoll = FALSE
    MaxExits = 2
SPECIFICATION FairSpec
INVARIANT TypeOK
INVARIANT NeverRewaits
INVARIANT PromotesOnlyWorking
PROPERTY Serves
PROPERTY QuitIsFinal
CHECK_DEADLOCK FALSE
