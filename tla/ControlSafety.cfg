CONSTANTS
    Clients = {c1, c2}
    Keys = {k1, k2}
    ShortKeys = {k2}
    MaxRequests = 3
SPECIFICATION FairSpec
INVARIANTS AnswersHold StopHolds SecretAsTyped
PROPERTY RequestsEnd
CHECK_DEADLOCK FALSE
