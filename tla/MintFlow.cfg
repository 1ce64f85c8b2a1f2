CONSTANTS
    Minters = {m1, m2}
    me = m1
    None = None
    CodeTries = 2
    Polls = 2
    CodeRequests = 2
    Logins = 3
SPECIFICATION Spec
INVARIANTS MintSettled
PROPERTIES PacedRequests MintOver
