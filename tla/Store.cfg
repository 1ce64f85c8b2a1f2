CONSTANTS
    Accounts = {a1, a2}
    MaxKills = 1
SPECIFICATION FairSpec
INVARIANTS SavedAccountsKept TokensLostByOverlapOnly
PROPERTIES OneLinePerAccount SavesEnd
CHECK_DEADLOCK FALSE
