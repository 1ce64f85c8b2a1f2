CONSTANTS
    Adders = {1, 2, 3}
    Accounts = 2
    OpenTries = 2
    MailTries = 2
    MaxLoops = 3
SPECIFICATION Spec
INVARIANTS OwnCookieAndToken TokensLostExplained
PROPERTIES AccountsEnd
