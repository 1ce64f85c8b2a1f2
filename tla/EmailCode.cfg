CONSTANTS
    Tries = 2
    Rounds = 3
    MaxSends = 2
    MaxSeen = 3
SPECIFICATION Spec
INVARIANTS CountedAndPolled
PROPERTIES EarlyBoostExplained RoundsEnd
