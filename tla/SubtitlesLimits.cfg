CHECK_DEADLOCK FALSE
SPECIFICATION SubSpec
CONSTANTS
    Null = Null
    Decks <- MCLimits
INVARIANTS LimitsAreTheRules
