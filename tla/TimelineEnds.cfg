CHECK_DEADLOCK FALSE
SPECIFICATION SubSpec
CONSTANTS
    Null = Null
    Decks <- MCSwapped
INVARIANTS KeptCuesPass
