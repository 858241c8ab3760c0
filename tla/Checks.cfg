CHECK_DEADLOCK FALSE
SPECIFICATION MCSpec
CONSTANTS
    None = None
    Requests <- MCRequests
    MayStop = FALSE
    Recordings <- MCRecordings
    Cells = {1, 2}
    Second = 2
    MinDelta = 20
    DarkerBelow = 160
    Plans <- MCPlans
    Null = Null
    Decks <- MCDecks
    Documents <- MCDocuments
    Depth = 9
INVARIANTS TypeOK VerdictIsBacked ViolationFails
INVARIANTS FlashTypeOK ChangesAreMost WorstIsWorst
INVARIANTS CutTypeOK NothingBetterIsFree PassIsAPairing
INVARIANTS OverlapsAreFound GapsAreEmpty TimelineIsJudged
INVARIANTS AcceptedIsUsable
