SPECIFICATION Spec
CONSTANTS
    None = None
    Budgets = {None, 1, 2, 3, 4}
    CapCeiling = 1
    MediaCeiling = 3
    Grace = 2
    MaxChildren = 2
INVARIANTS TypeOK NestedNeverExtends BudgetInForce ChildBounded KillReachesGroup
PROPERTIES OutcomeJustified ExpiryBlamed RequestsEnd
