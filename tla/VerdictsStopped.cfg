CHECK_DEADLOCK FALSE
SPECIFICATION Spec
CONSTANTS
    None = None
    Requests <- MCVideo
    MayStop = TRUE
INVARIANTS VerdictIsSound
