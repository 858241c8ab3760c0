CHECK_DEADLOCK FALSE
SPECIFICATION Spec
CONSTANTS
    None = None
    Requests <- MCAudio
    MayStop = FALSE
INVARIANTS VerdictIsSound
