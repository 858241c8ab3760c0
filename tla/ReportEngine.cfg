CHECK_DEADLOCK FALSE
SPECIFICATION MCSpec
CONSTANTS
    Procs = {p1, p2}
    Scenes = {"requests", "together"}
    mp4 = mp4  mov = mov  srt = srt
    c1 = c1  c2 = c2  v1 = v1  v2 = v2
    Paths = {mp4, mov}
    Contents = {c1, c2}
    Versions = {v1, v2}
    None = None  Miss = Miss  Stored = Stored  Raised = Raised
    Requests <- MCAll
    ExtOf <- MCExtOf
    MaxRuns = 2
    MaxEdits = 1
    MaxUpgrades = 1
    MaxLosses = 1
    MaxCrashes = 1
INVARIANTS TypeOK ReuseUnlessDisturbed LateReportKept
PROPERTIES PolicyRespected RunsEnd
