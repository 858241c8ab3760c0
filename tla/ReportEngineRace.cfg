CHECK_DEADLOCK FALSE
SPECIFICATION MCSafeSpec
CONSTANTS
    Procs = {p1}
    Scenes = {"all"}
    mp4 = mp4  mov = mov  srt = srt
    c1 = c1  c2 = c2  v1 = v1  v2 = v2
    Paths = {mp4}
    Contents = {c1, c2}
    Versions = {v1}
    None = None  Miss = Miss  Stored = Stored  Raised = Raised
    Requests <- MCTogether
    ExtOf <- MCExtOf
    MaxRuns = 3
    MaxEdits = 2
    MaxUpgrades = 0
    MaxLosses = 0
    MaxCrashes = 0
INVARIANTS ReuseAsDocumented
