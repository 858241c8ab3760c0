CHECK_DEADLOCK FALSE
SPECIFICATION MCSafeSpec
CONSTANTS
    Procs = {p1}
    Scenes = {"all"}
    mp4 = mp4  mov = mov  srt = srt
    c1 = c1  c2 = c2  v1 = v1  v2 = v2
    Paths = {mp4, mov}
    Contents = {c1}
    Versions = {v1}
    None = None  Miss = Miss  Stored = Stored  Raised = Raised
    Requests <- MCTwoNames
    ExtOf <- MCExtOf
    MaxRuns = 3
    MaxEdits = 0
    MaxUpgrades = 0
    MaxLosses = 0
    MaxCrashes = 0
INVARIANTS ReuseIsSafe
