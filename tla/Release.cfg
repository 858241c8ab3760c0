SPECIFICATION RelSpec
CONSTANTS
    MaxMerges = 3
    MaxVersion = 4
    MaxFailures = 2
    MaxReruns = 1
CHECK_DEADLOCK FALSE
INVARIANTS ReleaseTypeOK TagsAreOnMain TagIsItsCommit ChangelogIsComplete NothingLeftBehind
PROPERTIES TagsGrow
