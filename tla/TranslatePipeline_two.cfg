CONSTANTS
    r1 = r1
    r2 = r2
    Runs = {r1, r2}
    Older = older
    Nobody = nobody
    OptionSets <- SameTime
    Parts = {"pipeline"}
    RunOptions <- MCRunOptions
    Configs <- MCConfigs
    MaxRuns = 1
SPECIFICATION MCSpec
CHECK_DEADLOCK FALSE
INVARIANT TranslatesOwnText
