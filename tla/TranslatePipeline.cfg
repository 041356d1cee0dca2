\* One run with every set of options, pairs of runs at the same time, and the rules of three runs.
CONSTANTS
    r1 = r1
    r2 = r2
    Runs = {r1, r2}
    Older = older
    Nobody = nobody
    OptionSets <- AllRuns
    Parts = {"pipeline", "storage"}
    RunOptions <- MCRunOptions
    Configs <- MCConfigs
    MaxRuns = 3
SPECIFICATION MCSpec
\* The script ends.
CHECK_DEADLOCK FALSE
INVARIANTS
    OutputIsTranslation
    NeverDies
    OlderTextOnlyForWords
    ConfigLaterOptional
