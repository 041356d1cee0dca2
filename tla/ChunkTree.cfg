CONSTANTS
    Documents <- MCDocuments
    ChunkRules <- MCChunkRules
    WordRules <- MCWordRules
    Variables <- MCVariables
    MaxChanges = 3
    MaxChunks = 4
SPECIFICATION TreeSpec
INVARIANT WordsPrinted
INVARIANT OrderAsRuled
CHECK_DEADLOCK FALSE
