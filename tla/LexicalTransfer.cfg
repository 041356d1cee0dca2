CONSTANTS
    Words <- MCWords
    LaterWords <- MCLaterWords
    LaterChunks <- MCLaterChunks
    Chunks <- MCChunks
    Dictionary <- MCDictionary
    TypeLines <- MCTypeLines
    MaxTags = 10
SPECIFICATION Spec
INVARIANT ValidatesInput
INVARIANT MirrorsSource
INVARIANT TranslationsKept
CHECK_DEADLOCK FALSE
