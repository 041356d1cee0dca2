CONSTANTS
    Clients = {c1, c2}
    NoClient = NoClient
    Docs <- SeparatedDocs
    BufLines = 5
    BufSentences = 2
    ParserMayThrow = FALSE
SPECIFICATION Spec
INVARIANT WholeFileParsed
CHECK_DEADLOCK FALSE
