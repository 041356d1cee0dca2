CONSTANTS
    Clients = {c1, c2}
    NoClient = NoClient
    Docs <- AllDocs
    BufLines = 3
    BufSentences = 2
    ParserMayThrow = TRUE
SPECIFICATION FairSpec
INVARIANT RepliesInOrder
INVARIANT StaleTruncates
INVARIANT CompleteReply
PROPERTY SessionsEnd
CHECK_DEADLOCK FALSE
