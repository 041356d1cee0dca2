CONSTANTS
    Inputs <- AllFiles
    Configs = {"ident", "doc", "text", "columns"}
    Messages <- ShortMessages
    BUFF_SZ = 2
    MaxMessages = 3
    Starters = {r1, r2, r3}
    Answering = {"text", "ident", "columns"}
    MaxFailures = 1
SPECIFICATION MCSpec
INVARIANT OneInFlight
INVARIANT LinesConserved
INVARIANT SectionsMatch
 
PROPERTY WorkerFollows
PROPERTY ImplementsChannel
PROPERTY MessagesArrive
PROPERTY RunsGetAnswers
CHECK_DEADLOCK FALSE
