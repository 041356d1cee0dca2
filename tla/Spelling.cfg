SPECIFICATION MCSpec
CONSTANTS
    c1 = c1
    c2 = c2
    Clients <- MCClients
    Inputs <- MCInputs
    Words <- MCWords
    Full = {"full"}
    Fused = "none"
    Nets <- MCNets
    Recognized = {"late"}
    Med <- MCMed
    MedLimit = 5
    ReadSize = 2
    MaxProcs = 2
    Stems <- MCStems
    Documents <- MCDocuments
    Known <- MCKnown
    Long <- MCLongAnswers
    Suggested <- MCSimilar
    MaxChecks = 2
    Texts <- MCTexts
    Limits = {0, 3}
    Empty = "empty"
INVARIANT AnswersInStep
INVARIANT ReportComplete
INVARIANT VerdictsOwn
PROPERTY ClientsEnd
PROPERTY WordsJudged
CHECK_DEADLOCK FALSE
