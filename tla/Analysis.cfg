SPECIFICATION MCSpec
CONSTANTS
    c1 = c1
    c2 = c2
    c3 = c3
    Clients <- MCClients
    Texts <- MCTexts
    Bad = {"bad"}
    Slots = 2
    QueueSize = 2
    Lines <- MCLines
    Flags <- MCFlags
    ConfigFiles <- MCConfigFiles
    Analyses <- MCAnalyses
    MaxTag = 2
INVARIANT SlotsCounted
INVARIANT SlotLeft
INVARIANT TextParsed
INVARIANT Runnable
INVARIANT OptionsObeyed
INVARIANT NeededFilesKept
INVARIANT WordsTagged
PROPERTY SessionEnds
CHECK_DEADLOCK FALSE
