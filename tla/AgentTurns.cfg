SPECIFICATION FairSpec
CONSTANTS
    t1 = t1
    t2 = t2
    main = main
    read = read
    del = del
    img = img
    cell = cell
    open = open
    ban = ban
    scan = scan
    NoTurn = NoTurn
    NoCall = NoCall
    Turns = {t1}
    Sessions = {main}
    SessionOf <- MCSessionOf
    Calls <- MCCalls
    Tier <- MCTier
    Registered <- MCCalls
    Images = {img}
    Cells = {cell}
    OpenCall = open
    Pathful = {read}
    Analyzer = scan
    Mountable <- MCMountable
    Proposals <- DeepProposals
    MaxRounds = 2
    MaxAsks = 4
    Requests <- MCRequests
INVARIANTS
    Authorised
    NeverAskedAgain
    OnlyFailedImagesUnlogged
PROPERTIES
    FailureIsFinal
    CancelStopsStarts
    TurnsRunDown
    EveryTurnEnds
CHECK_DEADLOCK FALSE
