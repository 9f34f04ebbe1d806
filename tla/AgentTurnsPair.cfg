SPECIFICATION FairSpec
CONSTANTS
    t1 = t1
    t2 = t2
    main = main
    read = read
    del = del
    img = img
    cell = cell
    open = open
    ban = ban
    scan = scan
    NoTurn = NoTurn
    NoCall = NoCall
    Turns = {t1, t2}
    Sessions = {main}
    SessionOf <- MCSessionOf
    Calls <- MCCalls
    Tier <- MCTier
    Registered <- MCCalls
    Images = {img}
    Cells = {cell}
    OpenCall = open
    Pathful = {read}
    Analyzer = scan
    Mountable <- MCMountable
    Proposals <- PairProposals
    MaxRounds = 1
    MaxAsks = 1
    Requests <- MCRequests
INVARIANTS
    AgentInv
    Authorised
CHECK_DEADLOCK FALSE
