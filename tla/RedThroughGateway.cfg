SPECIFICATION Spec
CONSTANTS
    t1 = t1
    t2 = t2
    main = main
    read = read
    del = del
    img = img
    cell = cell
    open = open
    ban = ban
    scan = scan
    NoTurn = NoTurn
    NoCall = NoCall
    Turns = {t1}
    Sessions = {main}
    SessionOf <- MCSessionOf
    Calls <- MCCalls
    Tier <- MCTier
    Registered <- MCCalls
    Images = {img}
    Cells = {cell}
    OpenCall = open
    Pathful = {read}
    Analyzer = scan
    Mountable <- MCMountable
    Proposals <- DeepProposals
    MaxRounds = 1
    MaxAsks = 2
    Requests <- MCRequests
INVARIANTS
    AllRedThroughGateway
CHECK_DEADLOCK FALSE
