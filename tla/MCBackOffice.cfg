SPECIFICATION Spec
CONSTANTS
    MaxWidth = 2
    Customers = {k1, k2}
    Admins = {a1}
    Chatters = {r1, r2}
    MaxMessages = 2
    MaxChatDeaths = 1
    Authors = {u1, u2}
    Posters = {r1, r2}
    MaxComments = 3
    MaxCommentReports = 2
    Filed = {i1, i2}
    Judges = {r1, r2}
    MaxDecisions = 3
    MaxJudgeDeaths = 1
    Buyers = {b1}
    Lists = {"carts", "favorites"}
    Clerks = {r1, r2}
    MaxProducts = 2
    MaxCartDeaths = 1
    Totals <- SomeTotals
    Values = {0, 5, 10, 50, 100, 150}
    Caps = {0, 3, 20}
    Minimums = {0, 15}
    Floor = 10
INVARIANTS
    MessagesReachTheirReaders ChatFilesAccounted
    ReferencesHold
    DecisionMailed
    DeadEntriesExplained
    PriceIsAsked
CHECK_DEADLOCK FALSE
