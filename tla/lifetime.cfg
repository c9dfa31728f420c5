SPECIFICATION Spec
CONSTANTS
    NotHex = NotHex
    Malformed = Malformed
    AmountMax = 6
    Files <- MCFiles
    Card <- MCCards
    Counters <- MCCounters
    AtcMax = 15
    Transaction <- MCTransaction
    RandomNumber <- MCRandomNumber
    Tvp <- MCTvp
    Rand <- MCRand
    Ifdsn <- MCIfdsn
    Tid <- MCTid
    Seed <- MCSeed
    PersistAtPowerUp = TRUE
    KeepsLog = TRUE
    MaxTransactions = 3
    MaxPowerUps = 2
INVARIANTS
    OfflineRunIsBounded
    SplitStaysBelowFloor
    UnusableIsNotApproved
    UnNeverRepeats
PROPERTIES
    BitsNeverHelp
