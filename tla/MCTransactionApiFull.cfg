CONSTANTS
    Transactions = {t1, t2, t3}
    Threads = {h1, h2}
    QueueLimit = 2
    ClientErrors = FALSE
    MaxExits = 0

SPECIFICATION RetryingSpec

CHECK_DEADLOCK FALSE

PROPERTY
    UnavailableIsTemporary
