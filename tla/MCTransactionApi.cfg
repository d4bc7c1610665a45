CONSTANTS
    Transactions = {t1, t2, t3}
    Threads = {h1, h2}
    QueueLimit = 2
    ClientErrors = TRUE
    MaxExits = 1

SPECIFICATION FairSpec

\* With every transaction accepted and no exit left the service is at rest.
CHECK_DEADLOCK FALSE

INVARIANTS
    TypeOK
    ApiInv
    RetriesAreSafe
    AcceptedIsAccountedFor

PROPERTY
    EveryRequestAnswered
