SPECIFICATION FairSpec
CONSTANTS
    Threads = {t1, t2}
    Main = main
    Nobody = nobody
    MaxApprovals = 2
INVARIANTS
    WriteAhead
    FailureBudget
    QuietMeansSettled
    OneLoginPerLoss
PROPERTIES
    ClearedByVerification
    LoginPromise
    EveryRequestAnswered
