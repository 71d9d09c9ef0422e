SPECIFICATION FairSpec
CONSTANTS
    p1 = p1  p2 = p2  r1 = r1  r2 = r2
    NoProc = NoProc
    Procs <- TwoProcs
    Refs <- TwoRefs
    N = 2
    Faults = {"power"}
    MaxFaults = 2
INVARIANT CommitSafe
PROPERTIES SyncedPrefixKept LedgerSpec EventuallyFinished

