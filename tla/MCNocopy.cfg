SPECIFICATION Spec
CONSTANTS
    Variants = {"example", "test"}
    CBuf = {c1, c2, c3}
    SBuf = {s1, s2, s3}
    None = None
    N = 3
    MaxTx = 2
    Every = 2
    FaultSets <- NoneOrAll
INVARIANTS RxOwned TxOwned ReportHonest ServerStopsLast NeitherStuck
SYMMETRY Interchangeable
CHECK_DEADLOCK FALSE
