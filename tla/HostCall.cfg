SPECIFICATION Spec
CONSTANTS
    Threads = {t1, t2}
    Calls <- SmallCalls
INVARIANTS RowsMatched BodiesSurvive MapsMatched PrefixSent HandlesFreed OwnErrorReported
CHECK_DEADLOCK FALSE
