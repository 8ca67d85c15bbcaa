SPECIFICATION CallSpec
CONSTANTS
    MaxContinuations = 3
    MaxRetries = 2
    Batches <- SmallBatches
INVARIANTS RequestsBounded StatsAddUp AnswerWhole  CorrectionsCarried
    RowsStopAtError ReportsOwnError StringsFreed SchemaMeansJson
PROPERTY CallReturns
CHECK_DEADLOCK FALSE
