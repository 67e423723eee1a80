\* Two runs that may overlap, of each connector, over two pages and two batches,
\* while records appear, and every failure.
SPECIFICATION SRSpec
CONSTANTS
    NoTime = NoTime
    q1 = q1  q2 = q2
    Run = {q1, q2}
    Window <- MCWindow
    DayLength = 1
    PageSize = 2
    Withholding = {"razorpay_orders", "razorpay_customers", "kapture_tickets"}
    BatchSize = 2
    MaxRecords = 3
    MaxClock = 1
    Content <- MCContent
    Failing = TRUE
CHECK_DEADLOCK FALSE
SYMMETRY MCSymmetry
INVARIANTS
    SRTypeOK
    CountsAddUp
    NothingMissed
    SuccessLoadsAll
    BatchFits
PROPERTIES
    LastFetchedSurvives
    SyncsAsPromised
