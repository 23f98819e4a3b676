SPECIFICATION Spec
CONSTANTS
    Schedule = {s1, s2}
    Tick = {t1, t2}
    None = None
    MaxPending = 2
    MaxNow = 3
    MaxTroubles = 1
INVARIANTS OccurrenceOnce ReceiptsTrue
PROPERTIES ConsentObeyed DueIsSettled
CHECK_DEADLOCK FALSE
