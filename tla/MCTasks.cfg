CONSTANTS
    Tasks = {t1, t2}
    Scrubs = {t1}
    Polling = {t1}
    MaxConcurrent = 1
    MaxCrashes = 1
    None = None
CHECK_DEADLOCK FALSE
SPECIFICATION FairSpec
INVARIANTS WorkerLimit ActiveIsAlive
PROPERTIES OutcomeStays CancelHonoured EveryTaskFinishes
