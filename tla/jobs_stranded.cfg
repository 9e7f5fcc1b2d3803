\* A client leaves between the insertion of the record and the spawn of the task.
SPECIFICATION FairSpec
CONSTANTS
    r1 = r1  r2 = r2
    Starters = {r1}
    MaxJobs = 1  Retention = 1  IdBound = 1  TimeBound = 1
PROPERTIES CancelEndsJob
\* The bounds on jobs and time end every behaviour.
CHECK_DEADLOCK FALSE
