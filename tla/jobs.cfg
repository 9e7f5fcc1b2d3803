\* Three jobs started by two connections against a store of one record, with
\* pruning, while clients cancel and leave and descendants keep pipes open.
SPECIFICATION FairSpec
CONSTANTS
    r1 = r1  r2 = r2
    Starters = {r1, r2}
    MaxJobs = 1  Retention = 1  IdBound = 3  TimeBound = 2
INVARIANTS StoreBounded EndedMeansDead
PROPERTIES YoungJobsKept OutcomeIsFinal TasksEnd
\* The bounds on jobs and time end every behaviour.
CHECK_DEADLOCK FALSE
