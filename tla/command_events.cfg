\* A command of any kind, told to one client over a ring of
\* two and a channel of one.
SPECIFICATION FairSpec
CONSTANTS
    c1 = c1  ui = ui
    Commands = {c1}  Kinds <- MCKinds
    Emitters <- MCEmitters  Clients = {ui}
    RingSize = 2  Capacity = 1
    Limit = 1  Chunk = 2  WriteBound = 2
INVARIANTS NothingFallsBetween StoryInOrder ResultIsWhole
    NobodyLeftRunning FinishedIsRecorded
PROPERTIES RequestsEnd
\* Every request is used once: behaviours end with the commands.
CHECK_DEADLOCK FALSE
