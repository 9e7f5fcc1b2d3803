\* One request at a time over two files that a session tracks, with partial
\* failures, dropped connections and outside writers, and room for the bytes
\* of one of them.
SPECIFICATION Spec
CONSTANTS
    w1 = w1  w2 = w2  c1 = c1  c2 = c2  c3 = c3  r1 = r1  r2 = r2
    absent = absent  noEntry = noEntry
    Workspaces = {w1}  Readable = {w1}  Writable = {w1}
    Files = {"a", "b"}  Names <- PlainNames
    FileOf <- MCFileOf  Rank <- MCRank
    Contents = {c1, c2}  ContentsOf <- SharedContents  Size <- MixedSize
    Absent = absent  NoEntry = noEntry
    Requests = {r1}
    MaxSessions = 1  MaxFiles = 2  MaxBytes = 3
    MaxPaths = 2  SessionBound = 1
INVARIANTS WithinLimits WritesAreTracked RollbackRestoresAll
PROPERTIES UndoRefinement
