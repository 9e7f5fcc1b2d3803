\* Two requests race on one file of one session, under two spellings of its
\* name, with outside writers; a second workspace has a file of the same name
\* and nothing else in common, and its session can be named instead.
SPECIFICATION FairSpec
CONSTANTS
    w1 = w1  w2 = w2  c1 = c1  c2 = c2  c3 = c3  r1 = r1  r2 = r2
    absent = absent  noEntry = noEntry
    Workspaces = {w1, w2}  Readable = {w1, w2}  Writable = {w1}
    Files <- OneName  Names <- AliasNames
    FileOf <- MCFileOf  Rank <- MCRank
    Contents = {c1, c2, c3}  ContentsOf <- SeparateContents  Size <- UnitSize
    Absent = absent  NoEntry = noEntry
    Requests = {r1, r2}
    MaxSessions = 2  MaxFiles = 1  MaxBytes = 2
    MaxPaths = 1  SessionBound = 1
INVARIANTS WorkspacesIsolated EditsHitNamedVersion RollbackHitsRecordedVersion
PROPERTIES FirstImageIsCurrent RequestsEnd
