\* Somebody writes between the verification and the restoration.
SPECIFICATION Spec
CONSTANTS
    w1 = w1  w2 = w2  c1 = c1  c2 = c2  c3 = c3  r1 = r1  r2 = r2
    absent = absent  noEntry = noEntry
    Workspaces = {w1}  Readable = {w1}  Writable = {w1}
    Files <- OneName  Names <- OneName
    FileOf <- MCFileOf  Rank <- MCRank
    Contents = {c1, c2}  ContentsOf <- SharedContents  Size <- UnitSize
    Absent = absent  NoEntry = noEntry
    Requests = {r1}
    MaxSessions = 1  MaxFiles = 1  MaxBytes = 1
    MaxPaths = 1  SessionBound = 1
PROPERTIES RollbackKeepsNewerWork
