SPECIFICATION Spec
CONSTANTS
    r1 = r1
    r2 = r2
    f1 = f1
    short = short
    long = long
    Absent = Absent
    Partial = Partial
    Clients = {r1, r2}
    Files = {f1}
    Contents = {short, long}
    Grants <- ReadWrite
    Prefix <- PrefixValue
    Edited <- EditedValue
SYMMETRY Symmetry
INVARIANTS
    WholeFiles
    OneCreateWins
PROPERTIES
    ReplacesNamedVersion
    ReplacesOnlyWhatWasShown
