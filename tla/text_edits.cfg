SPECIFICATION Spec
CONSTANTS
    narrow = narrow
    wide = wide
    NL = NL
    CR = CR
    Chars = {narrow, wide, NL, CR}
    Units <- UnitsValue
    Refused = Refused
    MaxLength = 4
    MaxNew = 2
    MaxEdited = 2
INVARIANTS
    PositionsRoundTrip
    EditsApplyTogether
    LinesOutsideStay
    ReplacesTheOnlyMatch
