\* One request over two files, a pipe of two pieces, a server that asks, stops
\* reading or exits at any moment, outside writes and dropped connections.
SPECIFICATION FairSpec
CONSTANTS
    h1 = h1
    f1 = f1
    f2 = f2
    old = old
    new = new
    Outside = Outside
    None = None
    Handlers = {h1}
    Files = {f1, f2}
    Texts = {old, new}
    PipeRoom = 2
    Size <- SizeValue
    Resolved <- ResolvedValue
    UriOf <- UriOfValue
    Fit <- FitValue
PROPERTIES
    RefusedMeansUntouched
    ReplacesRecheckedText
    AppliedMeansAll
    HandlersEnd
