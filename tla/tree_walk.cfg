\* One walk of any kind over any tree of five names, two of which change
\* while it runs.
SPECIFICATION Spec
CONSTANTS
    Nodes <- MCNodes  Root = "root"  Parent <- MCParent  Forms <- MCForms
    Hits <- MCHits  Large = {"large"}  Faulty = {"src"}  Generated = {"build"}
    Targets = {"root", "src", "file"}
    Limit <- MCLimit  MaxDepth = 1  ChangeBound = 2
INVARIANTS AnswersAreWhole FailsOnlyForCause
\* A walk ends.
CHECK_DEADLOCK FALSE
