SPECIFICATION Spec
CONSTANTS
    Inputs <- MCInputs
    NoSuffix = "none"
INVARIANTS
    MergedIndexIsUnion
    OneDocumentPerPath
    ForwardDeclsResolved
    PlaceholderHidesNoComment
    MergeInv
