SPECIFICATION Spec
CONSTANTS
    Path <- MCPath
    Prefixes <- PathPrefixes
    Depth <- PathDepth
    Normal <- normalize
    RootDirectory <- Slash
    ProjectRoot <- work
    HasPackageMap = TRUE
    Entries <- MCEntries
    IsTesting = FALSE
    NoPackage = NoPackage
    NoPath = NoPath
    NoLocation = NoLocation
    NoFileEntry = NoFileEntry
    LineMarker = LineMarker
    InvalidFileId = InvalidFileId
    Entity <- MCEntity
    TranslationUnitDecl = TranslationUnitDecl
    LinkageSpecDecl = LinkageSpecDecl
    Members <- MCMembers
    Placeholder = "No documentation"
    NoComment = NoComment
    MaxUnresolvedDecls = 2
    MaxIterations = 12
    Jobs <- MCJobs
    RealPath <- MCRealPath
    MaxUnits = 2
INVARIANTS
    DocumentsMatchAssignment
    HashIsIncludeTree
    PreprocessorInv
    LookupIsNearest
    SymbolsNameTheirEntity
    
    ReferencesSavedOnce
    ClassesNameAllBases
CHECK_DEADLOCK FALSE
