SPECIFICATION Spec
CONSTANTS
    Form <- MCForm
    Installed <- MCInstalled
    Docs <- MCDocs
    AbsoluteDirs = {"/a", "/b"}
    TuFiles = {"m.cc", "/abs.cc", "lost.cc"}
    OnDisk <- MCOnDisk
    ArgLists <- MCArgLists
    ParseLimit = 2
INVARIANT
    AcceptedFilesAreRead
