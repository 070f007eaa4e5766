---------------------------- MODULE Preprocessing ----------------------------
(***************************************************************************)
(* IndexerPreprocessorWrapper and MacroIndexer                             *)
(* (src/indexer/Preprocessing.cc, src/indexer/Indexer.cc): what the        *)
(* callbacks of clang's preprocessor leave behind for one translation      *)
(* unit.                                                                   *)
(***************************************************************************)
EXTENDS ClangUnit, Traversal, TLC

CONSTANTS
    Jobs    \* job -> its events and its working directory

ASSUME JobsAssumption == \A j \in DOMAIN Jobs : IsNested(Jobs[j].events)

VARIABLES
    unit,                 \* the translation unit
    position,             \* the next one
    stack,                \* IndexerPreprocessorStack
    finishedProcessing,   \* FileID -> hash
    macroTable,           \* MacroIndexer::table, FileID -> occurrences
    nonFileBasedMacros,
    includeRanges         \* FileID -> the #include directives of the file

macroVars == <<macroTable, nonFileBasedMacros, includeRanges>>
preprocessorVars == <<position, stack, finishedProcessing, macroVars>>

FileIdAt(k) == unit.file[k]

-----------------------------------------------------------------------------
(* A hash is the sequence of the values mixed into it.  An empty optional  *)
(* on the stack is a builder with the invalid FileID.                      *)
Mix(builders, hash) ==
    IF builders = <<>> \/ builders[Len(builders)].fileId = InvalidFileId THEN builders
    ELSE [builders EXCEPT ![Len(builders)].hash = Append(@, hash)]

(* A buffer without location is not pushed.                                *)
enterFileVariant(fileId) ==
    IF fileId = InvalidFileId THEN UNCHANGED stack
    ELSE stack' = Append(stack, [fileId |-> fileId, hash |-> <<>>])

enterFile(fileId) == stack' = Append(stack, [fileId |-> fileId, hash |-> <<>>])

(* The first hash of a file stays.                                         *)
InsertNew(hashes, fileId, hash) ==
    [f \in DOMAIN hashes \cup {fileId} |-> IF f \in DOMAIN hashes THEN hashes[f] ELSE hash]

(* The hash of a file that is left is not mixed into the file around it.   *)
exitFileVariant(fileId) ==
    LET top == stack[Len(stack)]
    IN  /\ stack' = SubSeq(stack, 1, Len(stack) - 1)
        /\ finishedProcessing' =
              IF fileId = InvalidFileId THEN finishedProcessing
              ELSE InsertNew(finishedProcessing, top.fileId, top.hash)

(* exitFile and exitFileImpl.  That the FileID of a valid exit is the one  *)
(* on top of the stack is an ENFORCE, which HashIsIncludeTree checks.      *)
exitFile(fileId) ==
    LET top  == stack[Len(stack)]
        rest == SubSeq(stack, 1, Len(stack) - 1)
    IN  IF fileId = InvalidFileId
        THEN stack' = rest /\ UNCHANGED finishedProcessing
        ELSE /\ finishedProcessing' = InsertNew(finishedProcessing, top.fileId, top.hash)
             /\ stack' = Mix(rest, top.hash)

-----------------------------------------------------------------------------
Old(table, fileId) == IF fileId \in DOMAIN table THEN table[fileId] ELSE {}

(* The set of occurrences is keyed by the range alone: the first one for a *)
(* range stays.                                                            *)
saveOccurrence(fileId, at, macro, role) ==
    LET old == Old(macroTable, fileId)
        new == IF \E o \in old : o.at = at THEN old
               ELSE old \cup {[at |-> at, macro |-> macro, role |-> role]}
    IN  macroTable' = (fileId :> new) @@ macroTable

(* A macro is the position of its definition.                              *)
saveMacroDefinition(event) ==
    IF FileIdAt(position) = InvalidFileId
    THEN nonFileBasedMacros' = nonFileBasedMacros \cup {position} /\ UNCHANGED macroTable
    ELSE saveOccurrence(FileIdAt(position), event.at, position, "Definition")
         /\ UNCHANGED nonFileBasedMacros

(* clang: the definition in effect, 0 if there is none.                    *)
MacroDefinition(event) ==
    LET earlier == {k \in 1 .. position - 1 : unit.events[k].ev = "Define" /\ unit.events[k].name = event.name}
    IN  IF earlier = {} THEN 0 ELSE CHOOSE k \in earlier : \A l \in earlier : l <= k

(* MacroExpands, MacroUndefined, Ifdef, ...; an ambiguous or built-in      *)
(* macro, or a use inside the <built-in> buffer, leaves no trace.          *)
saveMacroReference(event) ==
    IF event.ignored \/ MacroDefinition(event) = 0 \/ FileIdAt(position) = InvalidFileId
    THEN UNCHANGED macroTable
    ELSE saveOccurrence(FileIdAt(position), event.at, MacroDefinition(event), "Reference")

saveInclude(event) ==
    includeRanges' =
        LET f == FileIdAt(position)
        IN  IF event.path = NoFileEntry \/ f = InvalidFileId THEN includeRanges
            ELSE (f :> Old(includeRanges, f) \cup {[at |-> event.at, path |-> event.path]})
                     @@ includeRanges

-----------------------------------------------------------------------------
Event(kind) == position \in DOMAIN unit.events /\ unit.events[position].ev = kind

(* FileChanged: EnterFile, ExitFile, and RenameFile or SystemHeaderPragma, *)
(* which change nothing.                                                   *)
FileEntered ==
    /\ Event("Enter")
    /\ enterFile(FileIdAt(position))
    /\ UNCHANGED <<finishedProcessing, macroVars>>

FileExited ==
    /\ Event("Exit")
    /\ exitFile(IF unit.events[position].valid THEN FileIdAt(position - 1) ELSE InvalidFileId)
    /\ UNCHANGED macroVars

MacroDefined ==
    /\ Event("Define")
    /\ saveMacroDefinition(unit.events[position])
    /\ UNCHANGED <<stack, finishedProcessing, includeRanges>>

MacroUsed ==
    /\ Event("Macro")
    /\ saveMacroReference(unit.events[position])
    /\ UNCHANGED <<stack, finishedProcessing, nonFileBasedMacros, includeRanges>>

InclusionDirective ==
    /\ Event("Include")
    /\ saveInclude(unit.events[position])
    /\ UNCHANGED <<stack, finishedProcessing, macroTable, nonFileBasedMacros>>

NotPreprocessed ==
    /\ position \in DOMAIN unit.events
    /\ unit.events[position].ev \notin {"Enter", "Exit", "Define", "Macro", "Include"}
    /\ UNCHANGED <<stack, finishedProcessing, macroVars>>

Preprocess ==
    /\ \/ FileEntered \/ FileExited
       \/ MacroDefined \/ MacroUsed \/ InclusionDirective
       \/ NotPreprocessed
    /\ position' = position + 1

PreprocessorStart(j) ==
    /\ unit' = ClangUnit(Jobs[j].events)
    /\ position' = 1 /\ stack' = <<>>
    /\ finishedProcessing' = [f \in {} |-> <<>>]
    /\ macroTable' = [f \in {} |-> {}] /\ nonFileBasedMacros' = {}
    /\ includeRanges' = [f \in {} |-> {}]

(* flushState leaves the main file: HandleTranslationUnit calls it before  *)
(* EndOfMainFile, and once.                                                *)
Flushed == MainFileId \in DOMAIN finishedProcessing

LeaveMainFile ==
    /\ unit.events # <<>> /\ position > Len(unit.events) /\ ~ Flushed
    /\ exitFile(MainFileId)
    /\ UNCHANGED <<position, macroVars>>

PreprocessorInit ==
    /\ unit = ClangUnit(<<>>) /\ position = 1 /\ stack = <<>>
    /\ finishedProcessing = [f \in {} |-> <<>>]
    /\ macroTable = [f \in {} |-> {}] /\ nonFileBasedMacros = {}
    /\ includeRanges = [f \in {} |-> {}]

PreprocessorNext ==
    \/ \E j \in DOMAIN Jobs : PreprocessorStart(j)
    \/ (Preprocess \/ LeaveMainFile) /\ UNCHANGED unit

(* The preprocessor on its own, for one translation unit after the other.  *)
PreprocessorSpec == PreprocessorInit /\ [][PreprocessorNext]_<<unit, preprocessorVars>>

-----------------------------------------------------------------------------
(* The files that are included at the level of Enter event f, whatever the *)
(* stack did.                                                              *)
Included(u, f) ==
    {k \in f + 1 .. Len(u.events) :
        /\ u.events[k].ev = "Enter" /\ u.events[k].path \notin {NoLocation, LineMarker}
        /\ u.inside[k - 1] = f
        /\ \E l \in k + 1 .. Len(u.events) : u.events[l].ev = "Exit" /\ u.inside[l - 1] = k}

(* A file is told from others by what it includes, in order, and they by   *)
(* what they include.                                                      *)
IncludeTrees(u) ==
    LET tree[f \in DOMAIN u.events] ==
            [n \in 1 .. Cardinality(Included(u, f)) |-> tree[Nth(Included(u, f), n)]]
    IN  tree

(* The hash of a file that has been left is the tree of the files included *)
(* from it, in order, however entering and leaving files interleave with   *)
(* buffers that have no location and with line markers: it is never the    *)
(* hash of another file.  What is included between two line markers counts *)
(* for neither; if line markers are left open at the end of the main file, *)
(* its hash is that of the part after the last one.  And the stack is in   *)
(* step with clang: the ENFORCEs of exitFileImpl, that a file which is     *)
(* left with a valid FileID is the one on top, hold at every exit and in   *)
(* flushState.                                                             *)
HashIsIncludeTree ==
    /\ \A f \in DOMAIN finishedProcessing :
          finishedProcessing[f] =
              IncludeTrees(unit)[IF f = MainFileId THEN unit.inside[Len(unit.events)] ELSE f]
    /\ (Event("Exit") /\ unit.events[position].valid /\ FileIdAt(position - 1) # InvalidFileId) =>
           stack # <<>> /\ stack[Len(stack)].fileId = FileIdAt(position - 1)
    /\ (unit.events # <<>> /\ position > Len(unit.events) /\ ~ Flushed) =>
           stack # <<>> /\ stack[Len(stack)].fileId = MainFileId
=============================================================================
