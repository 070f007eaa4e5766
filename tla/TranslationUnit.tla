-------------------------- MODULE TranslationUnit --------------------------
(***************************************************************************)
(* What a worker does with the translation units it is given               *)
(* (IndexerAstConsumer in src/indexer/AstConsumer.cc, ClangIdLookupMap and *)
(* FileMetadataMap in src/indexer/IdPathMappings.cc), one after the other: *)
(* preprocessing, the exchange with the driver about the files to index,   *)
(* the metadata of the files, the traversal, and the index of the unit.    *)
(* The package map lives as long as the worker.                            *)
(***************************************************************************)
EXTENDS PackageMap, FilePaths, Preprocessing, TuIndexing

LOCAL SE == INSTANCE SequencesExt

CONSTANTS
    RealPath,    \* the files that exist in the project -> their real path
    MaxUnits     \* the number of translation units of the worker

VARIABLES
    phase, job, units,
    idLookup,     \* ClangIdLookupMap: the FileIDs that represent the others
    assigned,     \* the driver's answer: pairs of a path and a hash
    metadata,     \* FileMetadataMap
    indexer,      \* TuIndexer with its SymbolFormatter
    visiting,     \* the next node of the syntax tree
    output        \* TuIndexingOutput

unitVars == <<idLookup, assigned, metadata, indexer, visiting, output>>
vars == <<packageVars, unit, preprocessorVars, phase, job, units, unitVars>>

NoOutput == [documents |-> {}, externals |-> <<>>, forwardDecls |-> {}]

Nothing == [f \in {} |-> {}]

Init ==
    /\ PackageInit
    /\ phase = "idle" /\ job = 0 /\ units = 0
    /\ PreprocessorInit
    /\ idLookup = {} /\ assigned = {} /\ metadata = Nothing
    /\ indexer = Nothing /\ visiting = 1 /\ output = NoOutput

Goto(here, there) == phase = here /\ phase' = there

-----------------------------------------------------------------------------
StartUpAction ==
    /\ ReadEntry \/ FinishPopulate
    /\ UNCHANGED <<unit, preprocessorVars, phase, job, units, unitVars>>

(* Worker::processTranslationUnit.                                         *)
StartUnit ==
    /\ started = "ready" /\ phase \in {"idle", "written"} /\ phase' = "preprocess"
    /\ units < MaxUnits /\ units' = units + 1
    /\ \E j \in DOMAIN Jobs : job' = j /\ PreprocessorStart(j)
    /\ idLookup' = {} /\ assigned' = {} /\ metadata' = Nothing
    /\ indexer' = Nothing /\ visiting' = 1 /\ output' = NoOutput
    /\ UNCHANGED packageVars

PreprocessStep ==
    /\ phase = "preprocess"
    /\ Preprocess
    /\ UNCHANGED <<packageVars, unit, phase, job, units, unitVars>>

-----------------------------------------------------------------------------
Pair(hashes, f) == <<PathOf(unit, f), hashes[f]>>

(* One FileID for each path and hash, whichever ClangIdLookupMap::insert   *)
(* is called with last; imaginary buffers are left out.                    *)
Representatives(hashes) ==
    LET files == {f \in DOMAIN hashes : PathOf(unit, f) # NoFileEntry}
    IN  {R \in SUBSET files :
            \A f \in files : Cardinality({r \in R : Pair(hashes, r) = Pair(hashes, f)}) = 1}

(* HandleTranslationUnit calls flushState, which leaves the main file and  *)
(* goes over the hash map of the files in an arbitrary order.              *)
FlushState ==
    /\ Goto("preprocess", "askDriver")
    /\ LeaveMainFile
    /\ \E R \in Representatives(finishedProcessing') : idLookup' = R
    /\ UNCHANGED <<packageVars, unit, job, units>>
    /\ UNCHANGED <<assigned, metadata, indexer, visiting, output>>

(* SemanticAnalysisJobResult: well-behaved files have one hash, others are *)
(* ill-behaved.                                                            *)
ReportedFiles == {Pair(finishedProcessing, f) : f \in idLookup}
illBehavedFiles == {p \in ReportedFiles : \E q \in ReportedFiles : q[1] = p[1] /\ q[2] # p[2]}
wellBehavedFiles == ReportedFiles \ illBehavedFiles

(* Before the answer: the driver assigns any of the files reported to it.  *)
GetEmitIndexDetails ==
    /\ Goto("askDriver", "metadata")
    /\ \E files \in SUBSET (wellBehavedFiles \cup illBehavedFiles) : assigned' = files
    /\ UNCHANGED <<packageVars, unit, preprocessorVars, job, units>>
    /\ UNCHANGED <<idLookup, metadata, indexer, visiting, output>>

(* The driver wants no index, or does not answer.                          *)
DoNotEmitIndex ==
    /\ Goto("askDriver", "idle")
    /\ UNCHANGED <<packageVars, unit, preprocessorVars, job, units, unitVars>>

-----------------------------------------------------------------------------
File(path, isInProject, isSynthetic, package) ==
    [path |-> path, isInProject |-> isInProject, isSynthetic |-> isSynthetic, package |-> package]

Elem(set) == CHOOSE x \in set : TRUE

Made(p) == <<"<external>">> \o p   \* a hash of the path and the file name

(* FileMetadataMap::insert, after the lookup of the package.  A file below *)
(* the working directory that is also in the project, and no link, stands  *)
(* for that one.                                                           *)
FileMetadata(p, package) ==
    LET packages == IF package = NoPackage THEN {} ELSE {package}
        inPackage == IF package = NoPackage THEN {} ELSE makeRelative(package.rootPath, p)
        inBuild == makeRelative(Jobs[job].buildRoot, p)
        source == joinPath(ProjectRoot, Elem(inBuild))
        exists == inBuild # {} /\ source \in DOMAIN RealPath
        inProject == makeRelative(ProjectRoot, p)
    IN  IF inPackage # {} THEN File(Elem(inPackage), package.isMainPackage, FALSE, packages)
        ELSE IF packages # {} THEN File(Made(p), FALSE, TRUE, packages)
        ELSE IF exists /\ RealPath[source] = source THEN File(Elem(inBuild), TRUE, FALSE, {})
        ELSE IF exists \/ inProject = {} THEN File(Made(p), FALSE, TRUE, {})
        ELSE File(Elem(inProject), TRUE, FALSE, {})

(* An iteration of FileMetadataMap::populate, in the order of a hash map.  *)
PopulateMetadata ==
    /\ phase = "metadata"
    /\ \E f \in idLookup \ DOMAIN metadata :
          /\ lookup(PathOf(unit, f))
          /\ metadata' = metadata @@ (f :> FileMetadata(PathOf(unit, f), answer'))
    /\ UNCHANGED <<unit, preprocessorVars, phase, job, units>>
    /\ UNCHANGED <<idLookup, assigned, indexer, visiting, output>>

(* The FileID of any hash of the path.                                     *)
lookupFileIdVariant(path, hash) ==
    LET files == {f \in idLookup : PathOf(unit, f) = path}
    IN  IF files = {} THEN {} ELSE {Elem(files)}

lookupFileId(path, hash) == {f \in idLookup : Pair(finishedProcessing, f) = <<path, hash>>}

lookupAnyFileId(path) == {f \in idLookup : PathOf(unit, f) = path}

(* forEachIncludeInFile; the FileIDs of a path differ in nothing that the  *)
(* symbol of the file depends on.                                          *)
SaveIncludesOf(ix, f) ==
    After(LAMBDA jx, include :
              IF lookupAnyFileId(include.path) = {} THEN jx
              ELSE saveIncludeOccurrence(jx, f, include.at, Elem(lookupAnyFileId(include.path))),
          saveSyntheticFileDefinition(ix, f), SE!SetToSeq(Old(includeRanges, f)))

(* The order of the files makes no difference: each has its own document.  *)
saveIncludeReferences(ix) ==
    After(LAMBDA jx, f : SaveIncludesOf(jx, f), ix, SE!SetToSeq(ix.toBeIndexed))

(* computeFileIdsToBeIndexed, after populate, and saveIncludeReferences.   *)
ComputeFileIdsToBeIndexed ==
    /\ idLookup \subseteq DOMAIN metadata
    /\ Goto("metadata", "visit")
    /\ lookup(PathOf(unit, MainFileId))
    /\ metadata' = metadata @@ (MainFileId :> FileMetadata(PathOf(unit, MainFileId), answer'))
    /\ \E toBeIndexed \in {{MainFileId} \cup UNION {lookupFileId(p[1], p[2]) : p \in assigned}} :
       \E ix \in {NewIndexer(NewFormatter(unit, metadata'), toBeIndexed)} :
       \E jx \in {saveIncludeReferences(ix)} : indexer' = jx
    /\ UNCHANGED <<unit, preprocessorVars, job, units>>
    /\ UNCHANGED <<idLookup, assigned, visiting, output>>

-----------------------------------------------------------------------------
Visited(k) ==
    /\ phase = "visit" /\ visiting = k /\ k \in DOMAIN unit.events
    /\ visiting' = visiting + 1
    /\ UNCHANGED <<packageVars, unit, preprocessorVars, phase, job, units>>
    /\ UNCHANGED <<idLookup, assigned, metadata, output>>

SkipPreprocessorEvent ==
    /\ Visited(visiting)
    /\ unit.events[visiting].ev \in {"Enter", "Exit", "Define", "Macro", "Include"}
    /\ UNCHANGED indexer

(* IndexerAstVisitor::VisitTagDecl, VisitFunctionDecl and so on; templates *)
(* are covered by the declaration inside them.                             *)
VisitDecl ==
    /\ Visited(visiting)
    /\ unit.events[visiting].ev = "Decl"
    /\ \E result \in {getDeclSymbol(indexer.fmt, visiting)} :
       \E ix \in {saveDecl(indexer, result, visiting)} : indexer' = ix

(* The type locations and expressions.                                     *)
VisitReferences ==
    /\ Visited(visiting)
    /\ unit.events[visiting].ev \notin {"Enter", "Exit", "Define", "Macro", "Include", "Decl"}
    /\ \E ix \in {saveReferences(indexer, visiting)} : indexer' = ix

(* MacroIndexer::emitDocumentOccurrencesAndSymbols.                        *)
MacroOccurrences(f) ==
    {[symbol |-> getMacroSymbol(indexer.fmt, o.macro), at |-> o.at, role |-> o.role] : o \in Old(macroTable, f)}

(* TuIndexer::emitDocumentOccurrencesAndSymbols.                           *)
Document(f) ==
    LET partial == IF f \in DOMAIN indexer.docs THEN indexer.docs[f] ELSE [occs |-> <<>>, infos |-> <<>>]
        macros  == MacroOccurrences(f)
    IN  [fileId |-> f, path |-> metadata[f].path,
         occs   |-> SE!SetToSeq(macros) \o partial.occs,
         infos  |-> partial.infos
                       @@ [s \in {o.symbol : o \in {m \in macros : m.role = "Definition"}} |-> Info(Placeholder, {})]]

(* ForwardDeclMap::emit leaves out the package of the symbol.              *)
ForwardDecls == {[suffix |-> s.desc, doc |-> indexer.fwds[s].doc, refs |-> indexer.fwds[s].refs] : s \in DOMAIN indexer.fwds}

(* MacroIndexer::emitExternalSymbols.                                      *)
ExternalMacros == [s \in {getMacroSymbol(indexer.fmt, d) : d \in nonFileBasedMacros} |-> [docs |-> <<>>, rels |-> {}]]

WriteIndex ==
    /\ visiting \notin DOMAIN unit.events
    /\ Goto("visit", "written")
    /\ output' = [documents    |-> {Document(f) : f \in {g \in indexer.toBeIndexed : metadata[g].isInProject}},
                  externals    |-> indexer.externals @@ ExternalMacros,
                  forwardDecls |-> ForwardDecls]
    /\ UNCHANGED <<packageVars, unit, preprocessorVars, job, units>>
    /\ UNCHANGED <<idLookup, assigned, metadata, indexer, visiting>>

Next ==
    \/ StartUpAction
    \/ StartUnit \/ PreprocessStep \/ FlushState
    \/ GetEmitIndexDetails \/ DoNotEmitIndex
    \/ PopulateMetadata \/ ComputeFileIdsToBeIndexed
    \/ SkipPreprocessorEvent \/ VisitDecl \/ VisitReferences \/ WriteIndex

Spec == Init /\ [][Next]_vars

-----------------------------------------------------------------------------
(* The worker writes a document for exactly the files that the driver      *)
(* assigned to it by path and hash, if they are in the project, and for    *)
(* the main file, whatever stands for the others in the lookup map; and    *)
(* each forward declaration is referenced from a file with a document,     *)
(* since the merge drops the references it has no document for.            *)
DocumentsMatchAssignment ==
    phase = "written" =>
        /\ \A d \in output.documents :
              d.fileId = MainFileId \/ Pair(finishedProcessing, d.fileId) \in assigned
        /\ \A p \in assigned : \E f \in idLookup :
              /\ Pair(finishedProcessing, f) = p
              /\ metadata[f].isInProject =>
                    Cardinality({d \in output.documents :
                        d.fileId \in idLookup /\ Pair(finishedProcessing, d.fileId) = p}) = 1
        /\ \A fwd \in output.forwardDecls : \A i \in DOMAIN fwd.refs :
              \E d \in output.documents : d.path = fwd.refs[i].path

Indexing == phase \in {"visit", "written"}
SymbolCache == indexer.fmt.declBasedCache
IsLocal(symbol) == "local" \in DOMAIN symbol
CachedEntity(k) == unit.events[k].of

(* The symbol an entity was given, if it was asked for and has one.        *)
CachedSymbols(e) ==
    LET d == FoundDecl(unit, IF "templated" \in DOMAIN Entity[e] THEN Entity[e].templated ELSE e)
    IN  {SymbolCache[c] : c \in DOMAIN SymbolCache \cap {declKey(indexer.fmt, d)}}

(* The constants of an unscoped enum belong to the scope around it.        *)
Scope ==
    [e \in DOMAIN Entity |->
        LET ctx == Entity[e].ctx
        IN  IF Entity[e].kind = "EnumConstant" /\ ~ Entity[ctx].scoped THEN Entity[ctx].ctx ELSE ctx]

QualifiedName[e \in DOMAIN Entity] ==
    IF Scope[e] \notin DOMAIN Entity THEN <<Entity[e].name>>
    ELSE Append(QualifiedName[Scope[e]], Entity[e].name)

OutermostDeclared[e \in DOMAIN Entity] ==
    IF Scope[e] \notin DOMAIN Entity \/ Entity[Scope[e]].kind = "Namespace" THEN e
    ELSE OutermostDeclared[Scope[e]]

WrittenName(symbol) ==
    [i \in DOMAIN symbol.desc |->
        IF symbol.desc[i].name[1] \in {"$anonymous_type_", "$anonymous_namespace_"} THEN ""
        ELSE symbol.desc[i].name[1]]

(* However many caches it went through, the symbol of a declaration spells *)
(* the qualified name of what is declared, and has the package of a file   *)
(* that declares the outermost class, function or variable around it: a    *)
(* namespace that several packages reopen gives each its own symbols.      *)
SymbolsNameTheirEntity ==
    Indexing => \A k \in DOMAIN SymbolCache :
        ~ IsLocal(SymbolCache[k]) =>
            /\ WrittenName(SymbolCache[k]) = QualifiedName[CachedEntity(k)]
            /\ \E d \in Redecls(unit, OutermostDeclared[CachedEntity(k)]) :
                  /\ unit.file[d] \in DOMAIN metadata
                  /\ SymbolCache[k].pkg = packageId(metadata[unit.file[d]])

Enclosing[e \in DOMAIN Entity] ==
    {e} \cup (IF Scope[e] \in DOMAIN Entity THEN Enclosing[Scope[e]] ELSE {})

(* What C++ tells apart by more than the qualified name and the type of a  *)
(* function: a specialization of a template, explicit or partial, by its   *)
(* arguments, function templates by their parameters, and what is declared *)
(* in a function by the block it is in.  None of it is in a symbol.        *)
Homonyms ==
    {e \in DOMAIN Entity :
        \/ "specializes" \in DOMAIN Entity[e]
        \/ \E t \in DOMAIN Entity : Entity[t].kind = "FunctionTemplate" /\ Entity[t].templated = e
        \/ Scope[e] \in DOMAIN Entity /\ Entity[Scope[e]].kind = "Function"}

FunctionType(e) == IF Entity[e].kind = "Function" THEN Entity[e].type ELSE ""

(* Two entities that have one symbol by the way symbols are made: they     *)
(* have the same qualified name, and one is a typedef or a using for a     *)
(* name the scope has already, or they, or what they are in, are homonyms. *)
ShareSymbol(e1, e2) ==
    /\ QualifiedName[e1] = QualifiedName[e2] /\ Entity[e1].name # ""
    /\ \/ /\ Entity[e1].kind # Entity[e2].kind
          /\ \E e \in {e1, e2} : Entity[e].kind \in {"Typedef", "UsingShadow"}
       \/ /\ Enclosing[e1] \cap Homonyms # Enclosing[e2] \cap Homonyms
          /\ FunctionType(e1) = FunctionType(e2)


(* The nodes that refer to one entity, which may be a forward declaration. *)
IsReference(k) ==
    \/ unit.events[k].ev = "DeclRef"
    \/ unit.events[k].ev = "MemberExpr" /\ unit.events[k].identifier
    \/ unit.events[k].ev = "TypeLoc" /\ ~ unit.events[k].def

(* A reference in a file to be indexed is recorded once: as an occurrence, *)
(* or for the merge, when its symbol depends on a declaration that another *)
(* unit defines; never as both, and never as neither.                      *)
ReferencesSavedOnce ==
    Indexing => \A k \in 1 .. visiting - 1 :
        (IsReference(k) /\ unit.file[k] \in indexer.toBeIndexed /\ InProject(indexer, unit.file[k])) =>
            \A s \in CachedSymbols(unit.events[k].of) :
                LET f    == unit.file[k]
                    occs == IF f \notin DOMAIN indexer.docs THEN {}
                            ELSE {i \in DOMAIN indexer.docs[f].occs :
                                    /\ indexer.docs[f].occs[i].symbol = s
                                    /\ indexer.docs[f].occs[i].at = unit.events[k].at}
                    deferred == s \in DOMAIN indexer.fwds
                        /\ \E i \in DOMAIN indexer.fwds[s].refs :
                              indexer.fwds[s].refs[i] = [path |-> metadata[f].path, at |-> unit.events[k].at]
                IN  /\ Cardinality(occs) = IF deferred THEN 0 ELSE 1
                    /\ (Entity[unit.events[k].of].kind \in {"Record", "Enum", "Function"}
                            /\ ~ hasDefinition(unit, unit.events[k].of)) => deferred

(* The bases of a class, theirs, and so on.                                *)
Ancestors[e \in Records] == UNION {{b} \cup Ancestors[b] : b \in SE!ToSet(Entity[e].bases)}

(* The declarations that bring information about a type to the tables.     *)
BringsInfo(k) ==
    /\ unit.events[k].ev = "Decl" /\ unit.file[k] \in indexer.toBeIndexed
    /\ Entity[unit.events[k].of].kind \in {"Record", "Enum"} => unit.events[k].def

(* Both are for one symbol, and for one document or the external symbols.  *)
SameSlot(j, k) ==
    /\ CachedSymbols(unit.events[j].of) \cap CachedSymbols(unit.events[k].of) # {}
    /\ \/ unit.file[j] = unit.file[k]
       \/ ~ InProject(indexer, unit.file[j]) /\ ~ InProject(indexer, unit.file[k])

(* The information recorded for a class that is defined in a file to be    *)
(* indexed, in the document or among the external symbols, relates it to   *)
(* all classes it inherits from, however the inheritance forks and joins   *)
(* and whichever packages they are in, and to no other.  This is for the   *)
(* first declaration with the symbol: saveDefinition keeps the information *)
(* it brings (symbolInfos.emplace), so that the bases of a class are lost  *)
(* if its template, another specialization or a typedef of its name comes  *)
(* before it.                                                              *)
ClassesNameAllBases ==
    phase = "written" => \A k \in 1 .. visiting - 1 :
        (/\ BringsInfo(k) /\ unit.events[k].of \in Records
         /\ ~ \E j \in 1 .. k - 1 : BringsInfo(j) /\ SameSlot(j, k)) =>
            LET f == unit.file[k]
                infos == IF InProject(indexer, f) THEN indexer.docs[f].infos ELSE indexer.externals
            IN  \A s \in CachedSymbols(unit.events[k].of) :
                    {r.symbol : r \in infos[s].rels}
                        = UNION {CachedSymbols(b) : b \in Ancestors[unit.events[k].of]}
=============================================================================
