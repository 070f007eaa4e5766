----------------------------- MODULE IndexMerge -----------------------------
(***************************************************************************)
(* Driver::mergeShardsAndEmit and scip::IndexBuilder                       *)
(* (src/indexer/Driver.cc, src/indexer/ScipExtras.cc): the shards that the *)
(* workers wrote become one index.                                         *)
(*                                                                         *)
(* A symbol is a record of its package and of the package-agnostic suffix  *)
(* that follows "$ " in its name; the suffix of a local symbol is NoSuffix *)
(* (getPackageAgnosticSuffix is nullopt).  Documentation is a sequence of  *)
(* at most one string.  Repeated fields whose order and repetitions do not *)
(* matter below are sets.                                                  *)
(***************************************************************************)
EXTENDS Integers, Sequences, FiniteSets, SequencesExt

CONSTANTS
    Inputs,         \* what the workers may have left: see Init
    NoSuffix

(* What a shard is: documents, external symbols and forward declarations,  *)
(* each in a sequence.  A forward declaration is never of a local symbol.  *)
(* files[i] is the file that docs[i] was made from, and main the main file *)
(* of the unit.  A file is an absolute path with a hash: its document has  *)
(* the path that FileMetadataMap::insert gives it, and root is "project"   *)
(* if the file is at that path in the project.  It need not be: a file of  *)
(* the build directory takes the path of the project's file of that name,  *)
(* and a file of a package a path relative to the package.                 *)
IsSequence(s) == s \in Seq(ToSet(s))

IsSymbolInfo(info) == info = [docs |-> info.docs, rels |-> info.rels]

IsSymbolTable(syms) ==
    /\ syms = [n \in DOMAIN syms |-> syms[n]]
    /\ \A n \in DOMAIN syms : IsSymbolInfo(syms[n])

IsDocument(doc) ==
    /\ doc = [path |-> doc.path, occs |-> doc.occs, syms |-> doc.syms]
    /\ IsSymbolTable(doc.syms)

IsFile(file) == file = [root |-> file.root, path |-> file.path, hash |-> file.hash]

IsShard(shard) ==
    /\ DOMAIN shard.files = DOMAIN shard.docs
    /\ \A i \in DOMAIN shard.docs :
          IsFile(shard.files[i]) /\ shard.docs[i].path = shard.files[i].path
    /\ IsSequence(shard.docs) /\ IsSequence(shard.externals) /\ IsSequence(shard.fwds)
    /\ \A i \in DOMAIN shard.docs : IsDocument(shard.docs[i])
    /\ \A i \in DOMAIN shard.externals : IsSymbolInfo(shard.externals[i].info)
    /\ \A i \in DOMAIN shard.fwds : shard.fwds[i].suffix # NoSuffix
    /\ shard.docsReadable \in BOOLEAN /\ shard.fwdReadable \in BOOLEAN

AreShards(shardList) ==
    IsSequence(shardList) /\ \A i \in DOMAIN shardList : IsShard(shardList[i])

(* The document is of the main file, or its path is not where its file is. *)
IsMain(shard, i) == shard.files[i] = shard.main
IsAliased(shard, i) == shard.files[i].root # "project"

(* What the planner promises of absolute paths (FilesIndexedOnce of        *)
(* DriverWorkers.tla): a file with one hash has one document, unless it is *)
(* the main file of a unit, and hashes has the hashes of every file of the *)
(* project that a unit was asked to index.                                 *)
ArePlanned(shardList, hashes) ==
    /\ \A path \in DOMAIN hashes : IsFiniteSet(hashes[path])
    /\ \A i \in DOMAIN shardList : \A a \in DOMAIN shardList[i].docs :
          LET file == shardList[i].files[a]
          IN  \/ IsMain(shardList[i], a) \/ IsAliased(shardList[i], a)
              \/ file.path \in DOMAIN hashes /\ file.hash \in hashes[file.path]
    /\ \A i, k \in DOMAIN shardList :
          \A a \in DOMAIN shardList[i].docs, b \in DOMAIN shardList[k].docs :
              (i # k \/ a # b) /\ shardList[i].files[a] = shardList[k].files[b] =>
                  IsMain(shardList[i], a) \/ IsMain(shardList[k], b)

ASSUME InputsAssumption ==
    \A in \in Inputs : AreShards(in.shards) /\ ArePlanned(in.shards, in.hashes)

VARIABLES
    shards,             \* Driver::shardPaths, with the contents of the files
    hashesSoFar,        \* FileIndexingPlanner: the hashes of each project path
    phase,              \* "documents", "forwardDecls" or "written"
    next,               \* the next shard to open
    queue,              \* what is left of the open shard
    documents,          \* IndexBuilder::documents
    multiplyIndexed,    \* IndexBuilder::multiplyIndexed, by path
    externalSymbols,    \* IndexBuilder::externalSymbols, by name
    forwardDeclOccurrences,
    docInternalMap,     \* ForwardDeclResolver
    externalsMap,
    output              \* the documents and external symbols of the index

input   == <<shards, hashesSoFar>>
builder == <<documents, multiplyIndexed, externalSymbols, forwardDeclOccurrences>>
resolver == <<docInternalMap, externalsMap>>
mergeVars == <<input, phase, next, queue, builder, resolver, output>>

Placeholder == "No documentation available."

hasDocumentation(docs) == docs # <<>> /\ docs[1] # Placeholder

(* A name without package information has the same prefix.                 *)
addFakePrefix(suffix) == [pkg |-> "", suffix |-> suffix]

(* The hash table f after f[key] = value.                                  *)
Put(f, key, value) ==
    [k \in DOMAIN f \cup {key} |-> IF k = key THEN value ELSE f[k]]

-----------------------------------------------------------------------------
(* The documentation of the first shard is kept, placeholder or not.       *)
MergeSymbolInfoVariant(info, new) ==
    [docs |-> info.docs, rels |-> info.rels \cup new.rels]

(* DocumentBuilder::merge, for one symbol.                                 *)
MergeSymbolInfo(info, new) ==
    [docs |-> IF hasDocumentation(info.docs) THEN info.docs ELSE new.docs,
     rels |-> info.rels \cup new.rels]

(* The occurrences of the later document replace the earlier ones.         *)
mergeVariant(doc, new) == [doc EXCEPT !.occs = new.occs]

merge(doc, new) ==
    [path |-> doc.path,
     occs |-> doc.occs \cup new.occs,
     syms |-> [n \in DOMAIN doc.syms \cup DOMAIN new.syms |->
                  IF n \notin DOMAIN doc.syms THEN new.syms[n]
                  ELSE IF n \notin DOMAIN new.syms THEN doc.syms[n]
                  ELSE MergeSymbolInfo(doc.syms[n], new.syms[n])]]

(* A path with two hashes is taken for one with a single document.         *)
isMultiplyIndexedApproximateVariant(path) ==
    path \in DOMAIN hashesSoFar => Cardinality(hashesSoFar[path]) > 2

(* FileIndexingPlanner::isMultiplyIndexed, where a path without hashes is  *)
(* Unknown, and what the driver makes of it.                               *)
isMultiplyIndexedApproximate(path) ==
    path \in DOMAIN hashesSoFar => Cardinality(hashesSoFar[path]) > 1

-----------------------------------------------------------------------------
(* First pass: documents and external symbols, shard by shard.  A shard    *)
(* that cannot be read is left out.                                        *)
ReadIndexShard ==
    /\ phase = "documents" /\ queue = <<>> /\ next <= Len(shards)
    /\ queue' = IF shards[next].docsReadable
                THEN [i \in DOMAIN shards[next].docs |->
                         [kind |-> "document", item |-> shards[next].docs[i]]]
                  \o [i \in DOMAIN shards[next].externals |->
                         [kind |-> "external", item |-> shards[next].externals[i]]]
                ELSE <<>>
    /\ next' = next + 1
    /\ UNCHANGED <<input, phase, builder, resolver, output>>

AddDocument ==
    LET doc == Head(queue).item
    IN  /\ phase = "documents" /\ queue # <<>> /\ Head(queue).kind = "document"
        /\ IF isMultiplyIndexedApproximate(doc.path)
           THEN /\ multiplyIndexed' = Put(multiplyIndexed, doc.path,
                       IF doc.path \in DOMAIN multiplyIndexed
                       THEN merge(multiplyIndexed[doc.path], doc) ELSE doc)
                /\ UNCHANGED documents
           ELSE /\ documents' = Append(documents, doc)
                /\ UNCHANGED multiplyIndexed
        /\ queue' = Tail(queue)
        /\ UNCHANGED <<input, phase, next, externalSymbols, forwardDeclOccurrences,
                       resolver, output>>

AddExternalSymbol ==
    LET ext == Head(queue).item
        Merged(info) == IF ext.info.docs = <<>>
                        THEN [info EXCEPT !.rels = @ \cup ext.info.rels]
                        ELSE MergeSymbolInfo(info, ext.info)
    IN  /\ phase = "documents" /\ queue # <<>> /\ Head(queue).kind = "external"
        /\ externalSymbols' = Put(externalSymbols, ext.name,
               IF ext.name \in DOMAIN externalSymbols
               THEN Merged(externalSymbols[ext.name]) ELSE ext.info)
        /\ queue' = Tail(queue)
        /\ UNCHANGED <<input, phase, next, documents, multiplyIndexed,
                       forwardDeclOccurrences, resolver, output>>

-----------------------------------------------------------------------------
(* ForwardDeclResolver: a suffix leads to the symbol of the first document *)
(* that has one, in the order of documents and then of the hash table      *)
(* multiplyIndexed, which is any order of its keys.                        *)
SlotsIn(list, key, doc) ==
    {[list |-> list, key |-> key, name |-> n] : n \in DOMAIN doc.syms}

SlotGroups(order) ==
    [i \in DOMAIN documents |-> SlotsIn("documents", i, documents[i])]
    \o [i \in DOMAIN order |->
          SlotsIn("multiplyIndexed", order[i], multiplyIndexed[order[i]])]

Having(group, suffix) == {slot \in group : slot.name.suffix = suffix}

FirstHaving(groups, suffix) ==
    Having(groups[SelectInSeq(groups, LAMBDA g : Having(g, suffix) # {})], suffix)

SuffixesOf(slots) == {slot.name.suffix : slot \in slots} \ {NoSuffix}

PopulateForwardDeclResolver ==
    /\ phase = "documents" /\ queue = <<>> /\ next > Len(shards)
    /\ \E order \in {s \in [1 .. Cardinality(DOMAIN multiplyIndexed)
                               -> DOMAIN multiplyIndexed] : IsInjective(s)} :
        LET groups == SlotGroups(order)
            slots == UNION Range(groups)
        IN  docInternalMap' \in {m \in [SuffixesOf(slots) -> slots] :
                                    \A s \in SuffixesOf(slots) : m[s] \in FirstHaving(groups, s)}
    /\ externalsMap' =
           [suffix \in {n.suffix : n \in DOMAIN externalSymbols} \ {NoSuffix} |->
               {n \in DOMAIN externalSymbols : n.suffix = suffix}]
    /\ phase' = "forwardDecls"
    /\ next' = 1
    /\ UNCHANGED <<input, queue, builder, output>>

-----------------------------------------------------------------------------
(* Second pass: the forward declarations of every shard.                   *)
ReadForwardDecls ==
    /\ phase = "forwardDecls" /\ queue = <<>> /\ next <= Len(shards)
    /\ queue' = IF shards[next].fwdReadable THEN shards[next].fwds ELSE <<>>
    /\ next' = next + 1
    /\ UNCHANGED <<input, phase, builder, resolver, output>>

addForwardDeclOccurrences(names, fwd) ==
    forwardDeclOccurrences' = forwardDeclOccurrences \cup
        {[path |-> ref.path, range |-> ref.range, name |-> n] :
            ref \in fwd.references, n \in names}

FillDocs(info, fwd) ==
    IF hasDocumentation(info.docs) THEN info ELSE [info EXCEPT !.docs = <<fwd.doc>>]

(* No document defines the suffix, but symbols of other packages have it.  *)
UseExternals(fwd) ==
    LET names == externalsMap[fwd.suffix]
    IN  /\ externalSymbols' = [n \in DOMAIN externalSymbols |->
               IF n \in names THEN FillDocs(externalSymbols[n], fwd)
               ELSE externalSymbols[n]]
        /\ addForwardDeclOccurrences(names, fwd)
        /\ UNCHANGED <<documents, multiplyIndexed, resolver>>

(* Nothing is known of the suffix: an external symbol is made up.          *)
MakeUpExternal(fwd) ==
    LET name == addFakePrefix(fwd.suffix)
    IN  /\ externalSymbols' = Put(externalSymbols, name, [docs |-> <<fwd.doc>>, rels |-> {}])
        /\ externalsMap' = Put(externalsMap, fwd.suffix, {name})
        /\ addForwardDeclOccurrences({name}, fwd)
        /\ UNCHANGED <<documents, multiplyIndexed, docInternalMap>>

(* The external symbols that turned out to be of the project are kept.     *)
dropExternalsVariant(suffix) ==
    UNCHANGED <<externalSymbols, externalsMap>>

dropExternals(suffix) ==
    IF suffix \in DOMAIN externalsMap
    THEN /\ externalSymbols' = [n \in DOMAIN externalSymbols \ externalsMap[suffix] |->
                                   externalSymbols[n]]
         /\ externalsMap' = [s \in DOMAIN externalsMap \ {suffix} |-> externalsMap[s]]
    ELSE UNCHANGED <<externalSymbols, externalsMap>>

(* A document defines the suffix.                                          *)
UseDocument(fwd) ==
    LET slot == docInternalMap[fwd.suffix]
        Filled(doc) == IF fwd.doc = "" THEN doc
                       ELSE [doc EXCEPT !.syms[slot.name] = FillDocs(@, fwd)]
    IN  /\ dropExternals(fwd.suffix)
        /\ IF slot.list = "multiplyIndexed"
           THEN /\ multiplyIndexed' = [multiplyIndexed EXCEPT ![slot.key] = Filled(@)]
                /\ UNCHANGED documents
           ELSE /\ documents' = [documents EXCEPT ![slot.key] = Filled(@)]
                /\ UNCHANGED multiplyIndexed
        /\ addForwardDeclOccurrences({slot.name}, fwd)
        /\ UNCHANGED docInternalMap

AddForwardDeclaration ==
    LET fwd == Head(queue)
    IN  /\ phase = "forwardDecls" /\ queue # <<>>
        /\ IF fwd.suffix \in DOMAIN docInternalMap THEN UseDocument(fwd)
           ELSE IF fwd.suffix \in DOMAIN externalsMap THEN UseExternals(fwd)
           ELSE MakeUpExternal(fwd)
        /\ queue' = Tail(queue)
        /\ UNCHANGED <<input, phase, next, output>>

-----------------------------------------------------------------------------
(* IndexWriter::writeDocument: the occurrences of forward declarations are *)
(* added to each document with their path.                                 *)
WithForwardDecls(doc) ==
    [doc EXCEPT !.occs = @ \cup
        {[range |-> o.range, name |-> o.name] :
            o \in {f \in forwardDeclOccurrences : f.path = doc.path}}]

Finish ==
    /\ phase = "forwardDecls" /\ queue = <<>> /\ next > Len(shards)
    /\ LET all == documents \o SetToSeq(Range(multiplyIndexed))
       IN  output' = [documents |-> [i \in DOMAIN all |-> WithForwardDecls(all[i])],
                      externals |-> externalSymbols]
    /\ phase' = "written"
    /\ UNCHANGED <<input, next, queue, builder, resolver>>

Init ==
    /\ \E in \in Inputs : shards = in.shards /\ hashesSoFar = in.hashes
    /\ phase = "documents"
    /\ next = 1
    /\ queue = <<>>
    /\ documents = <<>>
    /\ multiplyIndexed = <<>>
    /\ externalSymbols = <<>>
    /\ forwardDeclOccurrences = {}
    /\ docInternalMap = <<>>
    /\ externalsMap = <<>>
    /\ output = [documents |-> <<>>, externals |-> <<>>]

Written == phase = "written" /\ UNCHANGED mergeVars

Next ==
    \/ ReadIndexShard \/ AddDocument \/ AddExternalSymbol
    \/ PopulateForwardDeclResolver
    \/ ReadForwardDecls \/ AddForwardDeclaration
    \/ Finish \/ Written

Spec == Init /\ [][Next]_mergeVars

-----------------------------------------------------------------------------
(* The shards as the properties see them.                                  *)
ReadDocuments ==
    UNION {ToSet(shards[i].docs) : i \in {k \in DOMAIN shards : shards[k].docsReadable}}
ReadExternals ==
    UNION {ToSet(shards[i].externals) : i \in {k \in DOMAIN shards : shards[k].docsReadable}}
ReadForwards ==
    UNION {ToSet(shards[i].fwds) : i \in {k \in DOMAIN shards : shards[k].fwdReadable}}

Paths(docs) == {d.path : d \in docs}
Symbols(docs) == UNION {DOMAIN d.syms : d \in docs}
OccurrencesIn(docs) == UNION {{<<d.path, o>> : o \in d.occs} : d \in docs}
SymbolsIn(docs) == UNION {{<<d.path, n>> : n \in DOMAIN d.syms} : d \in docs}
RelationshipsIn(docs) ==
    UNION {UNION {{<<d.path, n, r>> : r \in d.syms[n].rels} : n \in DOMAIN d.syms} : d \in docs}

(* Where something of which suffix occurs.                                 *)
Located(occs) == {<<o[1], o[2].range, o[2].name.suffix>> : o \in occs}
ForwardsIn(paths) ==
    UNION {{<<r.path, r.range, f.suffix>> : r \in {x \in f.references : x.path \in paths}} :
              f \in ReadForwards}

Documents == ToSet(output.documents)
DefinitionsOf(suffix) == {n \in Symbols(Documents) : n.suffix = suffix}

(* The index has the documents of the shards that could be read, and each  *)
(* path has there every occurrence, symbol and relationship that a shard   *)
(* has for it, whatever the order of the shards and whichever of them are  *)
(* missing; nothing is added but the ranges of forward declarations.       *)
MergedIndexIsUnion ==
    phase = "written" =>
        /\ Paths(Documents) = Paths(ReadDocuments)
        /\ SymbolsIn(Documents) = SymbolsIn(ReadDocuments)
        /\ RelationshipsIn(Documents) = RelationshipsIn(ReadDocuments)
        /\ OccurrencesIn(ReadDocuments) \subseteq OccurrencesIn(Documents)
        /\ Located(OccurrencesIn(Documents)) =
              Located(OccurrencesIn(ReadDocuments)) \cup ForwardsIn(Paths(ReadDocuments))

(* One of two documents of the path is of a main file or aliased.          *)
RepeatedDocument(path) ==
    \E i, k \in DOMAIN shards :
        \E a \in DOMAIN shards[i].docs, b \in DOMAIN shards[k].docs :
            /\ i # k \/ a # b
            /\ shards[i].docs[a].path = path /\ shards[k].docs[b].path = path
            /\ IsMain(shards[i], a) \/ IsAliased(shards[i], a)

(* A path has one document, however many hashes and shards it has, with    *)
(* two exceptions, where the planner knows at most one hash of the path    *)
(* and the documents are not merged.  A main file is indexed by its own    *)
(* unit even if the same file was assigned to another unit                 *)
(* (IndexerAstConsumer::HandleTranslationUnit).  And a file outside the    *)
(* project root that FileMetadataMap::insert gives the path of a project   *)
(* file is another file to the planner, which goes by absolute paths.      *)
OneDocumentPerPath ==
    phase = "written" =>
        \A i, k \in DOMAIN output.documents :
            i # k /\ output.documents[i].path = output.documents[k].path =>
                RepeatedDocument(output.documents[i].path)

(* A forward declaration ends up at a definition of the project whenever   *)
(* some document has one, under one and the same name in all files, and    *)
(* then no external symbol is left for it; otherwise at every external     *)
(* symbol with its suffix, of which there is at least one.                 *)
ForwardDeclsResolved ==
    phase = "written" =>
        \A f \in ReadForwards :
            LET external == {n \in DOMAIN output.externals : n.suffix = f.suffix}
                used == {o.name : o \in {g \in forwardDeclOccurrences : g.name.suffix = f.suffix}}
            IN  IF DefinitionsOf(f.suffix) # {}
                THEN external = {} /\ \E n \in DefinitionsOf(f.suffix) : used \subseteq {n}
                ELSE external # {} /\ (f.references # {} => used = external)

RealText(docs) == hasDocumentation(docs) /\ docs[1] # ""

(* The placeholder never hides a comment: a symbol of the index without    *)
(* documentation had none in any shard, neither in the only document of    *)
(* its path nor, if it is the only symbol of its suffix, at a forward      *)
(* declaration; an external symbol had none at all.                        *)
PlaceholderHidesNoComment ==
    phase = "written" =>
        /\ \A d \in Documents : \A n \in DOMAIN d.syms :
              ~hasDocumentation(d.syms[n].docs) =>
                  /\ \/ \E e \in Documents : e.path = d.path /\ e # d
                     \/ \A r \in ReadDocuments :
                            r.path = d.path /\ n \in DOMAIN r.syms =>
                                ~hasDocumentation(r.syms[n].docs)
                  /\ \/ \E e \in Documents : \E m \in DOMAIN e.syms :
                            m.suffix = n.suffix /\ (e # d \/ m # n)
                     \/ \A f \in ReadForwards : f.suffix = n.suffix => ~RealText(<<f.doc>>)
        /\ \A n \in DOMAIN output.externals :
              ~hasDocumentation(output.externals[n].docs) =>
                  /\ \A e \in ReadExternals : e.name = n => ~hasDocumentation(e.info.docs)
                  /\ \A f \in ReadForwards : f.suffix = n.suffix => ~RealText(<<f.doc>>)
=============================================================================
