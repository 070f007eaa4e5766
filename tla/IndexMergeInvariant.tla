------------------------ MODULE IndexMergeInvariant ------------------------
(***************************************************************************)
(* An inductive invariant of IndexMerge.tla.  The properties speak of the  *)
(* index that was written; the invariant says of every moment of the merge *)
(* what has gone into the builder and what is still to come.               *)
(***************************************************************************)
EXTENDS IndexMerge

(* What is still to be read, in the queue or in later shards.              *)
LaterShards == {i \in next .. Len(shards) : shards[i].docsReadable}
LaterForwards == {i \in next .. Len(shards) : shards[i].fwdReadable}

Items(q, kind) == {x.item : x \in {y \in ToSet(q) : y.kind = kind}}

PendingDocuments ==
    IF phase = "documents"
    THEN Items(queue, "document") \cup
         UNION {ToSet(shards[i].docs) : i \in LaterShards}
    ELSE {}

PendingExternals ==
    IF phase = "documents"
    THEN Items(queue, "external") \cup
         UNION {ToSet(shards[i].externals) : i \in LaterShards}
    ELSE {}

PendingForwards ==
    IF phase = "documents" THEN ReadForwards
    ELSE IF phase = "forwardDecls"
    THEN ToSet(queue) \cup
         UNION {ToSet(shards[i].fwds) : i \in LaterForwards}
    ELSE {}

InputInv == AreShards(shards) /\ ArePlanned(shards, hashesSoFar)

ReaderInv ==
    /\ phase \in {"documents", "forwardDecls", "written"}
    /\ next \in Nat \ {0}
    /\ IsSequence(queue)
    /\ phase = "documents" =>
          /\ \A i \in DOMAIN queue : queue[i].kind \in {"document", "external"}
          /\ Items(queue, "document") \subseteq ReadDocuments
          /\ Items(queue, "external") \subseteq ReadExternals
    /\ phase = "forwardDecls" => ToSet(queue) \subseteq ReadForwards

(* A path is in one of the two lists of the builder, as the planner says.  *)
BuilderInv ==
    /\ IsSequence(documents)
    /\ \A i \in DOMAIN documents :
          IsDocument(documents[i]) /\ ~isMultiplyIndexedApproximate(documents[i].path)
    /\ multiplyIndexed = [p \in DOMAIN multiplyIndexed |-> multiplyIndexed[p]]
    /\ IsFiniteSet(DOMAIN multiplyIndexed)
    /\ \A p \in DOMAIN multiplyIndexed :
          /\ IsDocument(multiplyIndexed[p]) /\ multiplyIndexed[p].path = p
          /\ isMultiplyIndexedApproximate(p)
    /\ IsSymbolTable(externalSymbols)

ShapeInv == InputInv /\ ReaderInv /\ BuilderInv

-----------------------------------------------------------------------------
BuilderDocs == ToSet(documents) \cup Range(multiplyIndexed)

(* The document d has all that r has.                                      *)
Covers(d, r) ==
    /\ d.path = r.path
    /\ r.occs \subseteq d.occs
    /\ \A n \in DOMAIN r.syms :
          /\ n \in DOMAIN d.syms
          /\ r.syms[n].rels \subseteq d.syms[n].rels
          /\ hasDocumentation(r.syms[n].docs) => hasDocumentation(d.syms[n].docs)

(* All that the document d has comes from the documents of its path.       *)
ComesFrom(d, docs) ==
    /\ \E r \in docs : r.path = d.path
    /\ \A o \in d.occs : \E r \in docs : r.path = d.path /\ o \in r.occs
    /\ \A n \in DOMAIN d.syms :
          /\ \E r \in docs : r.path = d.path /\ n \in DOMAIN r.syms
          /\ \A x \in d.syms[n].rels :
                \E r \in docs : r.path = d.path /\ n \in DOMAIN r.syms /\ x \in r.syms[n].rels

(* No document is lost and nothing is made up.                             *)
NoneLost(read, pending, docs) ==
    \A r \in read : r \in pending \/ \E d \in docs : Covers(d, r)

NoneMadeUp(read, docs) == \A d \in docs : ComesFrom(d, read)

ContentInv ==
    /\ NoneLost(ReadDocuments, PendingDocuments, BuilderDocs)
    /\ NoneMadeUp(ReadDocuments, BuilderDocs)

(* Of two documents of a path with one hash, added or to be added, one is  *)
(* of a main file or aliased.                                              *)
Clash(d, e) == d.path = e.path /\ ~isMultiplyIndexedApproximate(d.path)

AddedOnce ==
    \A i, k \in DOMAIN documents :
        i # k /\ Clash(documents[i], documents[k]) => RepeatedDocument(documents[i].path)

PendingOnce ==
    \A i \in DOMAIN documents : \A e \in PendingDocuments :
        Clash(documents[i], e) => RepeatedDocument(e.path)

QueueOnce ==
    phase = "documents" =>
        \A a \in DOMAIN queue : queue[a].kind = "document" =>
            /\ \A b \in DOMAIN queue :
                  /\ a # b /\ queue[b].kind = "document"
                  /\ Clash(queue[a].item, queue[b].item)
                  => RepeatedDocument(queue[a].item.path)
            /\ \A k \in next .. Len(shards) : \A b \in DOMAIN shards[k].docs :
                  Clash(queue[a].item, shards[k].docs[b]) => RepeatedDocument(queue[a].item.path)

OnceInv == AddedOnce /\ PendingOnce /\ QueueOnce

-----------------------------------------------------------------------------
(* A slot of the resolver is a symbol of a document of the builder.        *)
IsSlot(slot) ==
    \/ /\ slot.list = "documents"
       /\ slot.key \in DOMAIN documents /\ slot.name \in DOMAIN documents[slot.key].syms
    \/ /\ slot.list = "multiplyIndexed"
       /\ slot.key \in DOMAIN multiplyIndexed
       /\ slot.name \in DOMAIN multiplyIndexed[slot.key].syms

DocumentOf(slot) ==
    IF slot.list = "documents" THEN documents[slot.key] ELSE multiplyIndexed[slot.key]

(* The resolver knows the suffixes of all documents and of all external    *)
(* symbols that are left.                                                  *)
ResolverInv ==
    phase # "documents" =>
        /\ \A d \in BuilderDocs : \A n \in DOMAIN d.syms :
              n.suffix = NoSuffix \/ n.suffix \in DOMAIN docInternalMap
        /\ \A s \in DOMAIN docInternalMap :
              IsSlot(docInternalMap[s]) /\ docInternalMap[s].name.suffix = s
        /\ \A s \in DOMAIN externalsMap :
              /\ externalsMap[s] = {n \in DOMAIN externalSymbols : n.suffix = s}
              /\ externalsMap[s] # {}
        /\ \A n \in DOMAIN externalSymbols :
              n.suffix = NoSuffix \/ n.suffix \in DOMAIN externalsMap

(* The names that a forward declaration of the suffix is resolved to.      *)
TargetsOf(suffix) ==
    IF suffix \in DOMAIN docInternalMap THEN {docInternalMap[suffix].name}
    ELSE externalsMap[suffix]

Documented(suffix) ==
    IF suffix \in DOMAIN docInternalMap
    THEN LET slot == docInternalMap[suffix]
         IN  hasDocumentation(DocumentOf(slot).syms[slot.name].docs)
    ELSE \A n \in externalsMap[suffix] : hasDocumentation(externalSymbols[n].docs)

Resolved(f) ==
    /\ f.suffix \in DOMAIN docInternalMap <=> f.suffix \notin DOMAIN externalsMap
    /\ \A ref \in f.references, n \in TargetsOf(f.suffix) :
          [path |-> ref.path, range |-> ref.range, name |-> n] \in forwardDeclOccurrences
    /\ RealText(<<f.doc>>) => Documented(f.suffix)

(* Every forward declaration is still to be read or resolved, and every    *)
(* occurrence is that of a forward declaration.                            *)
ForwardInv ==
    /\ \A f \in ReadForwards : f \in PendingForwards \/ Resolved(f)
    /\ \A o \in forwardDeclOccurrences :
          /\ phase # "documents"
          /\ \E f \in ReadForwards : \E ref \in f.references :
                o.path = ref.path /\ o.range = ref.range /\ o.name.suffix = f.suffix
          /\ o.name.suffix \in DOMAIN docInternalMap \/ o.name.suffix \in DOMAIN externalsMap
          /\ o.name \in TargetsOf(o.name.suffix)

(* No comment of an external symbol is lost, unless the symbol turned out  *)
(* to be of the project.                                                   *)
ExternalInv ==
    \A e \in ReadExternals :
        \/ e \in PendingExternals
        \/ /\ e.name \in DOMAIN externalSymbols
           /\ hasDocumentation(e.info.docs) => hasDocumentation(externalSymbols[e.name].docs)
        \/ /\ phase # "documents"
           /\ e.name \notin DOMAIN externalSymbols /\ e.name.suffix \in DOMAIN docInternalMap

(* The index is what the builder had.                                      *)
OutputInv ==
    phase = "written" =>
        /\ output.externals = externalSymbols
        /\ \A i \in DOMAIN output.documents :
              \E d \in BuilderDocs : output.documents[i] = WithForwardDecls(d)
        /\ \A d \in BuilderDocs : WithForwardDecls(d) \in Documents
        /\ OneDocumentPerPath

(* The inductive invariant of the merge.                                   *)
MergeInv ==
    /\ ShapeInv /\ ContentInv /\ OnceInv
    /\ ResolverInv /\ ForwardInv /\ ExternalInv /\ OutputInv
=============================================================================
