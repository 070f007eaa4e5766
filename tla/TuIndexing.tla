----------------------------- MODULE TuIndexing -----------------------------
(***************************************************************************)
(* TuIndexer, ForwardDeclMap and ApproximateNameResolver                   *)
(* (src/indexer/Indexer.cc, src/indexer/ApproximateNameResolver.cc): what  *)
(* is saved for each node of the syntax tree.                              *)
(*                                                                         *)
(* An indexer is a record of the symbol formatter (fmt), the files to be   *)
(* indexed, the partial documents, the external symbols, the forward       *)
(* declarations, and the cache of member lookups.  The save operators for  *)
(* declarations yield the indexer after the call; those for types and      *)
(* expressions yield the references to save, which saveReferences saves.   *)
(* A location is a FileID and a range; that of a node in a macro is the    *)
(* place of the expansion.                                                 *)
(***************************************************************************)
EXTENDS SymbolNames, Traversal

CONSTANTS
    Members,          \* record -> member name -> what clang's lookup finds
    Placeholder,      \* scip::missingDocumentationPlaceholder
    NoComment,
    MaxUnresolvedDecls,  \* MAX_UNRESOLVED_DECL_LIMIT, 16 in the code
    MaxIterations        \* of the loops over types, 10000 in the code

NewIndexer(fmt, toBeIndexed) ==
    [fmt |-> fmt, toBeIndexed |-> toBeIndexed, docs |-> <<>>, externals |-> <<>>,
     fwds |-> <<>>, memberCache |-> <<>>]

Node(ix, k) == ix.fmt.unit.events[k]
Location(ix, k) == [file |-> ix.fmt.unit.file[k], at |-> Node(ix, k).at]
InProject(ix, f) == f \in DOMAIN ix.fmt.meta /\ ix.fmt.meta[f].isInProject

SymbolOf(ix, e) == getNamedDeclSymbol(ix.fmt, e)

(* The indexer after the call that gave the result, and its symbol.        *)
Asked(ix, result) == [ix EXCEPT !.fmt = result.fmt]
TheSymbol(result) == CHOOSE s \in result.sym : TRUE

-----------------------------------------------------------------------------
(* DocComment::addTo: a blank comment still adds an entry, the empty one.  *)
Info(doc, rels) == [docs |-> <<doc>>, rels |-> rels]

(* The comment of an enum constant that clang takes from the one before it *)
(* has commentOfPrevious set (checkIfCommentBelongsToPreviousEnumCase).    *)
getDocComment(ix, d) ==
    LET own    == Node(ix, d)
        others == {r \in Redecls(ix.fmt.unit, own.of) : Node(ix, r).doc # NoComment}
    IN  IF own.commentOfPrevious THEN Placeholder
        ELSE IF own.doc # NoComment THEN own.doc
        ELSE IF others # {} THEN Node(ix, CHOOSE r \in others : \A q \in others : r <= q).doc
        ELSE Placeholder

(* DocComment::replaceIfEmpty.                                             *)
replaceIfEmpty(doc, other) ==
    IF other # "" /\ doc \in {"", Placeholder} THEN other ELSE doc

(* ForwardDeclMap::insert; a new entry has the default comment.            *)
insertForwardDecl(ix, symbol, doc, path, at) ==
    LET old == IF symbol \in DOMAIN ix.fwds THEN ix.fwds[symbol]
               ELSE [doc |-> Placeholder, refs |-> <<>>]
    IN  [ix EXCEPT !.fwds = (symbol :> [doc  |-> replaceIfEmpty(old.doc, doc),
                                        refs |-> Append(old.refs, [path |-> path, at |-> at])]) @@ @]

(* RefersToForwardDecl::check looks at the canonical declaration only.     *)
RefersToForwardDecl(ix, e) ==
    /\ "templated" \in DOMAIN Entity[e] => Entity[e].kind = "FunctionTemplate"
    /\ LET t == IF "templated" \in DOMAIN Entity[e] THEN Entity[e].templated ELSE e
           d == getCanonicalDecl(ix.fmt.unit, FoundDecl(ix.fmt.unit, t))
       IN  Entity[t].kind \in {"Var", "Record", "Enum", "Function"} /\ ~ Node(ix, d).def

-----------------------------------------------------------------------------
saveOccurrenceImpl(ix, symbol, at, f, role) ==
    LET old == IF f \in DOMAIN ix.docs THEN ix.docs[f] ELSE [occs |-> <<>>, infos |-> <<>>]
        occ == [symbol |-> symbol, at |-> at, role |-> role]
    IN  [ix EXCEPT !.docs = (f :> [old EXCEPT !.occs = Append(@, occ)]) @@ @]

(* The documentation of a later definition fills in an empty one.          *)
saveExternalSymbol(ix, symbol, info) ==
    IF symbol \notin DOMAIN ix.externals
    THEN [ix EXCEPT !.externals = (symbol :> info) @@ @]
    ELSE IF ix.externals[symbol].docs = <<>> THEN [ix EXCEPT !.externals[symbol].docs = info.docs]
    ELSE ix

(* infos is empty for symbols without information, such as locals.         *)
saveDefinition(ix, symbol, loc, infos) ==
    LET f == loc.file
    IN  IF f \notin ix.toBeIndexed \/ f \notin DOMAIN ix.fmt.meta THEN ix
        ELSE IF InProject(ix, f)
        THEN LET jx == saveOccurrenceImpl(ix, symbol, loc.at, f, "Definition")
             IN  IF infos = {} THEN jx
                 ELSE [jx EXCEPT !.docs[f].infos = @ @@ (symbol :> CHOOSE i \in infos : TRUE)]
        ELSE IF infos = {} THEN ix
        ELSE saveExternalSymbol(ix, symbol, CHOOSE i \in infos : TRUE)

saveForwardDeclaration(ix, symbol, loc, doc) ==
    LET f == loc.file
    IN  IF f \notin ix.toBeIndexed \/ ~ InProject(ix, f) THEN ix
        ELSE insertForwardDecl(ix, symbol, doc, ix.fmt.meta[f].path, loc.at)

(* A reference to a forward declaration is recorded as an occurrence too.  *)
saveReferenceVariant(ix, symbol, loc, maybeFwdDecl) ==
    LET f == loc.file
        jx == saveOccurrenceImpl(ix, symbol, loc.at, f, "Reference")
    IN  IF f \notin ix.toBeIndexed \/ ~ InProject(ix, f) THEN ix
        ELSE IF \E e \in maybeFwdDecl : RefersToForwardDecl(ix, e)
        THEN insertForwardDecl(jx, symbol, Placeholder, ix.fmt.meta[f].path, loc.at)
        ELSE jx

(* maybeFwdDecl: the entity, or empty where the code passes no declaration.*)
saveReference(ix, symbol, loc, maybeFwdDecl) ==
    LET f == loc.file
    IN  IF f \notin ix.toBeIndexed \/ ~ InProject(ix, f) THEN ix
        ELSE IF \E e \in maybeFwdDecl : RefersToForwardDecl(ix, e)
        THEN LET e == CHOOSE e \in maybeFwdDecl : TRUE
                 d == FoundDecl(ix.fmt.unit, IF "templated" \in DOMAIN Entity[e]
                                             THEN Entity[e].templated ELSE e)
             IN  insertForwardDecl(ix, symbol, getDocComment(ix, d), ix.fmt.meta[f].path, loc.at)
        ELSE saveOccurrenceImpl(ix, symbol, loc.at, f, "Reference")

(* result is what SymbolFormatter answered.                                *)
trySaveReference(ix, result, loc, maybeFwdDecl) ==
    IF result.sym = {} THEN Asked(ix, result)
    ELSE saveReference(Asked(ix, result), TheSymbol(result), loc, maybeFwdDecl)

-----------------------------------------------------------------------------
RECURSIVE Reach(_, _, _, _)

(* A loop with a stack of types and a set of the ones seen: what it visits *)
(* in order, in at most the given number of iterations.                    *)
Reach(todo, visited, next, iterations) ==
    IF todo = <<>> \/ iterations = 0 THEN visited
    ELSE LET type == todo[Len(todo)]
             rest == SubSeq(todo, 1, Len(todo) - 1)
             seen == \E i \in DOMAIN visited : visited[i] = type
         IN  Reach(IF seen THEN rest ELSE rest \o next[type],
                   IF seen THEN visited ELSE Append(visited, type), next, iterations - 1)

Records == {e \in DOMAIN Entity : Entity[e].kind = "Record"}

(* The base classes are not followed further.                              *)
BasesVariant(ix, e) == Entity[e].bases

(* The loop of saveTagDecl; the class itself is visited first.             *)
Bases(ix, e) ==
    LET next == [t \in Records |-> IF hasDefinition(ix.fmt.unit, t) THEN Entity[t].bases ELSE <<>>]
    IN  Tail(Reach(<<e>>, <<>>, next, MaxIterations))

WithRelation(st, result, isReference) ==
    [ix |-> Asked(st.ix, result),
     rels |-> st.rels \cup {[symbol |-> s, isReference |-> isReference] : s \in result.sym}]

(* The relationships to the given entities, those with a symbol.           *)
Related(ix, entities, isReference) ==
    After(LAMBDA st, e : WithRelation(st, SymbolOf(st.ix, e), isReference),
          [ix |-> ix, rels |-> {}], entities)

(* An explicit specialization is a reference to the template as well.      *)
saveTagDefinition(st, symbol, k) ==
    LET loc == Location(st.ix, k)
    IN  saveDefinition(IF Entity[Node(st.ix, k).of].explicitSpecialization
                       THEN saveReference(st.ix, symbol, loc, {}) ELSE st.ix,
                       symbol, loc, {Info(getDocComment(st.ix, k), st.rels)})

saveFunctionDefinition(st, symbol, k) ==
    saveDefinition(st.ix, symbol, Location(st.ix, k), {Info(getDocComment(st.ix, k), st.rels)})

(* What saveTagDecl and saveFunctionDecl do with a mere declaration.       *)
saveDeclaration(ix, symbol, k) ==
    saveForwardDeclaration(ix, symbol, Location(ix, k), getDocComment(ix, k))

(* In the operators below, result is the answer of SymbolFormatter.        *)
saveTagDecl(ix, result, k) ==
    LET node  == Node(ix, k)
        bases == IF node.of \in Records THEN Bases(ix, node.of) ELSE <<>>
    IN  IF node.def THEN saveTagDefinition(Related(Asked(ix, result), bases, FALSE), TheSymbol(result), k)
        ELSE saveDeclaration(Asked(ix, result), TheSymbol(result), k)

(* A pure virtual function counts as its definition.                       *)
saveFunctionDecl(ix, result, k) ==
    LET node == Node(ix, k)
    IN  IF node.def \/ Entity[node.of].pure
        THEN saveFunctionDefinition(Related(Asked(ix, result), Entity[node.of].overrides, TRUE),
                                    TheSymbol(result), k)
        ELSE saveDeclaration(Asked(ix, result), TheSymbol(result), k)

(* A definition with the comment as its only information.                  *)
saveDocumented(ix, symbol, k) ==
    saveDefinition(ix, symbol, Location(ix, k), {Info(getDocComment(ix, k), {})})

(* A file-level variable or static member is a definition even when it is  *)
(* only declared; a local extern declaration is a reference.               *)
saveVarDecl(ix, result, k) ==
    LET e == Node(ix, k).of
    IN  CASE Entity[e].storage = "localExtern" -> trySaveReference(ix, result, Location(ix, k), {e})
          [] Entity[e].storage = "local" -> saveDefinition(Asked(ix, result), TheSymbol(result), Location(ix, k), {})
          [] OTHER -> saveDocumented(Asked(ix, result), TheSymbol(result), k)

SaveShadowTarget(ix, k) ==
    trySaveReference(ix, SymbolOf(ix, Entity[Node(ix, k).of].target), Location(ix, k), {})

saveUsingShadowDecl(ix, result, k) ==
    SaveShadowTarget(saveDocumented(Asked(ix, result), TheSymbol(result), k), k)

saveNamespaceDecl(ix, result, k) ==
    saveDefinition(Asked(ix, result), TheSymbol(result), Location(ix, k), {Info("namespace", {})})

(* Enum constants, fields and typedefs; bindings and template parameters   *)
(* are locals.  Templates are covered by the declaration inside them.      *)
saveOtherDecl(ix, result, k) ==
    IF Entity[Node(ix, k).of].kind \in {"Binding", "TemplateTypeParm"}
    THEN saveDefinition(Asked(ix, result), TheSymbol(result), Location(ix, k), {})
    ELSE saveDocumented(Asked(ix, result), TheSymbol(result), k)

(* All of them do nothing more if there is no symbol.                      *)
saveDecl(ix, result, k) ==
    LET kind == Entity[Node(ix, k).of].kind
    IN  CASE result.sym = {} -> Asked(ix, result)
          [] result.sym # {} /\ kind \in {"Record", "Enum"} -> saveTagDecl(ix, result, k)
          [] result.sym # {} /\ kind = "Function" -> saveFunctionDecl(ix, result, k)
          [] result.sym # {} /\ kind = "Var" -> saveVarDecl(ix, result, k)
          [] result.sym # {} /\ kind = "UsingShadow" -> saveUsingShadowDecl(ix, result, k)
          [] result.sym # {} /\ kind = "Namespace" -> saveNamespaceDecl(ix, result, k)
          [] OTHER -> saveOtherDecl(ix, result, k)
-----------------------------------------------------------------------------
(* References.  An operator here yields the references that the function   *)
(* of this name tries to save, in order.  What is passed as maybeFwdDecl   *)
(* differs: where it is empty, a reference to a forward declaration stays  *)
(* an occurrence.                                                          *)
Ref(e, loc, maybeFwdDecl) == [of |-> e, loc |-> loc, maybeFwdDecl |-> maybeFwdDecl]

PlainRef(ix, k) == <<Ref(Node(ix, k).of, Location(ix, k), {})>>
DeclRef(ix, k)  == <<Ref(Node(ix, k).of, Location(ix, k), {Node(ix, k).of})>>

saveTagTypeLoc(ix, k) == IF Node(ix, k).def THEN <<>> ELSE DeclRef(ix, k)

(* Typedefs and the types that a using declaration brings in.              *)
saveTypedefTypeLoc(ix, k) == PlainRef(ix, k)

(* Template parameters, and specializations, named after the template or   *)
(* the using declaration that was written.                                 *)
saveTemplateTypeLoc(ix, k) == PlainRef(ix, k)

saveTypeLoc(ix, k) ==
    LET kind == Entity[Node(ix, k).of].kind
    IN  CASE kind \in {"Record", "Enum"} -> saveTagTypeLoc(ix, k)
          [] kind \in {"Typedef", "UsingShadow"} -> saveTypedefTypeLoc(ix, k)
          [] OTHER -> saveTemplateTypeLoc(ix, k)

trySaveTypeReference(e, loc) == Ref(e, loc, {e})

(* The names of A::B::, the last one first.                                *)
saveNestedNameSpecifierLoc(ix, k) ==
    [i \in DOMAIN Node(ix, k).names |->
        LET name == Node(ix, k).names[i]
            loc  == [Location(ix, k) EXCEPT !.at = name.at]
        IN  IF Entity[name.of].kind = "Namespace" THEN Ref(name.of, loc, {})
            ELSE trySaveTypeReference(name.of, loc)]

(* The member that a constructor initializes.                              *)
saveFieldReference(ix, k) == PlainRef(ix, k)

saveCUDAKernelCallExpr(ix, k) == PlainRef(ix, k)

saveCXXConstructExpr(ix, k) == IF Node(ix, k).implicit THEN <<>> ELSE PlainRef(ix, k)

(* The entity is the using declaration, where there is one.                *)
saveDeclRefExpr(ix, k) == DeclRef(ix, k)

(* An operator has no identifier to refer to it.                           *)
saveMemberExpr(ix, k) == DeclRef(ix, k)

(* The overloads; the first ones that have a symbol are saved.             *)
saveUnresolvedLookupExpr(ix, k) ==
    [i \in DOMAIN Node(ix, k).decls |-> Ref(Node(ix, k).decls[i], Location(ix, k), {})]

-----------------------------------------------------------------------------
(* ApproximateNameResolver::tryResolveMember without its cache: what each  *)
(* type reached over unresolved using declarations has under the name.     *)
ResolveMember(ix, type, name) ==
    LET known(t) == t \in Records /\ hasDefinition(ix.fmt.unit, t) /\ name \in DOMAIN Members[t]
        next == [t \in Records \cup {type} |-> IF known(t) THEN Members[t][name].usings ELSE <<>>]
    IN  After(LAMBDA found, t : IF known(t) THEN found \o Members[t][name].found ELSE found,
              <<>>, Reach(<<type>>, <<>>, next, MaxIterations))

(* Afterwards the cache has the answer.                                    *)
tryResolveMember(ix, type, name) ==
    IF <<type, name>> \in DOMAIN ix.memberCache THEN ix
    ELSE [ix EXCEPT !.memberCache = (<<type, name>> :> ResolveMember(ix, type, name)) @@ @]

trySaveMemberReferenceViaLookup(ix, k) ==
    LET found == ix.memberCache[<<Node(ix, k).base, Node(ix, k).name>>]
    IN  [i \in DOMAIN found |-> Ref(found[i], Location(ix, k), {found[i]})]

-----------------------------------------------------------------------------
(* The file itself has a symbol, defined at its first token, if there is   *)
(* one there; else at an empty range, and without information.             *)
saveSyntheticFileDefinition(ix, f) ==
    LET symbol == getFileSymbol(ix.fmt.meta[f])
    IN  IF f \notin DOMAIN ix.fmt.meta THEN ix
        ELSE IF ix.fmt.meta[f].isSynthetic \/ ~ ix.fmt.meta[f].isInProject THEN ix
        ELSE IF ix.fmt.unit.events[f].startsWithToken
        THEN saveDefinition(ix, symbol, [file |-> f, at |-> 0], {Info("File", {})})
        ELSE saveOccurrenceImpl(ix, symbol, 0, f, "Definition")

(* TuIndexer::saveInclude.  The file around it may be outside the project. *)
saveIncludeOccurrence(ix, f, at, included) ==
    IF ix.fmt.meta[included].isSynthetic \/ f \notin ix.toBeIndexed THEN ix
    ELSE saveOccurrenceImpl(ix, getFileSymbol(ix.fmt.meta[included]), at, f, "Reference")

-----------------------------------------------------------------------------
(* IndexerAstVisitor: the references of a node.                            *)
References(ix, k) ==
    LET ev == Node(ix, k).ev
    IN  CASE ev = "TypeLoc" -> saveTypeLoc(ix, k)
          [] ev = "Nested" -> saveNestedNameSpecifierLoc(ix, k)
          [] ev = "FieldRef" -> saveFieldReference(ix, k)
          [] ev = "CudaCall" -> saveCUDAKernelCallExpr(ix, k)
          [] ev = "Construct" -> saveCXXConstructExpr(ix, k)
          [] ev = "DeclRef" -> saveDeclRefExpr(ix, k)
          [] ev = "MemberExpr" -> saveMemberExpr(ix, k)
          [] ev = "UnresolvedLookup" -> saveUnresolvedLookupExpr(ix, k)
          [] ev = "MemberLookup" -> trySaveMemberReferenceViaLookup(ix, k)

(* The symbol is asked for before the name of a member is found to be an   *)
(* operator, and after the limit of overloads is found to be reached.      *)
SaveNext(st, result, ref, k) ==
    [ix    |-> IF Node(st.ix, k).ev = "MemberExpr" /\ ~ Node(st.ix, k).identifier THEN Asked(st.ix, result)
               ELSE trySaveReference(st.ix, result, ref.loc, ref.maybeFwdDecl),
     count |-> st.count + Cardinality(result.sym)]

SaveReferencesOf(ix, k) ==
    After(LAMBDA st, ref :
              IF Node(ix, k).ev = "UnresolvedLookup" /\ st.count = MaxUnresolvedDecls THEN st
              ELSE SaveNext(st, SymbolOf(st.ix, ref.of), ref, k),
          [ix |-> ix, count |-> 0], References(ix, k)).ix

saveReferences(ix, k) ==
    SaveReferencesOf(IF Node(ix, k).ev = "MemberLookup"
                     THEN tryResolveMember(ix, Node(ix, k).base, Node(ix, k).name) ELSE ix, k)
=============================================================================
