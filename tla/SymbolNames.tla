----------------------------- MODULE SymbolNames -----------------------------
(***************************************************************************)
(* SymbolFormatter (src/indexer/SymbolFormatter.cc): the symbols of        *)
(* declarations, with their caches and counters.                           *)
(*                                                                         *)
(* Entity describes each entity: its kind, its name ("" if it has none),   *)
(* the context it is in, and what its kind needs.  A symbol is the package *)
(* and the sequence of descriptors; a local symbol is a number.            *)
(*                                                                         *)
(* A formatter is a record of the translation unit, the metadata of its    *)
(* files (meta), the caches and the counters.  A get operator yields the   *)
(* formatter after the call and the set of the symbol, empty for nullopt.  *)
(***************************************************************************)
EXTENDS ClangUnit, TLC

CONSTANTS
    Entity,
    TranslationUnitDecl,  \* contexts that are not entities: the unit itself,
    LinkageSpecDecl       \* and the kinds of context without a symbol

NewFormatter(u, meta) ==
    [unit |-> u, meta |-> meta,
     declBasedCache |-> <<>>, namespacePrefixCache |-> <<>>,
     anonymousTypeCounters |-> <<>>, localVariableCounters |-> <<>>]

EntityOf(fmt, d) == Entity[fmt.unit.events[d].of]
FileOf(fmt, d)   == fmt.unit.file[d]

Count(counters, f) == IF f \in DOMAIN counters THEN counters[f] ELSE 0

Some(fmt, symbol) == [fmt |-> fmt, sym |-> {symbol}]
None(fmt)         == [fmt |-> fmt, sym |-> {}]

packageId(metadata) == IF metadata.package = {} THEN "" ELSE (CHOOSE m \in metadata.package : TRUE).id

Descriptor(name, disambiguator, suffix) ==
    [name |-> name, disambiguator |-> disambiguator, suffix |-> suffix]

(* Names are sequences, since some are made from a path.                   *)
NameOf(entity, suffix) == Descriptor(<<entity.name>>, "", suffix)

formatContextual(result, descriptor) ==
    [result EXCEPT !.sym = {[s EXCEPT !.desc = Append(@, descriptor)] : s \in @}]

formatLocal(counter) == [local |-> counter]

-----------------------------------------------------------------------------
(* The macro is named after the place of its definition.                   *)
getMacroSymbol(fmt, d) ==
    LET f == FileOf(fmt, d)
        known == f \in DOMAIN fmt.meta
        path  == IF known THEN fmt.meta[f].path
                 ELSE IF f = InvalidFileId \/ PathOf(fmt.unit, f) = NoFileEntry THEN <<"<built-in>">>
                 ELSE PathOf(fmt.unit, f)
    IN  [pkg |-> IF known THEN packageId(fmt.meta[f]) ELSE "",
         desc |-> <<Descriptor(Append(path, ToString(fmt.unit.events[d].at)), "", "Macro")>>]

getFileSymbol(metadata) ==
    [pkg |-> packageId(metadata),
     desc |-> <<Descriptor(<<"<file>/">> \o metadata.path, "", "Namespace")>>]

(* The two getSymbolCached: by the canonical declaration, and by the       *)
(* namespace and the file of the location.  computed is the result of the  *)
(* callback getSymbol; a failure is not kept.                              *)
getSymbolCached(fmt, key, computed) ==
    IF key \in DOMAIN fmt.declBasedCache THEN Some(fmt, fmt.declBasedCache[key])
    ELSE IF computed.sym = {} THEN computed
    ELSE [computed EXCEPT !.fmt.declBasedCache = (key :> CHOOSE s \in computed.sym : TRUE) @@ @]

declKey(fmt, d) == getCanonicalDecl(fmt.unit, d)

(* The prefixes of a namespace are kept without the file.                  *)
prefixKeyVariant(ns, f) == <<ns, MainFileId>>

prefixKey(ns, f) == <<ns, f>>

getPrefixCached(fmt, key, computed) ==
    IF key \in DOMAIN fmt.namespacePrefixCache THEN Some(fmt, fmt.namespacePrefixCache[key])
    ELSE IF computed.sym = {} THEN computed
    ELSE [computed EXCEPT !.fmt.namespacePrefixCache = (key :> CHOOSE s \in computed.sym : TRUE) @@ @]

-----------------------------------------------------------------------------
RECURSIVE getContextSymbol(_, _, _)

getLocationBasedSymbolPrefix(fmt, f) ==
    IF f = InvalidFileId THEN None(fmt)
    ELSE getPrefixCached(fmt, prefixKey(TranslationUnitDecl, f),
             IF f \in DOMAIN fmt.meta THEN Some(fmt, [pkg |-> packageId(fmt.meta[f]), desc |-> <<>>])
             ELSE None(fmt))

(* The package is that of the file f, not that of the namespace.           *)
getNamespaceSymbolPrefix(fmt, ns, f) ==
    LET name == IF Entity[ns].name # "" THEN <<Entity[ns].name>>
                ELSE <<"$anonymous_namespace_">> \o fmt.meta[MainFileId].path
    IN  getPrefixCached(fmt, prefixKey(ns, f),
            formatContextual(getContextSymbol(fmt, Entity[ns].ctx, f), Descriptor(name, "", "Namespace")))


(* The name of an anonymous type has the path of the file only in a        *)
(* namespace or at the top, where different files meet.                    *)
AnonymousType(r, definition, ctx) ==
    LET f    == FileOf(r.fmt, definition)
        n    == Count(r.fmt.anonymousTypeCounters, f)
        path == IF (ctx = TranslationUnitDecl \/ Entity[ctx].kind = "Namespace") /\ f \in DOMAIN r.fmt.meta
                THEN r.fmt.meta[f].path ELSE <<>>
    IN  [formatContextual(r, Descriptor(<<"$anonymous_type_">> \o path \o <<ToString(n)>>, "", "Type"))
            EXCEPT !.fmt.anonymousTypeCounters = (f :> n + 1) @@ @]

(* r is the symbol of the context.                                         *)
TagInContext(r, d) ==
    LET entity == EntityOf(r.fmt, d)
        of     == r.fmt.unit.events[d].of
    IN  CASE entity.name # "" -> formatContextual(r, NameOf(entity, "Type"))
          [] entity.name = "" /\ r.sym = {} -> r
          [] OTHER -> IF hasDefinition(r.fmt.unit, of)
                      THEN AnonymousType(r, getDefinition(r.fmt.unit, of), entity.ctx)
                      ELSE None(r.fmt)

getTagSymbol(fmt, d) ==
    getSymbolCached(fmt, declKey(fmt, d),
        TagInContext(getContextSymbol(fmt, EntityOf(fmt, d).ctx, FileOf(fmt, d)), d))

(* getFunctionDisambiguator hashes the type of the uninstantiated function.*)
getFunctionSymbol(fmt, d) ==
    getSymbolCached(fmt, declKey(fmt, d),
        formatContextual(getContextSymbol(fmt, EntityOf(fmt, d).ctx, FileOf(fmt, d)),
                         Descriptor(<<EntityOf(fmt, d).name>>, EntityOf(fmt, d).type, "Method")))

getContextSymbol(fmt, ctx, f) ==
    IF ctx = LinkageSpecDecl THEN None(fmt)
    ELSE IF ctx = TranslationUnitDecl THEN getLocationBasedSymbolPrefix(fmt, f)
    ELSE IF Entity[ctx].kind = "Namespace" THEN getNamespaceSymbolPrefix(fmt, ctx, f)
    ELSE IF Entity[ctx].kind = "Function" THEN getFunctionSymbol(fmt, FoundDecl(fmt.unit, ctx))
    ELSE getTagSymbol(fmt, FoundDecl(fmt.unit, ctx))

-----------------------------------------------------------------------------
(* Locals are numbered in the order they are asked for, in each file.      *)
getNextLocalSymbol(fmt, d) ==
    LET n == Count(fmt.localVariableCounters, FileOf(fmt, d))
    IN  IF EntityOf(fmt, d).name = "" THEN None(fmt)
        ELSE getSymbolCached(fmt, declKey(fmt, d),
                 Some([fmt EXCEPT !.localVariableCounters = (FileOf(fmt, d) :> n + 1) @@ @], formatLocal(n)))

(* The constants of an unscoped enum are in the context of the enum.       *)
getEnumConstantSymbol(fmt, d) ==
    LET enum == EntityOf(fmt, d).ctx
    IN  getSymbolCached(fmt, declKey(fmt, d),
            formatContextual(
                IF Entity[enum].scoped THEN getTagSymbol(fmt, FoundDecl(fmt.unit, enum))
                ELSE getContextSymbol(fmt, Entity[enum].ctx, FileOf(fmt, d)),
                NameOf(EntityOf(fmt, d), "Term")))

(* Most declarations are named after their context and themselves.         *)
NamedInContext(fmt, d, suffix) ==
    getSymbolCached(fmt, declKey(fmt, d),
        formatContextual(getContextSymbol(fmt, EntityOf(fmt, d).ctx, FileOf(fmt, d)),
                         NameOf(EntityOf(fmt, d), suffix)))

getFieldSymbol(fmt, d) ==
    IF EntityOf(fmt, d).name = "" THEN None(fmt) ELSE NamedInContext(fmt, d, "Term")

getTypedefNameSymbol(fmt, d) == NamedInContext(fmt, d, "Type")

UsingSuffix(kind) ==
    CASE kind = "TemplateTypeParm" -> "TypeParameter"
      [] kind \in {"Record", "Enum", "Typedef", "ClassTemplate"} -> "Type"
      [] kind = "Namespace" -> "Namespace"
      [] kind \in {"EnumConstant", "Var", "VarTemplate"} -> "Term"
      [] kind \in {"Function", "FunctionTemplate"} -> "Method"
      [] OTHER -> "none"

(* Underlying: a using of an alias template is a using of the alias, and   *)
(* that of a function template has the type of the function.               *)
UsingDescriptor(entity, target) ==
    LET type == CASE target.kind = "Function" -> target.type
                  [] target.kind = "FunctionTemplate" -> Entity[target.templated].type
                  [] OTHER -> ""
    IN  Descriptor(<<entity.name>>, type, UsingSuffix(target.kind))

getUsingShadowSymbol(fmt, d) ==
    LET written == Entity[EntityOf(fmt, d).target]
        target == IF written.kind = "TypeAliasTemplate" THEN Entity[written.templated] ELSE written
        descriptor == UsingDescriptor(EntityOf(fmt, d), target)
        Named(r) == IF descriptor.suffix = "none" THEN None(r.fmt) ELSE formatContextual(r, descriptor)
    IN  IF EntityOf(fmt, d).name = "" THEN None(fmt)
        ELSE getSymbolCached(fmt, declKey(fmt, d),
                 Named(getContextSymbol(fmt, EntityOf(fmt, d).ctx, FileOf(fmt, d))))

getVarSymbol(fmt, d) ==
    CASE EntityOf(fmt, d).storage = "local" -> getNextLocalSymbol(fmt, d)
      [] EntityOf(fmt, d).storage # "local" /\ EntityOf(fmt, d).name = "" -> None(fmt)
      [] OTHER -> NamedInContext(fmt, d, "Term")

getDeclSymbol(fmt, d) ==
    LET kind == EntityOf(fmt, d).kind
    IN  CASE kind \in {"Record", "Enum"} -> getTagSymbol(fmt, d)
          [] kind = "EnumConstant" -> getEnumConstantSymbol(fmt, d)
          [] kind = "Function" -> getFunctionSymbol(fmt, d)
          [] kind = "Field" -> getFieldSymbol(fmt, d)
          [] kind = "Typedef" -> getTypedefNameSymbol(fmt, d)
          [] kind = "UsingShadow" -> getUsingShadowSymbol(fmt, d)
          [] kind = "Var" -> getVarSymbol(fmt, d)
          [] kind = "Namespace" -> getNamespaceSymbolPrefix(fmt, fmt.unit.events[d].of, FileOf(fmt, d))
          [] kind \in {"Binding", "TemplateTypeParm"} -> getNextLocalSymbol(fmt, d)
          [] OTHER -> None(fmt)

(* A template has the symbol of the declaration inside it.                 *)
getNamedDeclSymbol(fmt, e) ==
    getDeclSymbol(fmt, FoundDecl(fmt.unit, IF "templated" \in DOMAIN Entity[e] THEN Entity[e].templated ELSE e))
=============================================================================
