------------------------- MODULE MCTranslationUnit -------------------------
(***************************************************************************)
(* A project in /work with a package inside it and one outside, a working  *)
(* directory /build, and three translation units.                          *)
(***************************************************************************)
EXTENDS TranslationUnit, PreprocessingInvariant

work  == <<"/", "work">>
lib   == work \o <<"/", "third", "/", "lib">>
sdk   == <<"/", "opt", "/", "sdk">>
build == <<"/", "build">>

mainCc  == work \o <<"/", "main.cc">>     otherCc == work \o <<"/", "other.cc">>
libH    == lib \o <<"/", "l.h">>          sdkH    == sdk \o <<"/", "/", "s.h">>
aH      == build \o <<"/", "a.h">>        genH    == build \o <<"/", "gen.h">>
linkH   == build \o <<"/", "link.h">>     oldH    == work \o <<"-old", "/", "o.h">>
xH      == work \o <<"/", "x.h">>         illH    == work \o <<"/", "ill.h">>
innerH  == work \o <<"/", "inner.h">>

Files == {mainCc, otherCc, libH, sdkH, aH, genH, linkH, oldH, xH, illH, innerH}
MCPath == Files \cup UNION {PathPrefixes(normalize(p)) : p \in Files}

MCRealPath == (work \o <<"/", "a.h">> :> work \o <<"/", "a.h">>)
                 @@ (work \o <<"/", "link.h">> :> build \o <<"/", "link.h">>)

PackageEntry(root, isDirectory, id) == [root |-> root, isDirectory |-> isDirectory, id |-> id]

MCEntries == <<PackageEntry(NoPath, FALSE, "lost@1"), PackageEntry(work, TRUE, "main@1"),
               PackageEntry(lib, TRUE, NoPackage), PackageEntry(lib, TRUE, "lib@2"),
               PackageEntry(mainCc, FALSE, "file@1"), PackageEntry(work, TRUE, "main@2"),
               PackageEntry(sdk, TRUE, "sdk@3")>>

-----------------------------------------------------------------------------
TU == TranslationUnitDecl

Named(kind, name, ctx) == [kind |-> kind, name |-> name, ctx |-> ctx]
Record(name, ctx, bases, explicit) ==
    Named("Record", name, ctx) @@ [bases |-> bases, explicitSpecialization |-> explicit]
Specialization(name, bases, explicit, template) ==
    Record(name, TU, bases, explicit) @@ [specializes |-> template]
Function(name, ctx, type, overrides, pure) ==
    Named("Function", name, ctx) @@ [type |-> type, overrides |-> overrides, pure |-> pure]
Enum(name, ctx, scoped) ==
    Named("Enum", name, ctx) @@ [scoped |-> scoped, explicitSpecialization |-> FALSE]
Variable(name, ctx, storage) == Named("Var", name, ctx) @@ [storage |-> storage]
Template(kind, templated) == [kind |-> kind, name |-> "", ctx |-> TU, templated |-> templated]
Using(name, target) == Named("UsingShadow", name, TU) @@ [target |-> target]

MCEntity ==
    [ns |-> Named("Namespace", "ns", TU), hidden |-> Named("Namespace", "", TU),
     Base |-> Record("Base", "ns", <<>>, FALSE), BaseRun |-> Function("run", "Base", "()", <<>>, TRUE),
     Left |-> Record("Left", "ns", <<"Base">>, FALSE), Right |-> Record("Right", "ns", <<"Base">>, FALSE),
     anon1 |-> Record("", "ns", <<>>, FALSE), anon2 |-> Record("", "ns", <<>>, FALSE),
     anon3 |-> Record("", "Join", <<>>, FALSE), field |-> Named("Field", "x", "anon1"),
     nameless |-> Named("Field", "", "anon2"), Opaque |-> Record("Opaque", TU, <<>>, FALSE),
     make |-> Function("make", TU, "(int)", <<>>, FALSE), Join |-> Record("Join", TU, <<"Left", "Right">>, FALSE),
     JoinRun |-> Function("run", "Join", "()", <<"BaseRun">>, FALSE), ctor |-> Function("Join", "Join", "()", <<>>, FALSE),
     local1 |-> Variable("a", "JoinRun", "local"), local2 |-> Variable("b", "JoinRun", "local"),
     secret |-> Variable("secret", "hidden", "other"), cFunction |-> Function("c", LinkageSpecDecl, "()", <<>>, FALSE),
     \* the second unit
     S |-> Record("S", TU, <<>>, FALSE), TypedefS |-> Named("Typedef", "S", TU),
     Color |-> Enum("Color", TU, FALSE), Red |-> Named("EnumConstant", "Red", "Color"),
     Mode |-> Enum("Mode", TU, TRUE), On |-> Named("EnumConstant", "On", "Mode"),
     x1 |-> Variable("x1", TU, "other"), x2 |-> Variable("x2", TU, "other"),
     ill |-> Variable("ill", TU, "other"), outside |-> Variable("outside", "kernel", "localExtern"),
     T |-> Record("T", TU, <<>>, FALSE), TInt |-> Specialization("T", <<"S">>, TRUE, "T"),
     TIntMember |-> Function("m", "TInt", "()", <<>>, FALSE), TIntMember2 |-> Function("m", "TInt", "(int)", <<>>, FALSE),
     D |-> Record("D", TU, <<>>, FALSE), DPointer |-> Specialization("D", <<"TInt", "U">>, FALSE, "D"),
     DInt |-> Specialization("D", <<"U">>, TRUE, "D"), V |-> Record("V", TU, <<"DInt">>, FALSE),
     local3 |-> Record("Local", "kernel", <<>>, FALSE), local4 |-> Record("Local", "kernel", <<"U">>, FALSE),
     field3 |-> Named("Field", "y", "local3"), field4 |-> Named("Field", "y", "local4"),
     kernel4 |-> Function("kernel", TU, "()", <<>>, FALSE), kernel4Template |-> Template("FunctionTemplate", "kernel4"),
     TTemplate |-> Template("ClassTemplate", "T"), U |-> Record("U", TU, <<>>, FALSE),
     TMember |-> Function("m", "T", "()", <<>>, FALSE), UMember |-> Function("m", "U", "()", <<>>, FALSE),
     param |-> Named("TemplateTypeParm", "P", TU), binding |-> Named("Binding", "bound", TU),
     kernel |-> Function("kernel", TU, "()", <<>>, FALSE), kernelTemplate |-> Template("FunctionTemplate", "kernel"),
     kernel2 |-> Function("kernel", TU, "(int)", <<>>, FALSE), kernel3 |-> Function("kernel", TU, "(char)", <<>>, FALSE),
     Alias |-> Named("Typedef", "Alias", TU), AliasTemplate |-> Template("TypeAliasTemplate", "Alias"),
     usingBase |-> Using("Base", "Base"), usingKernel |-> Using("k", "kernelTemplate"), usingAlias |-> Using("al", "AliasTemplate"),
     usingUsing |-> Using("z", "usingBase")]

Member(found, usings) == [m |-> [found |-> found, usings |-> usings]]
MCMembers == [r \in Records |-> CASE r = "T" -> Member(<<"TMember">>, <<"U">>)
                                  [] r = "U" -> Member(<<"UMember">>, <<"T">>)
                                  [] OTHER -> <<>>]

-----------------------------------------------------------------------------
Enter(path) == <<[ev |-> "Enter", path |-> path, startsWithToken |-> TRUE]>>
EnterBlank(path) == <<[ev |-> "Enter", path |-> path, startsWithToken |-> FALSE]>>
Leave(valid) == <<[ev |-> "Exit", valid |-> valid]>>
Define(name, at) == <<[ev |-> "Define", name |-> name, at |-> at]>>
Macro(name, at, ignored) == <<[ev |-> "Macro", name |-> name, at |-> at, ignored |-> ignored]>>
Include(path, at) == <<[ev |-> "Include", path |-> path, at |-> at]>>
Declare(e, at, def, doc, previous) ==
    <<[ev |-> "Decl", of |-> e, at |-> at, def |-> def, doc |-> doc, commentOfPrevious |-> previous]>>
Defined(e, at) == Declare(e, at, TRUE, NoComment, FALSE)
Declared(e, at) == Declare(e, at, FALSE, NoComment, FALSE)
Refer(kind, e, at) == <<[ev |-> kind, of |-> e, at |-> at, def |-> FALSE, implicit |-> FALSE, identifier |-> TRUE]>>
Unsaved(kind, e, at) == <<[ev |-> kind, of |-> e, at |-> at, def |-> TRUE, implicit |-> TRUE, identifier |-> FALSE]>>

(* Classes over three packages, forward declarations, a generated header.  *)
FirstUnit ==
    Enter(mainCc) \o Enter(NoLocation) \o Define("PREDEFINED", 1) \o Macro("PREDEFINED", 2, FALSE) \o Leave(FALSE)
    \o Include(aH, 1) \o Enter(aH) \o Define("M", 1) \o Defined("ns", 2) \o Defined("Base", 3) \o Declared("BaseRun", 4) \o Leave(TRUE)
    \o Include(libH, 2) \o Enter(libH) \o Defined("ns", 1) \o Defined("Left", 2) \o Defined("Right", 3)
    \o Defined("anon1", 4) \o Defined("anon2", 5) \o Defined("field", 6) \o Defined("nameless", 7)
    \o Refer("TypeLoc", "Base", 8) \o Leave(TRUE)
    \o Include(sdkH, 3) \o Enter(sdkH) \o Declared("Opaque", 1) \o Declare("make", 2, FALSE, "makes", FALSE) \o Leave(TRUE)
    \o Declared("Opaque", 4) \o Defined("hidden", 5) \o Defined("secret", 6)
    \o Defined("Join", 7) \o Declared("JoinRun", 8) \o Defined("anon3", 9) \o Declared("ctor", 10) \o Defined("JoinRun", 11)
    \o Defined("local1", 12) \o Defined("local2", 13) \o Refer("DeclRef", "local1", 14) \o Refer("DeclRef", "make", 15)
    \o Refer("TypeLoc", "Opaque", 16) \o Refer("TypeLoc", "Left", 17) \o Refer("MemberExpr", "JoinRun", 18)
    \o Unsaved("MemberExpr", "JoinRun", 19) \o Refer("Construct", "ctor", 20) \o Unsaved("Construct", "ctor", 21)
    \o Refer("FieldRef", "field", 22) \o Macro("M", 23, FALSE) \o Macro("M", 24, TRUE) \o Macro("UNDEFINED", 25, FALSE)
    \o <<[ev |-> "Nested", at |-> 26, names |-> <<[of |-> "Base", at |-> 27], [of |-> "ns", at |-> 26]>>]>>
    \o Declared("cFunction", 28) \o Refer("DeclRef", "cFunction", 29) \o Refer("DeclRef", "secret", 30)

(* A header that is entered twice with one hash, and one with two.         *)
SecondUnit ==
    Enter(otherCc)
    \o Include(xH, 1) \o Enter(xH) \o Defined("x1", 1) \o Leave(TRUE)
    \o Include(xH, 2) \o Enter(xH) \o Defined("x2", 1) \o Refer("DeclRef", "x1", 2) \o Leave(TRUE)
    \o Include(illH, 3) \o Enter(illH) \o Include(innerH, 1) \o EnterBlank(innerH) \o Leave(TRUE) \o Declared("ill", 2) \o Leave(TRUE)
    \o Enter(illH) \o Defined("ill", 3) \o Leave(TRUE)
    \o Defined("S", 4) \o Defined("TypedefS", 5) \o Defined("Color", 6) \o Defined("Red", 7) \o Defined("Mode", 8)
    \o Declare("On", 9, TRUE, "red", TRUE) \o Defined("param", 10) \o Defined("T", 11) \o Defined("TTemplate", 11)
    \o Defined("TInt", 12) \o Declared("TIntMember", 40) \o Declared("TIntMember2", 41) \o Defined("U", 13)
    \o Declared("D", 42) \o Defined("DPointer", 43) \o Defined("DInt", 44) \o Defined("V", 45)
    \o Defined("TMember", 14) \o Defined("UMember", 15)
    \o Defined("kernel", 16) \o Defined("local3", 46) \o Defined("field3", 47) \o Defined("local4", 48) \o Defined("field4", 49)
    \o Defined("kernel4", 50) \o Declared("outside", 17) \o Declared("kernel2", 18) \o Declare("kernel3", 19, FALSE, "", FALSE)
    \o Defined("Alias", 20) \o Defined("binding", 21) \o Defined("usingKernel", 22) \o Defined("usingAlias", 23)
    \o Refer("DeclRef", "usingKernel", 24) \o Refer("TypeLoc", "TTemplate", 25) \o Refer("TypeLoc", "TypedefS", 26)
    \o Refer("TypeLoc", "param", 27) \o Unsaved("TypeLoc", "S", 28) \o Refer("DeclRef", "Red", 29) \o Refer("DeclRef", "On", 30)
    \o <<[ev |-> "UnresolvedLookup", at |-> 31, decls |-> <<"cFunction", "kernel", "kernelTemplate", "kernel3">>]>>
    \o <<[ev |-> "MemberLookup", at |-> 32, base |-> "T", name |-> "m"],
         [ev |-> "MemberLookup", at |-> 33, base |-> "T", name |-> "m"],
         [ev |-> "MemberLookup", at |-> 34, base |-> "unknown type", name |-> "m"]>>
    \o Refer("CudaCall", "kernel", 35) \o Refer("TypeLoc", "AliasTemplate", 36) \o Refer("DeclRef", "binding", 37)
    \o Refer("DeclRef", "ill", 38) \o Declared("cFunction", 39)

(* Generated files, an imaginary buffer, files included between two line   *)
(* markers and after one that has no end.                                  *)
ThirdUnit ==
    Enter(mainCc) \o Include(genH, 1) \o Enter(genH) \o Defined("Base", 1) \o Declared("make", 2) \o Leave(TRUE)
    \o Enter(NoFileEntry) \o Define("SCRATCH", 1) \o Leave(TRUE)
    \o Enter(linkH) \o Leave(TRUE) \o Enter(LineMarker) \o Enter(linkH) \o Leave(TRUE) \o Leave(FALSE) \o Include(NoFileEntry, 2)
    \o Defined("usingBase", 3) \o Defined("usingUsing", 4) \o Defined("ns", 5) \o Macro("SCRATCH", 6, FALSE)
    \o Enter(LineMarker) \o Include(oldH, 7) \o Enter(oldH) \o Defined("make", 1) \o Refer("TypeLoc", "usingBase", 2)
    \o Refer("DeclRef", "make", 3) \o Leave(TRUE)

MCJobs == <<[events |-> FirstUnit, buildRoot |-> build], [events |-> SecondUnit, buildRoot |-> work],
            [events |-> ThirdUnit, buildRoot |-> build]>>
=============================================================================
