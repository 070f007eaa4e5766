----------------------- MODULE MCCompilationDatabase -----------------------
EXTENDS CompilationDatabaseInvariant

(* One compiler of each kind and form, one that is not installed, and one  *)
(* whose directories are gone.                                             *)
MCForm == [c \in {"cc", "gone", "broken", "clang", "nvcc", "bin/cc"} |->
              CASE c = "bin/cc" -> "relative"
                [] c \in {"nvcc", "broken"} -> "absolute"
                [] OTHER -> "bare"]

MCInstalled ==
       <<"", "cc">>      :> {"installLine"}
    @@ <<"", "broken">>  :> {"installLine", "missingDirs"}
    @@ <<"", "clang">>   :> {"resourceDir", "installedDir"}
    @@ <<"", "nvcc">>    :> {"nvidia"}
    @@ <<"/a", "bin/cc">> :> {"installLine"}

Cmd(c) == <<Word(c)>>
Src    == <<Word("m")>>
March  == <<OptionEq("-march")>>
Fix    == <<Option("-mfix-x")>>
Define == <<Option("-D"), Space, SQuote, DQuote, Backslash>>
DefineSq == <<Option("-D"), Space, DQuote, Backslash>>
Dopt   == <<Option("-dopt")>>
On     == <<Word("on")>>
DoptOn == <<OptionEq("-dopt")>>
Cuda   == <<Option("--cuda")>>

Gcc    == <<Cmd("cc"), March, Define, Fix, Src>>
GccSq  == <<Cmd("cc"), March, DefineSq, <<Word("x")>>, Src>>
Clang  == <<Cmd("clang"), Fix, Src, March>>
Nvcc   == <<Cmd("nvcc"), DoptOn, Src, Cuda, March>>
Nvcc2  == <<Cmd("nvcc"), Dopt, On, Src>>

MCArgLists == {Gcc, GccSq, Clang, Nvcc, Nvcc2}

K(k)   == [e |-> "Key", v |-> k]
S(v)   == [e |-> "String", v |-> v]
Ev(e)  == [e |-> e, v |-> 0]
End(n) == [e |-> "EndArray", v |-> n]

Dir(d)  == <<K("directory"), S(d)>>
File(f) == <<K("file"), S(f)>>
Command(style, args) == <<K("command"), S(ShellLine(style, args))>>
Arguments(args) == <<K("arguments"), Ev("StartArray")>>
                       \o [i \in 1 .. Len(args) |-> S(args[i])] \o <<End(Len(args))>>
Object(members) == <<Ev("StartObject")>> \o FlattenSeq(members) \o <<Ev("EndObject")>>
Database(objects) ==
    <<Ev("StartArray")>> \o FlattenSeq(objects) \o <<End(Len(objects))>>

GoodObjects ==
    { Object(<<Dir("/a"), File("m.cc"), Command("backslash", Gcc)>>),
      Object(<<Command("squote", GccSq), File("m.cc"), Dir("/b")>>),
      Object(<<Dir("/a"), Arguments(Clang), File("/abs.cc")>>),
      Object(<<Dir("/a"), File("m.h"), Command("dquote", Clang)>>),
      Object(<<Dir("/a"), File("lost.cc"), Arguments(<<Cmd("gone")>>)>>),
      Object(<<Dir("/a"), File("m.cc"), <<K("output"), S("m.o")>>, Arguments(Nvcc)>>),
      Object(<<File("/abs.cc"), Dir("/b")>>),
      Object(<<File("/abs.cc")>>) }

OddObjects ==
    { Object(<<Dir("/a"), File("m.cc"), Arguments(<<Cmd("gone"), Src>>)>>),
      Object(<<Dir("/b"), File("m.cc"), Arguments(<<Cmd("bin/cc"), March>>)>>),
      Object(<<Dir("/a"), File("m.cc"), Arguments(<<Cmd("broken"), March>>)>>),
      Object(<<Dir("/a"), File("m.cc"), Arguments(<<Cmd("bin/cc"), March>>)>>),
      Object(<<Dir("/a"), File("m.cc"), Command("dquote", Gcc), Arguments(Clang)>>),
      Object(<<Dir("/a"), File("/abs.cc"), Command("backslash", Nvcc2)>>),
      Object(<<Dir("/a"), File("m.cc"), <<K("note"), S("n")>>, Arguments(Gcc)>>),
      Object(<< <<K("note"), S("n")>>, Dir("/a"), File("m.cc"), Arguments(Gcc)>>) }

Malformed ==
    { <<Ev("StartObject"), Ev("EndObject")>>, <<Ev("Scalar")>>, <<S("x")>>, Database(<<>>),
      Database(<< <<Ev("StartArray"), End(0)>> >>),
      Database(<<Object(<<Dir("a"), File("m.cc")>>)>>),
      Database(<<Object(<<Dir("/a"), <<K("file"), Ev("Scalar")>> >>)>>),
      Database(<<Object(<< <<K("arguments"), S("x")>> >>)>>),
      Database(<<Object(<< <<K("output"), Ev("StartArray"), End(0)>> >>)>>),
      <<Ev("StartArray")>> \o Object(<<Arguments(Gcc)>>) \o <<Ev("SyntaxError")>> }

MCDocs ==
    LET Objects == GoodObjects \cup OddObjects
    IN  Malformed
        \cup {Database(<<a, b>>) : a, b \in Objects}
        \cup {Database(<<a, a, b, a, b>>) : a, b \in GoodObjects}
        \cup {Database(<<a, b, b, a>>) : a \in OddObjects, b \in GoodObjects}

MCOnDisk == {<<"/a", "m.cc">>, <<"/b", "m.cc">>, <<"", "/abs.cc">>, <<"/a", "m.h">>}
=============================================================================
