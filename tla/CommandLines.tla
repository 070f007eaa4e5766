---------------------------- MODULE CommandLines ----------------------------
(***************************************************************************)
(* What happens to the command line of a compilation database entry before *)
(* the driver queues it: splitting the "command" string, finding the       *)
(* toolchain of its compiler, and CommandLineCleaner.                      *)
(*                                                                         *)
(* An argument is a sequence of pieces.  A piece is a run of characters    *)
(* that needs no quoting, reduced to what the code looks at (text up to an *)
(* '=', leading dash, an '='), or one of the four special characters.      *)
(***************************************************************************)
EXTENDS Traversal, SequencesExt

CONSTANTS
    Form,       \* argv[0] of the database -> "bare", "relative" or "absolute"
    Installed   \* <<directory, argv[0]>> -> what running the program prints

Word(text)   == [flag |-> text, dash |-> FALSE, eq |-> FALSE]
Option(text) == [flag |-> text, dash |-> TRUE, eq |-> FALSE]
OptionEq(text) == [flag |-> text, dash |-> TRUE, eq |-> TRUE]

Space     == Word("space")
DQuote    == Word("dquote")
SQuote    == Word("squote")
Backslash == Word("backslash")

-----------------------------------------------------------------------------
(* CommandLineArgumentParser, one character at a time.  gap: between       *)
(* arguments; an argument that has begun is kept even if the input ends    *)
(* inside its quotes or after a backslash.                                 *)
UnescapeStep(p, c) ==
    LET begun == IF p.mode = "gap" THEN Append(p.args, <<>>) ELSE p.args
        push  == [begun EXCEPT ![Len(begun)] = Append(@, c)]
        mode  == IF p.mode = "gap" THEN "free" ELSE p.mode
        free  == CASE c = Space  -> [p EXCEPT !.mode = "gap"]
                   [] c = DQuote -> [p EXCEPT !.args = begun, !.mode = "dquote"]
                   [] c = SQuote -> [p EXCEPT !.args = begun, !.mode = "squote"]
                   [] OTHER      -> [p EXCEPT !.args = push, !.mode = mode]
        quoted(quote) == IF c = quote THEN [p EXCEPT !.mode = "free"]
                         ELSE [p EXCEPT !.args = push]
    IN  IF p.escaped              THEN [p EXCEPT !.args = push, !.escaped = FALSE]
        ELSE IF p.mode = "squote" THEN quoted(SQuote)
        ELSE IF c = Backslash     THEN [args |-> begun, mode |-> mode, escaped |-> TRUE]
        ELSE IF p.mode = "dquote" THEN quoted(DQuote)
        ELSE free

StartOfInput == [args |-> <<>>, mode |-> "gap", escaped |-> FALSE]

(* Single quotes are not handled.                                          *)
unescapeCommandLineVariant(text) ==
    After(UnescapeStep, StartOfInput, SelectSeq(text, LAMBDA c : c # SQuote)).args

unescapeCommandLine(text) == After(UnescapeStep, StartOfInput, text).args

-----------------------------------------------------------------------------
(* The flags that are stripped.  For clang and gcc the table of options    *)
(* with arguments is entered as options without, since they are joined by  *)
(* an '='; for nvcc two representatives of the two tables.                 *)
ClangGccCleaner ==
    [toZap |-> [f \in {"-march", "-mcpu", "-mtune"} |-> "NoArgument"],
     matches |-> {"-mfix-x"}]

NvccCleaner ==
    [toZap |-> [f \in {"--cuda", "-dopt"} |->
                   IF f = "-dopt" THEN "OneArgument" ELSE "NoArgument"],
     matches |-> {}]

(* The lambda of CommandLineCleaner::clean: what to do with one argument.  *)
Action(cleaner, arg) ==
    LET head == arg[1]
    IN  IF arg = <<>> \/ ~head.dash                         THEN "Keep"
        ELSE IF ~head.eq /\ head.flag \in cleaner.matches   THEN "ZapOne"
        ELSE IF \/ head.flag \notin DOMAIN cleaner.toZap
                \/ Len(arg) > 1 /\ ~head.eq                 THEN "Keep"
        ELSE IF \/ cleaner.toZap[head.flag] = "NoArgument"
                \/ head.eq                                  THEN "ZapOne"
        ELSE "ZapTwo"

(* The predicate that zap gives to std::stable_partition: it remembers in  *)
(* dropFromBefore that the last argument it saw takes the next one along.  *)
Predicate(cleaner, s, arg) ==
    IF s.dropFromBefore THEN [keep |-> FALSE, dropFromBefore |-> FALSE]
    ELSE [keep |-> Action(cleaner, arg) = "Keep",
          dropFromBefore |-> Action(cleaner, arg) = "ZapTwo"]

(* The order in which libc++ applies the predicate (setup_llvm.bzl builds  *)
(* with it): from the front to the first element that fails, then from the *)
(* back to the last one that holds, then over the elements in between.     *)
Zap(cleaner, args) ==
    LET n     == Len(args)
        first == SelectInSeq(args, LAMBDA a : Action(cleaner, a) # "Keep")
        Back(s, i) == IF s.last # 0 THEN s
                      ELSE LET p == Predicate(cleaner, s, args[i])
                           IN  [last |-> IF p.keep THEN i ELSE 0,
                                dropFromBefore |-> p.dropFromBefore]
        back  == After(Back,
                     [last |-> 0,
                      dropFromBefore |-> Action(cleaner, args[first]) = "ZapTwo"],
                     [k \in 1 .. n - first |-> n + 1 - k])
        Middle(s, i) == LET p == Predicate(cleaner, s, args[i])
                        IN  [kept |-> IF p.keep THEN Append(s.kept, args[i]) ELSE s.kept,
                             dropFromBefore |-> p.dropFromBefore]
        middle == After(Middle,
                     [kept |-> <<>>, dropFromBefore |-> back.dropFromBefore],
                     [k \in 1 .. back.last - first - 1 |-> first + k])
    IN  IF first = 0 THEN args
        ELSE IF back.last = 0 THEN SubSeq(args, 1, first - 1)
        ELSE SubSeq(args, 1, first - 1) \o middle.kept \o <<args[back.last]>>

clean(cleaner, args) == Zap(cleaner, args)

-----------------------------------------------------------------------------
(* Toolchains.  runProcess on a program that is not there is a failure,    *)
(* which is a program that prints nothing of use.                          *)
NoToolchain == [kind |-> "none", hasClang |-> FALSE]

Prints(location, what) == location \in DOMAIN Installed /\ what \in Installed[location]

ClangTryInfer(location) == Prints(location, "resourceDir") /\ Prints(location, "installedDir")
GccTryInfer(location)   == Prints(location, "installLine")
NvccTryInfer(location)  == Prints(location, "nvidia")

NvccToolchainInfo == [kind |-> "nvcc", hasClang |-> ClangTryInfer(<<"", "clang">>)]

infer(location) ==
    IF ClangTryInfer(location)     THEN [kind |-> "clang", hasClang |-> TRUE]
    ELSE IF GccTryInfer(location)  THEN [kind |-> "gcc", hasClang |-> FALSE]
    ELSE IF NvccTryInfer(location) THEN NvccToolchainInfo
    ELSE NoToolchain

(* isWellFormed: the directories that the compiler names exist.            *)
IsWellFormed(location) == ~Prints(location, "missingDirs")

ClangAdjust(args) ==
    clean(ClangGccCleaner, <<(<<Word("driver")>>)>> \o Tail(args))
        \o <<(<<Option("-resource-dir")>>), <<Word("clangDir")>> >>

GccAdjust(args) ==
    clean(ClangGccCleaner, args)
        \o <<(<<Option("-resource-dir")>>), <<Word("gccDir")>>, <<Option("-Iinclude-fixed")>> >>

NvccAdjust(toolchain, args) ==
    LET cleaned == clean(NvccCleaner, args)
    IN  Append(IF toolchain.hasClang THEN ClangAdjust(cleaned) ELSE cleaned,
               <<Option("-isystemcuda")>>)

Adjust(toolchain, args) ==
    CASE toolchain.kind = "clang" -> ClangAdjust(args)
      [] toolchain.kind = "gcc"   -> GccAdjust(args)
      [] toolchain.kind = "nvcc"  -> NvccAdjust(toolchain, args)
      [] OTHER                    -> args

(* Where ResumableParser::adjustCommandLine looks for the compiler.        *)
NoLocation == <<"", "">>

CompilerLocation(directory, compiler) ==
    CASE Form[compiler] = "bare"     -> IF <<"", compiler>> \in DOMAIN Installed
                                        THEN <<"", compiler>> ELSE NoLocation
      [] Form[compiler] = "relative" -> IF directory = "" THEN NoLocation
                                        ELSE <<directory, compiler>>
      [] OTHER                       -> <<"", compiler>>

ToolchainAt(location) ==
    IF location = NoLocation \/ ~IsWellFormed(location) THEN NoToolchain
    ELSE infer(location)

-----------------------------------------------------------------------------
(* Reference definitions for the properties: how a shell line is written   *)
(* from its arguments, and what a toolchain makes of a command line.       *)
SpecialCharacters == {Space, DQuote, SQuote, Backslash}

Quoted(style, arg) ==
    LET Escape(S) == FlattenSeq([i \in 1 .. Len(arg) |->
                         IF arg[i] \in S THEN <<Backslash, arg[i]>> ELSE <<arg[i]>>])
    IN  CASE style = "dquote" -> <<DQuote>> \o Escape({DQuote, Backslash}) \o <<DQuote>>
          [] style = "squote" -> <<SQuote>> \o arg \o <<SQuote>>
          [] OTHER            -> Escape(SpecialCharacters)

ShellLine(style, args) ==
    FlattenSeq([i \in 1 .. Len(args) |->
        (IF i = 1 THEN <<>> ELSE <<Space>>) \o Quoted(style, args[i])])

StrippedFlags(kind) == IF kind = "nvcc" THEN {"--cuda", "-dopt"}
                       ELSE {"-march", "-mcpu", "-mtune", "-mfix-x"}

Without(kind, args) ==
    SelectSeq(args, LAMBDA a : a = <<>> \/ a[1].flag \notin StrippedFlags(kind)
                                \/ (Len(a) > 1 /\ ~a[1].eq))

ExpectedLine(toolchain, args) ==
    LET clang(line) == <<(<<Word("driver")>>)>> \o Tail(Without("clang", line))
                           \o <<(<<Option("-resource-dir")>>), <<Word("clangDir")>> >>
        nvcc == Without("nvcc", args)
    IN  CASE toolchain.kind = "clang" -> clang(args)
          [] toolchain.kind = "gcc"   -> Without("gcc", args)
                \o <<(<<Option("-resource-dir")>>), <<Word("gccDir")>>, <<Option("-Iinclude-fixed")>> >>
          [] toolchain.kind = "nvcc"  ->
                Append(IF toolchain.hasClang THEN clang(nvcc) ELSE nvcc,
                       <<Option("-isystemcuda")>>)
          [] OTHER                    -> args

(* Lines on which no option takes the string after it along.               *)
NoOptionTakesTwo(toolchain, args) ==
    toolchain.kind = "nvcc" =>
        \A i \in DOMAIN args : Action(NvccCleaner, args[i]) # "ZapTwo"
=============================================================================
