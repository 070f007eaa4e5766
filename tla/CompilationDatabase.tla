------------------------- MODULE CompilationDatabase -------------------------
(***************************************************************************)
(* compile_commands.json as the driver reads it                            *)
(* (src/indexer/CompilationDatabase.cc): the file is parsed once to        *)
(* validate it and to count its objects, and then in batches, one per      *)
(* refillJobs, by a parser that stops after refillCount objects and        *)
(* resumes where it stopped.                                               *)
(*                                                                         *)
(* The file is the sequence doc of the events that rapidjson reports for   *)
(* it.  A failed ENFORCE ends the driver, in the released binaries too.    *)
(***************************************************************************)
EXTENDS CommandLines, FiniteSets

CONSTANTS
    Docs,           \* the files that may be given to the driver
    AbsoluteDirs,   \* the strings that are absolute paths of directories
    TuFiles,        \* the strings with the extension of a main file
    OnDisk,         \* the <<directory, file>> that exist; "" if file is absolute
    ArgLists,       \* the command lines that the files were written from
    ParseLimit      \* ParseOptions::refillCount

ASSUME ParseLimitAssumption == ParseLimit \in Nat \ {0}

(* rapidjson: the arrays and objects that are open after each event of d,  *)
(* as the numbers of the values in them that have ended.                   *)
OneMore(open) == IF open = <<>> THEN open ELSE [open EXCEPT ![Len(open)] = @ + 1]

OpenStep(open, e) ==
    CASE e \in {"StartArray", "StartObject"} -> Append(open, 0)
      [] e \in {"EndArray", "EndObject"}     -> OneMore(SubSeq(open, 1, Len(open) - 1))
      [] e \in {"String", "Scalar"}          -> OneMore(open)
      [] OTHER                               -> open

OpenAfter(d) ==
    LET open[i \in 0 .. Len(d)] ==
            IF i = 0 THEN <<>>
            ELSE The({OpenStep(before, d[i].e) : before \in {open[i - 1]}})
    IN  open

(* rapidjson: d is one value, or ends where the text is no JSON, and an    *)
(* array is reported with the number of its elements.                      *)
IsJson(d) ==
    /\ Len(d) \in Nat
    /\ d = [p \in 1 .. Len(d) |-> [e |-> d[p].e, v |-> d[p].v]]
    /\ \A p \in 1 .. Len(d) : \E before \in {OpenAfter(d)[p - 1]} :
        /\ d[p].e \in {"EndArray", "EndObject"} => before # <<>>
        /\ d[p].e = "EndArray" => d[p].v = before[Len(before)]
        /\ p > 1 /\ before = <<>> => d[p].e = "SyntaxError"
    /\ OpenAfter(d)[Len(d)] = <<>> \/ d[Len(d)].e = "SyntaxError"

ASSUME DocsAssumption == \A d \in Docs : IsJson(d)

VARIABLES
    doc,
    phase,              \* "closed", "idle", "parseMore", "exitFailure"
                        \* (exited) or "enforceFailed" (exited by an ENFORCE)
    commandCount,       \* File::_commandCount
    pos,                \* the next event that IterativeParseNext reads
    handler,            \* CommandObjectHandler
    currentIndex,
    skipped,            \* ParseStats: how many entries were left out
    toolchainInfoMap,
    batch,              \* parameter out of parseMore
    lastRound,          \* commands read in the last round of parseMore
    queued,             \* everything that refillJobs has queued so far
    lastRefill          \* what refillJobs returned last

dbVars == <<doc, phase, commandCount, pos, handler, currentIndex, skipped,
            toolchainInfoMap, batch, lastRound, queued, lastRefill>>

Keys == {"directory", "file", "command", "arguments", "output"}

-----------------------------------------------------------------------------
(* ValidateHandler: the contexts in which each event is legal, and the     *)
(* context after it.                                                       *)
ContextAfter(context, e) ==
    CASE context = "Outermost" /\ e = "StartArray"             -> "InTopLevelArray"
      [] context = "InTopLevelArray" /\ e = "StartObject"      -> "InObject"
      [] context = "InTopLevelArray" /\ e = "EndArray"         -> "Outermost"
      [] context = "InObject" /\ e \in {"Key", "String"}       -> "InObject"
      [] context = "InObject" /\ e = "EndObject"               -> "InTopLevelArray"
      [] context = "InArgumentsValue" /\ e = "StartArray"      -> "InArgumentsValueArray"
      [] context = "InArgumentsValueArray" /\ e = "String"     -> "InArgumentsValueArray"
      [] context = "InArgumentsValueArray" /\ e = "EndArray"   -> "InObject"
      [] OTHER                                                 -> "illegal"

(* String: the value of "directory" must be absolute.                      *)
BadDirectory(v, event) ==
    /\ event.e = "String"
    /\ v.context = "InObject"
    /\ v.lastKey = "directory"
    /\ event.v \notin AbsoluteDirs

(* Key: an unknown key is a warning; it leaves lastKey as it is.           *)
ValidateKey(v, key) ==
    [v EXCEPT !.lastKey = IF key \in Keys THEN key ELSE @,
              !.context = IF key = "arguments" THEN "InArgumentsValue" ELSE @]

(* The count of the first array that ends is kept.                         *)
ValidateStepVariant(v, event) ==
    IF \/ v.error
       \/ ContextAfter(v.context, event.e) = "illegal"
       \/ BadDirectory(v, event)
    THEN [v EXCEPT !.error = TRUE]
    ELSE IF event.e = "Key" THEN ValidateKey(v, event.v)
    ELSE [v EXCEPT !.context = ContextAfter(v.context, event.e),
                   !.count = IF event.e = "EndArray" /\ @ = 0 THEN event.v ELSE @]

ValidateStep(v, event) ==
    IF \/ v.error
       \/ ContextAfter(v.context, event.e) = "illegal"
       \/ BadDirectory(v, event)
    THEN [v EXCEPT !.error = TRUE]
    ELSE IF event.e = "Key" THEN ValidateKey(v, event.v)
    ELSE [v EXCEPT !.context = ContextAfter(v.context, event.e),
                   !.count = IF event.e = "EndArray" THEN event.v ELSE @]

(* The state of the handler after each event of d.                         *)
Validated(d) ==
    LET v[i \in 0 .. Len(d)] ==
            IF i = 0 THEN [context |-> "Outermost", lastKey |-> "unset",
                           error |-> FALSE, count |-> 0]
            ELSE The({ValidateStep(before, d[i]) : before \in {v[i - 1]}})
    IN  v

validateAndCountJobs == Validated(doc)[Len(doc)]

(* File::openAndExitOnErrors, and ResumableParser::initialize after it.    *)
EmptyCommand == [index |-> -1, directory |-> "", file |-> "", arguments |-> <<>>]
NewHandler   == [previousKey |-> "unset", wipCommand |-> EmptyCommand,
                 commands |-> <<>>, enforceFailed |-> FALSE]

OpenAndInitialize ==
    LET v == validateAndCountJobs
    IN  /\ phase = "closed"
        /\ phase' = IF v.error \/ v.count = 0 THEN "exitFailure" ELSE "idle"
        /\ commandCount' = v.count
        /\ handler' = NewHandler
        /\ pos' = 1
        /\ UNCHANGED <<doc, currentIndex, skipped, toolchainInfoMap, batch,
                       lastRound, queued, lastRefill>>

-----------------------------------------------------------------------------
(* CommandObjectHandler.                                                   *)
HandleKey(h, key) ==
    IF key \in Keys THEN [h EXCEPT !.previousKey = key]
    ELSE [h EXCEPT !.enforceFailed = TRUE]

HandleString(h, v) ==
    CASE h.previousKey = "directory" -> [h EXCEPT !.wipCommand.directory = v]
      [] h.previousKey = "file"      -> [h EXCEPT !.wipCommand.file = v]
      [] h.previousKey = "command"   -> [h EXCEPT !.wipCommand.arguments =
                                                      unescapeCommandLine(v)]
      [] h.previousKey = "arguments" -> [h EXCEPT !.wipCommand.arguments =
                                                      Append(@, v)]
      [] h.previousKey = "output"    -> h
      [] OTHER                       -> [h EXCEPT !.enforceFailed = TRUE]

(* The command under construction keeps the fields of the last object.     *)
HandleEndObjectVariant(h) ==
    [h EXCEPT !.commands = Append(@, h.wipCommand), !.previousKey = "unset"]

HandleEndObject(h) ==
    [h EXCEPT !.commands = Append(@, h.wipCommand),
              !.wipCommand = EmptyCommand, !.previousKey = "unset"]

HandleEvent(h, event) ==
    IF h.enforceFailed THEN h
    ELSE CASE event.e = "Key"       -> HandleKey(h, event.v)
           [] event.e = "String"    -> HandleString(h, event.v)
           [] event.e = "EndObject" -> HandleEndObject(h)
           [] OTHER                 -> h

(* The inner loop of parseMore: events are read until reachedLimit or the  *)
(* end.                                                                    *)
ReachedLimitAt(p) ==
    /\ doc[p].e = "EndObject"
    /\ Cardinality({q \in pos .. p : doc[q].e = "EndObject"}) = ParseLimit

ReadTo == IF \E p \in pos .. Len(doc) : ReachedLimitAt(p)
          THEN CHOOSE p \in pos .. Len(doc) : ReachedLimitAt(p)
          ELSE Len(doc)

IterativeParseComplete == pos > Len(doc)

(* The state of handler h after each event of d from position p.           *)
Handled(h, d, p) ==
    LET state[i \in 0 .. Len(d) - p + 1] ==
            IF i = 0 THEN h
            ELSE The({HandleEvent(before, d[p + i - 1]) : before \in {state[i - 1]}})
    IN  state

ReadCommands == Handled(handler, doc, pos)[ReadTo - pos + 1]

-----------------------------------------------------------------------------
(* The filters of parseMore.                                               *)
DoesFileExist(cmd) ==
    <<"", cmd.file>> \in OnDisk \/ <<cmd.directory, cmd.file>> \in OnDisk

IsMainFile(cmd) == cmd.file \in TuFiles

Numbered(first, cmds) ==
    [i \in 1 .. Len(cmds) |-> [cmds[i] EXCEPT !.index = first + i - 1]]

Accepted(cmds) ==
    LET kept == {i \in DOMAIN cmds : IsMainFile(cmds[i]) /\ DoesFileExist(cmds[i])}
    IN  [n \in 1 .. Cardinality(kept) |-> cmds[Nth(kept, n)]]

(* refillJobs calls parseMore with an empty vector; at the end of the file *)
(* parseMore returns at once.                                              *)
RefillJobs ==
    /\ phase = "idle"
    /\ batch' = <<>>
    /\ IF IterativeParseComplete
       THEN lastRefill' = 0 /\ UNCHANGED phase
       ELSE phase' = "parseMore" /\ UNCHANGED lastRefill
    /\ UNCHANGED <<doc, commandCount, pos, handler, currentIndex, skipped,
                   toolchainInfoMap, lastRound, queued>>

(* The loop ends after a round of which every command was left out.        *)
LoopingOnceVariant == phase = "parseMore" /\ lastRound = -1

(* The loop does not notice that the file is at its end.                   *)
LoopingForeverVariant == phase = "parseMore" /\ batch = <<>>

(* One round of the outer loop of parseMore, which goes on while all the   *)
(* commands of a round were left out.                                      *)
Looping == phase = "parseMore" /\ batch = <<>> /\ lastRound # 0

ParseRound ==
    /\ Looping
    /\ \E h \in {ReadCommands} : LET cmds == Numbered(currentIndex, h.commands) IN
        /\ batch' = Accepted(cmds)
        /\ currentIndex' = currentIndex + Len(cmds)
        /\ skipped' = skipped + Len(cmds) - Len(batch')
        /\ lastRound' = Len(cmds)
        /\ handler' = [h EXCEPT !.commands = <<>>]
        /\ pos' = ReadTo + 1
        /\ phase' = IF h.enforceFailed THEN "enforceFailed" ELSE phase
        /\ UNCHANGED <<doc, commandCount, toolchainInfoMap, queued, lastRefill>>

-----------------------------------------------------------------------------
(* ResumableParser::adjustCommandLine.  The toolchain of a compiler is     *)
(* looked for once, under the text of argv[0].                             *)
Lookup(map, cmd) ==
    LET compiler == cmd.arguments[1][1].flag
    IN  IF compiler \in DOMAIN map THEN map
        ELSE map @@ (compiler :> ToolchainAt(CompilerLocation(cmd.directory, compiler)))

AdjustCommandLine(s, cmd) ==
    IF cmd.arguments = <<>> THEN [s EXCEPT !.out = Append(@, cmd)]
    ELSE LET map == Lookup(s.map, cmd)
         IN  [map |-> map,
              out |-> Append(s.out,
                  [cmd EXCEPT !.arguments =
                      Adjust(map[cmd.arguments[1][1].flag], cmd.arguments)])]

(* The commands adjusted so far, after each command of cmds.               *)
Adjusted(map, cmds) ==
    LET state[i \in 0 .. Len(cmds)] ==
            IF i = 0 THEN [map |-> map, out |-> <<>>]
            ELSE The({AdjustCommandLine(before, cmds[i]) : before \in {state[i - 1]}})
    IN  state

(* The end of parseMore and of refillJobs.                                 *)
ReturnBatch ==
    /\ phase = "parseMore"
    /\ ~Looping
    /\ \E s \in {Adjusted(toolchainInfoMap, batch)[Len(batch)]} :
        /\ toolchainInfoMap' = s.map
        /\ queued' = queued \o s.out
        /\ lastRefill' = Len(s.out)
        /\ phase' = "idle"
        /\ batch' = <<>>
        /\ lastRound' = -1
        /\ UNCHANGED <<doc, commandCount, pos, handler, currentIndex, skipped>>

Init ==
    /\ doc \in Docs
    /\ phase = "closed"
    /\ commandCount = 0
    /\ pos = 0
    /\ handler = NewHandler
    /\ currentIndex = 0
    /\ skipped = 0
    /\ toolchainInfoMap = <<>>
    /\ batch = <<>>
    /\ lastRound = -1
    /\ queued = <<>>
    /\ lastRefill = -1

Exited == phase \in {"exitFailure", "enforceFailed"} /\ UNCHANGED dbVars

Next == OpenAndInitialize \/ RefillJobs \/ ParseRound \/ ReturnBatch \/ Exited

(* parseMore runs on the driver's own thread and waits for nothing.        *)
Spec == Init /\ [][Next]_dbVars /\ WF_dbVars(ParseRound \/ ReturnBatch)

-----------------------------------------------------------------------------
(* The objects of the file, read off the text without any handler.         *)
ObjectEnds == {p \in DOMAIN doc : doc[p].e = "EndObject"}

EventsOfObject(i) ==
    LET end   == Nth(ObjectEnds, i + 1)
        start == CHOOSE p \in 1 .. end : /\ doc[p].e = "StartObject"
                                         /\ \A q \in p + 1 .. end : doc[q].e # "StartObject"
    IN  SubSeq(doc, start, end)

(* The strings that follow key k, up to the next key.                      *)
ValuesOf(events, k) ==
    LET KeyOf(p) == CHOOSE q \in 1 .. p : /\ events[q].e = "Key"
                                          /\ \A r \in q + 1 .. p : events[r].e # "Key"
        mine == {p \in DOMAIN events : events[p].e = "String" /\ events[KeyOf(p)].v = k}
    IN  [n \in 1 .. Cardinality(mine) |-> events[Nth(mine, n)].v]

(* validateAndCountJobs keeps the count of the last array that ends: for a *)
(* file that it accepts this is the number of command objects, whatever    *)
(* arrays of arguments are nested in them.  Driver::openCompilationDatabase *)
(* derives the number of workers from it.                                  *)
CountIsNumberOfObjects ==
    phase \in {"idle", "parseMore"} => commandCount = Cardinality(ObjectEnds)

(* Between two calls of parseMore every entry read so far has been queued  *)
(* or counted as skipped, in the order of the file, and an empty refill    *)
(* means that the file is at its end: a round of which nothing is left     *)
(* after the filters does not end the indexing.                            *)
NoEntryLost ==
    phase = "idle" =>
        /\ Len(queued) + skipped = currentIndex
        /\ \A i, k \in DOMAIN queued : i < k => queued[i].index < queued[k].index
        /\ lastRefill = 0 => currentIndex = commandCount

(* "unexpected key should've been caught by validation"                    *)
(* (CommandObjectHandler::Key): a file that was accepted and counted is    *)
(* read without failing an ENFORCE.                                        *)
AcceptedFilesAreRead == phase # "enforceFailed"

LastOf(values) == IF values = <<>> THEN "" ELSE values[Len(values)]

(* A queued command has the directory and the file of its own object: no   *)
(* value leaks from one object into the next, across a refill or across a  *)
(* skipped entry, and the index is the position in the file.               *)
FieldsFromOwnKeys ==
    \A n \in DOMAIN queued :
        LET events == EventsOfObject(queued[n].index)
        IN  /\ queued[n].directory = LastOf(ValuesOf(events, "directory"))
            /\ queued[n].file = LastOf(ValuesOf(events, "file"))

(* What the author of the file meant by the object.                        *)
WrittenArguments(events) ==
    LET lines == ValuesOf(events, "command")
    IN  IF lines = <<>> THEN ValuesOf(events, "arguments")
        ELSE CHOOSE args \in ArgLists : lines[Len(lines)] \in
                {ShellLine(style, args) : style \in {"dquote", "squote", "backslash"}}

HasBoth(events) == ValuesOf(events, "command") # <<>> /\ ValuesOf(events, "arguments") # <<>>

(* A queued command line is the one that was written, quoted in any style  *)
(* or as an array, adjusted once and by the toolchain of its own compiler, *)
(* although toolchains are looked up in a cache that failures enter too.   *)
(* Relative compilers are excepted: the cache does not know the directory. *)
CommandLineAsWritten ==
    \A n \in DOMAIN queued :
        LET events == EventsOfObject(queued[n].index)
            args   == WrittenArguments(events)
            compiler == args[1][1].flag
            toolchain == ToolchainAt(CompilerLocation(queued[n].directory, compiler))
        IN  \/ HasBoth(events)
            \/ args = <<>> /\ queued[n].arguments = <<>>
            \/ Form[compiler] = "relative"
            \/ ~NoOptionTakesTwo(toolchain, args)
            \/ queued[n].arguments = ExpectedLine(toolchain, args)

(* parseMore returns: its outer loop ends at the end of the file even if   *)
(* every entry of the file is left out.                                    *)
RefillReturns == phase = "parseMore" ~> phase # "parseMore"
=============================================================================
