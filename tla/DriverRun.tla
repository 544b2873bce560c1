------------------------------- MODULE DriverRun -------------------------------
(***************************************************************************)
(* One run of a command line tool. aspect-rustc-driver reads its own flags *)
(* and hands the other words to the compiler; its working version          *)
(* (main_working.rs) puts an analysis of its own in the place of the       *)
(* compiler's, which extracts the crate's functions (mir_analyzer.rs),     *)
(* matches them with the pointcuts and reports; main.rs analyses nothing.  *)
(* cargo-aspect runs a command of cargo.                                   *)
(*                                                                         *)
(* A name is the sequence of its parts, "::" among them; a string contains *)
(* another one if the parts of that stand in it side by side.              *)
(***************************************************************************)
EXTENDS Integers, Sequences, SequencesExt, FiniteSetsExt, Subsequences

CONSTANTS
  Meaning,  \* words of the command line: what each is as a pointcut
  Crate,    \* items of the crate, in order: [kind, path, name, vis]
  MaxWords  \* bound on the length of the command line

Meanings ==
  [kind : {"public"}] \cup [kind : {"within", "name"}, parts : Seq(STRING)]

CrateItems ==
  [kind : {"fn", "method"}, path : Seq([ns : STRING, name : Seq(STRING)]),
   name : Seq(STRING), vis : STRING]

ASSUME DriverRunAssumption ==
  /\ MaxWords \in Nat
  /\ DOMAIN Meaning \subseteq STRING
  /\ \A w \in DOMAIN Meaning : Meaning[w] \in Meanings
  /\ Crate \in Seq(CrateItems)

VARIABLES
  driver,  \* the run: its stage, what it has read and found, what it says
  output   \* what the output file holds

runVars == <<driver, output>>

-----------------------------------------------------------------------------
(* Words *)

ValueFlags == {"--aspect-pointcut", "--aspect-output"}
OwnFlags == ValueFlags \cup {"--aspect-verbose"}
Words == DOMAIN Meaning \cup OwnFlags

\* A flag that is taken for a pointcut names nothing.
MeaningOf(w) ==
  IF w \in OwnFlags THEN [kind |-> "name", parts |-> <<w>>] ELSE Meaning[w]

\* str::contains
ContainsText(s, parts) == parts \in SubSeqs(s)

Numbering(s) == [i \in 1..Len(s) |-> i]

-----------------------------------------------------------------------------
(* mir_analyzer.rs *)

JoinNames(names) ==
  LET joined[i \in 0..Len(names)] ==
        IF i = 0 THEN << >>
        ELSE IF joined[i - 1] = << >> THEN names[i]
        ELSE joined[i - 1] \o <<"::">> \o names[i]
  IN  joined[Len(names)]

\* The names of the modules (and functions) an item is in, and its own.
Names(item) == [i \in 1..Len(item.path) |-> item.path[i].name] \o <<item.name>>

DefPathStr(item) == JoinNames(Names(item))

\* The parts of the path are formatted with Debug and cut off at the bracket, so
\* they are the namespaces and not the names.
ExtractModulePath(item) ==
  JoinNames(<<<<"crate">>>> \o [i \in 1..Len(item.path) |-> <<item.path[i].ns>>])

ExtractVisibility(item) == IF item.vis = "pub" THEN "Public" ELSE "Private"

\* Whether a function is async is not found out yet.
IsAsyncFn(item) == FALSE

\* An item is told from the others by where it stands.
ExtractFunctionMetadata(n) ==
  LET item == Crate[n]
  IN  [name |-> DefPathStr(item), module_path |-> ExtractModulePath(item),
       visibility |-> ExtractVisibility(item), is_async |-> IsAsyncFn(item),
       location |-> n]

\* The items of the crate: those of an impl block are not among them.
ExtractAllFunctions ==
  LET found == Only(Numbering(Crate), {n \in 1..Len(Crate) : Crate[n].kind = "fn"})
  IN  [i \in 1..Len(found) |-> ExtractFunctionMetadata(found[i])]

\* AnalysisStats, which are printed before anything is matched.
FromFunctions(functions) ==
  LET public == Cardinality({k \in 1..Len(functions) : functions[k].visibility = "Public"})
  IN  [total |-> Len(functions), public |-> public, private |-> Len(functions) - public,
       async |-> Cardinality({k \in 1..Len(functions) : functions[k].is_async}),
       matched |-> 0]

-----------------------------------------------------------------------------
(* Matching *)

Selects(w, f) ==
  LET p == MeaningOf(w)
  IN  CASE p.kind = "public" -> f.visibility = "Public"
        [] p.kind = "within" -> \/ ContainsText(f.module_path, p.parts)
                                \/ ContainsText(f.name, p.parts)
        [] p.kind = "name" -> ContainsText(f.name, p.parts)

Pairs(functions, w) ==
  LET found == Only(functions, {f \in ToSet(functions) : Selects(w, f)})
  IN  [i \in 1..Len(found) |-> [function |-> found[i], pointcut |-> w]]

MatchedFunctions(functions, pointcuts) ==
  LET matched[i \in 0..Len(pointcuts)] ==
        IF i = 0 THEN << >> ELSE matched[i - 1] \o Pairs(functions, pointcuts[i])
  IN  matched[Len(pointcuts)]

-----------------------------------------------------------------------------
(* The command line *)

NoResults == [functions |-> << >>, stats |-> FromFunctions(<< >>), matched |-> << >>]
NoConfig == [pointcuts |-> << >>, output_file |-> << >>, verbose |-> FALSE]

Started(tool, argv, stage) ==
  [tool |-> tool, argv |-> argv, stage |-> stage, at |-> 1, config |-> NoConfig,
   rustc_args |-> << >>, results |-> NoResults, analysed |-> FALSE, cargo |-> "none",
   written |-> 0, said |-> {}, exit |-> "none"]

\* The file may hold the report of an earlier run.
RunInit ==
  /\ driver = Started("none", << >>, "idle")
  /\ output = <<"earlier">>

StartDriver ==
  /\ driver.stage = "idle"
  /\ \E tool \in {"main_working", "main"}, argv \in BoundedSeq(Words, MaxWords) :
       driver' = Started(tool, argv, "reading")
  /\ UNCHANGED output

ReadsWords == driver.stage = "reading" /\ driver.at <= Len(driver.argv)
Word == driver.argv[driver.at]
NextWord == driver.argv[driver.at + 1]

TakeVerbose ==
  /\ ReadsWords /\ Word = "--aspect-verbose"
  /\ driver' = [driver EXCEPT !.config.verbose = TRUE, !.at = @ + 1]
  /\ UNCHANGED output

WithValue(config, flag, value) ==
  IF flag = "--aspect-pointcut" THEN [config EXCEPT !.pointcuts = Append(@, value)]
  ELSE [config EXCEPT !.output_file = <<value>>]

\* Mutant: the value is looked at once more.
TakeValueOnly ==
  /\ ReadsWords /\ Word \in ValueFlags /\ driver.at < Len(driver.argv)
  /\ driver' = [driver EXCEPT !.config = WithValue(@, Word, NextWord), !.at = @ + 1]
  /\ UNCHANGED output

TakeValue ==
  /\ ReadsWords /\ Word \in ValueFlags /\ driver.at < Len(driver.argv)
  /\ driver' = [driver EXCEPT !.config = WithValue(@, Word, NextWord), !.at = @ + 2]
  /\ UNCHANGED output

Exit(code) == [driver EXCEPT !.stage = "exited", !.exit = code]

MissingValue ==
  /\ ReadsWords /\ Word \in ValueFlags /\ driver.at = Len(driver.argv)
  /\ driver' = Exit("usage")
  /\ UNCHANGED output

PassOn ==
  /\ ReadsWords /\ Word \notin OwnFlags
  /\ driver' = [driver EXCEPT !.rustc_args = Append(@, Word), !.at = @ + 1]
  /\ UNCHANGED output

RunCompiler ==
  /\ driver.stage = "reading" /\ driver.at > Len(driver.argv)
  /\ driver' = [driver EXCEPT !.stage = "compiling"]
  /\ UNCHANGED output

-----------------------------------------------------------------------------
(* The compiler and the report *)

\* analyze_crate_with_aspects, called by the compiler; only main_working.rs has
\* it called.
AnalyzeCrate ==
  /\ driver.stage = "compiling" /\ driver.tool = "main_working" /\ ~driver.analysed
  /\ LET functions == ExtractAllFunctions
         matched == MatchedFunctions(functions, driver.config.pointcuts)
     IN  driver' = [driver EXCEPT !.analysed = TRUE,
                      !.results = [functions |-> functions,
                                   stats |-> FromFunctions(functions),
                                   matched |-> matched]]
  /\ UNCHANGED output

\* An error that the compiler finds, before the analysis or after it, unwinds
\* through main.
CompilerFails ==
  /\ driver.stage = "compiling"
  /\ driver' = Exit("failed")
  /\ UNCHANGED output

\* The compiler returns; without an analysis there is nothing to report.
CompilerReturns ==
  /\ driver.stage = "compiling"
  /\ driver' = IF ~driver.analysed THEN Exit("ok")
               ELSE [driver EXCEPT !.stage = "reporting", !.said = {"complete"}]
  /\ UNCHANGED output

Report ==
  <<[total |-> Len(driver.results.functions)], driver.results.functions,
    [total |-> Len(driver.results.matched)], driver.results.matched>>

\* File::create empties the file that was there.
CreateOutput ==
  /\ driver.stage = "reporting" /\ driver.config.output_file # << >>
  /\ driver' = [driver EXCEPT !.stage = "writing"]
  /\ output' = << >>

\* Mutant: an error in writing is dropped.
SkipPart ==
  /\ driver.stage = "writing" /\ driver.written < Len(Report)
  /\ driver' = [driver EXCEPT !.written = @ + 1]
  /\ UNCHANGED output

WritePart ==
  /\ driver.stage = "writing" /\ driver.written < Len(Report)
  /\ driver' = [driver EXCEPT !.written = @ + 1]
  /\ output' = Append(output, Report[driver.written + 1])

\* create or a write fails: the error is printed, and the run succeeds.
OutputFails ==
  /\ \/ driver.stage = "reporting" /\ driver.config.output_file # << >>
     \/ driver.stage = "writing" /\ driver.written < Len(Report)
  /\ driver' = [Exit("ok") EXCEPT !.said = @ \cup {"error writing", "success"}]
  /\ UNCHANGED output

Finish ==
  /\ \/ /\ driver.stage = "reporting" /\ driver.config.output_file = << >>
        /\ driver' = [Exit("ok") EXCEPT !.said = @ \cup {"success"}]
     \/ /\ driver.stage = "writing" /\ driver.written = Len(Report)
        /\ driver' = [Exit("ok") EXCEPT !.said = @ \cup {"written", "success"}]
  /\ UNCHANGED output

-----------------------------------------------------------------------------
(* cargo-aspect *)

CargoCommands == {"build", "check", "test", "bench", "clean"}

\* run_aspect_command: without a command, info and list only print.
RunAspectCommand ==
  /\ driver.stage = "idle"
  /\ \E command \in CargoCommands \cup {"info", "list", "none"} :
       LET started == Started(command, << >>, "cargo")
       IN  driver' = IF command \in CargoCommands THEN started
                     ELSE [started EXCEPT !.stage = "exited", !.exit = "ok"]
  /\ UNCHANGED output

\* run_cargo_command: cargo cannot be started, or ends with a status.
RunCargoCommand ==
  /\ driver.stage = "cargo"
  /\ \E status \in {"not started", "success", "failure"} :
       driver' = [Exit(IF status = "success" THEN "ok" ELSE "failed")
                    EXCEPT !.cargo = status]
  /\ UNCHANGED output

RunNext ==
  \/ StartDriver \/ TakeVerbose \/ TakeValue \/ MissingValue \/ PassOn
  \/ RunCompiler \/ AnalyzeCrate \/ CompilerFails \/ CompilerReturns
  \/ CreateOutput \/ WritePart \/ OutputFails \/ Finish
  \/ RunAspectCommand \/ RunCargoCommand

RunSpec == RunInit /\ [][RunNext]_runVars

-----------------------------------------------------------------------------
(* Safety *)

RunTypeOK ==
  /\ driver.argv \in Seq(Words) /\ driver.at \in 1..(Len(driver.argv) + 1)
  /\ driver.stage \in {"idle", "reading", "compiling", "reporting", "writing", "cargo",
                       "exited"}
  /\ driver.exit \in {"none", "ok", "failed", "usage"}
  /\ driver.written \in 0..Len(Report)

\* A word is the value of a flag if the flags just before it that take values
\* are odd in number.
IsValue(argv, i) ==
  \E run \in 1..(i - 1) :
    /\ run % 2 = 1
    /\ \A k \in (i - run)..(i - 1) : argv[k] \in ValueFlags
    /\ i - run = 1 \/ argv[i - run - 1] \notin ValueFlags

ValuesOf(argv, flag) ==
  {i \in 2..Len(argv) : IsValue(argv, i) /\ argv[i - 1] = flag}

Given(argv) == {i \in 2..Len(argv) : IsValue(argv, i)}

\* The words at these places, in their order.
InOrder(argv, at) ==
  LET places == Only(Numbering(argv), at)
  IN  [k \in 1..Len(places) |-> argv[places[k]]]

\* Every word of the command line is used once: a flag, the value of a flag, or
\* an argument of the compiler; the run ends for a missing value just if the last
\* word waits for one (main_working.rs:144-174, main.rs:114-144).
WordsAreUsed ==
  LET argv == driver.argv
      outputs == ValuesOf(argv, "--aspect-output")
      rest == {i \in 1..Len(argv) : i \notin Given(argv) /\ argv[i] \notin OwnFlags}
      waits == argv # << >> /\ Last(argv) \in ValueFlags /\ Len(argv) \notin Given(argv)
  IN  /\ driver.exit = "usage" <=> waits /\ driver.stage = "exited"
      /\ driver.stage = "compiling" \/ driver.analysed =>
           /\ driver.rustc_args = InOrder(argv, rest)
           /\ driver.config.output_file =
                IF outputs = {} THEN << >> ELSE <<argv[Max(outputs)]>>

\* `m` is the name of a module, without `crate::` in front, that the item is in.
IsUnder(item, m) ==
  \E i \in 1..Len(item.path) : JoinNames(SubSeq(Names(item), 1, i)) = m

TimesPaired(n, w) ==
  LET matched == driver.results.matched
  IN  Cardinality({k \in 1..Len(matched) :
                     matched[k].function.location = n /\ matched[k].pointcut = w})

\* The text of a pointcut that stands in none of what is put down as the modules
\* of the functions (mir_analyzer.rs:106-131), `crate` or the name of a namespace.
\* It can be found in names only.
OnlyInNames(parts) ==
  \A n \in 1..Len(Crate) : ~ContainsText(ExtractModulePath(Crate[n]), parts)

\* The free functions that a pointcut is meant for: the public ones; those with
\* the text in their path; or those in a module of that name, written without
\* `crate`, and besides only functions that have the text in their path. `chosen`
\* says whether the function was paired with the pointcut.
ChosenAsMeant(item, p, chosen) ==
  LET path == JoinNames(Names(item))
  IN  CASE p.kind = "public" -> chosen <=> item.vis = "pub"
        [] p.kind = "name" -> chosen <=> ContainsText(path, p.parts)
        [] p.kind = "within" ->
             /\ IsUnder(item, p.parts) => chosen
             /\ OnlyInNames(p.parts) /\ chosen => ContainsText(path, p.parts)

\* The report pairs each pointcut that was given, as often as it was, with the
\* free functions it is meant for (main_working.rs:62-104, mir_analyzer.rs:35-142).
\* All free functions, and the public ones among them, have been counted before
\* that (mir_analyzer.rs:215-231).
PairsAreMeant ==
  LET argv == driver.argv
      pointcuts == ValuesOf(argv, "--aspect-pointcut")
      free == {n \in 1..Len(Crate) : Crate[n].kind = "fn"}
  IN  driver.analysed =>
        /\ driver.results.stats.total = Cardinality(free)
        /\ driver.results.stats.public = Cardinality({n \in free : Crate[n].vis = "pub"})
        /\ \A n \in 1..Len(Crate), i \in pointcuts :
             LET times == Cardinality({j \in pointcuts : argv[j] = argv[i]})
                 paired == TimesPaired(n, argv[i])
             IN  /\ paired \in {0, times}
                 /\ n \notin free => paired = 0
                 /\ n \in free =>
                      ChosenAsMeant(Crate[n], MeaningOf(argv[i]), paired = times)

\* What the command line says is done: its words are used, and the pointcuts among
\* them choose the functions that they are meant for.
CommandLineIsObeyed == WordsAreUsed /\ PairsAreMeant

\* "Full path / within(crate::api)" next to "All functions in api module /
\* within(api)" (docs/book/src/ch10-phase3/pointcuts.md:62-69): a pointcut finds
\* the functions of a module whether it is written with `crate` or without.
WithinFindsTheModule ==
  \A i \in ValuesOf(driver.argv, "--aspect-pointcut"), n \in 1..Len(Crate) :
    LET p == MeaningOf(driver.argv[i])
    IN  /\ driver.analysed /\ Crate[n].kind = "fn" /\ p.kind = "within"
        /\ \/ IsUnder(Crate[n], p.parts)
           \/ \E m \in Suffixes(p.parts) : p.parts = <<"crate", "::">> \o m /\ IsUnder(Crate[n], m)
        => TimesPaired(n, driver.argv[i]) > 0

\* The tools tell what has come out. A run that has an output file to write says
\* "Analysis written" exactly if the file then holds the whole report of this run,
\* and that there was an error exactly if not; "SUCCESS", of the analysis, is said
\* only if there was one and the compiler did not fail; a command of cargo-aspect
\* succeeds exactly if cargo did (main_working.rs:191-245,
\* cargo-aspect/src/main.rs:237-249).
OutcomeIsTold ==
  LET reported == driver.stage = "exited" /\ driver.exit = "ok" /\ driver.analysed
      asked == reported /\ driver.config.output_file # << >>
  IN  /\ "written" \in driver.said <=> asked /\ output = Report
      /\ "error writing" \in driver.said <=> asked /\ output # Report
      /\ "success" \in driver.said => reported
      /\ driver.stage = "exited" /\ driver.tool \in CargoCommands =>
           (driver.exit = "ok" <=> driver.cargo = "success")
================================================================================
