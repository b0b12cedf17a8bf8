---------------------------- MODULE DriverScript ----------------------------
(***************************************************************************)
(* build.sh, build.bat and check.sh, which have the same shape: parse_args *)
(* walks the words of the command line, an option deciding what the words  *)
(* after it are for, and main prints the usage or runs its tools joined by *)
(* &&.  check.sh is run after build.sh, as a process of its own; build.bat *)
(* is run on a machine that has no check.sh.                               *)
(***************************************************************************)
EXTENDS Integers, SequencesExt, FiniteSets

CONSTANTS
    CommandLines,  \* function from the scripts to sets of sequences of words
    Environments   \* function from the build scripts to what CMAKE_ARGS and
                   \* CMAKE_BUILD_ARGS may be before them

VARIABLES
    script,        \* the script that is run
    argv,          \* the words of its command line
    environment,   \* the words in CMAKE_ARGS and CMAKE_BUILD_ARGS before it
    k,             \* words parsed
    parse_action,  \* PARSE_ACTION
    print_usage,   \* RUN_ACTION or BUILD_ACTION
    settings,      \* what has been set for each parse action, as words
    status,        \* $? or ERRORLEVEL
    ran,           \* the tools run so far
    pc

call == <<script, argv, environment>>
vars == <<call, k, parse_action, print_usage, settings, status, ran, pc>>

Nothing == "none"

HelpWords == {"-h", "--help"}

\* The options that set each parse action of the script.
Options ==
    CASE script = "build.sh" ->
            [output_dir |-> {"-o", "--output-dir"}, build_config |-> {"-c", "--config"},
             cmake_args |-> {"-Ca", "--cmake-args"}, cmake_build_args |-> {"-Cb", "--cmake-build-args"}]
      [] script = "build.bat" ->
            [output_prefix |-> {"-o", "--output-prefix"}, arch |-> {"-a", "--arch"},
             build_config |-> {"-c", "--config"},
             cmake_args |-> {"-Ca", "--cmake-args"}, cmake_build_args |-> {"-Cb", "--cmake-build-args"}]
      [] script = "check.sh" ->
            [output_dir |-> {"-o", "--output-dir"}, ctest_args |-> {"-Ct", "--ctest-args"}]

WordsOf(options) == UNION { options[action] : action \in DOMAIN options }

OptionWords == WordsOf(Options)

\* The parse actions whose words are collected; others keep the last one.
Collecting == {"cmake_args", "cmake_build_args", "ctest_args"}

\* What the variables of the scripts are before any word is read.  build.sh
\* empties CMAKE_ARGS and CMAKE_BUILD_ARGS, build.bat takes them as they are.
Defaults(s, env) ==
    CASE s = "build.sh" ->
            [output_dir |-> <<"build">>, build_config |-> <<"Debug">>,
             cmake_args |-> <<>>, cmake_build_args |-> <<>>]
      [] s = "build.bat" ->
            [output_prefix |-> <<"build_windows">>, arch |-> <<"x64">>,
             build_config |-> <<"Debug">>,
             cmake_args |-> env["cmake_args"], cmake_build_args |-> env["cmake_build_args"]]
      [] s = "check.sh" -> [output_dir |-> <<"build">>, ctest_args |-> <<>>]

\* The commands of main.
Tools == IF script = "check.sh" THEN <<"ctest">> ELSE <<"cmake", "cmake --build">>

\* The target architectures of SetCMakeArch.
Architectures == {"x86", "x64", "arm", "arm64"}

Init ==
    /\ script \in {"build.sh", "build.bat"}
    /\ argv \in CommandLines[script]
    /\ environment \in Environments[script]
    /\ k = 0
    /\ parse_action = Nothing
    /\ print_usage = FALSE
    /\ settings = Defaults(script, environment)
    /\ status = 0
    /\ ran = <<>>
    /\ pc = "parse"

\* Whatever has become of build.sh, check.sh may be run next.
NextCommand ==
    /\ script = "build.sh" /\ pc = "done"
    /\ script' = "check.sh"
    /\ argv' \in CommandLines["check.sh"]
    /\ k' = 0
    /\ parse_action' = Nothing
    /\ print_usage' = FALSE
    /\ settings' = Defaults("check.sh", environment)
    /\ status' = 0
    /\ ran' = <<>>
    /\ pc' = "parse"
    /\ UNCHANGED environment

ParseWord ==
    /\ pc = "parse"
    /\ k < Len(argv)
    /\ k' = k + 1
    /\ UNCHANGED <<call, ran>>

HelpWord ==
    /\ ParseWord
    /\ argv[k'] \in HelpWords
    /\ print_usage' = TRUE
    /\ status' = 0
    /\ pc' = "parsed"
    /\ UNCHANGED <<parse_action, settings>>

\* The --config branch of build.bat assigns the option word to BUILD_CONFIG.
OptionWord ==
    /\ ParseWord
    /\ \E action \in DOMAIN Options : argv[k'] \in Options[action] /\ parse_action' = action
    /\ settings' = IF script = "build.bat" /\ argv[k'] = "--config"
                     THEN [settings EXCEPT !["build_config"] = <<argv[k']>>] ELSE settings
    /\ UNCHANGED <<print_usage, status, pc>>

PlainWord == ParseWord /\ argv[k'] \notin HelpWords \cup OptionWords

\* Mutation of ValueWord: words are collected for every option.
ValueWordAppended ==
    /\ PlainWord
    /\ parse_action # Nothing
    /\ settings' = [settings EXCEPT ![parse_action] = Append(@, argv[k'])]
    /\ UNCHANGED <<parse_action, print_usage, status, pc>>

ValueWord ==
    /\ PlainWord
    /\ parse_action # Nothing
    /\ settings' = [settings EXCEPT ![parse_action] =
                        IF parse_action \in Collecting THEN Append(@, argv[k']) ELSE <<argv[k']>>]
    /\ UNCHANGED <<parse_action, print_usage, status, pc>>

\* Mutation of UnknownWord: the word is skipped.
UnknownWordSkipped ==
    /\ PlainWord
    /\ parse_action = Nothing
    /\ UNCHANGED <<parse_action, print_usage, settings, status, pc>>

\* "Error: Unknown option"; parse_args returns 1.
UnknownWord ==
    /\ PlainWord
    /\ parse_action = Nothing
    /\ status' = 1
    /\ pc' = "parsed"
    /\ UNCHANGED <<parse_action, print_usage, settings>>

EndOfWords ==
    /\ pc = "parse"
    /\ k = Len(argv)
    /\ status' = 0
    /\ pc' = "parsed"
    /\ UNCHANGED <<call, k, parse_action, print_usage, settings, ran>>

\* if [ $? -ne 0 ]; then return $?; fi -- the status of parse_args is not
\* zero, so [ succeeds and its own status is what main returns.  build.bat
\* tests and returns ERRORLEVEL, which is still that of ParseArgs.
ParseFailed ==
    /\ pc = "parsed"
    /\ status # 0
    /\ status' = IF script = "build.bat" THEN status ELSE 0
    /\ pc' = "done"
    /\ UNCHANGED <<call, k, parse_action, print_usage, settings, ran>>

\* When [ fails the if command has status 0.
PrintUsage ==
    /\ pc = "parsed"
    /\ status = 0 /\ print_usage
    /\ pc' = "return"
    /\ UNCHANGED <<call, k, parse_action, print_usage, settings, status, ran>>

\* build.bat only: an unknown target architecture makes it exit with 1.
SetCMakeArch ==
    /\ script = "build.bat" /\ pc = "parsed"
    /\ status = 0 /\ ~print_usage
    /\ IF Last(settings["arch"]) \in Architectures
         THEN pc' = "arch_set" /\ UNCHANGED status
         ELSE pc' = "done" /\ status' = 1
    /\ UNCHANGED <<call, k, parse_action, print_usage, settings, ran>>

\* The tool that main is waiting for.
Awaits(tool) ==
    /\ pc = IF script = "build.bat" THEN "arch_set" ELSE "parsed"
    /\ status = 0 /\ ~print_usage
    /\ Tools[Len(ran) + 1] = tool

\* The directory the tools work in.
Directory == IF script = "build.bat" THEN settings["output_prefix"] \o settings["arch"]
             ELSE settings["output_dir"]

\* The tool ends with one of these statuses; the next one runs if it is 0.
ToolEnds(tool, statuses) ==
    /\ Awaits(tool)
    /\ ran' = Append(ran, tool)
    /\ status' \in statuses
    /\ pc' = IF status' = 0 /\ Len(ran') < Len(Tools) THEN pc ELSE "return"
    /\ UNCHANGED <<call, k, parse_action, print_usage, settings>>

\* The mains of the build scripts return the last status, that of check.sh 0.
Return ==
    /\ pc = "return"
    /\ status' = IF script = "check.sh" THEN 0 ELSE status
    /\ pc' = "done"
    /\ UNCHANGED <<call, k, parse_action, print_usage, settings, ran>>

Finished == script # "build.sh" /\ pc = "done" /\ UNCHANGED vars

Parse == HelpWord \/ OptionWord \/ ValueWord \/ UnknownWord \/ EndOfWords

\* What a script does but run its tools.
Step == Parse \/ ParseFailed \/ PrintUsage \/ SetCMakeArch \/ Return \/ NextCommand

----------------------------------------------------------------------------
\* Reference: the places of the words that the command line gives to a parse
\* action, those that have one of its options as the last option before them.
Given(options, action, upto) ==
    { j \in 1..upto :
        /\ argv[j] \notin WordsOf(options) \cup HelpWords
        /\ \E o \in 1..(j - 1) :
              argv[o] \in options[action] /\ \A m \in (o + 1)..(j - 1) : argv[m] \notin WordsOf(options) }

\* The places from left to right.
InOrder(places) ==
    { p \in [1..Cardinality(places) -> places] : \A x, y \in DOMAIN p : x < y => p[x] < p[y] }

HasHelp == \E j \in DOMAIN argv : argv[j] \in HelpWords

\* A word that no option claims, before any request for help.
HasUnknown(options) ==
    \E j \in DOMAIN argv :
        \A m \in 1..j : argv[m] \notin WordsOf(options) \cup HelpWords

\* What the command line asks for: for a directory, an architecture or a
\* configuration the last word, the default when there is no word; for the
\* arguments of a tool all words in order, after those already there.
LastWord(options, action, default) ==
    LET places == Given(options, action, k)
    IN  IF places = {} THEN default
        ELSE << argv[CHOOSE j \in places : \A m \in places : m <= j] >>

IsAsked(options, action, default, words) ==
    IF action \in Collecting
      THEN \E p \in InOrder(Given(options, action, k)) :
              words = default \o [x \in DOMAIN p |-> argv[p[x]]]
      ELSE words = LastWord(options, action, default)

\* The defaults of the usage texts, which name none for the arguments of tools.
UsageDefaults == Defaults(script, [name \in {"cmake_args", "cmake_build_args"} |-> <<>>])

\* build.bat has read --config and no word for the configuration after it.
ConfigIsOption ==
    /\ script = "build.bat"
    /\ settings["build_config"] = <<"--config">>
    /\ \E o \in 1..k : argv[o] = "--config" /\ (\A j \in Given(Options, "build_config", k) : j < o)

\* Whatever the options are mixed into, each setting is what the words after
\* the options of the script asked for.  build.bat alone differs, and in two
\* ways only: it takes a bare --config for the configuration, and it leaves
\* before the words what the environment had in CMAKE_ARGS or CMAKE_BUILD_ARGS.
SettingsFollowWords ==
    \A action \in DOMAIN settings :
        \/ IsAsked(Options, action, UsageDefaults[action], settings[action])
        \/ action = "build_config" /\ ConfigIsOption
        \/ /\ script = "build.bat" /\ action \in {"cmake_args", "cmake_build_args"}
           /\ environment[action] # <<>>
           /\ IsAsked(Options, action, environment[action], settings[action])

\* A tool runs only when all words have been parsed, none of them unknown and
\* none a request for help, for an architecture there is, and after the tools
\* before it.
ToolsRunLast ==
    ran # <<>> => /\ k = Len(argv) /\ ~HasHelp /\ ~HasUnknown(Options)
                  /\ script = "build.bat" =>
                        ToSet(LastWord(Options, "arch", <<"x64">>)) \subseteq Architectures
                  /\ IsPrefix(ran, Tools)

----------------------------------------------------------------------------
\* What comments and usage texts say that the scripts do not do.

\* build.sh 127, check.sh 106: "parse args and exit if error".  An exit
\* because of an error is an exit with the status that parse_args returned.
BadArgsFail == (pc = "done" /\ HasUnknown(Options)) => status # 0

\* The options of the usage texts: build.sh 36-47, check.sh 31-36, build.bat 39-60.
UsageOptions ==
    IF script = "check.sh"
      THEN [output_dir |-> {"-t", "--test-dir"}, ctest_args |-> {"-Ct", "--ctest-args"}]
      ELSE Options

\* A command line of the usage text: no word that none of its options claims,
\* and after each option a word that neither the text nor the script has for one.
IsUsage ==
    /\ ~HasUnknown(UsageOptions)
    /\ \A o \in DOMAIN argv :
          argv[o] \in WordsOf(UsageOptions) =>
              o < Len(argv) /\ argv[o + 1] \notin WordsOf(UsageOptions) \cup OptionWords \cup HelpWords

\* Such a command line is not refused as wrong, and when a tool runs each
\* setting is what the usage text says it is: the CONFIG after -c or --config,
\* and no argument that nobody passed.
UsageIsFollowed ==
    /\ (pc = "parsed" /\ IsUsage) => status = 0
    /\ ran # <<>> =>
          \A action \in DOMAIN settings :
              IsAsked(UsageOptions, action, UsageDefaults[action], settings[action])
============================================================================
