--------------------------- MODULE BuildAndCheck ---------------------------
(***************************************************************************)
(* From the command lines to the verdicts: build.sh has cmake register the *)
(* tests and compile their programs, check.sh has ctest run them; or       *)
(* build.bat does the first part.  Driver is the scripts, Suite is cmake   *)
(* and ctest at work; a script waits for its tool.                         *)
(***************************************************************************)
EXTENDS Integers, SequencesExt, FiniteSets

CONSTANTS
    CommandLines, Environments, Cases, ListFiles, Blocks,
    Processors  \* $(nproc)

VARIABLES
    script, argv, environment, k, parse_action, print_usage, settings, status, ran, pc,
    calls, made, tests, xfail, disabled, instrumented, program, jobs,
    process, exit_status, written, gmon, verdict, stage,
    configured  \* the directory that cmake has succeeded in

Driver == INSTANCE DriverScript
Suite == INSTANCE TestSuite

driverVars == <<script, argv, environment, k, parse_action, print_usage, settings, status, ran, pc>>
suiteVars == <<calls, made, tests, xfail, disabled, instrumented, program, jobs,
               process, exit_status, written, gmon, verdict, stage>>
vars == <<driverVars, suiteVars, configured>>

ASSUME TypesAssumption ==
    /\ Suite!InputsOK
    /\ Processors \in Nat \ {0}
    /\ \A s \in {"build.sh", "build.bat", "check.sh"} : CommandLines[s] \subseteq Seq(STRING)
    /\ \A s \in {"build.sh", "build.bat"} :
          Environments[s] \subseteq [{"cmake_args", "cmake_build_args"} -> Seq(STRING)]

\* The words that matter to the tests: the cache entry that turns -pg on, and
\* a -j of the user's, which comes after that of check.sh and replaces it.
PgWord == "-DPDHKR_ENABLE_PG=ON"
OneJobWord == "-j1"

Init == Driver!Init /\ Suite!Init /\ configured = <<>>

DriverStep == Driver!Step /\ UNCHANGED <<suiteVars, configured>>

\* The compiler of build.bat's generator has no -pg.
CmakeStarts ==
    /\ Driver!Awaits("cmake")
    /\ Suite!Configure(script = "build.sh" /\ PgWord \in ToSet(settings["cmake_args"]))
    /\ UNCHANGED <<driverVars, configured>>

CmakeRuns == Suite!ReadListFile /\ UNCHANGED <<driverVars, configured>>

\* A FATAL_ERROR makes cmake fail.
CmakeEnds ==
    /\ stage \in {"configured", "configure_error"}
    /\ Driver!ToolEnds("cmake", {IF stage = "configured" THEN 0 ELSE 1})
    /\ configured' = IF status' = 0 THEN Driver!Directory ELSE configured
    /\ UNCHANGED suiteVars

BuildStarts ==
    /\ Driver!Awaits("cmake --build")
    /\ Suite!StartBuild
    /\ UNCHANGED <<driverVars, configured>>

BuildRuns == Suite!BuildTargets /\ UNCHANGED <<driverVars, configured>>

BuildEnds ==
    /\ stage \in {"built", "build_error"}
    /\ Driver!ToolEnds("cmake --build", {IF stage = "built" THEN 0 ELSE 1})
    /\ UNCHANGED <<suiteVars, configured>>

CtestStarts ==
    /\ Driver!Awaits("ctest")
    /\ Driver!Directory = configured
    /\ Suite!StartCtest(IF OneJobWord \in ToSet(settings["ctest_args"]) THEN 1 ELSE Processors)
    /\ UNCHANGED <<driverVars, configured>>

CtestRuns == Suite!RunTests /\ UNCHANGED <<driverVars, configured>>

CtestEnds ==
    /\ stage = "tested"
    /\ Driver!ToolEnds("ctest", {IF \E t \in Cases : verdict[t] = "failed" THEN 1 ELSE 0})
    /\ UNCHANGED <<suiteVars, configured>>

\* What ctest does with a directory that cmake has not configured is left open.
CtestElsewhere ==
    /\ Driver!Directory # configured
    /\ Driver!ToolEnds("ctest", {0, 1})
    /\ UNCHANGED <<suiteVars, configured>>

Finished == Driver!Finished /\ UNCHANGED <<suiteVars, configured>>

Next ==
    \/ DriverStep
    \/ CmakeStarts \/ CmakeRuns \/ CmakeEnds
    \/ BuildStarts \/ BuildRuns \/ BuildEnds
    \/ CtestStarts \/ CtestRuns \/ CtestEnds \/ CtestElsewhere
    \/ Finished

Spec == Init /\ [][Next]_vars

----------------------------------------------------------------------------
\* The three scripts: each setting is what the command line gave it, but for two
\* habits of build.bat.
SettingsFollowWords == Driver!SettingsFollowWords

\* The three scripts: a tool runs only on a command line that is right,
\* and no test runs before such a build.sh and such a check.sh.
ToolsRunLast ==
    /\ Driver!ToolsRunLast
    /\ stage \in {"configure", "test"} => k = Len(argv) /\ ~Driver!HasHelp /\ ~Driver!HasUnknown(Driver!Options)

\* pdhkr_testing.cmake: no failure is hidden but those that are expected.
VerdictsAreHonest == Suite!VerdictsAreHonest

\* build.sh 127, check.sh 106: "parse args and exit if error".
BadArgsFail == Driver!BadArgsFail

\* The usage texts of build.sh 36-47, check.sh 23-36 and build.bat 30-60.
UsageIsFollowed == Driver!UsageIsFollowed

\* CMakeLists.txt 29-30: "do *not* run tests in parallel if instrumentation is
\* enabled".
ProfileOfOneProcess == Suite!ProfileOfOneProcess
============================================================================
