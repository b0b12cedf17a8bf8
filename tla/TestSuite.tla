----------------------------- MODULE TestSuite -----------------------------
(***************************************************************************)
(* How a test program comes to its verdict.  src/CMakeLists.txt registers  *)
(* test cases with the functions of cmake/pdhkr_testing.cmake; cmake       *)
(* --build compiles the program of the problem and then, in parallel, the  *)
(* test programs that depend on it; check.sh has ctest run them, several   *)
(* at a time; each test program ends with the status of                    *)
(* pdhkr::exit_compare, is killed by an exception that nothing catches, or *)
(* by ctest when its time is up; ctest turns the status into a verdict by  *)
(* the test's properties.  Programs built with PDHKR_ENABLE_PG also write  *)
(* gmon.out to the directory they all share when they exit.                *)
(*                                                                         *)
(* CMake, ctest and the profiler are external: they are modelled by what   *)
(* the repository relies on.                                               *)
(***************************************************************************)
EXTENDS Integers, SequencesExt, FiniteSets

CONSTANTS
    Cases,      \* test cases of one target
    ListFiles,  \* sequences of calls: records of a function and its TEST_CASES
    Blocks      \* writes that a gmon.out takes

\* TARGET, the program that the test programs depend on.
Host == "host"

InputsOK ==
    /\ IsFiniteSet(Cases) /\ Host \notin Cases
    /\ Blocks \in Nat \ {0}
    /\ \A f \in ListFiles : f \in
          Seq([fun: {"pdhkr_add_tests", "pdhkr_xfail_tests", "pdhkr_disable_tests"},
               cases: SUBSET Cases])

VARIABLES
    calls,         \* the list file
    made,          \* calls made
    tests,         \* registered tests
    xfail,         \* tests with SKIP_RETURN_CODE 1
    disabled,      \* tests with DISABLED ON
    instrumented,  \* PDHKR_ENABLE_PG
    program,       \* what has become of the target and of its test targets
    jobs,          \* the -j that ctest obeys
    process,       \* what has become of the process of each test
    exit_status,   \* the exit status of each process
    written,       \* blocks of gmon.out each process has written
    gmon,          \* the process that wrote each block of gmon.out
    verdict,
    stage          \* what cmake or ctest is at

marks == <<tests, xfail, disabled>>
configuration == <<calls, made, marks, instrumented>>
setup == <<configuration, program>>
runs == <<jobs, process, exit_status, written, gmon, verdict>>
vars == <<setup, runs, stage>>

Init ==
    /\ calls = <<>> /\ made = 0
    /\ tests = {} /\ xfail = {} /\ disabled = {}
    /\ instrumented = FALSE
    /\ program = [t \in Cases \cup {Host} |-> "none"]
    /\ jobs = 0
    /\ process = [t \in Cases |-> "none"]
    /\ exit_status = [t \in Cases |-> "none"]
    /\ written = [t \in Cases |-> 0]
    /\ gmon = <<>>
    /\ verdict = [t \in Cases |-> "none"]
    /\ stage = "idle"

\* cmake reads the list file, unless PDHKR_ENABLE_PG is asked of a compiler
\* that has no -pg.
Configure(pg) ==
    /\ stage = "idle"
    /\ calls' \in ListFiles
    /\ instrumented' = pg
    /\ \/ stage' = "configure"
       \/ pg /\ stage' = "configure_error"
    /\ UNCHANGED <<made, marks, program, runs>>

Call(fun) ==
    /\ stage = "configure"
    /\ made < Len(calls)
    /\ calls[made + 1].fun = fun
    /\ made' = made + 1
    /\ UNCHANGED <<calls, instrumented, program, runs>>

Given == calls[made'].cases

Stop == stage' = "configure_error" /\ UNCHANGED marks

\* TEST_CASES may not be missing, and add_executable takes no name twice.
AddTests ==
    /\ Call("pdhkr_add_tests")
    /\ IF Given = {} \/ Given \cap tests # {} THEN Stop
       ELSE tests' = tests \cup Given /\ UNCHANGED <<xfail, disabled, stage>>

\* set_tests_properties fails for a test that has not been added.
XfailTests ==
    /\ Call("pdhkr_xfail_tests")
    /\ IF Given = {} \/ ~(Given \subseteq tests) THEN Stop
       ELSE xfail' = xfail \cup Given /\ UNCHANGED <<tests, disabled, stage>>

DisableTests ==
    /\ Call("pdhkr_disable_tests")
    /\ IF Given = {} \/ ~(Given \subseteq tests) THEN Stop
       ELSE disabled' = disabled \cup Given /\ UNCHANGED <<tests, xfail, stage>>

Configured ==
    /\ stage = "configure"
    /\ made = Len(calls)
    /\ stage' = "configured"
    /\ UNCHANGED <<setup, runs>>

\* cmake --build -j.
StartBuild ==
    /\ stage = "configured"
    /\ stage' = "build"
    /\ UNCHANGED <<setup, runs>>

Targets == tests \cup {Host}

\* Mutation of StartCompiler: without add_dependencies.
StartCompilerAlone(t) ==
    /\ stage = "build"
    /\ t \in Targets /\ program[t] = "none"
    /\ \A u \in Targets : program[u] # "error"
    /\ program' = [program EXCEPT ![t] = "compiling"]
    /\ UNCHANGED <<configuration, runs, stage>>

\* Targets are compiled in parallel, a test target once its host is there;
\* after an error nothing new is begun.
StartCompiler(t) ==
    /\ stage = "build"
    /\ t \in Targets /\ program[t] = "none"
    /\ t # Host => program[Host] = "built"
    /\ \A u \in Targets : program[u] # "error"
    /\ program' = [program EXCEPT ![t] = "compiling"]
    /\ UNCHANGED <<configuration, runs, stage>>

\* The test targets compile the same source with PDHKR_TEST, so each may fail.
EndCompiler(t) ==
    /\ program[t] = "compiling"
    /\ \E outcome \in {"built", "error"} : program' = [program EXCEPT ![t] = outcome]
    /\ UNCHANGED <<configuration, runs, stage>>

EndBuild ==
    /\ stage = "build"
    /\ \A t \in Targets : program[t] # "compiling"
    /\ \/ (\E t \in Targets : program[t] = "error") /\ stage' = "build_error"
       \/ (\A t \in Targets : program[t] = "built") /\ stage' = "built"
    /\ UNCHANGED <<setup, runs>>

\* ctest reads what cmake has registered, whatever became of the build.
StartCtest(j) ==
    /\ stage \in {"built", "build_error"}
    /\ jobs' = j
    /\ verdict' = [t \in Cases |-> IF t \in disabled THEN "not run" ELSE "none"]
    /\ stage' = "test"
    /\ UNCHANGED <<setup, process, exit_status, written, gmon>>

Alive == { t \in Cases : process[t] \in {"running", "writing"} }

\* ctest starts the tests in any order, at most jobs at a time.
StartTest(t) ==
    /\ stage = "test"
    /\ t \in tests \ disabled /\ program[t] = "built"
    /\ process[t] = "none"
    /\ Cardinality(Alive) < jobs
    /\ process' = [process EXCEPT ![t] = "running"]
    /\ UNCHANGED <<setup, jobs, exit_status, written, gmon, verdict, stage>>

\* "Could not find executable": a failed test.
MissProgram(t) ==
    /\ stage = "test"
    /\ t \in tests \ disabled /\ program[t] # "built"
    /\ verdict[t] = "none"
    /\ verdict' = [verdict EXCEPT ![t] = "failed"]
    /\ UNCHANGED <<setup, jobs, process, exit_status, written, gmon, stage>>

\* main returns EXIT_SUCCESS or EXIT_FAILURE; at exit an instrumented program
\* creates gmon.out, or truncates the one that is there.
ReturnStatus(t) ==
    /\ process[t] = "running"
    /\ \E s \in {"EXIT_SUCCESS", "EXIT_FAILURE"} : exit_status' = [exit_status EXCEPT ![t] = s]
    /\ process' = [process EXCEPT ![t] = IF instrumented THEN "writing" ELSE "exited"]
    /\ gmon' = IF instrumented THEN <<>> ELSE gmon
    /\ UNCHANGED <<setup, jobs, written, verdict, stage>>

\* std::terminate: no status of its own, and no profile.
Abort(t) ==
    /\ process[t] = "running"
    /\ exit_status' = [exit_status EXCEPT ![t] = "abort"]
    /\ process' = [process EXCEPT ![t] = "exited"]
    /\ UNCHANGED <<setup, jobs, written, gmon, verdict, stage>>

\* ctest kills a test that takes longer than its time limit, as a search that
\* never ends does, even while it writes its profile.
TimeOut(t) ==
    /\ process[t] \in {"running", "writing"}
    /\ exit_status' = [exit_status EXCEPT ![t] = "timeout"]
    /\ process' = [process EXCEPT ![t] = "exited"]
    /\ UNCHANGED <<setup, jobs, written, gmon, verdict, stage>>

\* A process writes its blocks at its own offset into the file.
WriteBlock(t) ==
    /\ process[t] = "writing"
    /\ written' = [written EXCEPT ![t] = @ + 1]
    /\ gmon' = [b \in 1..(IF written'[t] > Len(gmon) THEN written'[t] ELSE Len(gmon)) |->
                   IF b = written'[t] THEN t ELSE IF b \in DOMAIN gmon THEN gmon[b] ELSE "hole"]
    /\ process' = [process EXCEPT ![t] = IF written'[t] = Blocks THEN "exited" ELSE "writing"]
    /\ UNCHANGED <<setup, jobs, exit_status, verdict, stage>>

\* Exit status 1 is the SKIP_RETURN_CODE of the tests that are expected to
\* fail; a process that was killed has failed whatever was expected.
JudgeTest(t) ==
    /\ process[t] = "exited" /\ verdict[t] = "none"
    /\ verdict' = [verdict EXCEPT ![t] =
                      IF t \in xfail /\ exit_status[t] = "EXIT_FAILURE" THEN "skipped"
                      ELSE IF exit_status[t] = "EXIT_SUCCESS" THEN "passed"
                      ELSE "failed"]
    /\ UNCHANGED <<setup, jobs, process, exit_status, written, gmon, stage>>

Summarize ==
    /\ stage = "test"
    /\ \A t \in tests : verdict[t] # "none"
    /\ stage' = "tested"
    /\ UNCHANGED <<setup, runs>>

ReadListFile == AddTests \/ XfailTests \/ DisableTests \/ Configured

BuildTargets == (\E t \in Targets : StartCompiler(t) \/ EndCompiler(t)) \/ EndBuild

RunTest(t) ==
    \/ StartTest(t) \/ MissProgram(t) \/ ReturnStatus(t) \/ Abort(t) \/ TimeOut(t)
    \/ WriteBlock(t) \/ JudgeTest(t)

RunTests == (\E t \in Cases : RunTest(t)) \/ Summarize

Next ==
    \/ \E pg \in BOOLEAN : Configure(pg)
    \/ ReadListFile
    \/ StartBuild \/ BuildTargets
    \/ \E j \in Nat \ {0} : StartCtest(j)
    \/ RunTests

Spec == Init /\ [][Next]_vars

----------------------------------------------------------------------------
\* pdhkr_testing.cmake 89-91: a test that is expected to fail "will still run
\* but will be marked as skipped by CTest if it fails", a disabled one is
\* "not run at all".  However the calls are ordered and whichever targets were
\* compiled, a test passes or is skipped only on the status its own program,
\* built after the host (71-75), has returned; a crash, an expired time limit
\* or a missing program is never taken for the expected failure; and a test
\* that was listed gets a verdict.
VerdictsAreHonest ==
    stage = "tested" =>
        \A c \in DOMAIN calls : \A t \in calls[c].cases :
            LET marked(fun) == \E j \in DOMAIN calls :
                                  calls[j].fun = fun /\ t \in calls[j].cases
                returned(status) == /\ exit_status[t] = status
                                    /\ program[t] = "built" /\ program[Host] = "built"
            IN  verdict[t] =
                  IF marked("pdhkr_disable_tests") THEN "not run"
                  ELSE IF returned("EXIT_SUCCESS") THEN "passed"
                  ELSE IF returned("EXIT_FAILURE") /\ marked("pdhkr_xfail_tests") THEN "skipped"
                  ELSE "failed"

\* CMakeLists.txt 29-30: "do *not* run tests in parallel if instrumentation
\* is enabled; the test programs will all try to write to the same gmon.out".
\* However the tests are run, the profile that is left once all have exited is
\* complete and of one process, unless a process was killed.
ProfileOfOneProcess ==
    (stage = "tested" /\ gmon # <<>> /\ \A t \in Cases : exit_status[t] # "timeout") =>
        /\ Len(gmon) = Blocks
        /\ \A b \in DOMAIN gmon : gmon[b] = gmon[1]
============================================================================
