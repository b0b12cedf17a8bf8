------------------------ MODULE BuildAndCheckProofs ------------------------
(***************************************************************************)
(* What is proved of the scripts, the tools and the test programs          *)
(* together.  Every step of them is a step of the test suite or leaves it  *)
(* alone, so the suite's invariant holds whatever drives it.  Of the       *)
(* scripts it is proved that their settings are what the words ask for and *)
(* that tools run in order, once the words are read; of the check for -pg, *)
(* that it is sound in any number of build directories.                    *)
(***************************************************************************)
EXTENDS BuildAndCheck, PgProbe, FiniteSetTheorems, SequenceTheorems, TLAPS

----------------------------------------------------------------------------
(* The suite.  The invariant ties each stage to what the one before it left: *)
(* the marks are those of the calls made, a test program is compiled after  *)
(* its host, a process has an exit status only once it has run its built    *)
(* program, and a verdict says what became of the process.                  *)

Functions == {"pdhkr_add_tests", "pdhkr_xfail_tests", "pdhkr_disable_tests"}

LEMMA SuiteInputs ==
    /\ IsFiniteSet(Cases) /\ Suite!Host \notin Cases
    /\ Blocks \in Nat \ {0}
    /\ \A f \in ListFiles : f \in Seq([fun: Functions, cases: SUBSET Cases])
BY TypesAssumption DEF Suite!InputsOK, Suite!IsFiniteSet, IsFiniteSet, Functions

Configuring == {"idle", "configure", "configured", "configure_error"}

Testing == {"test", "tested"}

SuiteTypes ==
    /\ calls \in Seq([fun: Functions, cases: SUBSET Cases])
    /\ made \in 0..Len(calls)
    /\ tests \subseteq Cases /\ xfail \subseteq Cases /\ disabled \subseteq Cases
    /\ instrumented \in BOOLEAN
    /\ program \in [Cases \cup {Suite!Host} -> {"none", "compiling", "built", "error"}]
    /\ process \in [Cases -> {"none", "running", "writing", "exited"}]
    /\ exit_status \in [Cases -> {"none", "EXIT_SUCCESS", "EXIT_FAILURE", "abort", "timeout"}]
    /\ verdict \in [Cases -> {"none", "not run", "passed", "skipped", "failed"}]
    /\ stage \in Configuring \cup {"build", "build_error", "built"} \cup Testing

Marked(fun, t) == \E j \in 1..made : calls[j].fun = fun /\ t \in calls[j].cases

\* The marks are those of the calls made, all of them once cmake has succeeded.
MarksFollowCalls ==
    /\ stage # "configure_error" =>
          \A t \in Cases :
              /\ t \in tests <=> Marked("pdhkr_add_tests", t)
              /\ t \in xfail <=> Marked("pdhkr_xfail_tests", t)
              /\ t \in disabled <=> Marked("pdhkr_disable_tests", t)
    /\ xfail \subseteq tests /\ disabled \subseteq tests
    /\ stage = "idle" => made = 0
    /\ stage \notin {"idle", "configure", "configure_error"} => made = Len(calls)

\* Test programs are compiled after their host, and none while tests run.
HostFirst ==
    /\ \A t \in Cases : program[t] # "none" => t \in tests /\ program[Suite!Host] = "built"
    /\ stage \in Configuring => \A t \in Cases \cup {Suite!Host} : program[t] = "none"
    /\ stage \notin Configuring \cup {"build"} =>
          \A t \in Cases \cup {Suite!Host} : program[t] # "compiling"

\* Only built programs of enabled tests are run, and a status is that of an end.
ProcessesRunTests ==
    \A t \in Cases :
        /\ process[t] # "none" =>
              t \in tests \ disabled /\ program[t] = "built" /\ stage \in Testing
        /\ exit_status[t] = "none" <=> process[t] \in {"none", "running"}

\* A verdict says what has become of the process.
VerdictFits(t) ==
    /\ stage \notin Testing => verdict[t] = "none"
    /\ stage \in Testing => (t \in disabled <=> verdict[t] = "not run")
    /\ verdict[t] \in {"passed", "skipped", "failed"} =>
          \/ process[t] = "none" /\ program[t] # "built" /\ verdict[t] = "failed"
          \/ /\ process[t] = "exited"
             /\ verdict[t] = IF t \in xfail /\ exit_status[t] = "EXIT_FAILURE" THEN "skipped"
                             ELSE IF exit_status[t] = "EXIT_SUCCESS" THEN "passed"
                             ELSE "failed"
    /\ stage = "tested" /\ t \in tests => verdict[t] # "none"

VerdictsFollowProcesses == \A t \in Cases : VerdictFits(t)

SuiteInv ==
    /\ SuiteTypes
    /\ MarksFollowCalls
    /\ HostFirst
    /\ ProcessesRunTests
    /\ VerdictsFollowProcesses

\* While cmake reads the list file nothing is compiled and nothing runs.
LEMMA ConfiguringKeeps ==
    ASSUME SuiteInv, UNCHANGED <<program, Suite!runs>>, stage \in Configuring, stage' \in Configuring \ {"idle"},
           SuiteTypes', MarksFollowCalls'
    PROVE  SuiteInv'
<1> USE DEF SuiteInv, Suite!runs, Configuring, Testing
<1>1. HostFirst'
  BY DEF HostFirst
<1>2. ProcessesRunTests'
  BY DEF ProcessesRunTests
<1>3. VerdictsFollowProcesses'
  BY <1>2 DEF VerdictsFollowProcesses, VerdictFits, ProcessesRunTests
<1> QED
  BY <1>1, <1>2, <1>3

\* What is compiled, and what becomes of the stage, before any test runs.
LEMMA BuildingKeeps ==
    ASSUME SuiteInv, UNCHANGED <<Suite!configuration, Suite!runs>>, SuiteTypes', HostFirst',
           stage \in {"configured", "build"}, stage' \in {"build", "built", "build_error"}
    PROVE  SuiteInv'
<1> USE DEF SuiteInv, Suite!configuration, Suite!marks, Suite!runs, Configuring, Testing
<1>1. MarksFollowCalls'
  BY DEF MarksFollowCalls, Marked
<1>2. ProcessesRunTests'
  BY DEF ProcessesRunTests
<1>3. VerdictsFollowProcesses'
  BY <1>2 DEF VerdictsFollowProcesses, VerdictFits, ProcessesRunTests
<1> QED
  BY <1>1, <1>2, <1>3

\* A step of ctest leaves what cmake has set up.
LEMMA TestingKeeps ==
    ASSUME SuiteInv, UNCHANGED Suite!setup, stage \in Testing \cup {"built", "build_error"}, stage' \in Testing,
           SuiteTypes', ProcessesRunTests', VerdictsFollowProcesses'
    PROVE  SuiteInv'
<1> USE DEF SuiteInv, Suite!setup, Suite!configuration, Suite!marks, Configuring, Testing
<1>1. MarksFollowCalls'
  BY DEF MarksFollowCalls, Marked
<1>2. HostFirst'
  BY DEF HostFirst
<1> QED
  BY <1>1, <1>2

LEMMA ElementOfSequence ==
    ASSUME NEW S, NEW s \in Seq(S), NEW c \in DOMAIN s
    PROVE  DOMAIN s = 1..Len(s) /\ s[c] \in S
OBVIOUS

LEMMA SuiteStarts == Suite!Init => SuiteInv
<1> SUFFICES ASSUME Suite!Init PROVE SuiteInv
  OBVIOUS
<1> USE DEF Suite!Init, Configuring, Testing
<1>1. SuiteTypes
  <2>1. calls \in Seq([fun: Functions, cases: SUBSET Cases]) /\ made \in 0..Len(calls)
    OBVIOUS
  <2>2. program \in [Cases \cup {Suite!Host} -> {"none", "compiling", "built", "error"}]
    OBVIOUS
  <2> QED
    BY <2>1, <2>2 DEF SuiteTypes
<1>2. MarksFollowCalls /\ HostFirst /\ ProcessesRunTests /\ VerdictsFollowProcesses
  BY DEF MarksFollowCalls, Marked, HostFirst, ProcessesRunTests, VerdictsFollowProcesses, VerdictFits
<1> QED
  BY <1>1, <1>2 DEF SuiteInv

LEMMA ConfigureKeeps == ASSUME SuiteInv, NEW pg \in BOOLEAN, Suite!Configure(pg) PROVE SuiteInv'
<1> USE DEF SuiteInv, Suite!Configure, Suite!marks, Configuring, Testing
<1>1. calls' \in Seq([fun: Functions, cases: SUBSET Cases])
  BY SuiteInputs DEF Functions
<1>2. SuiteTypes'
  <2>1. made' = 0 /\ Len(calls') \in Nat
    BY <1>1 DEF MarksFollowCalls
  <2>2. stage' \in Configuring /\ instrumented' = pg
    OBVIOUS
  <2>3. instrumented' \in BOOLEAN
    BY <2>2, Zenon
  <2>4. UNCHANGED <<tests, xfail, disabled, program, Suite!runs>>
    OBVIOUS
  <2> HIDE DEF Suite!Configure
  <2>5. made' \in 0..Len(calls')
    BY <2>1
  <2> QED
    BY <1>1, <2>2, <2>3, <2>4, <2>5, Zenon DEF SuiteTypes, Suite!runs
<1>3. MarksFollowCalls'
  <2>1. made = 0 /\ made' = 0
    BY DEF MarksFollowCalls
  <2>2. \A f, t : Marked(f, t)' <=> Marked(f, t)
    BY <2>1 DEF Marked
  <2> QED
    BY <2>1, <2>2 DEF MarksFollowCalls
<1> QED
  BY <1>2, <1>3, ConfiguringKeeps

\* A call adds its test cases to what its function marks, or stops cmake.
LEMMA CallMarks ==
    ASSUME SuiteTypes, NEW fun \in Functions, Suite!Call(fun)
    PROVE  /\ made' \in 0..Len(calls') /\ made' = made + 1 /\ Suite!Given \subseteq Cases
           /\ \A f \in Functions, t \in Cases :
                 Marked(f, t)' <=> Marked(f, t) \/ (f = fun /\ t \in Suite!Given)
<1> DEFINE S == [fun: Functions, cases: SUBSET Cases]
<1>1. /\ calls \in Seq(S) /\ calls' = calls
      /\ made \in 0..Len(calls) /\ made < Len(calls) /\ made' = made + 1
      /\ calls[made + 1].fun = fun
  BY DEF SuiteTypes, Suite!Call
<1> HIDE DEF S
<1>2. made \in Nat /\ made' \in 1..Len(calls) /\ calls[made'] \in S
  BY <1>1
<1>3. 1..made' = 1..made \cup {made'}
  BY <1>1, <1>2
<1>4. Suite!Given \subseteq Cases /\ calls[made'].fun = fun
  BY <1>1, <1>2 DEF S, Suite!Given
<1>5. ASSUME NEW f \in Functions, NEW t \in Cases
      PROVE  Marked(f, t)' <=> Marked(f, t) \/ (f = fun /\ t \in Suite!Given)
  BY <1>1, <1>3, <1>4 DEF Marked, Suite!Given
<1> QED
  BY <1>1, <1>2, <1>4, <1>5

LEMMA AddTestsKeeps == ASSUME SuiteInv, Suite!AddTests PROVE SuiteInv'
<1> USE DEF SuiteInv, Suite!AddTests, Configuring, Testing
<1>1. Suite!Call("pdhkr_add_tests") /\ stage = "configure" /\ stage' \in {"configure", "configure_error"}
  BY DEF Suite!Call, Suite!Stop, SuiteTypes
<1>2. /\ made' \in 0..Len(calls') /\ made' = made + 1 /\ Suite!Given \subseteq Cases
      /\ \A f \in Functions, t \in Cases :
            Marked(f, t)' <=> Marked(f, t) \/ (f = "pdhkr_add_tests" /\ t \in Suite!Given)
  BY <1>1, CallMarks DEF Functions
<1>3. SuiteTypes'
  BY <1>1, <1>2 DEF SuiteTypes, Suite!Call, Suite!Stop, Suite!marks, Suite!runs
<1>4. MarksFollowCalls'
  BY <1>1, <1>2 DEF SuiteTypes, MarksFollowCalls, Suite!Stop, Suite!marks, Functions
<1> QED
  BY <1>1, <1>3, <1>4, ConfiguringKeeps DEF Suite!Call

LEMMA XfailTestsKeeps == ASSUME SuiteInv, Suite!XfailTests PROVE SuiteInv'
<1> USE DEF SuiteInv, Suite!XfailTests, Configuring, Testing
<1>1. Suite!Call("pdhkr_xfail_tests") /\ stage = "configure" /\ stage' \in {"configure", "configure_error"}
  BY DEF Suite!Call, Suite!Stop, SuiteTypes
<1>2. /\ made' \in 0..Len(calls') /\ made' = made + 1 /\ Suite!Given \subseteq Cases
      /\ \A f \in Functions, t \in Cases :
            Marked(f, t)' <=> Marked(f, t) \/ (f = "pdhkr_xfail_tests" /\ t \in Suite!Given)
  BY <1>1, CallMarks DEF Functions
<1>3. SuiteTypes'
  BY <1>1, <1>2 DEF SuiteTypes, Suite!Call, Suite!Stop, Suite!marks, Suite!runs
<1>4. MarksFollowCalls'
  BY <1>1, <1>2 DEF SuiteTypes, MarksFollowCalls, Suite!Stop, Suite!marks, Functions
<1> QED
  BY <1>1, <1>3, <1>4, ConfiguringKeeps DEF Suite!Call

LEMMA DisableTestsKeeps == ASSUME SuiteInv, Suite!DisableTests PROVE SuiteInv'
<1> USE DEF SuiteInv, Suite!DisableTests, Configuring, Testing
<1>1. Suite!Call("pdhkr_disable_tests") /\ stage = "configure" /\ stage' \in {"configure", "configure_error"}
  BY DEF Suite!Call, Suite!Stop, SuiteTypes
<1>2. /\ made' \in 0..Len(calls') /\ made' = made + 1 /\ Suite!Given \subseteq Cases
      /\ \A f \in Functions, t \in Cases :
            Marked(f, t)' <=> Marked(f, t) \/ (f = "pdhkr_disable_tests" /\ t \in Suite!Given)
  BY <1>1, CallMarks DEF Functions
<1>3. SuiteTypes'
  BY <1>1, <1>2 DEF SuiteTypes, Suite!Call, Suite!Stop, Suite!marks, Suite!runs
<1>4. MarksFollowCalls'
  BY <1>1, <1>2 DEF SuiteTypes, MarksFollowCalls, Suite!Stop, Suite!marks, Functions
<1> QED
  BY <1>1, <1>3, <1>4, ConfiguringKeeps DEF Suite!Call

LEMMA ConfiguredKeeps == ASSUME SuiteInv, Suite!Configured PROVE SuiteInv'
<1> USE DEF SuiteInv, Suite!Configured, Suite!setup, Suite!configuration, Suite!marks, Configuring, Testing
<1>1. SuiteTypes'
  BY DEF SuiteTypes, Suite!runs
<1>2. MarksFollowCalls'
  BY DEF MarksFollowCalls, Marked
<1> QED
  BY <1>1, <1>2, ConfiguringKeeps

LEMMA StartBuildKeeps == ASSUME SuiteInv, Suite!StartBuild PROVE SuiteInv'
<1> USE DEF SuiteInv, Suite!StartBuild, Suite!setup, Configuring, Testing
<1>1. SuiteTypes'
  BY DEF SuiteTypes, Suite!configuration, Suite!marks, Suite!runs
<1>2. HostFirst'
  BY DEF HostFirst, Suite!configuration, Suite!marks
<1> QED
  BY <1>1, <1>2, BuildingKeeps

LEMMA StartCompilerKeeps == ASSUME SuiteInv, NEW x \in Suite!Targets, Suite!StartCompiler(x) PROVE SuiteInv'
<1> USE DEF SuiteInv, Suite!StartCompiler, Suite!Targets, Configuring, Testing
<1>1. SuiteTypes'
  BY DEF SuiteTypes, Suite!configuration, Suite!marks, Suite!runs
<1>2. HostFirst'
  <2>1. program' = [program EXCEPT ![x] = "compiling"] /\ x \in Cases \cup {Suite!Host}
    BY DEF SuiteTypes
  <2>2. ASSUME NEW t \in Cases, program'[t] # "none" PROVE t \in tests /\ program'[Suite!Host] = "built"
    <3>1. Suite!Host \notin Cases /\ t # Suite!Host
      BY SuiteInputs
    <3>2. CASE x = Suite!Host
      BY <2>1, <2>2, <3>1, <3>2 DEF SuiteTypes, HostFirst
    <3>3. CASE x # Suite!Host
      BY <2>1, <2>2, <3>1, <3>3 DEF SuiteTypes, HostFirst
    <3> QED
      BY <3>2, <3>3
  <2> QED
    BY <2>2 DEF HostFirst, Suite!configuration, Suite!marks
<1> QED
  BY <1>1, <1>2, BuildingKeeps

\* Nothing but a build compiles.
LEMMA EndCompilerKeeps == ASSUME SuiteInv, NEW x \in Suite!Targets, Suite!EndCompiler(x) PROVE SuiteInv'
<1> USE DEF SuiteInv, Suite!EndCompiler, Suite!Targets, Configuring, Testing
<1>1. stage = "build" /\ x \in Cases \cup {Suite!Host}
  BY DEF SuiteTypes, HostFirst
<1>2. SuiteTypes'
  <2>1. PICK outcome \in {"built", "error"} : program' = [program EXCEPT ![x] = outcome]
    OBVIOUS
  <2> QED
    BY <2>1 DEF SuiteTypes, Suite!configuration, Suite!marks, Suite!runs
<1>3. HostFirst'
  BY <1>1, SuiteInputs DEF SuiteTypes, HostFirst, Suite!configuration, Suite!marks
<1> QED
  BY <1>1, <1>2, <1>3, BuildingKeeps

LEMMA EndBuildKeeps == ASSUME SuiteInv, Suite!EndBuild PROVE SuiteInv'
<1> USE DEF SuiteInv, Suite!EndBuild, Suite!setup, Configuring, Testing
<1>1. SuiteTypes'
  BY DEF SuiteTypes, Suite!configuration, Suite!marks, Suite!runs
<1>2. \A t \in Cases \cup {Suite!Host} : program[t] # "compiling"
  <2> SUFFICES ASSUME NEW t \in Cases \cup {Suite!Host}, program[t] = "compiling" PROVE FALSE
    OBVIOUS
  <2>1. t \in Suite!Targets
    BY DEF Suite!Targets, HostFirst
  <2> QED
    BY <2>1
<1>3. HostFirst'
  BY <1>2 DEF HostFirst, Suite!configuration, Suite!marks
<1> QED
  BY <1>1, <1>3, BuildingKeeps

LEMMA StartCtestKeeps == ASSUME SuiteInv, NEW j \in Nat \ {0}, Suite!StartCtest(j) PROVE SuiteInv'
<1> USE DEF SuiteInv, Suite!StartCtest, Configuring, Testing
<1>1. \A t \in Cases : process[t] = "none"
  BY DEF ProcessesRunTests
<1>2. SuiteTypes'
  BY DEF SuiteTypes, Suite!setup, Suite!configuration, Suite!marks
<1>3. ProcessesRunTests'
  BY <1>1 DEF ProcessesRunTests, Suite!setup
<1>4. VerdictsFollowProcesses'
  BY <1>1 DEF SuiteTypes, VerdictsFollowProcesses, VerdictFits, Suite!setup, Suite!configuration, Suite!marks
<1> QED
  BY <1>2, <1>3, <1>4, TestingKeeps

LEMMA StartTestKeeps == ASSUME SuiteInv, NEW x \in Cases, Suite!StartTest(x) PROVE SuiteInv'
<1> USE DEF SuiteInv, Suite!StartTest, Testing
<1>1. SuiteTypes'
  BY DEF SuiteTypes, Suite!setup, Suite!configuration, Suite!marks
<1>2. ProcessesRunTests'
  BY DEF SuiteTypes, ProcessesRunTests, Suite!setup, Suite!configuration, Suite!marks
<1>3. VerdictsFollowProcesses'
  BY DEF SuiteTypes, VerdictsFollowProcesses, VerdictFits, Suite!setup, Suite!configuration, Suite!marks
<1> QED
  BY <1>1, <1>2, <1>3, TestingKeeps

LEMMA MissProgramKeeps == ASSUME SuiteInv, NEW x \in Cases, Suite!MissProgram(x) PROVE SuiteInv'
<1> USE DEF SuiteInv, Suite!MissProgram, Testing
<1>1. SuiteTypes'
  BY DEF SuiteTypes, Suite!setup, Suite!configuration, Suite!marks
<1>2. ProcessesRunTests'
  BY DEF ProcessesRunTests, Suite!setup, Suite!configuration, Suite!marks
<1>3. VerdictsFollowProcesses'
  <2>1. UNCHANGED <<process, exit_status, program, tests, xfail, disabled, stage>>
    BY DEF Suite!setup, Suite!configuration, Suite!marks
  <2>2. verdict \in [Cases -> {"none", "not run", "passed", "skipped", "failed"}]
    BY DEF SuiteTypes
  <2>3. verdict' = [verdict EXCEPT ![x] = "failed"] /\ verdict[x] = "none" /\ program[x] # "built"
    OBVIOUS
  <2>4. process[x] = "none"
    BY <2>3 DEF ProcessesRunTests
  <2>5. stage \in Testing /\ x \in tests \ disabled
    OBVIOUS
  <2> HIDE DEF Suite!MissProgram, SuiteInv
  <2>6. ASSUME NEW t \in Cases, t # x PROVE VerdictFits(t)'
    <3>1. verdict'[t] = verdict[t] /\ VerdictFits(t)
      BY <2>2, <2>3, <2>6 DEF SuiteInv, VerdictsFollowProcesses
    <3> QED
      BY <2>1, <3>1 DEF VerdictFits
  <2>7. VerdictFits(x)'
    <3>1. verdict'[x] = "failed"
      BY <2>2, <2>3
    <3> QED
      BY <2>1, <2>3, <2>4, <2>5, <3>1 DEF VerdictFits
  <2> QED
    BY <2>6, <2>7 DEF VerdictsFollowProcesses
<1> QED
  BY <1>1, <1>2, <1>3, TestingKeeps

\* A process that is alive runs a test that has no verdict yet.
LEMMA AliveTests ==
    ASSUME SuiteInv, NEW x \in Cases, process[x] \in {"running", "writing"}
    PROVE  /\ stage \in Testing /\ x \in tests \ disabled /\ program[x] = "built"
           /\ verdict[x] = "none"
BY DEF SuiteInv, SuiteTypes, ProcessesRunTests, VerdictsFollowProcesses, VerdictFits

\* The end of a process gives it a status, and changes no verdict.
LEMMA ProcessEndsKeep ==
    ASSUME SuiteInv, NEW x \in Cases, process[x] \in {"running", "writing"},
           NEW p \in {"writing", "exited"}, process' = [process EXCEPT ![x] = p],
           NEW s \in {"EXIT_SUCCESS", "EXIT_FAILURE", "abort", "timeout"},
           exit_status' = [exit_status EXCEPT ![x] = s],
           UNCHANGED <<Suite!setup, verdict, stage>>, SuiteTypes'
    PROVE  SuiteInv'
<1> USE DEF Suite!setup, Suite!configuration, Suite!marks, Testing
<1>1. /\ stage \in Testing /\ x \in tests \ disabled /\ program[x] = "built"
      /\ verdict[x] = "none"
  BY AliveTests
<1>2. SuiteTypes /\ ProcessesRunTests /\ VerdictsFollowProcesses
  BY DEF SuiteInv
<1>3. DOMAIN process = Cases /\ DOMAIN exit_status = Cases
  <2>1. /\ process \in [Cases -> {"none", "running", "writing", "exited"}]
        /\ exit_status \in [Cases -> {"none", "EXIT_SUCCESS", "EXIT_FAILURE", "abort", "timeout"}]
    BY <1>2 DEF SuiteTypes
  <2> QED
    BY ONLY <2>1
<1>4. process'[x] = p /\ \A t \in Cases : t # x => process'[t] = process[t]
  <2>1. x \in Cases /\ DOMAIN process = Cases /\ process' = [process EXCEPT ![x] = p]
    BY <1>3
  <2> QED
    BY ONLY <2>1
<1>5. exit_status'[x] = s /\ \A t \in Cases : t # x => exit_status'[t] = exit_status[t]
  <2>1. x \in Cases /\ DOMAIN exit_status = Cases /\ exit_status' = [exit_status EXCEPT ![x] = s]
    BY <1>3
  <2> QED
    BY ONLY <2>1
<1>6. ProcessesRunTests'
  BY <1>1, <1>2, <1>4, <1>5 DEF ProcessesRunTests
<1>7. VerdictsFollowProcesses'
  <2>1. UNCHANGED <<program, tests, xfail, disabled, verdict, stage>>
    OBVIOUS
  <2>2. ASSUME NEW t \in Cases, t # x PROVE VerdictFits(t)'
    <3>1. process'[t] = process[t] /\ exit_status'[t] = exit_status[t] /\ VerdictFits(t)
      BY <1>2, <1>4, <1>5, <2>2 DEF VerdictsFollowProcesses
    <3> QED
      BY <2>1, <3>1 DEF VerdictFits
  <2>3. VerdictFits(x)'
    <3>1. VerdictFits(x)
      BY <1>2 DEF VerdictsFollowProcesses
    <3>2. stage # "tested"
      BY <1>1, <3>1 DEF VerdictFits
    <3> QED
      BY <1>1, <2>1, <3>2 DEF VerdictFits
  <2> QED
    BY <2>2, <2>3 DEF VerdictsFollowProcesses
<1> QED
  BY <1>1, <1>6, <1>7, TestingKeeps

LEMMA ReturnStatusKeeps == ASSUME SuiteInv, NEW x \in Cases, Suite!ReturnStatus(x) PROVE SuiteInv'
<1> USE DEF Suite!ReturnStatus
<1>1. PICK s \in {"EXIT_SUCCESS", "EXIT_FAILURE"} : exit_status' = [exit_status EXCEPT ![x] = s]
  OBVIOUS
<1>2. PICK p \in {"writing", "exited"} : process' = [process EXCEPT ![x] = p]
  OBVIOUS
<1>3. process[x] = "running" /\ UNCHANGED <<Suite!setup, verdict, stage>>
  OBVIOUS
<1> HIDE DEF Suite!ReturnStatus
<1>4. SuiteTypes'
  BY <1>1, <1>2, <1>3 DEF SuiteInv, SuiteTypes, Suite!setup, Suite!configuration, Suite!marks
<1> QED
  BY <1>1, <1>2, <1>3, <1>4, ProcessEndsKeep

LEMMA AbortKeeps == ASSUME SuiteInv, NEW x \in Cases, Suite!Abort(x) PROVE SuiteInv'
<1> USE DEF Suite!Abort
<1>1. SuiteTypes'
  BY DEF SuiteInv, SuiteTypes, Suite!setup, Suite!configuration, Suite!marks
<1> QED
  BY <1>1, ProcessEndsKeep

LEMMA TimeOutKeeps == ASSUME SuiteInv, NEW x \in Cases, Suite!TimeOut(x) PROVE SuiteInv'
<1> USE DEF Suite!TimeOut
<1>1. SuiteTypes'
  BY DEF SuiteInv, SuiteTypes, Suite!setup, Suite!configuration, Suite!marks
<1> QED
  BY <1>1, ProcessEndsKeep

\* A process that writes its profile has its status already.
LEMMA WriteBlockKeeps == ASSUME SuiteInv, NEW x \in Cases, Suite!WriteBlock(x) PROVE SuiteInv'
<1>1. PICK p \in {"writing", "exited"} : process' = [process EXCEPT ![x] = p]
  BY DEF Suite!WriteBlock
<1>2. process[x] = "writing" /\ UNCHANGED <<Suite!setup, exit_status, verdict, stage>>
  BY DEF Suite!WriteBlock
<1>3. SuiteTypes /\ ProcessesRunTests
  BY DEF SuiteInv
<1>4. SuiteTypes'
  BY <1>1, <1>2, <1>3 DEF SuiteTypes, Suite!setup, Suite!configuration, Suite!marks
<1>5. exit_status[x] \in {"EXIT_SUCCESS", "EXIT_FAILURE", "abort", "timeout"}
  <2>1. exit_status \in [Cases -> {"none", "EXIT_SUCCESS", "EXIT_FAILURE", "abort", "timeout"}]
    BY <1>3 DEF SuiteTypes
  <2>2. exit_status[x] # "none"
    BY <1>2, <1>3 DEF ProcessesRunTests
  <2> QED
    BY <2>1, <2>2
<1>6. exit_status' = [exit_status EXCEPT ![x] = exit_status[x]]
  BY <1>2, <1>3 DEF SuiteTypes
<1> QED
  BY <1>1, <1>2, <1>4, <1>5, <1>6, ProcessEndsKeep

LEMMA JudgeTestKeeps == ASSUME SuiteInv, NEW x \in Cases, Suite!JudgeTest(x) PROVE SuiteInv'
<1> USE DEF SuiteInv, Suite!JudgeTest, Testing
<1>1. SuiteTypes'
  BY DEF SuiteTypes, Suite!setup, Suite!configuration, Suite!marks
<1>2. stage \in Testing /\ x \in tests \ disabled
  BY DEF ProcessesRunTests
<1>3. ProcessesRunTests'
  BY DEF ProcessesRunTests, Suite!setup, Suite!configuration, Suite!marks
<1>4. VerdictsFollowProcesses'
  <2>1. UNCHANGED <<process, exit_status, program, tests, xfail, disabled, stage>>
    BY DEF Suite!setup, Suite!configuration, Suite!marks
  <2>2. ASSUME NEW t \in Cases, t # x PROVE VerdictFits(t)'
    <3>1. verdict'[t] = verdict[t] /\ VerdictFits(t)
      BY <2>2 DEF SuiteTypes, VerdictsFollowProcesses
    <3> HIDE DEF Suite!JudgeTest, SuiteInv
    <3> QED
      BY <2>1, <3>1 DEF VerdictFits
  <2>3. VerdictFits(x)'
    <3>1. verdict'[x] = IF x \in xfail /\ exit_status[x] = "EXIT_FAILURE" THEN "skipped"
                        ELSE IF exit_status[x] = "EXIT_SUCCESS" THEN "passed"
                        ELSE "failed"
      BY DEF SuiteTypes
    <3>2. process[x] = "exited"
      OBVIOUS
    <3> HIDE DEF Suite!JudgeTest, SuiteInv
    <3> QED
      BY <1>2, <2>1, <3>1, <3>2 DEF VerdictFits
  <2> QED
    BY <2>2, <2>3 DEF VerdictsFollowProcesses
<1> QED
  BY <1>1, <1>2, <1>3, <1>4, TestingKeeps

LEMMA SummarizeKeeps == ASSUME SuiteInv, Suite!Summarize PROVE SuiteInv'
<1> USE DEF SuiteInv, Suite!Summarize, Suite!runs, Testing
<1>1. SuiteTypes'
  BY DEF SuiteTypes, Suite!setup, Suite!configuration, Suite!marks
<1>2. ProcessesRunTests'
  BY DEF ProcessesRunTests, Suite!setup, Suite!configuration, Suite!marks
<1>3. VerdictsFollowProcesses'
  BY DEF VerdictsFollowProcesses, VerdictFits, Suite!setup, Suite!configuration, Suite!marks
<1> QED
  BY <1>1, <1>2, <1>3, TestingKeeps

LEMMA SuiteNextKeeps == SuiteInv /\ [Suite!Next]_(Suite!vars) => SuiteInv'
<1> SUFFICES ASSUME SuiteInv, [Suite!Next]_(Suite!vars) PROVE SuiteInv'
  OBVIOUS
<1>1. ASSUME NEW pg \in BOOLEAN, Suite!Configure(pg) PROVE SuiteInv'
  BY <1>1, ConfigureKeeps
<1>2. CASE Suite!ReadListFile
  BY <1>2, AddTestsKeeps, XfailTestsKeeps, DisableTestsKeeps, ConfiguredKeeps DEF Suite!ReadListFile
<1>3. CASE Suite!StartBuild
  BY <1>3, StartBuildKeeps
<1>4. CASE Suite!BuildTargets
  BY <1>4, StartCompilerKeeps, EndCompilerKeeps, EndBuildKeeps DEF Suite!BuildTargets
<1>5. ASSUME NEW j \in Nat \ {0}, Suite!StartCtest(j) PROVE SuiteInv'
  BY <1>5, StartCtestKeeps
<1>6. CASE Suite!RunTests
  <2>1. ASSUME NEW t \in Cases, Suite!RunTest(t) PROVE SuiteInv'
    BY <2>1, StartTestKeeps, MissProgramKeeps, ReturnStatusKeeps, AbortKeeps, TimeOutKeeps,
       WriteBlockKeeps, JudgeTestKeeps DEF Suite!RunTest
  <2> QED
    BY <1>6, <2>1, SummarizeKeeps DEF Suite!RunTests
<1>7. CASE UNCHANGED Suite!vars
  <2> USE <1>7 DEF Suite!vars, Suite!setup, Suite!configuration, Suite!marks, Suite!runs, SuiteInv
  <2>1. SuiteTypes' /\ HostFirst' /\ ProcessesRunTests' /\ VerdictsFollowProcesses'
    BY DEF SuiteTypes, HostFirst, ProcessesRunTests, VerdictsFollowProcesses, VerdictFits
  <2>2. MarksFollowCalls'
    BY DEF MarksFollowCalls, Marked
  <2> QED
    BY <2>1, <2>2
<1> QED
  BY <1>1, <1>2, <1>3, <1>4, <1>5, <1>6, <1>7 DEF Suite!Next

LEMMA InvariantHonest == SuiteInv => Suite!VerdictsAreHonest
<1> SUFFICES ASSUME SuiteInv, stage = "tested", NEW c \in DOMAIN calls, NEW t \in calls[c].cases
             PROVE
               LET marked(fun) == \E j \in DOMAIN calls : calls[j].fun = fun /\ t \in calls[j].cases
                   returned(given) == /\ exit_status[t] = given
                                      /\ program[t] = "built" /\ program[Suite!Host] = "built"
               IN  verdict[t] =
                     IF marked("pdhkr_disable_tests") THEN "not run"
                     ELSE IF returned("EXIT_SUCCESS") THEN "passed"
                     ELSE IF returned("EXIT_FAILURE") /\ marked("pdhkr_xfail_tests") THEN "skipped"
                     ELSE "failed"
  BY DEF Suite!VerdictsAreHonest
<1> USE DEF SuiteInv, Configuring, Testing
<1>1. /\ DOMAIN calls = 1..made
      /\ calls[c].fun \in Functions /\ t \in Cases
  <2>1. calls \in Seq([fun: Functions, cases: SUBSET Cases]) /\ made = Len(calls)
    BY DEF SuiteTypes, MarksFollowCalls
  <2>2. DOMAIN calls = 1..made /\ calls[c] \in [fun: Functions, cases: SUBSET Cases]
    BY <2>1, ElementOfSequence
  <2> QED
    BY <2>2
<1>2. /\ t \in disabled <=> Marked("pdhkr_disable_tests", t)
      /\ t \in xfail <=> Marked("pdhkr_xfail_tests", t)
      /\ t \in tests
  BY <1>1 DEF MarksFollowCalls, Marked, Functions
<1>3. program[t] # "none" => program[Suite!Host] = "built"
  BY <1>1 DEF HostFirst
<1>4. CASE t \in disabled
  BY <1>1, <1>2, <1>4 DEF VerdictsFollowProcesses, VerdictFits, Marked
<1>5. CASE t \notin disabled
  <2>1. verdict[t] \in {"passed", "skipped", "failed"}
    BY <1>1, <1>2, <1>5 DEF SuiteTypes, VerdictsFollowProcesses, VerdictFits
  <2>2. process[t] = "exited" => program[t] = "built" /\ program[Suite!Host] = "built"
    BY <1>1, <1>3 DEF ProcessesRunTests
  <2> QED
    BY <1>1, <1>2, <1>5, <2>1, <2>2 DEF VerdictsFollowProcesses, VerdictFits, Marked
<1> QED
  BY <1>4, <1>5

LEMMA SuiteSteps == [Next]_vars => [Suite!Next]_(Suite!vars)
<1> SUFFICES ASSUME [Next]_vars PROVE [Suite!Next]_(Suite!vars)
  OBVIOUS
<1>1. CASE UNCHANGED suiteVars
  BY <1>1 DEF suiteVars, Suite!vars, Suite!setup, Suite!runs, Suite!configuration, Suite!marks
<1>2. CASE CmakeStarts
  <2> DEFINE pg == script = "build.sh" /\ PgWord \in ToSet(settings["cmake_args"])
  <2>1. Suite!Configure(pg)
    BY <1>2 DEF CmakeStarts
  <2>2. pg \in BOOLEAN
    OBVIOUS
  <2> HIDE DEF pg
  <2> QED
    BY <2>1, <2>2, Zenon DEF Suite!Next
<1>3. CASE CmakeRuns
  BY <1>3 DEF CmakeRuns, Suite!Next
<1>4. CASE BuildStarts \/ BuildRuns
  BY <1>4 DEF BuildStarts, BuildRuns, Suite!Next
<1>5. CASE CtestStarts
  <2> DEFINE j == IF OneJobWord \in ToSet(settings["ctest_args"]) THEN 1 ELSE Processors
  <2>1. Suite!StartCtest(j)
    BY <1>5 DEF CtestStarts
  <2>2. j \in Nat \ {0}
    BY TypesAssumption
  <2> HIDE DEF j
  <2> QED
    BY <2>1, <2>2 DEF Suite!Next
<1>6. CASE CtestRuns
  BY <1>6 DEF CtestRuns, Suite!Next
<1>7. CASE DriverStep \/ CmakeEnds \/ BuildEnds \/ CtestEnds \/ CtestElsewhere \/ Finished
  BY <1>1, <1>7 DEF DriverStep, CmakeEnds, BuildEnds, CtestEnds, CtestElsewhere, Finished
<1>8. CASE UNCHANGED vars
  BY <1>1, <1>8 DEF vars
<1> QED
  BY <1>2, <1>3, <1>4, <1>5, <1>6, <1>7, <1>8 DEF Next

\* From the command line to the verdict: whatever words build.sh, build.bat
\* and check.sh are given, however many processors and test cases there are,
\* no verdict of ctest hides a failure that was not expected (pdhkr_testing.cmake
\* 89-91).
THEOREM DrivenVerdicts == Spec => []VerdictsAreHonest
<1>1. Init => SuiteInv
  BY SuiteStarts DEF Init
<1>2. SuiteInv /\ [Next]_vars => SuiteInv'
  BY SuiteSteps, SuiteNextKeeps
<1>3. SuiteInv => VerdictsAreHonest
  BY InvariantHonest DEF VerdictsAreHonest
<1> QED
  BY <1>1, <1>2, <1>3, PTL DEF Spec

----------------------------------------------------------------------------
(* The scripts.  What is invariant of them relates the words read so far to *)
(* the parse action, the settings and the progress of main; it is proved of *)
(* every word and every tool, and then of the scripts waiting for the suite. *)

\* The provers do not know that a literal is a string.
Words == STRING \cup {"build", "build_windows", "x64", "Debug"}

Scripts == {"build.sh", "build.bat", "check.sh"}

\* What the words ask for, with the options of the script and what it starts from.
GivenTo(a, n) == Driver!Given(Driver!Options, a, n)

LastAsked(a) == Driver!LastWord(Driver!Options, a, Driver!Defaults(script, environment)[a])

Asked(a, words) == Driver!IsAsked(Driver!Options, a, Driver!Defaults(script, environment)[a], words)

Unknown == Driver!HasUnknown(Driver!Options)

IsOption(w) == w \in Driver!OptionWords

IsHelp(w) == w \in Driver!HelpWords

DriverTypes ==
    /\ script \in Scripts
    /\ argv \in Seq(Words)
    /\ environment \in [{"cmake_args", "cmake_build_args"} -> Seq(Words)]
    /\ k \in 0..Len(argv)
    /\ print_usage \in BOOLEAN
    /\ settings \in [DOMAIN Driver!Options -> Seq(Words)]

\* The parse action is that of the last option.
ActionIsLastOption ==
    \/ /\ parse_action = Driver!Nothing
       /\ \A j \in 1..k : ~IsOption(argv[j])
    \/ /\ parse_action \in DOMAIN Driver!Options
       /\ \E o \in 1..k : /\ argv[o] \in Driver!Options[parse_action]
                          /\ \A m \in (o + 1)..k : ~IsOption(argv[m])

\* An option sets one parse action, and is no request for help.
LEMMA OptionsFacts ==
    ASSUME script \in Scripts
    PROVE  /\ Driver!Nothing \notin DOMAIN Driver!Options
           /\ \A a \in DOMAIN Driver!Options : Driver!Options[a] \subseteq Driver!OptionWords
           /\ \A a, b \in DOMAIN Driver!Options : a # b => Driver!Options[a] \cap Driver!Options[b] = {}
           /\ \A w \in Driver!OptionWords : w \notin Driver!HelpWords
<1>1. CASE script = "build.sh"
  BY <1>1 DEF Driver!Options, Driver!OptionWords, Driver!WordsOf, Driver!HelpWords, Driver!Nothing
<1>2. CASE script = "build.bat"
  BY <1>2 DEF Driver!Options, Driver!OptionWords, Driver!WordsOf, Driver!HelpWords, Driver!Nothing
<1>3. CASE script = "check.sh"
  BY <1>3 DEF Driver!Options, Driver!OptionWords, Driver!WordsOf, Driver!HelpWords, Driver!Nothing
<1> QED
  BY <1>1, <1>2, <1>3 DEF Scripts

LEMMA DefaultsType ==
    ASSUME script \in Scripts, environment \in [{"cmake_args", "cmake_build_args"} -> Seq(Words)]
    PROVE  Driver!Defaults(script, environment) \in [DOMAIN Driver!Options -> Seq(Words)]
<1> DEFINE D == Driver!Defaults(script, environment)
<1>1. /\ environment["cmake_args"] \in Seq(Words)
      /\ environment["cmake_build_args"] \in Seq(Words)
  OBVIOUS
<1>2. /\ <<>> \in Seq(Words) /\ <<"build">> \in Seq(Words) /\ <<"build_windows">> \in Seq(Words)
      /\ <<"x64">> \in Seq(Words) /\ <<"Debug">> \in Seq(Words)
  BY DEF Words
<1>3. CASE script = "build.sh"
  <2>1. DOMAIN Driver!Options = {"output_dir", "build_config", "cmake_args", "cmake_build_args"}
    BY <1>3 DEF Driver!Options
  <2>2. D = [output_dir |-> <<"build">>, build_config |-> <<"Debug">>,
             cmake_args |-> <<>>, cmake_build_args |-> <<>>]
    BY <1>3 DEF Driver!Defaults
  <2> HIDE DEF D
  <2>3. /\ D["output_dir"] \in Seq(Words) /\ D["build_config"] \in Seq(Words)
        /\ D["cmake_args"] \in Seq(Words) /\ D["cmake_build_args"] \in Seq(Words)
    BY <1>1, <1>2, <2>2
  <2>4. D \in [DOMAIN D -> Seq(Words)] /\ DOMAIN D = DOMAIN Driver!Options
    BY <2>1, <2>2, <2>3
  <2> QED
    BY <2>4 DEF D
<1>4. CASE script = "build.bat"
  <2>1. DOMAIN Driver!Options = {"output_prefix", "arch", "build_config", "cmake_args", "cmake_build_args"}
    BY <1>4 DEF Driver!Options
  <2>2. D = [output_prefix |-> <<"build_windows">>, arch |-> <<"x64">>, build_config |-> <<"Debug">>,
             cmake_args |-> environment["cmake_args"],
             cmake_build_args |-> environment["cmake_build_args"]]
    BY <1>4 DEF Driver!Defaults
  <2> HIDE DEF D
  <2>3. /\ D["output_prefix"] \in Seq(Words) /\ D["arch"] \in Seq(Words)
        /\ D["build_config"] \in Seq(Words)
        /\ D["cmake_args"] \in Seq(Words) /\ D["cmake_build_args"] \in Seq(Words)
    BY <1>1, <1>2, <2>2
  <2>4. D \in [DOMAIN D -> Seq(Words)] /\ DOMAIN D = DOMAIN Driver!Options
    BY <2>1, <2>2, <2>3
  <2> QED
    BY <2>4 DEF D
<1>5. CASE script = "check.sh"
  <2>1. DOMAIN Driver!Options = {"output_dir", "ctest_args"}
    BY <1>5 DEF Driver!Options
  <2>2. D = [output_dir |-> <<"build">>, ctest_args |-> <<>>]
    BY <1>5 DEF Driver!Defaults
  <2> HIDE DEF D
  <2>3. D["output_dir"] \in Seq(Words) /\ D["ctest_args"] \in Seq(Words)
    BY <1>1, <1>2, <2>2
  <2>4. D \in [DOMAIN D -> Seq(Words)] /\ DOMAIN D = DOMAIN Driver!Options
    BY <2>1, <2>2, <2>3
  <2> QED
    BY <2>4 DEF D
<1> QED
  BY <1>3, <1>4, <1>5 DEF Scripts

\* Of the places up to the next word, that word's is new if the parse action is
\* the one in question and the word is plain.
LEMMA GivenGrows ==
    ASSUME DriverTypes, ActionIsLastOption, k < Len(argv), NEW a \in DOMAIN Driver!Options
    PROVE  GivenTo(a, k + 1) =
               IF parse_action = a /\ ~IsOption(argv[k + 1]) /\ ~IsHelp(argv[k + 1])
                 THEN GivenTo(a, k) \cup {k + 1} ELSE GivenTo(a, k)
<1> DEFINE Opened(j) ==
      \E o \in 1..(j - 1) : argv[o] \in Driver!Options[a] /\ \A m \in (o + 1)..(j - 1) : ~IsOption(argv[m])
<1> DEFINE Plain(j) == ~IsOption(argv[j]) /\ ~IsHelp(argv[j])
<1>1. \A n : GivenTo(a, n) = { j \in 1..n : Plain(j) /\ Opened(j) }
  BY DEF GivenTo, Driver!Given, Driver!OptionWords, IsOption, IsHelp
<1>2. k \in Nat
  BY DEF DriverTypes
<1>3. Opened(k + 1) <=> parse_action = a
  <2>1. (k + 1) - 1 = k
    BY <1>2
  <2>2. Opened(k + 1) <=> \E o \in 1..k : argv[o] \in Driver!Options[a] /\ \A m \in (o + 1)..k : ~IsOption(argv[m])
    BY <2>1
  <2> HIDE DEF Opened
  <2>3. \A b, c \in DOMAIN Driver!Options : \A o \in 1..k :
           argv[o] \in Driver!Options[b] /\ argv[o] \in Driver!Options[c] => b = c
    BY OptionsFacts DEF DriverTypes
  <2>4. \A o \in 1..k : argv[o] \in Driver!Options[a] => IsOption(argv[o])
    BY OptionsFacts DEF DriverTypes, IsOption
  <2>5. ASSUME parse_action = a PROVE Opened(k + 1)
    BY <2>2, <2>5, OptionsFacts DEF ActionIsLastOption, DriverTypes
  <2>6. ASSUME Opened(k + 1) PROVE parse_action = a
    <3>1. PICK o \in 1..k : argv[o] \in Driver!Options[a] /\ \A m \in (o + 1)..k : ~IsOption(argv[m])
      BY <2>2, <2>6
    <3>2. IsOption(argv[o])
      BY <2>4, <3>1
    <3>3. PICK q \in 1..k : /\ parse_action \in DOMAIN Driver!Options
                            /\ argv[q] \in Driver!Options[parse_action]
                            /\ \A m \in (q + 1)..k : ~IsOption(argv[m])
      BY <3>1, <3>2 DEF ActionIsLastOption
    <3>4. IsOption(argv[q])
      BY <3>3, OptionsFacts DEF DriverTypes, IsOption
    <3>5. ~(o < q) /\ ~(q < o)
      BY <1>2, <3>1, <3>2, <3>3, <3>4
    <3>6. o = q
      BY <1>2, <3>5
    <3> QED
      BY <2>3, <3>1, <3>3, <3>6
  <2> QED
    BY <2>5, <2>6
<1>4. 1..(k + 1) = (1..k) \cup {k + 1}
  BY <1>2
<1> HIDE DEF Opened, Plain
<1>5. GivenTo(a, k + 1) = IF Plain(k + 1) /\ Opened(k + 1) THEN GivenTo(a, k) \cup {k + 1}
                                 ELSE GivenTo(a, k)
  <2>1. GivenTo(a, k + 1) = { j \in (1..k) \cup {k + 1} : Plain(j) /\ Opened(j) }
    BY <1>1, <1>4
  <2>2. GivenTo(a, k) = { j \in 1..k : Plain(j) /\ Opened(j) }
    BY <1>1
  <2>3. \A S : { j \in S \cup {k + 1} : Plain(j) /\ Opened(j) } =
            IF Plain(k + 1) /\ Opened(k + 1) THEN { j \in S : Plain(j) /\ Opened(j) } \cup {k + 1}
                                            ELSE { j \in S : Plain(j) /\ Opened(j) }
    OBVIOUS
  <2> QED
    BY <2>1, <2>2, <2>3
<1> QED
  BY <1>3, <1>5 DEF Plain

LEMMA GivenWithin == \A a, n : GivenTo(a, n) \subseteq 1..n
BY DEF GivenTo, Driver!Given

LEMMA DriverCardinality == \A S : Driver!Cardinality(S) = Cardinality(S)
BY DEF Driver!Cardinality, Cardinality

\* One place more, to the right of the others, is one word more at the end.
LEMMA OrderGrows ==
    ASSUME NEW n \in Nat, NEW S \in SUBSET (1..n), NEW p \in Driver!InOrder(S),
           argv \in Seq(Words), n + 1 \in 1..Len(argv)
    PROVE  /\ [x \in DOMAIN p |-> argv[p[x]]] \in Seq(Words)
           /\ \E q \in Driver!InOrder(S \cup {n + 1}) :
                 [x \in DOMAIN q |-> argv[q[x]]] = Append([x \in DOMAIN p |-> argv[p[x]]], argv[n + 1])
<1> DEFINE c == Cardinality(S)
<1>1. /\ c \in Nat /\ Cardinality(S \cup {n + 1}) = c + 1
  <2>1. IsFiniteSet(1..n)
    BY FS_Interval
  <2>2. IsFiniteSet(S)
    BY <2>1, FS_Subset
  <2>3. n + 1 \notin S
    OBVIOUS
  <2> QED
    BY <2>2, <2>3, FS_CardinalityType, FS_AddElement
<1> HIDE DEF c
<1>2. p \in [1..c -> S] /\ \A x, y \in 1..c : x < y => p[x] < p[y]
  BY DriverCardinality DEF Driver!InOrder, c
<1> DEFINE words == [x \in 1..c |-> argv[p[x]]]
<1> DEFINE q == [x \in 1..(c + 1) |-> IF x <= c THEN p[x] ELSE n + 1]
<1>3. words \in Seq(Words) /\ Len(words) = c
  <2>1. \A j \in 1..Len(argv) : argv[j] \in Words
    OBVIOUS
  <2>2. \A x \in 1..c : p[x] \in 1..Len(argv)
    <3>1. \A x \in 1..c : p[x] \in 1..n
      BY <1>2
    <3>2. Len(argv) \in Nat /\ n + 1 <= Len(argv)
      OBVIOUS
    <3> QED
      BY <3>1, <3>2
  <2>3. \A x \in 1..c : argv[p[x]] \in Words
    BY <2>1, <2>2
  <2> QED
    BY <1>1, <2>3
<1>4. q \in Driver!InOrder(S \cup {n + 1})
  <2>1. q \in [1..(c + 1) -> S \cup {n + 1}]
    BY <1>1, <1>2
  <2>2. \A x, y \in 1..(c + 1) : x < y => q[x] < q[y]
    <3> SUFFICES ASSUME NEW x \in 1..(c + 1), NEW y \in 1..(c + 1), x < y PROVE q[x] < q[y]
      OBVIOUS
    <3>1. x \in 1..c
      BY <1>1
    <3>2. q[x] = p[x]
      BY <1>1, <3>1
    <3>3. p[x] \in 1..n
      BY <1>2, <3>1
    <3>4. CASE y \in 1..c
      <4>1. q[y] = p[y]
        BY <1>1, <3>4
      <4> QED
        BY <1>2, <3>1, <3>2, <3>4, <4>1
    <3>5. CASE y = c + 1
      <4>1. q[y] = n + 1
        BY <1>1, <3>5
      <4> QED
        BY <3>2, <3>3, <4>1
    <3> QED
      BY <1>1, <3>4, <3>5
  <2> QED
    BY <1>1, <2>1, <2>2, DriverCardinality DEF Driver!InOrder
<1>5. [x \in DOMAIN q |-> argv[q[x]]] = Append(words, argv[n + 1])
  <2> DEFINE longer == [x \in 1..(c + 1) |-> argv[q[x]]]
  <2>1. Append(words, argv[n + 1]) = [x \in 1..(c + 1) |-> IF x = c + 1 THEN argv[n + 1] ELSE words[x]]
    BY <1>1, <1>3
  <2>2. \A x \in 1..(c + 1) : argv[q[x]] = IF x = c + 1 THEN argv[n + 1] ELSE words[x]
    BY <1>1
  <2> QED
    BY <2>1, <2>2
<1>6. DOMAIN p = 1..c
  BY <1>2
<1> QED
  BY <1>3, <1>4, <1>5, <1>6

\* The tables depend on the script alone.
LEMMA TablesStay ==
    ASSUME UNCHANGED <<script, argv, environment>>
    PROVE  /\ Driver!Options' = Driver!Options /\ Driver!OptionWords' = Driver!OptionWords
           /\ Driver!HelpWords' = Driver!HelpWords /\ Driver!Tools' = Driver!Tools
           /\ Driver!Defaults(script, environment)' = Driver!Defaults(script, environment)
           /\ \A a : GivenTo(a, k)' = GivenTo(a, k')
           /\ \A j : IsOption(argv[j])' = IsOption(argv[j]) /\ IsHelp(argv[j])' = IsHelp(argv[j])
           /\ Driver!HasHelp' = Driver!HasHelp /\ Unknown' = Unknown
<1>1. Driver!Options' = Driver!Options
  BY DEF Driver!Options
<1>2. Driver!OptionWords' = Driver!OptionWords
  BY <1>1 DEF Driver!OptionWords, Driver!WordsOf
<1>3. Driver!HelpWords' = Driver!HelpWords
  BY DEF Driver!HelpWords
<1>4. Driver!Tools' = Driver!Tools
  BY DEF Driver!Tools
<1>5. Driver!Defaults(script, environment)' = Driver!Defaults(script, environment)
  BY DEF Driver!Defaults
<1>6. \A a : GivenTo(a, k)' = GivenTo(a, k')
  BY <1>1, <1>2, <1>3 DEF GivenTo, Driver!Given
<1>7. \A j : IsOption(argv[j])' = IsOption(argv[j]) /\ IsHelp(argv[j])' = IsHelp(argv[j])
  BY <1>2, <1>3 DEF IsOption, IsHelp
<1>8. Driver!HasHelp' = Driver!HasHelp /\ Unknown' = Unknown
  BY <1>2, <1>3 DEF Driver!HasHelp, Unknown, Driver!HasUnknown, Driver!OptionWords
<1> QED
  BY <1>1, <1>2, <1>3, <1>4, <1>5, <1>6, <1>7, <1>8

SettingFits(a) ==
    \/ Asked(a, settings[a])
    \/ a = "build_config" /\ Driver!ConfigIsOption

\* A setting for which no word comes stays what was asked for.
LEMMA SettingStays ==
    ASSUME UNCHANGED <<script, argv, environment>>, k' \in {k, k + 1}, k \in Nat,
           NEW a, settings'[a] = settings[a],
           GivenTo(a, k') = GivenTo(a, k), SettingFits(a)
    PROVE  SettingFits(a)'
<1>1. GivenTo(a, k)' = GivenTo(a, k)
  BY TablesStay
<1>2. ASSUME Asked(a, settings[a]) PROVE Asked(a, settings[a])'
  <2>1. LastAsked(a)' = LastAsked(a)
    BY <1>1, TablesStay DEF GivenTo, LastAsked, Driver!LastWord
  <2>2. Driver!InOrder(GivenTo(a, k))' = Driver!InOrder(GivenTo(a, k))
    BY <1>1 DEF Driver!InOrder, Driver!Cardinality
  <2>3. Driver!Collecting' = Driver!Collecting
    BY DEF Driver!Collecting
  <2>4. Driver!Defaults(script, environment)' = Driver!Defaults(script, environment)
    BY TablesStay
  <2> QED
    BY <1>2, <2>1, <2>2, <2>3, <2>4 DEF Asked, GivenTo, LastAsked, Driver!IsAsked
<1>3. ASSUME a = "build_config", Driver!ConfigIsOption PROVE Driver!ConfigIsOption'
  <2>1. PICK o \in 1..k : argv[o] = "--config" /\ \A j \in GivenTo(a, k) : j < o
    BY <1>3 DEF GivenTo, Driver!ConfigIsOption
  <2>2. o \in 1..k'
    OBVIOUS
  <2> QED
    BY <1>1, <1>3, <2>1, <2>2 DEF GivenTo, Driver!ConfigIsOption
<1> QED
  BY <1>2, <1>3 DEF SettingFits

\* What the words parsed so far allow: nothing but options and their words.
Clean == k = Len(argv) /\ ~Driver!HasHelp /\ ~Unknown

Phases ==
    /\ pc \in {"parse", "parsed", "arch_set", "return", "done"}
    /\ pc = "parse" =>
          /\ ~print_usage /\ ran = <<>>
          /\ \A j \in 1..k : ~IsHelp(argv[j]) /\ \E m \in 1..j : IsOption(argv[m])
    /\ (pc \in {"parsed", "arch_set"} /\ status = 0 /\ ~print_usage) \/ ran # <<>> => Clean
    /\ pc = "arch_set" => script = "build.bat"
    /\ script = "build.bat" /\ (pc = "arch_set" \/ ran # <<>>) =>
          ToSet(settings["arch"]) \subseteq Driver!Architectures
    /\ ran \in IF script = "check.sh" THEN {<<>>, <<"ctest">>}
               ELSE {<<>>, <<"cmake">>, <<"cmake", "cmake --build">>}
    /\ pc \in {"parse", "parsed", "arch_set"} => Len(ran) < Len(Driver!Tools)

DriverInv ==
    /\ DriverTypes
    /\ ActionIsLastOption
    /\ \A a \in DOMAIN Driver!Options : SettingFits(a)
    /\ Phases

\* No word is read: settings and tables stay.
LEMMA NoWord ==
    ASSUME DriverInv, UNCHANGED <<script, argv, environment, k, parse_action, print_usage, settings>>,
           Phases'
    PROVE  DriverInv'
<1>1. DriverTypes'
  BY TablesStay DEF DriverInv, DriverTypes
<1>2. ActionIsLastOption'
  BY TablesStay DEF DriverInv, ActionIsLastOption, Driver!Nothing
<1>3. \A a \in DOMAIN Driver!Options : SettingFits(a)'
  BY SettingStays DEF DriverInv, DriverTypes
<1> QED
  BY <1>1, <1>2, <1>3, TablesStay DEF DriverInv

\* A word is read.
LEMMA WordRead ==
    ASSUME DriverInv, Driver!ParseWord
    PROVE  /\ UNCHANGED <<script, argv, environment, ran>> /\ k' = k + 1 /\ k' \in 1..Len(argv)
           /\ k \in Nat /\ ran = <<>> /\ ~print_usage /\ pc = "parse"
BY DEF Driver!ParseWord, Driver!call, DriverInv, DriverTypes, Phases

LEMMA HelpWordKeeps == ASSUME DriverInv, Driver!HelpWord PROVE DriverInv'
<1>1. /\ UNCHANGED <<script, argv, environment, ran, parse_action, settings>>
      /\ k' = k + 1 /\ k' \in 1..Len(argv) /\ k \in Nat /\ ran = <<>> /\ pc = "parse"
      /\ IsHelp(argv[k + 1]) /\ print_usage' = TRUE /\ pc' = "parsed"
  BY WordRead DEF Driver!HelpWord, IsHelp
<1>2. DriverTypes'
  BY <1>1, TablesStay DEF DriverInv, DriverTypes
<1>3. ~IsOption(argv[k + 1])
  BY <1>1, OptionsFacts DEF DriverInv, DriverTypes, IsOption, IsHelp
<1>4. ActionIsLastOption'
  <2>1. \A m : m \in 1..k' => m \in 1..k \/ m = k + 1
    BY <1>1
  <2>2. \A o : o \in 1..k => o \in 1..k'
    BY <1>1
  <2> QED
    BY <1>1, <1>3, <2>1, <2>2, TablesStay DEF DriverInv, ActionIsLastOption, Driver!Nothing
<1>5. \A a \in DOMAIN Driver!Options : SettingFits(a)'
  BY <1>1, <1>3, GivenGrows, SettingStays DEF DriverInv
<1>6. Phases'
  BY <1>1, TablesStay DEF DriverInv, Phases
<1> QED
  BY <1>1, <1>2, <1>4, <1>5, <1>6, TablesStay DEF DriverInv

LEMMA OptionWordKeeps == ASSUME DriverInv, Driver!OptionWord PROVE DriverInv'
<1>1. /\ UNCHANGED <<script, argv, environment, ran, print_usage, pc, status>>
      /\ k' = k + 1 /\ k' \in 1..Len(argv) /\ k \in Nat /\ ran = <<>> /\ pc = "parse"
      /\ settings' = IF script = "build.bat" /\ argv[k + 1] = "--config"
                       THEN [settings EXCEPT !["build_config"] = <<argv[k + 1]>>] ELSE settings
  BY WordRead DEF Driver!OptionWord
<1>2. PICK action \in DOMAIN Driver!Options :
          argv[k + 1] \in Driver!Options[action] /\ parse_action' = action
  BY <1>1 DEF Driver!OptionWord
<1>3. IsOption(argv[k + 1]) /\ ~IsHelp(argv[k + 1])
  BY <1>2, OptionsFacts DEF DriverInv, DriverTypes, IsOption, IsHelp
<1>4. DriverTypes'
  <2>1. settings \in [DOMAIN Driver!Options -> Seq(Words)] /\ argv \in Seq(Words)
    BY DEF DriverInv, DriverTypes
  <2>2. argv[k + 1] \in Words
    BY <1>1, <2>1
  <2>3. <<argv[k + 1]>> \in Seq(Words)
    BY <2>2
  <2>4. settings' \in [DOMAIN Driver!Options -> Seq(Words)]
    BY <1>1, <2>1, <2>3
  <2> QED
    BY <1>1, <2>4, TablesStay DEF DriverInv, DriverTypes
<1>5. ActionIsLastOption'
  <2>1. k + 1 \in 1..k' /\ \A m : m \notin (k + 1 + 1)..k'
    BY <1>1
  <2> QED
    BY <1>1, <1>2, <2>1, TablesStay DEF ActionIsLastOption
<1>6. ASSUME NEW a \in DOMAIN Driver!Options PROVE SettingFits(a)'
  <2>1. GivenTo(a, k') = GivenTo(a, k) /\ SettingFits(a)
    BY <1>1, <1>3, GivenGrows DEF DriverInv
  <2>2. CASE settings'[a] = settings[a]
    BY <1>1, <2>1, <2>2, SettingStays
  <2>3. CASE settings'[a] # settings[a]
    <3>1. /\ a = "build_config" /\ script = "build.bat" /\ argv[k + 1] = "--config"
          /\ settings'["build_config"] = <<argv[k + 1]>>
      BY <1>1, <2>3 DEF DriverInv, DriverTypes
    <3>2. \A j \in GivenTo(a, k') : j < k + 1
      BY <1>1, <2>1, GivenWithin
    <3>3. k + 1 \in 1..k' /\ GivenTo(a, k)' = GivenTo(a, k')
      BY <1>1, TablesStay
    <3>4. Driver!ConfigIsOption'
      BY <1>1, <3>1, <3>2, <3>3 DEF GivenTo, Driver!ConfigIsOption
    <3> QED
      BY <3>1, <3>4 DEF SettingFits
  <2> QED
    BY <2>2, <2>3
<1>7. Phases'
  <2>1. \A j \in 1..k' : ~IsHelp(argv[j]) /\ \E m \in 1..j : IsOption(argv[m])
    <3>1. \A j \in 1..k : ~IsHelp(argv[j]) /\ \E m \in 1..j : IsOption(argv[m])
      BY <1>1 DEF DriverInv, Phases
    <3>2. k + 1 \in 1..(k + 1) /\ \A j \in 1..k' : j \in 1..k \/ j = k + 1
      BY <1>1
    <3> QED
      BY <1>3, <3>1, <3>2
  <2> QED
    BY <1>1, <2>1, TablesStay DEF DriverInv, Phases
<1> QED
  BY <1>1, <1>4, <1>5, <1>6, <1>7, TablesStay DEF DriverInv

LEMMA LongerLine ==
    ASSUME NEW d \in Seq(Words), NEW w \in Seq(Words), NEW x \in Words
    PROVE  d \o Append(w, x) = Append(d \o w, x)
<1>1. <<x>> \in Seq(Words) /\ d \o w \in Seq(Words)
  OBVIOUS
<1>2. Append(w, x) = w \o <<x>> /\ Append(d \o w, x) = (d \o w) \o <<x>>
  BY <1>1, AppendIsConcat
<1>3. (d \o w) \o <<x>> = d \o (w \o <<x>>)
  BY <1>1, ConcatAssociative
<1> QED
  BY <1>2, <1>3

\* A plain word goes to the parse action a.
LEMMA ValueFits ==
    ASSUME DriverInv, UNCHANGED <<script, argv, environment>>,
           k' = k + 1, k \in Nat, k' \in 1..Len(argv),
           NEW a \in DOMAIN Driver!Options,
           GivenTo(a, k') = GivenTo(a, k) \cup {k + 1},
           a \in Driver!Collecting => Asked(a, settings[a]),
           settings'[a] = IF a \in Driver!Collecting THEN Append(settings[a], argv[k + 1])
                                                     ELSE <<argv[k + 1]>>
    PROVE  Asked(a, settings[a])'
<1> DEFINE D == Driver!Defaults(script, environment)[a]
<1> DEFINE G == GivenTo(a, k)
<1>1. G \in SUBSET (1..k) /\ argv \in Seq(Words) /\ argv[k + 1] \in Words /\ D \in Seq(Words)
  BY GivenWithin, DefaultsType DEF DriverInv, DriverTypes
<1>2. GivenTo(a, k)' = G \cup {k + 1} /\ Driver!Defaults(script, environment)' = Driver!Defaults(script, environment)
  BY TablesStay
<1>3. Driver!Collecting' = Driver!Collecting
  BY DEF Driver!Collecting
<1>4. CASE a \in Driver!Collecting
  <2>1. PICK p \in Driver!InOrder(G) : settings[a] = D \o [x \in DOMAIN p |-> argv[p[x]]]
    BY <1>4 DEF Asked, GivenTo, LastAsked, Driver!IsAsked
  <2> DEFINE words == [x \in DOMAIN p |-> argv[p[x]]]
  <2>2. words \in Seq(Words)
    BY <1>1, OrderGrows
  <2>3. PICK q \in Driver!InOrder(G \cup {k + 1}) :
            [x \in DOMAIN q |-> argv[q[x]]] = Append(words, argv[k + 1])
    BY <1>1, OrderGrows
  <2> HIDE DEF D
  <2>4. settings'[a] = D \o [x \in DOMAIN q |-> argv[q[x]]]
    <3> HIDE DEF words
    <3>1. Append(D \o words, argv[k + 1]) = D \o Append(words, argv[k + 1])
      BY <1>1, <2>2, LongerLine
    <3>2. settings'[a] = Append(D \o words, argv[k + 1])
      BY <1>4, <2>1 DEF words
    <3> QED
      BY <2>3, <3>1, <3>2
  <2>5. Driver!InOrder(GivenTo(a, k))' = Driver!InOrder(G \cup {k + 1})
    BY <1>2 DEF Driver!InOrder, Driver!Cardinality
  <2>6. (\E f \in Driver!InOrder(GivenTo(a, k)) :
            settings[a] = Driver!Defaults(script, environment)[a] \o [x \in DOMAIN f |-> argv[f[x]]])'
    BY <1>2, <2>4, <2>5 DEF D
  <2> QED
    BY <1>3, <1>4, <2>6 DEF Asked, GivenTo, LastAsked, Driver!IsAsked
<1>5. CASE a \notin Driver!Collecting
  <2>1. LastAsked(a)' = <<argv[k + 1]>>
    <3>1. LastAsked(a)' = << argv[CHOOSE j \in G \cup {k + 1} : \A m \in G \cup {k + 1} : m <= j] >>
      BY <1>2 DEF GivenTo, LastAsked, Driver!LastWord
    <3>2. \A j \in G : j \in 1..k
      BY <1>1
    <3> HIDE DEF G
    <3>3. \A j \in G \cup {k + 1} : (\A m \in G \cup {k + 1} : m <= j) <=> j = k + 1
      <4>1. \A j \in G : ~(k + 1 <= j) /\ j <= k + 1
        BY <3>2
      <4>2. k + 1 <= k + 1
        OBVIOUS
      <4> QED
        BY <4>1, <4>2
    <3> QED
      BY <3>1, <3>3
  <2> QED
    BY <1>3, <1>5, <2>1 DEF Asked, LastAsked, Driver!IsAsked
<1> QED
  BY <1>4, <1>5

\* ConfigIsOption is of a script that collects no configuration.
LEMMA ConfigCollects == "build_config" \notin Driver!Collecting /\ "arch" \notin Driver!Collecting
BY DEF Driver!Collecting

LEMMA ValueWordKeeps == ASSUME DriverInv, Driver!ValueWord PROVE DriverInv'
<1> DEFINE a == parse_action
<1>1. /\ UNCHANGED <<script, argv, environment, ran, parse_action, print_usage, status, pc>>
      /\ k' = k + 1 /\ k' \in 1..Len(argv) /\ k \in Nat /\ ran = <<>> /\ pc = "parse"
      /\ ~IsOption(argv[k + 1]) /\ ~IsHelp(argv[k + 1]) /\ a # Driver!Nothing
      /\ settings' = [settings EXCEPT ![a] =
                        IF a \in Driver!Collecting THEN Append(@, argv[k + 1]) ELSE <<argv[k + 1]>>]
  BY WordRead DEF Driver!ValueWord, Driver!PlainWord, IsHelp, IsOption
<1>2. a \in DOMAIN Driver!Options /\ DriverTypes /\ ActionIsLastOption
  BY <1>1 DEF DriverInv, ActionIsLastOption
<1>3. k < Len(argv) /\ GivenTo(a, k') = GivenTo(a, k + 1)
  BY <1>1, <1>2 DEF DriverTypes
<1>4. /\ settings \in [DOMAIN Driver!Options -> Seq(Words)] /\ argv \in Seq(Words)
      /\ argv[k + 1] \in Words
  BY <1>1, <1>2 DEF DriverTypes
<1>5. /\ Append(settings[a], argv[k + 1]) \in Seq(Words) /\ <<argv[k + 1]>> \in Seq(Words)
  BY <1>2, <1>4
<1>6. DriverTypes'
  <2>1. settings' \in [DOMAIN Driver!Options -> Seq(Words)]
    BY <1>1, <1>4, <1>5
  <2> QED
    BY <1>1, <1>2, <2>1, TablesStay DEF DriverTypes
<1>7. ActionIsLastOption'
  <2>1. \A m \in 1..k' : m \in 1..k \/ m = k + 1
    BY <1>1
  <2>2. PICK o \in 1..k : argv[o] \in Driver!Options[a] /\ \A m \in (o + 1)..k : ~IsOption(argv[m])
    BY <1>1, <1>2 DEF ActionIsLastOption
  <2>3. o \in 1..k' /\ \A m \in (o + 1)..k' : m \in (o + 1)..k \/ m = k + 1
    BY <1>1, <2>2
  <2>4. \A m \in (o + 1)..k' : ~IsOption(argv[m])
    BY <1>1, <2>2, <2>3
  <2> QED
    BY <1>1, <1>2, <2>2, <2>3, <2>4, TablesStay DEF ActionIsLastOption
<1>8. ASSUME NEW b \in DOMAIN Driver!Options PROVE SettingFits(b)'
  <2>1. SettingFits(b)
    BY DEF DriverInv
  <2>2. CASE b = parse_action
    <3>1. GivenTo(b, k + 1) = GivenTo(b, k) \cup {k + 1}
      BY <1>3, <1>1, <1>2, <2>2, GivenGrows
    <3>2. settings'[b] = IF b \in Driver!Collecting THEN Append(settings[b], argv[k + 1])
                                                    ELSE <<argv[k + 1]>>
      BY <1>1, <1>4, <2>2
    <3>3. b \in Driver!Collecting => Asked(b, settings[b])
      BY <2>1, ConfigCollects DEF SettingFits
    <3>4. Asked(b, settings[b])'
      BY <1>3, <1>1, <2>2, <3>1, <3>2, <3>3, ValueFits
    <3> QED
      BY <3>4 DEF SettingFits
  <2>3. CASE b # parse_action
    <3>1. GivenTo(b, k + 1) = GivenTo(b, k)
      BY <1>3, <1>2, <2>3, GivenGrows
    <3>2. settings'[b] = settings[b] /\ GivenTo(b, k') = GivenTo(b, k)
      BY <1>1, <1>4, <2>3, <3>1
    <3> QED
      BY <1>1, <2>1, <3>2, SettingStays
  <2> QED
    BY <2>2, <2>3
<1>9. Phases'
  <2>1. PICK o \in 1..k : IsOption(argv[o])
    BY <1>1, <1>2, OptionsFacts DEF ActionIsLastOption, IsOption, DriverTypes
  <2>2. \A j \in 1..k : ~IsHelp(argv[j]) /\ \E m \in 1..j : IsOption(argv[m])
    BY <1>1 DEF DriverInv, Phases
  <2>3. o \in 1..(k + 1) /\ \A j \in 1..k' : j \in 1..k \/ j = k + 1
    BY <1>1
  <2>4. \A j \in 1..k' : ~IsHelp(argv[j]) /\ \E m \in 1..j : IsOption(argv[m])
    BY <1>1, <2>1, <2>2, <2>3
  <2> QED
    BY <1>1, <2>4, TablesStay DEF DriverInv, Phases
<1> QED
  BY <1>1, <1>6, <1>7, <1>8, <1>9, TablesStay DEF DriverInv

LEMMA UnknownWordKeeps == ASSUME DriverInv, Driver!UnknownWord PROVE DriverInv'
<1>1. /\ UNCHANGED <<script, argv, environment, ran, parse_action, print_usage, settings>>
      /\ k' = k + 1 /\ k' \in 1..Len(argv) /\ k \in Nat /\ ran = <<>> /\ pc = "parse"
      /\ ~IsOption(argv[k + 1]) /\ ~IsHelp(argv[k + 1]) /\ parse_action = Driver!Nothing
      /\ status' = 1 /\ pc' = "parsed"
  BY WordRead DEF Driver!UnknownWord, Driver!PlainWord, IsHelp, IsOption
<1>2. DriverTypes'
  BY <1>1, TablesStay DEF DriverInv, DriverTypes
<1>3. parse_action \notin DOMAIN Driver!Options
  BY <1>1, OptionsFacts DEF DriverInv, DriverTypes
<1>4. ActionIsLastOption'
  <2>1. \A m \in 1..k' : m \in 1..k \/ m = k + 1
    BY <1>1
  <2>2. \A m \in 1..k : ~IsOption(argv[m])
    BY <1>3 DEF DriverInv, ActionIsLastOption
  <2>3. \A m \in 1..k' : ~IsOption(argv[m])
    BY <1>1, <2>1, <2>2
  <2> QED
    BY <1>1, <2>3, TablesStay DEF ActionIsLastOption, Driver!Nothing
<1>5. ASSUME NEW a \in DOMAIN Driver!Options PROVE SettingFits(a)'
  <2>1. DriverTypes /\ ActionIsLastOption /\ k < Len(argv) /\ SettingFits(a)
    BY <1>1 DEF DriverInv, DriverTypes
  <2>2. GivenTo(a, k + 1) = GivenTo(a, k)
    BY <1>3, <2>1, GivenGrows
  <2> QED
    BY <1>1, <2>1, <2>2, SettingStays
<1>6. Phases'
  BY <1>1, TablesStay DEF DriverInv, Phases
<1> QED
  BY <1>1, <1>2, <1>4, <1>5, <1>6, TablesStay DEF DriverInv

LEMMA EndOfWordsKeeps == ASSUME DriverInv, Driver!EndOfWords PROVE DriverInv'
<1>1. /\ UNCHANGED <<script, argv, environment, k, parse_action, print_usage, settings, ran>>
      /\ pc = "parse" /\ k = Len(argv) /\ status' = 0 /\ pc' = "parsed"
  BY DEF Driver!EndOfWords, Driver!call
<1>2. Clean
  <2>1. DOMAIN argv = 1..k
    BY <1>1 DEF DriverInv, DriverTypes
  <2>2. \A j \in 1..k : ~IsHelp(argv[j]) /\ \E m \in 1..j : IsOption(argv[m])
    BY <1>1 DEF DriverInv, Phases
  <2> QED
    BY <1>1, <2>1, <2>2 DEF Clean, Driver!HasHelp, Unknown, Driver!HasUnknown, Driver!OptionWords, IsHelp, IsOption
<1>3. Clean'
  BY <1>1, <1>2, TablesStay DEF Clean
<1>4. Phases'
  BY <1>1, <1>3, TablesStay DEF DriverInv, Phases
<1> QED
  BY <1>1, <1>4, NoWord

LEMMA EndsKeep ==
    ASSUME DriverInv, Driver!ParseFailed \/ Driver!PrintUsage \/ Driver!Return PROVE DriverInv'
<1>1. /\ UNCHANGED <<script, argv, environment, k, parse_action, print_usage, settings, ran>>
      /\ pc' \in {"return", "done"}
  BY DEF Driver!ParseFailed, Driver!PrintUsage, Driver!Return, Driver!call
<1>2. Clean' = Clean
  BY <1>1, TablesStay DEF Clean
<1>3. Phases'
  BY <1>1, <1>2, TablesStay DEF DriverInv, Phases, Driver!Architectures
<1> QED
  BY <1>1, <1>3, NoWord

\* Where a script starts.
Begun ==
    /\ DriverTypes
    /\ k = 0 /\ parse_action = Driver!Nothing /\ print_usage = FALSE
    /\ settings = Driver!Defaults(script, environment)
    /\ ran = <<>> /\ pc = "parse"

LEMMA BeginsRight == Begun => DriverInv
<1> SUFFICES ASSUME Begun PROVE DriverInv
  OBVIOUS
<1>1. DriverTypes /\ k = 0
  BY DEF Begun
<1>2. \A j : j \notin 1..k
  BY <1>1
<1>3. ActionIsLastOption
  BY <1>2 DEF Begun, ActionIsLastOption
<1>4. Phases
  <2>1. Len(<<>>) = 0 /\ Len(Driver!Tools) \in {1, 2}
    BY DEF Driver!Tools
  <2> QED
    BY <1>2, <2>1 DEF Begun, Phases
<1>5. ASSUME NEW a \in DOMAIN Driver!Options PROVE SettingFits(a)
  <2> DEFINE D == Driver!Defaults(script, environment)[a]
  <2>1. GivenTo(a, k) = {}
    BY <1>2 DEF GivenTo, Driver!Given
  <2>2. D \in Seq(Words) /\ settings[a] = D
    BY <1>1, DefaultsType DEF Begun, DriverTypes
  <2>3. <<>> \in Driver!InOrder({})
    <3>1. Driver!Cardinality({}) = 0
      BY DriverCardinality, FS_EmptySet
    <3>2. DOMAIN <<>> = {} /\ 1..0 = {} /\ <<>> \in [{} -> {}]
      OBVIOUS
    <3> QED
      BY <3>1, <3>2 DEF Driver!InOrder
  <2>4. [x \in DOMAIN <<>> |-> argv[<<>>[x]]] = <<>>
    OBVIOUS
  <2> HIDE DEF D
  <2>5. D = D \o <<>>
    BY <2>2, ConcatEmptySeq
  <2> QED
    BY <2>1, <2>2, <2>3, <2>4, <2>5 DEF SettingFits, Asked, Driver!IsAsked, GivenTo, Driver!Given, LastAsked, Driver!LastWord, D
<1> QED
  BY <1>1, <1>3, <1>4, <1>5 DEF DriverInv

LEMMA BeginsNext == Begun' => DriverInv'
BY BeginsRight, PTL

\* Literals apart, words are strings.
LEMMA LinesAreWords ==
    /\ \A s \in Scripts : CommandLines[s] \subseteq Seq(Words)
    /\ \A s \in {"build.sh", "build.bat"} :
          Environments[s] \subseteq [{"cmake_args", "cmake_build_args"} -> Seq(Words)]
<1>1. Seq(STRING) \subseteq Seq(Words)
  BY SeqMonotonic DEF Words
<1> QED
  BY <1>1, TypesAssumption DEF Scripts

LEMMA FirstCommand == Driver!Init => DriverInv
<1> SUFFICES ASSUME Driver!Init PROVE Begun
  BY BeginsRight
<1>1. DriverTypes
  <2>1. /\ script \in {"build.sh", "build.bat"} /\ argv \in Seq(Words)
        /\ environment \in [{"cmake_args", "cmake_build_args"} -> Seq(Words)]
    BY LinesAreWords DEF Driver!Init, Scripts
  <2>2. script \in Scripts /\ 0 \in 0..Len(argv)
    BY <2>1 DEF Scripts
  <2>3. Driver!Defaults(script, environment) \in [DOMAIN Driver!Options -> Seq(Words)]
    BY <2>1, <2>2, DefaultsType
  <2> QED
    BY <2>1, <2>2, <2>3 DEF Driver!Init, DriverTypes
<1> QED
  BY <1>1 DEF Driver!Init, Begun

LEMMA NextCommandKeeps == ASSUME DriverInv, Driver!NextCommand PROVE DriverInv'
<1>1. DriverTypes'
  <2>1. /\ script' = "check.sh" /\ argv' \in Seq(Words)
        /\ environment' \in [{"cmake_args", "cmake_build_args"} -> Seq(Words)]
    BY LinesAreWords DEF Driver!NextCommand, DriverInv, DriverTypes, Scripts
  <2>2. settings' = Driver!Defaults(script, environment)'
    BY <2>1 DEF Driver!NextCommand, Driver!Defaults
  <2>3. (script \in Scripts /\ environment \in [{"cmake_args", "cmake_build_args"} -> Seq(Words)]
           => Driver!Defaults(script, environment) \in [DOMAIN Driver!Options -> Seq(Words)])'
    BY DefaultsType, PTL
  <2>4. script' \in Scripts /\ 0 \in 0..Len(argv')
    BY <2>1 DEF Scripts
  <2> QED
    BY <2>1, <2>2, <2>3, <2>4 DEF Driver!NextCommand, DriverTypes
<1>2. settings' = Driver!Defaults(script, environment)'
  BY DEF Driver!NextCommand, Driver!Defaults
<1> QED
  BY <1>1, <1>2, BeginsNext DEF Driver!NextCommand, Begun, Driver!Nothing

LEMMA SecondTool ==
    ASSUME NEW a, NEW c PROVE Append(<<a>>, c) = <<a, c>>
<1>1. <<a>> \in Seq({a, c}) /\ <<a, c>> \in Seq({a, c}) /\ Append(<<a>>, c) \in Seq({a, c})
  OBVIOUS
<1>2. Len(<<a>>) = 1 /\ Len(<<a, c>>) = 2 /\ Len(Append(<<a>>, c)) = 2
  BY <1>1
<1>3. Append(<<a>>, c)[1] = a /\ Append(<<a>>, c)[2] = c
  BY <1>1, <1>2
<1>4. \A i \in 1..2 : Append(<<a>>, c)[i] = <<a, c>>[i]
  BY <1>3
<1> QED
  BY <1>1, <1>2, <1>4, SeqEqual

\* A tool is run by a script whose words are right, and ends.
LEMMA ToolEndsKeeps ==
    ASSUME DriverInv, NEW tool, NEW S, Driver!ToolEnds(tool, S) PROVE DriverInv'
<1>1. /\ UNCHANGED <<script, argv, environment, k, parse_action, print_usage, settings>>
      /\ status = 0 /\ ~print_usage
      /\ pc = IF script = "build.bat" THEN "arch_set" ELSE "parsed"
      /\ ran' = Append(ran, tool) /\ Driver!Tools[Len(ran) + 1] = tool
      /\ pc' = IF status' = 0 /\ Len(ran') < Len(Driver!Tools) THEN pc ELSE "return"
  BY DEF Driver!ToolEnds, Driver!Awaits, Driver!call
<1>2. Driver!Tools' = Driver!Tools /\ Clean' = Clean
  BY <1>1, TablesStay DEF Clean
<1>3. Clean
  BY <1>1 DEF DriverInv, Phases
<1>4. script = "build.bat" => ToSet(settings["arch"]) \subseteq Driver!Architectures
  BY <1>1 DEF DriverInv, Phases
<1>5. ran' \in IF script = "check.sh" THEN {<<"ctest">>}
               ELSE {<<"cmake">>, <<"cmake", "cmake --build">>}
  <2>1. /\ ran \in IF script = "check.sh" THEN {<<>>, <<"ctest">>}
                   ELSE {<<>>, <<"cmake">>, <<"cmake", "cmake --build">>}
        /\ Len(ran) < Len(Driver!Tools)
    BY <1>1 DEF DriverInv, Phases
  <2>2. CASE script = "check.sh"
    <3>1. Driver!Tools = <<"ctest">>
      BY <2>2 DEF Driver!Tools
    <3>2. ran = <<>> /\ Len(ran) = 0
      BY <2>1, <2>2, <3>1
    <3>3. ran' = <<"ctest">>
      BY <1>1, <3>1, <3>2
    <3> QED
      BY <2>2, <3>3
  <2>3. CASE script # "check.sh"
    <3> DEFINE T == Driver!Tools
    <3>1. T = <<"cmake", "cmake --build">>
      BY <2>3 DEF Driver!Tools
    <3>2. T[1] = "cmake" /\ T[2] = "cmake --build" /\ Len(T) = 2
      BY <3>1
    <3> HIDE DEF T
    <3>3. Len(ran) < 2 /\ tool = T[Len(ran) + 1]
      BY <1>1, <2>1, <3>2 DEF T
    <3>4. CASE ran = <<>>
      <4>1. Len(ran) = 0 /\ ran' = <<tool>>
        BY <1>1, <3>4
      <4> QED
        <5>1. Len(ran) + 1 = 1
          BY <4>1
        <5>2. tool = "cmake"
          BY <3>2, <3>3, <5>1
        <5> QED
          BY <2>3, <4>1, <5>2
    <3>5. CASE ran = <<"cmake">>
      <4>1. Len(ran) = 1 /\ ran' = <<"cmake", tool>>
        BY <1>1, <3>5, SecondTool
      <4>2. tool = "cmake --build"
        <5>1. Len(ran) + 1 = 2
          BY <4>1
        <5> QED
          BY <3>2, <3>3, <5>1
      <4> QED
        BY <2>3, <4>1, <4>2
    <3>6. ran # <<"cmake", "cmake --build">>
      <4> SUFFICES ASSUME ran = <<"cmake", "cmake --build">> PROVE FALSE
        OBVIOUS
      <4>1. Len(ran) = 2
        OBVIOUS
      <4>2. ~(Len(ran) < 2)
        BY ONLY <4>1
      <4> QED
        BY <3>3, <4>2
    <3> QED
      BY <2>1, <2>3, <3>4, <3>5, <3>6
  <2> QED
    BY <2>2, <2>3
<1>6. Phases'
  <2>1. Driver!Architectures' = Driver!Architectures
    BY DEF Driver!Architectures
  <2>2. Phases'
    <3>1. pc' \in {pc, "return"} /\ (pc' # "return" => Len(ran') < Len(Driver!Tools'))
      BY <1>1, <1>2
    <3>2. script' = script /\ settings' = settings /\ ran' # <<>>
      <4>1. <<>> # <<"ctest">> /\ <<>> # <<"cmake">> /\ <<>> # <<"cmake", "cmake --build">>
        OBVIOUS
      <4> QED
        BY <1>1, <1>5, <4>1
    <3>3. pc \in {"parsed", "arch_set"} /\ (pc = "arch_set" => script = "build.bat")
      BY <1>1
    <3> QED
      BY <1>2, <1>3, <1>4, <1>5, <2>1, <3>1, <3>2, <3>3 DEF Phases
  <2> QED
    BY <2>2
<1> QED
  BY <1>1, <1>6, NoWord

LEMMA SetCMakeArchKeeps == ASSUME DriverInv, Driver!SetCMakeArch PROVE DriverInv'
<1>1. /\ UNCHANGED <<script, argv, environment, k, parse_action, print_usage, settings, ran>>
      /\ script = "build.bat" /\ pc = "parsed" /\ status = 0 /\ ~print_usage
      /\ \/ Driver!Last(settings["arch"]) \in Driver!Architectures /\ pc' = "arch_set" /\ UNCHANGED status
         \/ pc' = "done" /\ status' = 1
  BY DEF Driver!SetCMakeArch, Driver!call
<1>2. Clean' = Clean /\ Driver!Tools' = Driver!Tools
  BY <1>1, TablesStay DEF Clean
<1>3. Clean
  BY <1>1 DEF DriverInv, Phases
<1>4. settings["arch"] = <<Driver!Last(settings["arch"])>>
  <2>1. "arch" \in DOMAIN Driver!Options
    BY <1>1 DEF Driver!Options
  <2>2. settings["arch"] = LastAsked("arch")
    BY <2>1, ConfigCollects DEF DriverInv, SettingFits, Asked, LastAsked, Driver!IsAsked
  <2>3. Driver!Defaults(script, environment)["arch"] = <<"x64">>
    BY <1>1 DEF Driver!Defaults
  <2>4. \E w : settings["arch"] = <<w>>
    BY <2>2, <2>3 DEF LastAsked, Driver!LastWord
  <2> QED
    BY <2>4 DEF Driver!Last
<1>5. ToSet(settings["arch"]) = {Driver!Last(settings["arch"])}
  BY <1>4 DEF ToSet
<1>6. Phases'
  BY <1>1, <1>2, <1>5, <1>3 DEF DriverInv, Phases, Driver!Architectures
<1> QED
  BY <1>1, <1>6, NoWord

LEMMA DriverStepKeeps == ASSUME DriverInv, Driver!Step PROVE DriverInv'
BY HelpWordKeeps, OptionWordKeeps, ValueWordKeeps, UnknownWordKeeps, EndOfWordsKeeps, EndsKeep,
   SetCMakeArchKeeps, NextCommandKeeps DEF Driver!Step, Driver!Parse

\* cmake and ctest work only while the script that has started them waits.
Waiting ==
    /\ DriverInv
    /\ stage = "configure" => Driver!Awaits("cmake")
    /\ stage = "test" => Driver!Awaits("ctest") /\ Driver!Directory = configured

Working == {"configure", "test"}

LEMMA StepDoesNotWait == ASSUME NEW tool PROVE Driver!Step => ~Driver!Awaits(tool)
BY DEF Driver!Step, Driver!Parse, Driver!HelpWord, Driver!OptionWord, Driver!ValueWord,
       Driver!UnknownWord, Driver!PlainWord, Driver!ParseWord, Driver!EndOfWords,
       Driver!ParseFailed, Driver!PrintUsage, Driver!SetCMakeArch, Driver!Return,
       Driver!NextCommand, Driver!Awaits

LEMMA OneAwaited == ~(Driver!Awaits("cmake") /\ Driver!Awaits("ctest"))
BY DEF Driver!Awaits

LEMMA SuiteStage ==
    /\ Suite!ReadListFile \/ Suite!BuildTargets \/ Suite!RunTests =>
          stage' = stage \/ stage' \notin Working
    /\ Suite!StartBuild => stage' \notin Working
    /\ \A pg : Suite!Configure(pg) => stage' # "test"
    /\ \A j : Suite!StartCtest(j) => stage' = "test"
<1>1. Suite!ReadListFile => stage' = stage \/ stage' \notin Working
  BY DEF Suite!ReadListFile, Suite!AddTests, Suite!XfailTests, Suite!DisableTests,
         Suite!Configured, Suite!Call, Suite!Stop, Working
<1>2. Suite!BuildTargets => stage' = stage \/ stage' \notin Working
  BY DEF Suite!BuildTargets, Suite!StartCompiler, Suite!EndCompiler, Suite!EndBuild, Working
<1>3. Suite!RunTests => stage' = stage \/ stage' \notin Working
  BY DEF Suite!RunTests, Suite!RunTest, Suite!StartTest, Suite!MissProgram, Suite!ReturnStatus,
         Suite!Abort, Suite!TimeOut, Suite!WriteBlock, Suite!JudgeTest, Suite!Summarize, Working
<1>4. Suite!StartBuild => stage' \notin Working
  BY DEF Suite!StartBuild, Working
<1>5. \A pg : Suite!Configure(pg) => stage' # "test"
  BY DEF Suite!Configure
<1>6. \A j : Suite!StartCtest(j) => stage' = "test"
  BY DEF Suite!StartCtest
<1> QED
  BY <1>1, <1>2, <1>3, <1>4, <1>5, <1>6

\* When the script does nothing all that is said of it stays true.
LEMMA DriverStays ==
    ASSUME UNCHANGED driverVars
    PROVE  /\ DriverInv' = DriverInv /\ Driver!Directory' = Driver!Directory
           /\ \A tool : Driver!Awaits(tool)' = Driver!Awaits(tool)
<1>1. UNCHANGED <<script, argv, environment, k, parse_action, print_usage, settings, status, ran, pc>>
  BY DEF driverVars
<1>2. Driver!Directory' = Driver!Directory
  BY <1>1 DEF Driver!Directory
<1>3. \A tool : Driver!Awaits(tool)' = Driver!Awaits(tool)
  BY <1>1 DEF Driver!Awaits, Driver!Tools
<1>4. DriverInv' = DriverInv
  BY <1>1 DEF DriverInv, DriverTypes, ActionIsLastOption, Phases, SettingFits, Clean, IsOption, IsHelp,
     Driver!Options, Driver!OptionWords, Driver!HelpWords, Driver!Tools, Driver!HasHelp, Unknown, Driver!HasUnknown,
     Driver!Nothing, Driver!Architectures, Asked, Driver!IsAsked, Driver!ConfigIsOption, LastAsked, Driver!LastWord,
     GivenTo, Driver!Given, Driver!InOrder, Driver!Collecting, Driver!Defaults, Driver!Cardinality, ToSet
<1> QED
  BY <1>2, <1>3, <1>4

LEMMA NextWaits == Waiting /\ [Next]_vars => Waiting'
<1> SUFFICES ASSUME Waiting, [Next]_vars PROVE Waiting'
  OBVIOUS
<1>1. CASE DriverStep
  <2>1. DriverInv' /\ stage' = stage
    BY <1>1, DriverStepKeeps DEF DriverStep, Waiting, suiteVars
  <2>2. stage \notin Working
    BY <1>1, StepDoesNotWait DEF DriverStep, Waiting, Working
  <2> QED
    BY <2>1, <2>2 DEF Waiting, Working
<1>2. CASE CmakeStarts
  <2>1. Driver!Awaits("cmake") /\ stage' # "test" /\ UNCHANGED driverVars
    BY <1>2, SuiteStage DEF CmakeStarts
  <2> QED
    BY <2>1, DriverStays DEF Waiting
<1>3. CASE CmakeRuns \/ BuildRuns \/ CtestRuns \/ BuildStarts
  <2>1. /\ stage' = stage \/ stage' \notin Working
        /\ UNCHANGED <<driverVars, configured>>
    BY <1>3, SuiteStage DEF CmakeRuns, BuildRuns, CtestRuns, BuildStarts
  <2> QED
    BY <2>1, DriverStays DEF Waiting, Working
<1>4. CASE CtestStarts
  <2>1. /\ Driver!Awaits("ctest") /\ Driver!Directory = configured
        /\ UNCHANGED <<driverVars, configured>> /\ stage' = "test"
    BY <1>4, SuiteStage DEF CtestStarts
  <2> QED
    BY <2>1, DriverStays DEF Waiting
<1>5. CASE CmakeEnds \/ BuildEnds \/ CtestEnds
  <2>1. DriverInv'
    BY <1>5, ToolEndsKeeps DEF CmakeEnds, BuildEnds, CtestEnds, Waiting
  <2>2. stage' = stage /\ stage \notin Working
    BY <1>5 DEF CmakeEnds, BuildEnds, CtestEnds, suiteVars, Working
  <2> QED
    BY <2>1, <2>2 DEF Waiting, Working
<1>6. CASE CtestElsewhere
  <2>1. DriverInv'
    BY <1>6, ToolEndsKeeps DEF CtestElsewhere, Waiting
  <2>2. stage' = stage /\ Driver!Directory # configured /\ Driver!Awaits("ctest")
    BY <1>6 DEF CtestElsewhere, suiteVars, Driver!ToolEnds
  <2>3. stage \notin Working
    BY <2>2, OneAwaited DEF Waiting, Working
  <2> QED
    BY <2>1, <2>2, <2>3 DEF Waiting, Working
<1>7. CASE Finished \/ UNCHANGED vars
  <2>1. UNCHANGED <<driverVars, configured>> /\ stage' = stage
    BY <1>7 DEF Finished, Driver!Finished, Driver!vars, Driver!call, driverVars, suiteVars, vars
  <2> QED
    BY <2>1, DriverStays DEF Waiting
<1> QED
  BY <1>1, <1>2, <1>3, <1>4, <1>5, <1>6, <1>7 DEF Next

LEMMA InitWaits == Init => Waiting
<1>1. Suite!Init => stage = "idle"
  BY DEF Suite!Init
<1> QED
  BY <1>1, FirstCommand DEF Init, Waiting

\* A script starts from the defaults of its usage text or, build.bat with the
\* arguments of its tools, from the environment.
LEMMA StartsFromUsage ==
    ASSUME DriverTypes, NEW a \in DOMAIN Driver!Options
    PROVE  \/ Driver!Defaults(script, environment)[a] = Driver!UsageDefaults[a]
           \/ /\ script = "build.bat" /\ a \in {"cmake_args", "cmake_build_args"}
              /\ environment[a] # <<>>
              /\ Driver!Defaults(script, environment)[a] = environment[a]
<1> DEFINE none == [name \in {"cmake_args", "cmake_build_args"} |-> <<>>]
<1>1. CASE script = "build.bat"
  <2> DEFINE D == [e \in {environment, none} |->
                     [output_prefix |-> <<"build_windows">>, arch |-> <<"x64">>, build_config |-> <<"Debug">>,
                      cmake_args |-> e["cmake_args"], cmake_build_args |-> e["cmake_build_args"]]]
  <2>1. /\ Driver!Defaults(script, environment) = D[environment]
        /\ Driver!UsageDefaults = D[none]
    BY <1>1 DEF Driver!Defaults, Driver!UsageDefaults
  <2>2. a \in {"output_prefix", "arch", "build_config", "cmake_args", "cmake_build_args"}
    BY <1>1 DEF Driver!Options
  <2>3. none["cmake_args"] = <<>> /\ none["cmake_build_args"] = <<>>
    OBVIOUS
  <2> HIDE DEF none
  <2>4. CASE a \in {"output_prefix", "arch", "build_config"}
    BY <2>1, <2>4
  <2>5. CASE a \in {"cmake_args", "cmake_build_args"}
    BY <1>1, <2>1, <2>3, <2>5
  <2> QED
    BY <2>2, <2>4, <2>5
<1>2. CASE script \in {"build.sh", "check.sh"}
  BY <1>2 DEF Driver!Defaults, Driver!UsageDefaults
<1> QED
  BY <1>1, <1>2 DEF DriverTypes, Scripts

LEMMA WaitingSettings == Waiting => SettingsFollowWords
<1> SUFFICES ASSUME DriverInv PROVE Driver!SettingsFollowWords
  BY DEF Waiting, SettingsFollowWords
<1>1. DriverTypes /\ DOMAIN settings = DOMAIN Driver!Options
  BY DEF DriverInv, DriverTypes
<1> SUFFICES ASSUME NEW a \in DOMAIN Driver!Options
             PROVE  \/ Driver!IsAsked(Driver!Options, a, Driver!UsageDefaults[a], settings[a])
                    \/ a = "build_config" /\ Driver!ConfigIsOption
                    \/ /\ script = "build.bat" /\ a \in {"cmake_args", "cmake_build_args"}
                       /\ environment[a] # <<>>
                       /\ Driver!IsAsked(Driver!Options, a, environment[a], settings[a])
  BY <1>1 DEF Driver!SettingsFollowWords
<1>2. \/ Driver!IsAsked(Driver!Options, a, Driver!Defaults(script, environment)[a], settings[a])
      \/ a = "build_config" /\ Driver!ConfigIsOption
  BY DEF DriverInv, SettingFits, Asked
<1> QED
  BY <1>1, <1>2, StartsFromUsage

LEMMA FirstOfTwo ==
    ASSUME NEW a, NEW b
    PROVE  Len(<<a>>) = 1 /\ Len(<<a, b>>) = 2 /\ SubSeq(<<a>>, 1, 1) = SubSeq(<<a, b>>, 1, 1)
<1> DEFINE s == <<a>>
<1> DEFINE t == <<a, b>>
<1>1. Len(s) = 1 /\ Len(t) = 2 /\ s[1] = a /\ t[1] = a
  OBVIOUS
<1> HIDE DEF s, t
<1>2. /\ SubSeq(s, 1, 1) \in Seq({a}) /\ Len(SubSeq(s, 1, 1)) = 1 /\ SubSeq(s, 1, 1)[1] = a
      /\ SubSeq(t, 1, 1) \in Seq({a}) /\ Len(SubSeq(t, 1, 1)) = 1 /\ SubSeq(t, 1, 1)[1] = a
  <2>1. \A i \in 1..1 : i = 1
    OBVIOUS
  <2> QED
    BY <1>1, <2>1, SubSeqProperties
<1>3. SubSeq(s, 1, 1) = SubSeq(t, 1, 1)
  BY <1>2, SeqEqual
<1> QED
  BY <1>1, <1>3 DEF s, t

LEMMA WaitingTools == Waiting => ToolsRunLast
<1> SUFFICES ASSUME Waiting PROVE ToolsRunLast
  OBVIOUS
<1>1. DriverInv /\ Phases
  BY DEF Waiting, DriverInv
<1>2. stage \in Working => Clean
  BY <1>1 DEF Waiting, Working, Driver!Awaits, Phases
<1>3. ASSUME ran # <<>>, script = "build.bat" PROVE Driver!ToSet(Driver!LastWord(Driver!Options, "arch", <<"x64">>)) \subseteq Driver!Architectures
  <2>1. "arch" \in DOMAIN Driver!Options
    BY <1>3 DEF Driver!Options
  <2>2. settings["arch"] = Driver!LastWord(Driver!Options, "arch", <<"x64">>)
    <3>1. Driver!Defaults(script, environment)["arch"] = <<"x64">>
      BY <1>3 DEF Driver!Defaults
    <3>2. settings["arch"] = LastAsked("arch")
      BY <1>1, <2>1, ConfigCollects DEF DriverInv, SettingFits, Asked, LastAsked, Driver!IsAsked
    <3> QED
      BY <3>1, <3>2 DEF LastAsked
  <2>3. ToSet(settings["arch"]) \subseteq Driver!Architectures
    BY <1>1, <1>3 DEF Phases
  <2> QED
    BY <2>2, <2>3 DEF ToSet, Driver!ToSet
<1>4. Driver!IsPrefix(ran, Driver!Tools)
  <2>1. \/ ran = <<>>
        \/ ran = Driver!Tools
        \/ ran = <<"cmake">> /\ Driver!Tools = <<"cmake", "cmake --build">>
    BY <1>1 DEF Phases, Driver!Tools
  <2>2. Len(Driver!Tools) \in {1, 2}
    BY DEF Driver!Tools
  <2>3. CASE ran = <<>>
    <3>1. Len(ran) = 0
      BY <2>3
    <3>2. SubSeq(ran, 1, 0) = <<>> /\ SubSeq(Driver!Tools, 1, 0) = <<>>
      BY SubSeqEmpty
    <3> QED
      BY <2>2, <3>1, <3>2 DEF Driver!IsPrefix
  <2>4. CASE ran = Driver!Tools
    BY <2>2, <2>4 DEF Driver!IsPrefix
  <2>5. CASE ran = <<"cmake">> /\ Driver!Tools = <<"cmake", "cmake --build">>
    <3>1. Len(ran) = 1 /\ SubSeq(ran, 1, 1) = SubSeq(Driver!Tools, 1, 1) /\ Len(Driver!Tools) = 2
      BY <2>5, FirstOfTwo
    <3> QED
      BY <3>1 DEF Driver!IsPrefix
  <2> QED
    BY <2>1, <2>3, <2>4, <2>5
<1>5. ran # <<>> => Clean
  BY <1>1 DEF Phases
<1> QED
  BY <1>2, <1>3, <1>4, <1>5 DEF ToolsRunLast, Driver!ToolsRunLast, Clean, Unknown, Working

\* Whatever words the scripts are given and however the options are mixed,
\* every setting of build.sh 53-107, check.sh 46-90 and build.bat 98-192 is what
\* the words asked for; build.bat alone takes a bare --config for the
\* configuration, and leaves the words of the environment before the others.
THEOREM SettingsRight == Spec => []SettingsFollowWords
BY InitWaits, NextWaits, WaitingSettings, PTL DEF Spec

\* No tool runs on a command line with an unknown word or a request for help,
\* before the tools it depends on, or for an architecture there is not; cmake and
\* ctest are at work only while their script waits.
THEOREM ToolsRight == Spec => []ToolsRunLast
BY InitWaits, NextWaits, WaitingTools, PTL DEF Spec
----------------------------------------------------------------------------
\* The check for -pg follows its file through a configure that nobody disturbs:
\* the file that it opened is the one that is there, and whole once it was
\* written.  An opener of the file that is there has not removed it, so it is
\* under way or did not come to its end.

\* A configure that nobody disturbs is alone, and compiles what it wrote.
Undisturbed ==
    \A b \in Active \ disturbed :
        /\ Active = {b}
        /\ step[b] \in {"write", "try_compile"} => b \in openers
        /\ step[b] = "try_compile" => source = "whole"

OpenersUnfinished ==
    /\ source # "absent" <=> openers # {}
    /\ \A b \in openers : step[b] \in UnderWay \cup {"fatal_error", "killed"}

SoundVerdicts ==
    \A b \in Builds :
        /\ step[b] \in {"remove", "enabled"} => b \in Supports
        /\ step[b] = "fatal_error" => b \notin Supports \/ b \in disturbed

ProbeInv == ProbeTypeOK /\ Undisturbed /\ OpenersUnfinished /\ SoundVerdicts

LEMMA InitProbeInv == ProbeInit => ProbeInv
BY DEF ProbeInit, ProbeInv, ProbeTypeOK, Undisturbed, OpenersUnfinished, SoundVerdicts, Active, UnderWay

LEMMA OpenKeeps == ASSUME ProbeInv, NEW b \in Builds, Open(b) PROVE ProbeInv'
<1> USE DEF ProbeInv, Open, Goes, UnderWay
<1>1. ProbeTypeOK'
  BY DEF ProbeTypeOK, Active
<1>2. Active' = Active \cup {b}
  BY DEF ProbeTypeOK, Active
<1>3. Undisturbed'
  <2>1. CASE Active = {}
    BY <1>2, <2>1 DEF ProbeTypeOK, Undisturbed
  <2>2. CASE Active # {}
    BY <1>2, <2>2 DEF Undisturbed
  <2> QED
    BY <2>1, <2>2
<1>4. OpenersUnfinished'
  BY DEF ProbeTypeOK, OpenersUnfinished
<1>5. SoundVerdicts'
  <2> SUFFICES ASSUME NEW c \in Builds, c # b
               PROVE  /\ step[c] \in {"remove", "enabled"} => c \in Supports
                      /\ step[c] = "fatal_error" => c \notin Supports \/ c \in disturbed'
    BY DEF ProbeTypeOK, SoundVerdicts
  <2> QED
    BY DEF SoundVerdicts
<1> QED
  BY <1>1, <1>3, <1>4, <1>5

LEMMA WriteKeeps == ASSUME ProbeInv, NEW b \in Builds, Write(b) PROVE ProbeInv'
<1> USE DEF ProbeInv, Write, Goes, UnderWay
<1>1. ProbeTypeOK'
  BY DEF ProbeTypeOK
<1>2. Active' = Active
  BY DEF ProbeTypeOK, Active
<1>3. Undisturbed'
  <2>1. b \in Active
    BY DEF Active
  <2>2. CASE b \in disturbed
    BY <1>2, <2>1, <2>2 DEF Undisturbed
  <2>3. CASE b \notin disturbed
    BY <1>2, <2>1, <2>3 DEF Undisturbed, ProbeTypeOK
  <2> QED
    BY <2>2, <2>3
<1>4. OpenersUnfinished'
  BY DEF ProbeTypeOK, OpenersUnfinished
<1>5. SoundVerdicts'
  BY DEF ProbeTypeOK, SoundVerdicts
<1> QED
  BY <1>1, <1>3, <1>4, <1>5

\* The verdict: an undisturbed configure has found its file whole.
LEMMA TryCompileKeeps == ASSUME ProbeInv, NEW b \in Builds, TryCompile(b) PROVE ProbeInv'
<1> USE DEF ProbeInv, TryCompile, Goes, UnderWay
<1>1. ProbeTypeOK'
  BY DEF ProbeTypeOK
<1>2. b \in Active /\ Active' \subseteq Active
  BY DEF ProbeTypeOK, Active
<1>3. Undisturbed'
  <2> SUFFICES ASSUME NEW c \in Active' \ disturbed
               PROVE  Active' = {c} /\ step'[c] \notin {"write", "try_compile"}
    BY DEF Undisturbed
  <2>1. Active = {c} /\ c = b
    BY <1>2 DEF Undisturbed
  <2> QED
    BY <1>2, <2>1 DEF ProbeTypeOK
<1>4. OpenersUnfinished'
  BY DEF ProbeTypeOK, OpenersUnfinished
<1>5. SoundVerdicts'
  BY <1>2 DEF ProbeTypeOK, SoundVerdicts, Undisturbed
<1> QED
  BY <1>1, <1>3, <1>4, <1>5

LEMMA RemoveKeeps == ASSUME ProbeInv, NEW b \in Builds, RemoveSource(b) PROVE ProbeInv'
<1> USE DEF ProbeInv, RemoveSource, Goes, UnderWay
<1>1. ProbeTypeOK'
  BY DEF ProbeTypeOK
<1>2. b \in Active /\ Active' = Active \ {b}
  BY DEF ProbeTypeOK, Active
<1>3. Undisturbed'
  BY <1>2 DEF Undisturbed
<1>4. OpenersUnfinished'
  BY DEF OpenersUnfinished
<1>5. SoundVerdicts'
  BY DEF ProbeTypeOK, SoundVerdicts
<1> QED
  BY <1>1, <1>3, <1>4, <1>5

LEMMA KillKeeps == ASSUME ProbeInv, NEW b \in Builds, Kill(b) PROVE ProbeInv'
<1> USE DEF ProbeInv, Kill, Goes, UnderWay
<1>1. ProbeTypeOK'
  BY DEF ProbeTypeOK
<1>2. b \in Active /\ Active' = Active \ {b}
  BY DEF ProbeTypeOK, Active
<1>3. Undisturbed'
  BY <1>2 DEF Undisturbed
<1>4. OpenersUnfinished'
  BY DEF ProbeTypeOK, OpenersUnfinished
<1>5. SoundVerdicts'
  BY DEF ProbeTypeOK, SoundVerdicts
<1> QED
  BY <1>1, <1>3, <1>4, <1>5

LEMMA ProbeInvImplies == ProbeInv => ProbeIsSound
BY DEF ProbeInv, SoundVerdicts, OpenersUnfinished, ProbeIsSound, ProbeTypeOK, Active, UnderWay

\* CMakeLists.txt 54-71: an undisturbed configure reports what the compiler
\* can do, none claims support that is not there, and only configures that did
\* not succeed leave their file in the source tree.
THEOREM SoundProbe == ProbeSpec => []ProbeIsSound
<1>1. ProbeInv /\ [ProbeNext]_probeVars => ProbeInv'
  <2> SUFFICES ASSUME ProbeInv, [ProbeNext]_probeVars PROVE ProbeInv'
    OBVIOUS
  <2>1. CASE ProbeNext
    BY <2>1, OpenKeeps, WriteKeeps, TryCompileKeeps, RemoveKeeps, KillKeeps DEF ProbeNext
  <2>2. CASE UNCHANGED probeVars
    BY <2>2 DEF probeVars, ProbeInv, ProbeTypeOK, Undisturbed, OpenersUnfinished, SoundVerdicts, Active
  <2> QED
    BY <2>1, <2>2
<1> QED
  BY InitProbeInv, <1>1, ProbeInvImplies, PTL DEF ProbeSpec
============================================================================
