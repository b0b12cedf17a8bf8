-------------------------- MODULE MCBuildAndCheck --------------------------
(* Command lines of at most three words: options of each script, -h, a word *)
(* that is a directory or an architecture (and an unknown option when it    *)
(* comes first) and the words that the tests depend on.  List files for two *)
(* test cases: marks on one, on both and twice on one, marks before the     *)
(* tests are added, a test added twice, a call without test cases.          *)
(*                                                                          *)
(* Apart from that (part "probe"), three build directories, one of whose    *)
(* compilers has no -pg, are configured with it again and again.            *)
EXTENDS BuildAndCheck, PgProbe

VARIABLE part

MCLines(words, length) == UNION { [1..n -> words] : n \in 0..length }

MCCommandLines ==
    [s \in {"build.sh", "build.bat", "check.sh"} |->
        CASE s = "build.sh" -> MCLines({"-o", "-c", "-Ca", "-Cb", "-h", "dir", PgWord}, 3)
          [] s = "build.bat" -> MCLines({"-o", "-a", "-c", "--config", "-Ca", "-h", "arm", "dir"}, 3)
          [] s = "check.sh" -> MCLines({"-o", "-t", "-Ct", "-h", "dir", OneJobWord}, 3)]

MCEnvironments ==
    [s \in {"build.sh", "build.bat"} |->
        [{"cmake_args", "cmake_build_args"} -> IF s = "build.sh" THEN {<<>>} ELSE {<<>>, <<"-Wdev">>}]]

MCCall(fun, cases) == [fun |-> fun, cases |-> cases]

Add(cases) == MCCall("pdhkr_add_tests", cases)
Xfail(cases) == MCCall("pdhkr_xfail_tests", cases)
Disable(cases) == MCCall("pdhkr_disable_tests", cases)

MCListFiles ==
    { <<Add(Cases), Disable({"t2"}), Xfail(Cases)>>,
      <<Add({"t1"}), Xfail({"t1"}), Add({"t2"})>>,
      <<Xfail({"t1"}), Add(Cases)>>,
      <<Add({"t1"}), Disable({"t2"}), Add({"t2"})>>,
      <<Add(Cases), Add({"t1"})>>,
      <<Add({}), Add(Cases)>> }

\* While the one part moves, the other rests at its beginning.
MCInit ==
    \/ part = "build" /\ Init /\ ProbeInit
    \/ part = "probe" /\ script = "build.sh" /\ argv = <<>> /\ Init /\ ProbeInit

MCNext ==
    \/ part = "build" /\ Next /\ UNCHANGED <<part, probeVars>>
    \/ part = "probe" /\ ProbeNext /\ UNCHANGED <<part, vars>>

MCSpec == MCInit /\ [][MCNext]_<<part, vars, probeVars>>
============================================================================
