------------------------------ MODULE PgProbe ------------------------------
(***************************************************************************)
(* The check of CMakeLists.txt for -pg.  A configure with PDHKR_ENABLE_PG  *)
(* writes pdhkr_pg_test.cc into the source tree, has it compiled, and      *)
(* removes it.  The source tree is shared by all build directories: their  *)
(* configures may overlap, be killed anywhere, and be run again.           *)
(*                                                                         *)
(* The file system and the compiler are external.  A file that is removed  *)
(* while it is open keeps what is still written to it from its successor.  *)
(***************************************************************************)
CONSTANTS
    Builds,   \* build directories of the source tree
    Supports  \* those whose compiler supports -pg

VARIABLES
    step,      \* what the configure of each build directory is at
    source,    \* pdhkr_pg_test.cc: absent, empty or whole
    openers,   \* the configures that have opened the file that is there
    disturbed  \* history: configures that another one has overlapped

probeVars == <<step, source, openers, disturbed>>

UnderWay == {"write", "try_compile", "remove"}

Active == { b \in Builds : step[b] \in UnderWay }

ProbeInit ==
    /\ step = [b \in Builds |-> "none"]
    /\ source = "absent"
    /\ openers = {}
    /\ disturbed = {}

Goes(b, s) == step' = [step EXCEPT ![b] = s]

\* file(WRITE), its open: a file that was left is truncated.
Open(b) ==
    /\ b \notin Active
    /\ Goes(b, "write")
    /\ source' = "empty"
    /\ openers' = openers \cup {b}
    /\ disturbed' = IF Active = {} THEN disturbed \ {b} ELSE disturbed \cup Active \cup {b}

\* file(WRITE), its write.
Write(b) ==
    /\ step[b] = "write"
    /\ Goes(b, "try_compile")
    /\ source' = IF b \in openers THEN "whole" ELSE source
    /\ UNCHANGED <<openers, disturbed>>

\* try_compile: without main nothing can be linked.  The FATAL_ERROR leaves
\* the file behind.
TryCompile(b) ==
    /\ step[b] = "try_compile"
    /\ Goes(b, IF source = "whole" /\ b \in Supports THEN "remove" ELSE "fatal_error")
    /\ UNCHANGED <<source, openers, disturbed>>

\* Mutation of RemoveSource: the name of the file is unset before.
RemoveUnset(b) ==
    /\ step[b] = "remove"
    /\ Goes(b, "enabled")
    /\ UNCHANGED <<source, openers, disturbed>>

\* file(REMOVE), of a file that may be gone.
RemoveSource(b) ==
    /\ step[b] = "remove"
    /\ Goes(b, "enabled")
    /\ source' = "absent"
    /\ openers' = {}
    /\ UNCHANGED disturbed

Kill(b) ==
    /\ b \in Active
    /\ Goes(b, "killed")
    /\ UNCHANGED <<source, openers, disturbed>>

ProbeNext ==
    \E b \in Builds : Open(b) \/ Write(b) \/ TryCompile(b) \/ RemoveSource(b) \/ Kill(b)

ProbeSpec == ProbeInit /\ [][ProbeNext]_probeVars

----------------------------------------------------------------------------
ProbeTypeOK ==
    /\ step \in [Builds -> UnderWay \cup {"none", "enabled", "fatal_error", "killed"}]
    /\ source \in {"absent", "empty", "whole"}
    /\ openers \subseteq Builds
    /\ disturbed \subseteq Builds

\* CMakeLists.txt 54-71: whatever file an earlier configure has left, one that
\* no other overlaps
\* ends with the compiler's verdict; one that is overlapped may say of a
\* compiler that it "does not support -pg" when it does, but never the other
\* way round.  The file is still in the source tree only behind configures
\* that have failed or were killed, never behind one that went well.
ProbeIsSound ==
    /\ \A b \in Builds :
          /\ step[b] = "enabled" => b \in Supports
          /\ step[b] = "fatal_error" => b \notin Supports \/ b \in disturbed
    /\ (source # "absent" /\ Active = {}) =>
          /\ openers # {}
          /\ \A b \in openers : step[b] \in {"fatal_error", "killed"}
============================================================================
