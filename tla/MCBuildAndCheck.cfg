\* build.sh, then check.sh; two test cases, two processors. Three build
\* directories that are configured for gprof.
CONSTANTS
    CommandLines <- MCCommandLines
    Environments <- MCEnvironments
    Cases = {"t1", "t2"}
    ListFiles <- MCListFiles
    Blocks = 2
    Processors = 2
    Builds = {"b1", "b2", "b3"}
    Supports = {"b1", "b2"}
SPECIFICATION MCSpec
INVARIANTS SettingsFollowWords ToolsRunLast VerdictsAreHonest ProbeIsSound
