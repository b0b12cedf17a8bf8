\* The same, instrumented tests run in parallel among them.
CONSTANTS
    CommandLines <- MCCommandLines
    Environments <- MCEnvironments
    Cases = {"t1", "t2"}
    ListFiles <- MCListFiles
    Blocks = 2
    Processors = 2
    Builds = {"b1", "b2", "b3"}
    Supports = {"b1", "b2"}
SPECIFICATION MCSpec
INVARIANT ProfileOfOneProcess
