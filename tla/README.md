# TLA+ verification of phetdam/hackerrank

The repository holds stand-alone C++ solutions of HackerRank problems, a small
header library that turns each solution into a self-checking test program, and
the scripts that build and run them. This directory models the solutions that
carry a real algorithm, the harness they link, and the way from a command line
to a test verdict; TLC checks the models on small instances and TLAPS proves
what matters most about most of them for every input.

Source locations are relative to the repository root.

## 1. The system

### How the parts interact

```
 build.sh --runs--> cmake --reads--> CMakeLists.txt, src/CMakeLists.txt,
 build.bat                               cmake/pdhkr_testing.cmake
    |                                    probes the compiler for -pg through a file
    |                                    in the source tree; registers, marks and
    |                                    disables tests
    +-----runs--> cmake --build          compiles each solver, then its test programs
 check.sh --runs--> ctest --starts--> test programs, several at a time
                      ^                   main(): solve, then pdhkr::exit_compare
                      +--- exit status ---+         (expected text, own output)
```

The solvers call nothing but the standard library and, when built as tests,
`exit_compare`. They are sequential and keep no state between runs; what makes
them hard is not concurrency but loops whose progress or result depends on a
subtle condition, searches over hash sets in unspecified order, fixed-width
arithmetic, and data structures that are built by one function and trusted by
another. Test programs do run concurrently, and share a working directory;
build directories are configured independently, and share the source tree.

### Inventory

| Component | State | Operations | What is hard, what makes it right |
|---|---|---|---|
| `include/pdhkr/compare.hh`, `exit_compare` | two streams, the stringstream flags, the rows read, success so far | read a line, convert it, extract values, compare rows, exit | eofbit and failbit decide the loop, exceptions kill the process, blank lines; the verdict must say whether the texts match |
| `compare.hh`, `compare` of scalars | position, success so far | compare or miss a value | a tolerance relative to the smaller value; infinities and NaN |
| `compare.hh`, `to_number<T>` | the number read | convert, check the limits of `T` | which function of the standard library reads `T`; signs that wrap |
| `equal_stacks.cc` | three iterators, three totals | accumulate, trim each stack to the mean, return | progress of each pass; the greatest common height |
| `jesse_and_cookies.cc` | priority queue, count | mix, return | wrap of a mixed value; the last value left |
| `two_stack_game.cc` | two counts, two sums, best score | advance, retreat, put back | sums must follow counts through many passes; optimality |
| `roads_and_libraries.cc` | adjacency list, unvisited, connected, queue, cost | fill, start a component, visit | `connected` outlives a component; hash order |
| `journey_to_moon.cc`, with and without `NDEBUG` | adjacency list, visited, queue, country sizes | fill, search, sum products | nodes are queued several times; 32-bit products; a loop bound that underflows without astronauts |
| `subtrees_and_paths.cc` | directed graph with values, queue, stack, unvisited | insert edge, add, path, max | a depth-first search over both directions; an add without a visited set |
| `subtrees_and_paths.cc`, `USE_TREE_NODE` | binary tree, two search paths | insert or reject edge, add, prune, max | order of the edges; where the paths part |
| `swap_tree_nodes.cc` | tree, swap depth, loop counters | read children, swap at a depth, print | a depth that wraps; swaps that overlap; a missing parent |
| `tree_level_order.cc`, `tree_top_view.cc` | search tree, queue, range of columns | insert, walk | equal values; order of the walk |
| `array_manipulation.cc`, both builds | sorted intervals, merged intervals; or the array | sort, merge, maximum; or transform | every way two intervals can lie |
| `merge_sorted_linked_lists.cc` | three lists of owned nodes, two cursors | create, merge, print | progress on equal heads; ownership |
| `node_from_tail.cc` | list, length, cursor | create, count, walk | unsigned distance from the tail |
| `running_median.cc` | sorted vector, medians | insert, median | the middle indices; int overflow |
| `max_stack_element.cc` | deque | push, pop, max | undefined behaviour on an empty deque |
| `build.sh`, `build.bat`, `check.sh` | parse action, settings, `$?` or `ERRORLEVEL` | parse a word, set the architecture, run tools, return | status of `[`; which option a word belongs to; variables inherited from the environment |
| `cmake/pdhkr_testing.cmake`, ctest | registered, expected-to-fail, disabled tests; compiled targets; processes | add, mark, compile, run, kill, judge | order of the calls; a crash, a time limit or a missing program is no expected failure; one `gmon.out` for all |
| `CMakeLists.txt`, check for `-pg` | one file in the source tree | write, try to compile, remove | configures of several build directories overlap, are killed, fail |
| rest of the CMake configuration, support headers, data | none that matters here | | not modelled, see section 7 |

## 2. Modules

A program is one module: its variables are the program's, `Init` gives its
inputs and initial values, an action is one loop body or call, `Finished`
stutters when the process has ended. Hash-set iteration is a choice `\E x \in
S`. Unsigned arithmetic is `% Word`. An exception that nothing catches ends
with `pc = "abort"`, undefined behaviour with `pc = "undefined"` (or with a
choice over what the build can produce, as for the uninitialised value of
`vector_compare`).

| Module | Models | Notes |
|---|---|---|
| `ExitCompare` | `exit_compare`, `vector_compare`, `scalar_compare`, `to_number`, `compare` | `is_vector` is the instantiation; a token is its number of tenths, so that `std::stoi` stopping at a point is visible |
| `ToleranceCompare` | `compare` of vectors of scalars, exact and floating | a floating value is a significand of so many bits times a power of two, in units of the smallest one; the difference and the product with the tolerance are each rounded to the significand, to nearest and ties to even; infinities and NaN are apart |
| `ToNumber` | `to_number<T>` for integral `T` | `Wide` and `Narrow` are the numbers of values of a word and of a smaller type; a numeral is a sign, a prefix that sets the base, and digits |
| `Harness` | the composition of these three, one of which runs | |
| `EqualStacks` | `max_equal_height` | `SuffixSum` gives sums without recursion |
| `MixingCount` | `mixing_count` | the queue is a function from slots to values |
| `TwoStackGame` | `max_game_score` | `PrefixSum` sums the front of a stack |
| `StackGames` | the composition of `EqualStacks` and `TwoStackGame`, one of which runs | |
| `AdjacencyList` | `adjacency_list` of the two graph programs | with reachability as the reference |
| `RoadsAndLibraries`, `JourneyToMoon` | the function of that name | `ndebug` is the macro, on which the reading of an empty vector depends |
| `GraphSearches` | the composition of the last two, one of which runs | |
| `SubtreeQueries` | what either build of `subtrees_and_paths.cc` promises | abstract: an add reaches a whole subtree at once, a max is over the nodes that every way passes |
| `SubtreesAndPaths`, `SubtreesTreeNode` | the two builds | |
| `TreePositions` | `binary_tree_node` | a node is its position, the turns that lead to it |
| `BstInsert` | `bst_insert` and the reading loop, which two programs share word for word | extended by the next two |
| `TreeLevelOrder`, `TreeTopView` | `operator<<` of the two views | |
| `SwapTreeNodes` | `swap_tree_nodes.cc` | |
| `TreePrograms` | the composition of the five programs on trees, one of which runs | with the mapping of both builds of `subtrees_and_paths` to `SubtreeQueries` |
| `ArrayUpdates` | what either build of `array_manipulation.cc` promises | abstract: each operation adds to its stretch, then the maximum is reported |
| `ArrayManipulation` | both builds | `use_array_update` is the macro |
| `LinkedList` | `list_node`, on a heap of nodes | |
| `MergeLists`, `NodeFromTail`, `RunningMedian`, `MaxStackElement` | the program of that name | |
| `SequencePrograms` | the composition of `ArrayManipulation` and these four, one of which runs | with the mapping of `ArrayManipulation` to `ArrayUpdates` |
| `DriverScript` | `build.sh`, then `check.sh`; or `build.bat` | `script` says which; their options are tables |
| `TestSuite` | the three functions of `pdhkr_testing.cmake`, the order in which targets are compiled, ctest with its time limit, the test processes, `gmon.out` | CMake, the compiler, ctest and the profiler are external, modelled as the repository relies on them |
| `PgProbe` | the check for `-pg` of `CMakeLists.txt`, in any number of build directories | each step of a configure is an action, and it may be killed before any of them |
| `BuildAndCheck` | the composition of `DriverScript` and `TestSuite` | a script waits for its tool, cmake takes the profiling option from `-Ca`, ctest obeys the `-j` of `-Ct`, tests run only in the directory that was built |

`MC*` modules choose the instances; `MCSequencePrograms` runs one of
`SequencePrograms`, `StackGames` and `MixingCount`. Where several programs, or the two builds of
one, are in one run, a variable says which is run, the others' variables stay as
they are, and each property is guarded by the program it is about. The `*Proofs`
modules hold theorems.

## 3. Runs

| Run | Instance | What it shows |
|---|---|---|
| `harness` | texts of at most two lines of rows, or three of scalars: clean, blank, padded, oversized; vectors of up to two scalars, exact or of two floating types, with infinities and NaN; signed numerals of up to two digits, in three bases | `VerdictExact`: on what the solvers print, success means equal numbers, and the process is not killed. `VerdictOnRows`: on anything, equal rows. `KilledByFatalLine`: a process dies on a line with a number out of range and more behind it, or for scalars on one that is no number, and on nothing else. `MatchIsWithinTolerance`: what `compare` accepts is within the tolerance of both values but for rounding, what is within it is accepted. `NumbersAreKept`: a number comes back from `to_number` as it was written or not at all, but for negative ones read as unsigned. `Terminates` |
| `graph_searches` | all graphs of up to four nodes, with doubled, reversed and reflexive edges; layers of five and two triangles of six; no node at all | `ResultIsCheapest` over all choices of roads; `ResultIsPairCount`, and where memory is read outside; `CountriesAreWhole`; `QueueBounded`: no more copies of a node in the queue than simple paths to it from where the search began; `Termination` |
| `trees` | both builds of `subtrees_and_paths`: all labelled trees of up to four nodes, two adds and a max, every order of the edges in the tree build, unknown queries; up to five insertions of four values; trees of four nodes, two swap depths | `ImplementsQueries` (refinement, liveness included); `SearchKeepsPath`: the depth-first search can always still reach its target, and pruning keeps the nearest common ancestor; `SearchOrder`, `OutputIsLevels`, `OutputIsTopView`, `SwapsAreParity`; `LinesAreInorder`: each line lists the nodes from left to right as the swaps so far have left the input tree; `Termination` |
| `sequence_programs` | lists of up to four values, two cases in a row, five medians of values of either sign, six stack queries, up to three operations on four elements in both builds of `array_manipulation`; triples of stacks of up to three blocks; pairs of stacks of up to three values with zeros, six limits; four cookies, targets within and beyond the limits of the word | `PrintedIsMerge`, `ListsStayApart`, `PrintedFromTail`, `MediansSplit`, `PrintedIsMaxAlive`; `ImplementsUpdates` (refinement, liveness included); `MergedApart`: merged intervals stay sorted and disjoint with the right values, and no merge throws. `HeightIsBest`; `NeverOvershoots`: no trim passes a common height; `EachPassTrims`: no pass is idle; `SumFits`: the sum of the totals does not wrap; `ScoreIsBest` over all splits; `SumsFollowCounts`. `ResultJustified`, `ResultExact`: the count of unbounded arithmetic; `MixesDoNotWrap`, an action property. `EveryProgramEnds` |
| `build_and_check` | command lines of up to three words for each script, two environments for `build.bat`, six list files for two test cases, two processors; apart from them three build directories for the check for `-pg` | `SettingsFollowWords`: each setting is what the words after its options ask for, but for the two deviations of `build.bat` that section 6 tells of; `ToolsRunLast`, `VerdictsAreHonest`; `ProbeIsSound`: no configure claims support that is not there, one that nobody overlaps is right, and the file stays only behind one that failed or was killed |
| `harness_same_text` | texts of clean and blank lines | violated: see section 6 |
| `medians_truncated` | texts of medians | violated: see section 6 |
| `infinities` | the vectors of `harness` | violated: see section 6 |
| `driver_bad_args`, `usage_followed`, `parallel_profile` | as `build_and_check` | violated: see section 6 |
| `rooted_adds` | the graph build of `trees` | violated: see section 6 |

Every property of a passing run has a mutation of a modelled definition that
breaks it, kept as a definition beside it ("Mutation of ..."), so that none
holds by the shape of the model.

### Bounds, and why they are enough

* Texts: a difference between two texts is in a row, in its length or in the
  number of rows; two lines a side (three for scalars) show each at the first,
  the last and a line past the end. `MaxRow = 4` stands for memory: a row of a
  clean line has at most two values, so only the endless loop reaches it.
* Scalars: two values a side show a match, a mismatch and a missing value in
  either order. One floating type has three bits and a tolerance of 1/16, below
  its precision, as `float` with 1e-8 has; the other four bits and 3/16, above
  it, as `double` with 1e-12 has. With five and four exponents above the smallest
  one every value of theirs is compared with every other, the largest included,
  so that differences and products are rounded, tie, and overflow. Both are
  checked for every finite value the type has.
* Numerals: `Wide = 32` and `Narrow = 8` values put two digits, in any of the
  three bases, on both sides of every limit.
* Three stacks of blocks, at most three in each: some stack is trimmed twice, one runs out, heights are
  reached with zeros in between. `EqualWord = 19` is the least word that holds three
  totals of six.
* Four mixed values: three mixes, the last of which leaves one value. `CookieWord =
  32` puts targets on either side of its limits.
* Two stacks of three: enough for an advance, a retreat and two put-backs.
  `GameWord = 22` is the least that holds the limit and the largest value.
* Graphs of four nodes have every shape of two components, a cycle and a
  diamond. The two inputs of six astronauts queue a node twice, by two paths of
  the same length with one behind it, and make the largest product. `Word = 10`
  is the least that holds it, `SizeWord = 7` the least that holds the number of
  astronauts; the loop bound of no astronauts wraps to it.
* Trees of four nodes have a fork under an inner node and a path of four, so
  that the search meets a dead end and both directions. Two adds and one max
  are enough for an add to be seen by, and hidden from, a max.
* Three intervals on four elements: every two can be apart, touching, nested,
  equal or overlapping, and the third meets the outcome of a merge.
* Five insertions make a column of three nodes and two nodes of one column at
  one depth. `Word = 16` for swap depths exceeds twice the number of nodes,
  which the real word does by far.
* `MaxInt = 5` is just below the sum of the two largest values used, and -6 above
  twice the least, so that the sum of two middle values leaves `int` at both ends.
* Three words are an option, a word for it and a word more, or two options and
  a word. Two tests and two processors are the least at which processes, and
  compilers, overlap. A `gmon.out` of two blocks is the least that can be mixed.
* Three build directories: one of which is overlapped by another while the
  third, whose compiler has no `-pg`, comes before or after.

### Fairness and deadlock

The specification of a program has `WF_vars(Next)` only: a sequential process that can take
a step takes it. That is what an operating system grants a process that is not
blocked, and none of the programs waits for anything. `SubtreeQueries` and
`ArrayUpdates` state as their liveness that all queries are answered, or the
result given; the programs implement that part too. Of `BuildAndCheck` and
`PgProbe` no liveness is claimed: that their tools end is up to the tools, and
the loops of the scripts run over a fixed list of words. They need no fairness.
Deadlock is checked in every run; a finished process stutters.

## 4. Proofs

Proofs are for every value of the constants: stacks, texts and queues of any
size.

* `StackGamesProofs`: `TypeCorrect`, and of the two programs:
  - `BestHeight` (`HeightIsBest`), `NoOvershoot` (`NeverOvershoots`), `PassTrims`
    (`EachPassTrims`), `SumNeverWraps` (`SumFits`). `EqualInv` adds to the types
    that totals follow the tops and that no height common to the three stacks
    has been passed: with the totals equal, that makes the result the greatest.
    `ThirdsAddUp` is why the sum of the totals does not wrap, and
    `TrimKeepsCommon` why trimming above the mean passes no common height,
    every common height being at most the least total.
  - `BestScore` (`ScoreIsBest`), `ScoreInvariants` (`SumsFollowCounts`). `GameInv`
    says where in a pass the code is (`Phases`, `LastStepOnly`), that sums follow
    counts, that for each number of values from A the pass takes as many of B as
    fit (`PassIsMaximal`), that what has been put back was counted
    (`PutBackLosesNothing`) and that the best score is one that could be had
    (`BestWasHad`).
* `ExitCompareProofs`: `TypeCorrect`, `VerdictOnRowsHolds`,
  `VerdictExactHolds`. `IInv` is the types, `Reading` (for clean texts the
  finished rows are the numbers of their lines, the open row a beginning of
  its line, the stream flags what that implies) and `Comparing`
  (`test_success` says whether the rows so far agree). The verdict is neither
  inductive nor about rows that are read, hence both. `KilledByFatalLineHolds`
  rests on `FatalInv`: an extraction that has not failed has read one number for
  each token, and one that has failed short of the end of its line is on a fatal
  one (`Extracting`). Of the other two parts:
  - `ScalarsWithinTolerance` (`MatchIsWithinTolerance`): `ScalarsInv` says that
    `matches` is what the scalars compared so far come to. Then it is arithmetic
    on values rounded to so many bits: each side of the comparison is off by half
    of its spacing at most (`RoundedToIs`), rounding keeps order
    (`RoundedToMonotone`), so what is within the tolerance is accepted; and two
    values that differ do so by a multiple of the spacing around the smaller one
    (`SidesFit`, `NoMultiple`), which exceeds a product with a tolerance below the
    precision. It covers all finite values, with any number of bits and any range
    of exponents, and tolerances from above zero to one.
  - `NumbersKept` (`NumbersAreKept`): `NumberInv` says what has been read of a
    decimal numeral before the limits of a narrow type are looked at; the rest
    is what wrapping does to a negative number (`NegativeWraps`, `WrittenIs`). No
    digit is looked at: the model and the reader fold the same digits, and that
    the fold is a number at all is `NumberIsNat`.
* `MixingCountProofs`: `CountAndResult`, `NoWrap`, `ExactCount` (`ResultExact`). `IInv` bounds the queue's
  values and ties its size to the count; `NoWrap` follows as an action
  property, since a mix takes a value below the target and one that is either
  given or itself a mix. For `ExactCount`, `ExactSoFar` adds that the queue is that
  of unbounded integers after as many mixes, up to which slot holds which of
  several equal values (`Matched`), and that fewer mixes were not enough;
  `MatchedMix` is why a mix keeps the two matched.
* `GraphSearchesProofs`, for any graph, any costs and any order in which the hash
  sets and maps are walked. Components are least closed sets
  (`ConnectedIsLeast`), those of two nodes the same or apart
  (`ConnectedIsShared`).
  - `CheapestPlan` (`ResultIsCheapest`): `Charging` says what is charged at each
    pass, a library for each component so far and a road for each city that is
    not the first of its component; that nothing waits in the queue twice; and
    that all that is next to a visited city has been found. So an empty queue
    means that the component is complete (`GroupCharged`), and the total at the
    end is that of a forest. `CheapestRoads` is why nothing is cheaper: an added
    road joins two components or none (`JoinCounts`), hence some of the roads
    are a forest that joins what all of them do (`ForestExists`), and fewer roads
    leave as many components more (`RoadsNeeded`); then the cost is between
    those of the forest and of no road (`LeastIsLeast`).
  - `CountriesRight` (`CountriesAreWhole`): though an astronaut may wait in the
    queue several times, all that has been reached is of one country, and what
    is next to a visited astronaut has been reached (`Searching`), so that an
    empty queue means a whole country (`SearchOver`), counted once (`Tallied`).
  - `PairsRight` (`ResultIsPairCount`): those whom no pair mentions are countries
    of one, as many as the entries that are added (`SinglesAdded`); the pass of
    the sum for one country adds the pairs of it with later ones (`ChosenGrows`),
    no product wrapping (`ProductFits`) because two countries share at most n;
    and at the end every two strangers have been chosen in one order
    (`ChosenOnce`). `OuterEnds` says where the loop ends, and why only with no
    astronaut at all it does not end before the vector does.
  - `QueueIsBounded` (`QueueBounded`): `QueueInv` gives each entry of the queue a
    path from the start of the search (`CameAlong`): no node twice on it, all but
    the last visited, and none of these paths the start of another. The last part
    is why two copies never share a path: a head that is searched, even a second
    time, leaves with its path, and only longer ones come in (`QueueGoesOn`,
    `StaysApart`). The start is among the keys that the outer loop has passed. That `SimplePaths` counts at least the paths there are is by
    induction over the nodes left (`TrailsCounted`), its recursion having a
    solution (`OnwardEnds`).
* `BuildAndCheckProofs`, for any command lines, any finite set of test cases, any
  list file, any number of jobs and blocks.
  - `DrivenVerdicts` (`VerdictsAreHonest`): `SuiteInv` ties each stage to the one
    before it: the marks are those of the calls made (`MarksFollowCalls`), a test
    program is compiled after its host (`HostFirst`), only built programs of
    enabled tests are run (`ProcessesRunTests`) and a verdict says what became of
    the process (`VerdictsFollowProcesses`). Each step of the scripts, the tools
    and the tests is a step of `TestSuite` or leaves it alone.
  - `SettingsRight` (`SettingsFollowWords`) and `ToolsRight` (`ToolsRunLast`), of
    the scripts: `DriverInv` says that the parse action is that of the last option
    read (`ActionIsLastOption`), that each setting is what the words read so far
    ask for, after its default or what the environment held (`SettingFits`), and how far `main` can have come (`Phases`); `Waiting`
    adds that a tool is at work only while its script waits for it.
  - `SoundProbe` (`ProbeIsSound`), for any set of build directories and of
    compilers with `-pg`: `ProbeInv` says what the file is while a configure that
    nobody has overlapped is at each of its steps, and that only a whole file is
    compiled with success.
* `SequenceProgramsProofs`, of lists, sequences and queries of any length, each
  program by an inductive invariant of its own:
  - `TailIsRight` (`PrintedFromTail`): nodes are chained in the order of their
    values, and the count and the walk are as far as the cursor (`TailWalks`);
  - `StackIsRight` (`PrintedIsMaxAlive`): the deque holds the pushes that no pop
    has taken back, in their order. A push is alive if between it and now there
    are more pushes than pops at each point; `Holds` says that the x-th element
    from the top belongs to the last query with a surplus of x;
  - `MediansAreRight` (`MediansSplit`): the vector is a sorted arrangement of the
    values read (`IsSorting`), whose k-th element is the k-th smallest value,
    counted with repetitions;
  - `MergeIsRight` (`PrintedIsMerge`) and `MergeKeepsApart` (`ListsStayApart`):
    the heap is the two lists as they were read, then the merged one, which is
    an ascending arrangement of what the cursors have passed, none of it above
    what is left (`Weaving`).
  - `ArrayIsRight` (`MergedApart`) and `ArrayFollowsUpdates`, the safety part
    of `ImplementsUpdates`: the initial states of both builds are initial
    states of `ArrayUpdates`, and each step applies one pending operation
    over its whole span, reports the maximum, or changes nothing
    `ArrayUpdates` tells of. `ArrayInv` says that the intervals are apart and
    in order, span what the operations merged so far span, and begin no
    further right than the last of them; hence an operation can overlap the
    last interval only, and `right_merge` never throws.
* `TreeProgramsProofs`, of the programs on trees, for any values, any tree and any
  swap depths. A tree is a function from positions, sequences of turns, closed
  under taking beginnings; two positions are the same or part at one turn
  (`SamePosition`), and `LevelBefore` orders them as a level order walk does.
  - `TreesSearchOrder` (`SearchOrder`): `InsertInv` says that the tree is a search
    tree of the values inserted and that a descent has so far turned as the
    value demands (`Fits`); so where it attaches, order is kept with every node,
    not only with the parent.
  - `TreesOutputIsLevels` (`OutputIsLevels`): `LevelsInv` says that the nodes
    printed, followed by those in the queue, are a `Walk`: in level order, without
    repetition, holding the children of the nodes printed and nothing else. A
    step keeps it (`WalkStep`), and a walk that is over has every node.
  - `TreesOutputIsTopView` (`OutputIsTopView`): `ViewInv` adds what the range and
    the nodes seen are after a number of nodes (`Seen`): the values of the first
    node of each column visited, which is the topmost. A parent's column is next
    to its child's, so that a new column is just outside the range.
  - `TreesSwapsAreParity` (`SwapsAreParity`): while children are read the tree is
    `Grown` by them, no ID at two places; hence its branches are shorter than
    the number of nodes (`BranchIsShort`), and with `2 n < Word` a depth that
    wraps below zero does not come back to zero in the tree. While it is swapped
    (`SwappedInv`), the node read at a position is at the one turned at each
    depth swapped an odd number of times, and a swap at one multiple turns
    just that depth.
* `SubtreesProofs`, of both builds of `subtrees_and_paths`, for any tree, any order
  of its edges and any queries. It rests on `TreeProgramsProofs`, whose
  positions and components it uses.
  - `TreesSearchKeepsPath` (`SearchKeepsPath`). In the default build `GraphInv`
    says of a search (`Searching`) that its stack is a path without repetition
    whose nodes but the last are visited, and that the target is in reach of
    one of them through nodes that are not. A step that moves on splits what is in reach
    at the node it leaves (`ReachSplits`); one that goes back leaves a node from
    which nothing unvisited can be reached (`DeadEnd`). In the other build
    `NodeInv` says how many nodes both paths have lost (`Pruned`) and that these
    are a common beginning.
  - `TreesFollowQueries`, the safety part of `ImplementsQueries`: the initial
    states of either build are initial states of `SubtreeQueries`, and each step
    is one of its steps or leaves alone all that it tells of. An add of the
    default build takes a step for each node and is one step of `SubtreeQueries`,
    the one that empties the queue; until then the values it is to see are those
    before the add. `QueuedOnce` says that the subtrees of the queued nodes do
    not overlap, so that each node is raised once although there is no set of
    visited nodes; subtrees of siblings do not overlap because each edge of a
    tree is a bridge (`Bridge`, `ChildrenApart`). A max is right because a simple
    path holds all that cannot be avoided and nothing else (`PathIsWay`), and,
    in the other build, because the branches below the last shared node do
    (`WayIs`).
  That the edges form a tree is an assumption on the inputs; that the edges of a
  tree are bridges, and that it is in one piece with one edge less than nodes,
  is proved from it, by induction over the edges (`PiecesLeft`, `InOnePiece`).

The library's induction theorems take the predicate as a parameter, which the
provers cannot instantiate; `Induction` is the one that is used, over sets of
naturals: a set that holds 0, and with a number the next one, holds all. It is
what sums over operations, surpluses of queries, powers of two, rows of mixes and
chains of nodes are followed with, and what `SetInduction`, over the parts of a
finite set, and `SumIs`, of the community modules' sum over a function, rest on; a
model that recurs does it by a recursive function on the naturals
(`LinkedList!Walk`, `ToleranceCompare!Power`, `ExactQueue`) or on finite sets (`SimplePaths`), not with RECURSIVE
operators, and that such a function exists is proved (`WalkIs`, `PowerIs`,
`ExactQueueIs`, `OnwardEnds`).

Assumptions, each named in its module and evaluated by TLC on the instances:
`SuffixSumOK` says what the sum of a stretch is and that sums of naturals are
monotone; `ProblemLimits` that the sums the code forms fit in a word, as the
limits of the problems grant; `VectorAssumption` that programs which print rows
print integers, no row of which exceeds memory;
`TypesAssumption`, `TypesOK`, `StacksOK` and `InputsOK` give the kinds of the constants, and of the
inputs of the tree programs that they are trees and name nodes that are there.

## 5. What is only model-checked

Liveness, which needs fairness and enabledness: `Terminates`, `Termination`,
`EveryProgramEnds` and the liveness part of the two refinements. Of the
invariants that passing runs check, `LinesAreInorder` alone is not a theorem as
well: what the recursion over a tree lists is only checked on trees of up to four
nodes.

## 6. Where code and comments part

Shown by a run:

* `harness_same_text`: `compare.hh:451` says of `vector_compare` that it returns
  true if results match. A blank line makes it push a value it has not
  assigned (`compare.hh:465`), one in each text, so a text need not match
  itself. `merge_sorted_linked_lists` prints such a line for two empty lists.
* `medians_truncated`: `compare.hh:537` says of `exit_compare` that it returns
  success if results match. `running_median.cc:97` instantiates it with `int`
  although medians are printed with one decimal: `std::stoi` stops at the
  point, and 1.0 passes for 1.5.
* `rooted_adds`: `subtrees_and_paths.cc:547` says "add value to all nodes rooted
  at subtree". Line 511 takes the end of an edge with the lower ID for the
  parent, so an add does not reach a child with a lower ID than its parent. The
  header (line 9) calls the rooted tree of the problem "a lie", and
  `src/src/CMakeLists.txt:27` lists tests 2 and 3 as failing; the edges recorded
  for them do form a tree rooted at 1, and the recorded answers are those of
  that tree. `SubtreeQueries` promises what the code does, subtrees by ID.
* `infinities`: `compare.hh:131` says of `compare` that it returns true if results
  match, `false` otherwise. The difference of infinity and its opposite is
  infinite and so is the smaller of their sizes times the tolerance, so opposite
  infinities match; that of two equal ones is a NaN, so equal ones do not
  (`compare.hh:180`).
* `usage_followed`: `UsageIsFollowed` says that a command line made of what the
  usage text allows is not refused, and that tools then run with what the text
  says. The trace has `check.sh` refuse `-t`, which `check.sh:24` and `check.sh:33`
  document for the directory of the tests; line 56 knows `-o` and `--output-dir`
  instead. With that option left out of the instance TLC shows `build.bat`
  violate the property twice more: `CMAKE_BUILD_ARGS` or `CMAKE_ARGS` of the
  environment reach the tools although nobody passed them (line 159), and,
  without these, a bare `--config` sets the configuration to "--config" (line
  135). With all three left out no violation is found. `SettingsFollowWords`,
  which passes, says exactly this much of `build.bat`.
* `parallel_profile`: `CMakeLists.txt:29` says "do *not* run tests in parallel if
  instrumentation is enabled; the test programs will all try to write to the
  same gmon.out". `check.sh:116` passes `-j$(nproc)` whatever was built, and the
  trace ends with blocks of two processes in one `gmon.out`.
* `driver_bad_args`: `build.sh:127` and `check.sh:106` say "parse args and exit
  if error". `if [ $? -ne 0 ]; then return $?; fi` returns the status of `[`,
  which is 0: a rejected command line succeeds.

Met while modelling; the models contain the behaviour, no run is spent on it:

* `jesse_and_cookies.cc:66`: a mixed value wraps in `unsigned int` for targets
  above a seventh of its range, and the count is then wrong.
* `subtrees_and_paths.cc:533`: nodes are inserted with edges only; in a tree of
  one node the graph build reports the least int, the other build 0.
* `compare.hh:60`: a tolerance of 1e-8 is below the precision of `float`, for which
  the comparison is exact.
* `compare.hh`, `to_number`: `strtoull` negates within its type after a minus
  sign, so a negative number read as an unsigned `long` comes back as a large
  one, and one just above -2^64 as a small `unsigned int`.
* `journey_to_moon.cc:259`: for no astronauts `countries_size - 1` wraps. Without
  `NDEBUG` the loop reads outside the vector; with it the inner loop is never
  entered and the outer one counts to the largest size.
* `CMakeLists.txt:56`: a failed check for `-pg` leaves `pdhkr_pg_test.cc` in the
  source tree, and overlapping configures of two build directories may make one
  of them say that the compiler "does not support -pg" when it does.
* `check.sh:118` returns 0 whatever ctest returned.

## 7. What is not modelled

* The rest of the CMake configuration: compiler flags, standard, version, the
  lookup of `gprof`.
* `type_traits.hh`, `string.hh`, `testing.hh`, `common.h`, `features.h`:
  compile-time traits, message formatting, macros.
* `to_number` of a floating type, which is `std::stof`, `std::stod` or
  `std::stold`.
* How long external tools take, and that they end. A tolerance of zero or above one,
  given to `compare` by a caller; there is none.
* Wording of messages, colours, widths; stream buffering; heap exhaustion other
  than by the endless loop of the harness; the depth of the call stack.
* Inputs the problems rule out: swap depth 0, a tree of no nodes.
* The recorded data under `src/data`.

## 8. Plan

Order in which the project is built, most important first; all of it is
done.

1. The harness and its proofs: every verdict in the repository rests on it.
2. The solvers whose loops argue by an invariant (`EqualStacks`, `MixingCount`,
   `TwoStackGame`), with proofs.
3. The graph, tree, interval and list programs, with the two abstract
   specifications and their refinements.
4. Scripts, registration and test processes, composed.
5. The rest of the harness (`ToleranceCompare`, `ToNumber`), `build.bat`,
   compilation and time limits, the check for `-pg`; proofs of the test suite
   driven by the scripts, and of the check for `-pg`.
6. Proofs of the scripts, of mixing against unbounded integers, of the programs on
   lists, sequences, graphs and search trees, of swapping, and of the rest of the
   harness; the safety part of `ImplementsUpdates`.
7. Proofs of both builds of `subtrees_and_paths`: `SearchKeepsPath` and the safety
   part of `ImplementsQueries`; of the bound on the queue of `journey_to_moon`.
8. Floating values with significand and exponent, and the proof about them; the runs
   that show where the scripts and `compare` part from their texts.
