---------------------------- MODULE MixingCount ----------------------------
(***************************************************************************)
(* mixing_count of jesse_and_cookies.cc: while the least value is below    *)
(* the target, the two least values m_1 and m_2 leave the priority queue   *)
(* and m_1 + 2 * m_2 enters it.  The values are unsigned int, so the new   *)
(* one wraps at CookieWord.                                                *)
(*                                                                         *)
(* The priority queue is a function from slots to values; the slot of m_2  *)
(* is freed by a mix and the slot of m_1 holds the mixed value.  Which     *)
(* slot holds which of several equal values is left open, as it is in a    *)
(* heap.                                                                   *)
(***************************************************************************)
EXTENDS Integers, FiniteSets

CONSTANTS
    Slots,         \* positions of the values vector, as many as the longest input
    CookieValues,  \* what a value may be
    Targets,       \* what the target may be
    CookieWord     \* 2^32 on the build's platform

ASSUME CookiesAssumption ==
    /\ IsFiniteSet(Slots)
    /\ CookieWord \in Nat \ {0}
    /\ CookieValues \subseteq 0..(CookieWord - 1)
    /\ Targets \subseteq 0..(CookieWord - 1)

VARIABLES
    cookies,  \* the argument values: one for each slot in use
    target,
    queue,
    count,
    mix_pc,
    mix_result

mixVars == <<cookies, target, queue, count, mix_pc, mix_result>>

MixInit ==
    /\ cookies \in UNION { [used -> CookieValues] : used \in SUBSET Slots }
    /\ target \in Targets
    /\ queue = cookies
    /\ count = 0
    /\ mix_pc = "start"
    /\ mix_result = 0

Return(r) ==
    /\ mix_pc' = "done" /\ mix_result' = r
    /\ UNCHANGED <<cookies, target, queue, count>>

Size == Cardinality(DOMAIN queue)

\* queue.top() is queue[s]: no value is less.
IsTop(s) == \A t \in DOMAIN queue : queue[s] <= queue[t]

\* What queue.top() is after the slot s was popped.
IsSecond(s, t) == t # s /\ \A u \in DOMAIN queue \ {s} : queue[t] <= queue[u]

\* Mutation of TopReached: a value equal to the target is mixed.
TopPassed == \E s \in DOMAIN queue : IsTop(s) /\ queue[s] > target

TopReached == \E s \in DOMAIN queue : IsTop(s) /\ queue[s] >= target

ReturnIfEmpty ==
    /\ mix_pc = "start"
    /\ DOMAIN cookies = {}
    /\ Return(-1)

StartLoop ==
    /\ mix_pc = "start"
    /\ DOMAIN cookies # {}
    /\ mix_pc' = "loop"
    /\ UNCHANGED <<cookies, target, queue, count, mix_result>>

\* The same test ends the loop early and follows the loop.
ReturnCount ==
    /\ mix_pc = "loop"
    /\ TopReached
    /\ Return(count)

\* Mutation of Mixed: a sum one bit narrower than the values.
MixedNarrow(s, t) == (queue[s] + 2 * queue[t]) % (CookieWord \div 2)

\* Mutation of Mixed: both values are weighted.
MixedDoubled(s, t) == (2 * queue[s] + 2 * queue[t]) % CookieWord

Mixed(s, t) == (queue[s] + 2 * queue[t]) % CookieWord

Mix ==
    /\ mix_pc = "loop"
    /\ Size >= 2
    /\ ~TopReached
    /\ \E s, t \in DOMAIN queue :
          /\ IsTop(s) /\ IsSecond(s, t)
          /\ queue' = [u \in DOMAIN queue \ {t} |-> IF u = s THEN Mixed(s, t) ELSE queue[u]]
    /\ count' = count + 1
    /\ UNCHANGED <<cookies, target, mix_pc, mix_result>>

ReturnFailure ==
    /\ mix_pc = "loop"
    /\ Size < 2
    /\ ~TopReached
    /\ Return(-1)

Finished == mix_pc = "done" /\ UNCHANGED mixVars

MixNext ==
    \/ ReturnIfEmpty \/ StartLoop \/ ReturnCount
    \/ Mix \/ ReturnFailure \/ Finished

MixSpec == MixInit /\ [][MixNext]_mixVars /\ WF_mixVars(MixNext)

----------------------------------------------------------------------------
\* Below these limits no mix can wrap: a value that is mixed before the last
\* mix is an input or was mixed from two values below the target, so it is
\* at most Ceiling, and the last m_1 is below the target.
AtMostCeiling(v) ==
    \/ v <= 3 * (target - 1)
    \/ \E s \in DOMAIN cookies : v <= cookies[s]

WithinLimits ==
    /\ (target - 1) + 2 * (3 * (target - 1)) < CookieWord
    /\ \A s \in DOMAIN cookies : (target - 1) + 2 * cookies[s] < CookieWord

MixTypeOK ==
    /\ cookies \in UNION { [used -> CookieValues] : used \in SUBSET Slots }
    /\ target \in Targets
    /\ DOMAIN queue \subseteq DOMAIN cookies
    /\ \A s \in DOMAIN queue : queue[s] \in 0..(CookieWord - 1)
    /\ count \in Nat
    /\ mix_pc \in {"start", "loop", "done"}
    /\ mix_result \in Nat \cup {-1}

\* The comment's bound, jesse_and_cookies.cc 34-35: every mix costs a value,
\* and the last value cannot be mixed.
CountBounded ==
    /\ count + Size = Cardinality(DOMAIN cookies)
    /\ DOMAIN cookies # {} => Size >= 1

\* A count is reported only when every value left has reached the target, and
\* -1 only when a single value is left that has not.
ResultJustified ==
    mix_pc = "done" =>
        /\ mix_result # -1 => /\ mix_result = count
                          /\ \A s \in DOMAIN queue : queue[s] >= target
        /\ mix_result = -1 => /\ Size <= 1
                          /\ \A s \in DOMAIN queue : queue[s] < target

\* Within the limits the queue holds the sums the program meant: a mixed
\* value is never less than what it was mixed from.
MixesDoNotWrap ==
    [][WithinLimits =>
          \A s \in DOMAIN queue' : queue'[s] >= queue[s]]_mixVars

\* While some value is below the target no value has outgrown Ceiling: it is
\* what keeps the next mix within the word.
ValuesBounded ==
    (WithinLimits /\ \E s \in DOMAIN queue : queue[s] < target) =>
        \A s \in DOMAIN queue : AtMostCeiling(queue[s])

\* The two least values mixed without a word size; a single value stays.
MixedExactly(f) ==
    IF \A s, t \in DOMAIN f : s = t THEN f
    ELSE LET s == CHOOSE u \in DOMAIN f : \A v \in DOMAIN f : f[u] <= f[v]
             t == CHOOSE u \in DOMAIN f \ {s} : \A v \in DOMAIN f \ {s} : f[u] <= f[v]
         IN  [u \in DOMAIN f \ {t} |-> IF u = s THEN f[s] + 2 * f[t] ELSE f[u]]

\* The values after so many mixes of unbounded integers.
ExactQueue[c \in Nat] == IF c = 0 THEN cookies ELSE MixedExactly(ExactQueue[c - 1])

\* They have all reached the target.
EnoughAfter(c) ==
    DOMAIN cookies # {} /\ \A s \in DOMAIN ExactQueue[c] : ExactQueue[c][s] >= target

\* Within the limits the answer is the one unbounded integers give: the least
\* number of mixes that is enough, or -1 if not even mixing all of them is.
ResultExact ==
    (mix_pc = "done" /\ WithinLimits) =>
        LET enough == { c \in 0..Cardinality(DOMAIN cookies) : EnoughAfter(c) }
        IN  \/ mix_result = -1 /\ enough = {}
            \/ mix_result \in enough /\ \A c \in enough : mix_result <= c
============================================================================
