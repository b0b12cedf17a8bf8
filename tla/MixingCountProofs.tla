------------------------- MODULE MixingCountProofs -------------------------
(***************************************************************************)
(* mixing_count mixes at most one time less than there are values, reports *)
(* a count only when every value has reached the target, and, for inputs   *)
(* within the limits, never wraps.                                         *)
(*                                                                         *)
(* The last needs ValuesBounded, which a mix preserves for a reason of two *)
(* halves: if m_2 is below the target the mixed value is at most           *)
(* 3 * (target - 1); otherwise every value has reached the target after    *)
(* the mix, and nothing is mixed again.                                    *)
(*                                                                         *)
(* Hence within the limits the answer is that of unbounded integers: the   *)
(* queue is matched with the exact one after as many mixes (ExactSoFar).   *)
(***************************************************************************)
EXTENDS MixingCount, FiniteSetTheorems, NaturalsInduction, WellFoundedInduction, TLAPS

LEMMA ModBelow ==
    ASSUME NEW m \in Nat, NEW w \in Nat \ {0}, m < w
    PROVE  m % w = m
OBVIOUS

LEMMA ModRange ==
    ASSUME NEW m \in Nat, NEW w \in Nat \ {0}
    PROVE  m % w \in 0..(w - 1)
OBVIOUS

\* At most one element: any two are the same.
LEMMA AtMostOne ==
    ASSUME NEW S, IsFiniteSet(S), Cardinality(S) < 2, NEW x \in S, NEW y \in S
    PROVE  x = y
<1>1. Cardinality(S) \in Nat /\ Cardinality(S) # 0
  BY FS_CardinalityType, FS_EmptySet
<1>2. Cardinality(S) = 1
  BY <1>1
<1>3. \E z : S = {z}
  BY <1>2, FS_Singleton
<1> QED
  BY <1>3

\* The argument, whose slots are finitely many.
LEMMA FiniteSlots ==
    ASSUME cookies \in UNION { [used -> CookieValues] : used \in SUBSET Slots }
    PROVE  /\ IsFiniteSet(DOMAIN cookies)
           /\ \A s \in DOMAIN cookies : cookies[s] \in 0..(CookieWord - 1)
<1>1. PICK used \in SUBSET Slots : cookies \in [used -> CookieValues]
  OBVIOUS
<1> QED
  BY <1>1, FS_Subset, CookiesAssumption

\* What the parts of the state know of each other at every point.
IInv ==
    /\ MixTypeOK
    /\ CountBounded
    /\ ResultJustified
    /\ ValuesBounded
    /\ mix_pc = "start" => queue = cookies /\ count = 0

LEMMA FiniteQueue ==
    ASSUME MixTypeOK
    PROVE  IsFiniteSet(DOMAIN queue) /\ Size \in Nat
BY FiniteSlots, FS_Subset, FS_CardinalityType DEF MixTypeOK, Size

LEMMA InductiveInit == MixInit => IInv
<1> SUFFICES ASSUME MixInit PROVE IInv
  OBVIOUS
<1>1. IsFiniteSet(DOMAIN cookies) /\ \A s \in DOMAIN cookies : cookies[s] \in 0..(CookieWord - 1)
  BY FiniteSlots DEF MixInit
<1>2. MixTypeOK
  BY <1>1 DEF MixInit, MixTypeOK
<1>3. CountBounded
  <2>1. Cardinality(DOMAIN cookies) \in Nat
    BY <1>1, FS_CardinalityType
  <2>2. DOMAIN cookies # {} => Cardinality(DOMAIN cookies) # 0
    BY <1>1, FS_EmptySet
  <2> QED
    BY <2>1, <2>2 DEF MixInit, CountBounded, Size
<1>4. ValuesBounded
  BY <1>1 DEF MixInit, ValuesBounded, AtMostCeiling
<1> QED
  BY <1>2, <1>3, <1>4 DEF MixInit, IInv, ResultJustified

\* A mix of the least value m and the next, v, does not wrap, within limits.
LEMMA MixExact ==
    ASSUME IInv, WithinLimits, mix_pc = "loop", ~TopReached,
           NEW s \in DOMAIN queue, NEW t \in DOMAIN queue, IsTop(s)
    PROVE  /\ queue[s] \in Nat /\ queue[t] \in Nat /\ queue[s] <= target - 1
           /\ Mixed(s, t) = queue[s] + 2 * queue[t]
<1>1. /\ queue[s] \in Nat /\ queue[t] \in Nat /\ target \in Nat /\ CookieWord \in Nat \ {0}
  BY CookiesAssumption DEF IInv, MixTypeOK
<1>2. queue[s] <= target - 1
  BY <1>1 DEF TopReached
<1>3. AtMostCeiling(queue[t])
  BY <1>1, <1>2 DEF IInv, ValuesBounded
<1>4. queue[s] + 2 * queue[t] < CookieWord
  <2>1. CASE queue[t] <= 3 * (target - 1)
    BY <2>1, <1>1, <1>2 DEF WithinLimits
  <2>2. CASE \E u \in DOMAIN cookies : queue[t] <= cookies[u]
    <3>1. PICK u \in DOMAIN cookies : queue[t] <= cookies[u]
      BY <2>2
    <3>2. cookies[u] \in Nat /\ (target - 1) + 2 * cookies[u] < CookieWord
      BY FiniteSlots, CookiesAssumption DEF IInv, MixTypeOK, WithinLimits
    <3> QED
      BY <1>1, <1>2, <3>1, <3>2
  <2> QED
    BY <2>1, <2>2, <1>3 DEF AtMostCeiling
<1>5. queue[s] + 2 * queue[t] \in Nat
  BY <1>1
<1> QED
  BY <1>1, <1>2, <1>4, <1>5, ModBelow DEF Mixed

\* A mix.
LEMMA MixStep == IInv /\ Mix => IInv'
<1> SUFFICES ASSUME IInv, Mix PROVE IInv'
  OBVIOUS
<1>1. PICK s \in DOMAIN queue, t \in DOMAIN queue :
         /\ IsTop(s) /\ IsSecond(s, t)
         /\ queue' = [u \in DOMAIN queue \ {t} |-> IF u = s THEN Mixed(s, t) ELSE queue[u]]
  BY DEF Mix
<1>2. /\ mix_pc = "loop" /\ Size >= 2 /\ ~TopReached /\ count' = count + 1 /\ s # t
      /\ UNCHANGED <<cookies, target, mix_pc, mix_result>>
  BY <1>1 DEF Mix, IsSecond
<1>3. /\ DOMAIN queue' = DOMAIN queue \ {t} /\ s \in DOMAIN queue'
      /\ queue'[s] = Mixed(s, t)
      /\ \A u \in DOMAIN queue' : u # s => queue'[u] = queue[u]
  BY <1>1, <1>2
<1>4. /\ \A u \in DOMAIN queue : queue[u] \in 0..(CookieWord - 1)
      /\ CookieWord \in Nat \ {0} /\ count \in Nat /\ target \in Nat
  BY CookiesAssumption DEF IInv, MixTypeOK
<1>5. Mixed(s, t) \in 0..(CookieWord - 1)
  <2>1. queue[s] + 2 * queue[t] \in Nat
    BY <1>4
  <2> QED
    BY <1>4, <2>1, ModRange DEF Mixed
<1>6. MixTypeOK'
  BY <1>2, <1>3, <1>4, <1>5 DEF IInv, MixTypeOK
<1>7. CountBounded'
  <2>1. IsFiniteSet(DOMAIN queue) /\ Size \in Nat
    BY FiniteQueue DEF IInv
  <2>2. Size' = Size - 1
    BY <1>3, <2>1, FS_RemoveElement DEF Size
  <2> QED
    BY <1>2, <1>4, <2>1, <2>2 DEF IInv, CountBounded
<1>8. ValuesBounded'
  <2> SUFFICES ASSUME WithinLimits, NEW v \in DOMAIN queue', queue'[v] < target,
                      NEW u \in DOMAIN queue'
               PROVE  AtMostCeiling(queue'[u])
    BY <1>2 DEF ValuesBounded, WithinLimits, AtMostCeiling
  <2>1. /\ queue[s] \in Nat /\ queue[t] \in Nat /\ queue[s] <= target - 1
        /\ queue'[s] = queue[s] + 2 * queue[t]
    BY <1>1, <1>2, <1>3, MixExact
  <2>2. queue[s] < target
    BY <1>4, <2>1
  <2>3. queue[t] <= target - 1
    <3> SUFFICES ASSUME queue[t] >= target PROVE FALSE
      BY <1>4
    <3>1. CASE v = s
      BY <2>1, <3>1, <1>4
    <3>2. CASE v # s
      BY <3>2, <1>1, <1>3, <1>4 DEF IsSecond
    <3> QED
      BY <3>1, <3>2
  <2>4. CASE u = s
    BY <2>4, <2>1, <2>3, <1>4 DEF AtMostCeiling
  <2>5. CASE u # s
    BY <2>5, <1>3, <2>2 DEF IInv, ValuesBounded
  <2> QED
    BY <2>4, <2>5
<1> QED
  BY <1>2, <1>6, <1>7, <1>8 DEF IInv, ResultJustified

\* The three returns.
LEMMA ReturnSteps ==
    IInv /\ (ReturnIfEmpty \/ ReturnCount \/ ReturnFailure) => IInv'
<1> SUFFICES ASSUME IInv, ReturnIfEmpty \/ ReturnCount \/ ReturnFailure PROVE IInv'
  OBVIOUS
<1>1. UNCHANGED <<cookies, target, queue, count>> /\ mix_pc' = "done"
  BY DEF ReturnIfEmpty, ReturnCount, ReturnFailure, Return
<1>2. mix_result' \in Nat \cup {-1}
  BY DEF ReturnIfEmpty, ReturnCount, ReturnFailure, Return, IInv, MixTypeOK
<1>3. MixTypeOK' /\ CountBounded' /\ ValuesBounded'
  BY <1>1, <1>2 DEF IInv, MixTypeOK, CountBounded, Size, ValuesBounded, WithinLimits, AtMostCeiling
<1>4. IsFiniteSet(DOMAIN queue) /\ Size \in Nat /\ count \in Nat /\ target \in Nat
      /\ \A s \in DOMAIN queue : queue[s] \in Nat
  BY FiniteQueue, CookiesAssumption DEF IInv, MixTypeOK
<1>5. ResultJustified'
  <2>1. CASE ReturnIfEmpty
    <3>1. DOMAIN queue = {} /\ mix_result' = -1
      BY <2>1 DEF ReturnIfEmpty, Return, IInv
    <3>2. Size = 0
      BY <3>1, FS_EmptySet DEF Size
    <3> QED
      BY <1>1, <3>1, <3>2 DEF ResultJustified, Size
  <2>2. CASE ReturnCount
    <3>1. PICK s \in DOMAIN queue : IsTop(s) /\ queue[s] >= target
      BY <2>2 DEF ReturnCount, TopReached
    <3>2. \A u \in DOMAIN queue : queue[u] >= target
      BY <1>4, <3>1 DEF IsTop
    <3>3. mix_result' = count /\ count # -1
      BY <2>2, <1>4 DEF ReturnCount, Return
    <3> QED
      BY <1>1, <3>2, <3>3 DEF ResultJustified
  <2>3. CASE ReturnFailure
    <3>1. Size < 2 /\ ~TopReached /\ mix_result' = -1
      BY <2>3 DEF ReturnFailure, Return
    <3>2. ASSUME NEW u \in DOMAIN queue PROVE queue[u] < target
      <4>1. \A w \in DOMAIN queue : w = u
        BY <1>4, <3>1, AtMostOne DEF Size
      <4>2. IsTop(u)
        BY <1>4, <4>1 DEF IsTop
      <4> QED
        BY <1>4, <3>1, <4>2 DEF TopReached
    <3>3. Size <= 1
      BY <1>4, <3>1
    <3> QED
      BY <1>1, <3>1, <3>2, <3>3 DEF ResultJustified, Size
  <2> QED
    BY <2>1, <2>2, <2>3
<1> QED
  BY <1>1, <1>3, <1>5 DEF IInv

LEMMA InductiveNext == IInv /\ [MixNext]_mixVars => IInv'
<1> SUFFICES ASSUME IInv, [MixNext]_mixVars PROVE IInv'
  OBVIOUS
<1>1. CASE StartLoop
  BY <1>1 DEF StartLoop, IInv, MixTypeOK, CountBounded, Size, ResultJustified, ValuesBounded,
              WithinLimits, AtMostCeiling
<1>2. CASE Finished \/ UNCHANGED mixVars
  BY <1>2 DEF Finished, mixVars, IInv, MixTypeOK, CountBounded, Size, ResultJustified, ValuesBounded,
              WithinLimits, AtMostCeiling
<1> QED
  BY <1>1, <1>2, MixStep, ReturnSteps DEF MixNext

\* Types, the comment's bound on the count, and what a result means
\* (jesse_and_cookies.cc 34-35 and 41-73), for inputs of every length.
THEOREM CountAndResult == MixSpec => [](MixTypeOK /\ CountBounded /\ ResultJustified /\ ValuesBounded)
<1>1. IInv => MixTypeOK /\ CountBounded /\ ResultJustified /\ ValuesBounded
  BY DEF IInv
<1> QED
  BY <1>1, InductiveInit, InductiveNext, PTL DEF MixSpec

\* Within the limits no mixed value wraps (jesse_and_cookies.cc 66).
THEOREM NoWrap == MixSpec => MixesDoNotWrap
<1> DEFINE Grows == WithinLimits => \A s \in DOMAIN queue' : queue'[s] >= queue[s]
<1>1. ASSUME IInv, MixNext PROVE Grows
  <2>1. \A s \in DOMAIN queue : queue[s] \in Nat
    BY <1>1, CookiesAssumption DEF IInv, MixTypeOK
  <2>2. CASE Mix
    <3> SUFFICES ASSUME WithinLimits, NEW u \in DOMAIN queue' PROVE queue'[u] >= queue[u]
      OBVIOUS
    <3>1. PICK s \in DOMAIN queue, t \in DOMAIN queue :
             /\ IsTop(s)
             /\ queue' = [w \in DOMAIN queue \ {t} |-> IF w = s THEN Mixed(s, t) ELSE queue[w]]
      BY <2>2 DEF Mix
    <3>2. Mixed(s, t) = queue[s] + 2 * queue[t]
      BY <1>1, <2>2, <3>1, MixExact DEF Mix
    <3> QED
      BY <2>1, <3>1, <3>2
  <2>3. CASE UNCHANGED queue
    BY <2>1, <2>3
  <2> QED
    BY <1>1, <2>2, <2>3 DEF MixNext, ReturnIfEmpty, StartLoop, ReturnCount, ReturnFailure,
                            Return, Finished, mixVars
<1>2. IInv /\ [MixNext]_mixVars => [Grows]_mixVars
  BY <1>1
<1> QED
  BY <1>2, InductiveInit, InductiveNext, PTL DEF MixSpec, MixesDoNotWrap

----------------------------------------------------------------------------
\* The mixes against those of unbounded integers.  Which slot holds which of
\* several equal values is left open, so the two queues are only matched: p
\* leads from the slots of f to those of g.
Matching(p, f, g) ==
    /\ p \in [DOMAIN f -> DOMAIN g]
    /\ \A u, v \in DOMAIN f : p[u] = p[v] => u = v
    /\ \A w \in DOMAIN g : \E u \in DOMAIN f : p[u] = w
    /\ \A u \in DOMAIN f : g[p[u]] = f[u]

Matched(f, g) == \E p : Matching(p, f, g)

Without(f, a) == [u \in DOMAIN f \ {a} |-> f[u]]

With(f, a, x) == [u \in DOMAIN f \cup {a} |-> IF u = a THEN x ELSE f[u]]

\* Equal values may leave both queues.
LEMMA MatchedWithout ==
    ASSUME NEW f, NEW g, Matched(f, g), NEW a \in DOMAIN f, NEW b \in DOMAIN g, f[a] = g[b]
    PROVE  Matched(Without(f, a), Without(g, b))
<1>1. PICK p : Matching(p, f, g)
  BY DEF Matched
<1>2. /\ p \in [DOMAIN f -> DOMAIN g]
      /\ \A u, v \in DOMAIN f : p[u] = p[v] => u = v
      /\ \A w \in DOMAIN g : \E u \in DOMAIN f : p[u] = w
      /\ \A u \in DOMAIN f : g[p[u]] = f[u]
  BY <1>1 DEF Matching
<1> DEFINE D == DOMAIN f \ {a}
           E == DOMAIN g \ {b}
           q == [u \in D |-> IF p[u] = b THEN p[a] ELSE p[u]]
<1>3. \A u \in D : u \in DOMAIN f /\ u # a /\ p[u] # p[a]
  BY <1>2
<1>4. DOMAIN Without(f, a) = D /\ DOMAIN Without(g, b) = E
  BY DEF Without
<1>5. \A u \in D : q[u] = (IF p[u] = b THEN p[a] ELSE p[u])
  OBVIOUS
<1>6. \A u \in D : q[u] \in E
  BY <1>2, <1>3
<1>7. q \in [D -> E]
  <2>1. q = [u \in D |-> q[u]]
    OBVIOUS
  <2> HIDE DEF q, D, E
  <2> QED
    BY <1>6, <2>1
<1> HIDE DEF q
<1>8. ASSUME NEW u \in D, NEW v \in D, q[u] = q[v] PROVE u = v
  <2>1. CASE p[u] = b
    <3>1. q[u] = p[a] /\ q[v] = p[a]
      BY <1>5, <1>8, <2>1
    <3>2. p[v] = b
      BY <1>3, <1>5, <3>1
    <3> QED
      BY <1>2, <1>3, <2>1, <3>2
  <2>2. CASE p[u] # b
    <3>1. q[u] = p[u] /\ q[v] = p[u]
      BY <1>5, <1>8, <2>2
    <3>2. p[v] # b
      BY <1>3, <1>5, <3>1
    <3> QED
      BY <1>2, <1>3, <1>5, <3>1, <3>2
  <2> QED
    BY <2>1, <2>2
<1>9. ASSUME NEW w \in E PROVE \E u \in D : q[u] = w
  <2>1. PICK u \in DOMAIN f : p[u] = w
    BY <1>2
  <2>2. CASE u = a
    <3>1. PICK v \in DOMAIN f : p[v] = b
      BY <1>2
    <3>2. v \in D /\ q[v] = w
      BY <1>5, <2>1, <2>2, <3>1
    <3> QED
      BY <3>2
  <2>3. CASE u # a
    <3>1. u \in D /\ q[u] = w
      BY <1>5, <2>1, <2>3
    <3> QED
      BY <3>1
  <2> QED
    BY <2>2, <2>3
<1>10. ASSUME NEW u \in D PROVE Without(g, b)[q[u]] = Without(f, a)[u]
  <2>1. q[u] \in E /\ Without(g, b)[q[u]] = g[q[u]] /\ Without(f, a)[u] = f[u]
    BY <1>6 DEF Without
  <2>2. g[q[u]] = f[u]
    BY <1>2, <1>3, <1>5
  <2> QED
    BY <2>1, <2>2
<1>11. Matching(q, Without(f, a), Without(g, b))
  BY <1>4, <1>7, <1>8, <1>9, <1>10 DEF Matching
<1> QED
  BY <1>11 DEF Matched

\* And enter both.
LEMMA MatchedWith ==
    ASSUME NEW f, NEW g, Matched(f, g), NEW a, NEW b, a \notin DOMAIN f, b \notin DOMAIN g, NEW x
    PROVE  Matched(With(f, a, x), With(g, b, x))
<1>1. PICK p : Matching(p, f, g)
  BY DEF Matched
<1>2. /\ p \in [DOMAIN f -> DOMAIN g]
      /\ \A u, v \in DOMAIN f : p[u] = p[v] => u = v
      /\ \A w \in DOMAIN g : \E u \in DOMAIN f : p[u] = w
      /\ \A u \in DOMAIN f : g[p[u]] = f[u]
  BY <1>1 DEF Matching
<1> DEFINE D == DOMAIN f \cup {a}
           E == DOMAIN g \cup {b}
           q == [u \in D |-> IF u = a THEN b ELSE p[u]]
<1>3. \A u \in DOMAIN f : p[u] \in DOMAIN g /\ p[u] # b /\ u # a
  BY <1>2
<1>4. /\ DOMAIN With(f, a, x) = D /\ DOMAIN With(g, b, x) = E
      /\ \A u \in D : With(f, a, x)[u] = IF u = a THEN x ELSE f[u]
      /\ \A w \in E : With(g, b, x)[w] = IF w = b THEN x ELSE g[w]
  BY DEF With
<1>5. \A u \in D : q[u] = (IF u = a THEN b ELSE p[u]) /\ q[u] \in E
  BY <1>3
<1>6. q \in [D -> E]
  <2>1. q = [u \in D |-> q[u]]
    OBVIOUS
  <2> HIDE DEF q, D, E
  <2> QED
    BY <1>5, <2>1
<1> HIDE DEF q
<1>7. \A u, v \in D : q[u] = q[v] => u = v
  BY <1>2, <1>3, <1>5
<1>8. ASSUME NEW w \in E PROVE \E u \in D : q[u] = w
  <2>1. CASE w = b
    BY <1>5, <2>1
  <2>2. CASE w # b
    <3>1. PICK u \in DOMAIN f : p[u] = w
      BY <1>2, <2>2
    <3>2. u \in D /\ q[u] = w
      BY <1>3, <1>5, <3>1
    <3> QED
      BY <3>2
  <2> QED
    BY <2>1, <2>2
<1>9. \A u \in D : With(g, b, x)[q[u]] = With(f, a, x)[u]
  BY <1>2, <1>3, <1>4, <1>5
<1>10. Matching(q, With(f, a, x), With(g, b, x))
  BY <1>4, <1>6, <1>7, <1>8, <1>9 DEF Matching
<1> QED
  BY <1>10 DEF Matched

IsLeast(f, s) == s \in DOMAIN f /\ \A u \in DOMAIN f : f[s] <= f[u]

\* A queue has a least value where one that matches it has, and the same one.
LEMMA MatchedLeast ==
    ASSUME NEW f, NEW g, Matched(f, g), \A u \in DOMAIN f : f[u] \in Nat, NEW s, IsLeast(f, s)
    PROVE  /\ \E w : IsLeast(g, w)
           /\ \A w : IsLeast(g, w) => g[w] = f[s]
<1>1. PICK p : Matching(p, f, g)
  BY DEF Matched
<1>2. /\ p \in [DOMAIN f -> DOMAIN g]
      /\ \A w \in DOMAIN g : \E u \in DOMAIN f : p[u] = w
      /\ \A u \in DOMAIN f : g[p[u]] = f[u]
  BY <1>1 DEF Matching
<1>3. \A w \in DOMAIN g : g[w] \in Nat /\ f[s] <= g[w]
  <2> SUFFICES ASSUME NEW w \in DOMAIN g PROVE g[w] \in Nat /\ f[s] <= g[w]
    OBVIOUS
  <2>1. PICK u \in DOMAIN f : p[u] = w
    BY <1>2
  <2>2. g[w] = f[u] /\ f[s] <= f[u]
    BY <1>2, <2>1 DEF IsLeast
  <2> QED
    BY <2>2
<1>4. s \in DOMAIN f /\ p[s] \in DOMAIN g /\ g[p[s]] = f[s] /\ f[s] \in Nat
  BY <1>2 DEF IsLeast
<1>5. IsLeast(g, p[s])
  BY <1>3, <1>4 DEF IsLeast
<1>6. ASSUME NEW w, IsLeast(g, w) PROVE g[w] = f[s]
  <2>1. w \in DOMAIN g /\ g[w] <= g[p[s]]
    BY <1>4, <1>6 DEF IsLeast
  <2> QED
    BY <1>3, <1>4, <2>1
<1> QED
  BY <1>5, <1>6

\* A mix takes two values out and puts one in.
Mixing(h, a, b, m) == [u \in DOMAIN h \ {b} |-> IF u = a THEN m ELSE h[u]]

LEMMA MixIsWith ==
    ASSUME NEW h, NEW a \in DOMAIN h, NEW b \in DOMAIN h, a # b, NEW m
    PROVE  Mixing(h, a, b, m) = With(Without(Without(h, a), b), a, m)
<1>1. DOMAIN Without(h, a) = DOMAIN h \ {a} /\ \A u \in DOMAIN h \ {a} : Without(h, a)[u] = h[u]
  BY DEF Without
<1>2. /\ DOMAIN Without(Without(h, a), b) = (DOMAIN h \ {a}) \ {b}
      /\ \A u \in (DOMAIN h \ {a}) \ {b} : Without(Without(h, a), b)[u] = h[u]
  BY <1>1 DEF Without
<1>3. ((DOMAIN h \ {a}) \ {b}) \cup {a} = DOMAIN h \ {b}
  OBVIOUS
<1> QED
  BY <1>2, <1>3 DEF With, Mixing

\* A mix keeps queues matched.
LEMMA MatchedMix ==
    ASSUME NEW f, NEW g, Matched(f, g), \A u \in DOMAIN f : f[u] \in Nat,
           NEW s, NEW t, IsLeast(f, s), IsLeast(Without(f, s), t)
    PROVE  Matched(Mixing(f, s, t, f[s] + 2 * f[t]), MixedExactly(g))
<1> DEFINE x == f[s] + 2 * f[t]
           Mix2(h, a, b, m) == With(Without(Without(h, a), b), a, m)
<1>1. s \in DOMAIN f /\ t \in DOMAIN f /\ t # s /\ Without(f, s)[t] = f[t]
  BY DEF IsLeast, Without
<1>2. \A u \in DOMAIN Without(f, s) : Without(f, s)[u] \in Nat
  BY DEF Without
<1> DEFINE c == CHOOSE u \in DOMAIN g : \A v \in DOMAIN g : g[u] <= g[v]
           d == CHOOSE u \in DOMAIN g \ {c} : \A v \in DOMAIN g \ {c} : g[u] <= g[v]
<1>3. IsLeast(g, c) /\ g[c] = f[s]
  <2>1. \E w : IsLeast(g, w)
    BY MatchedLeast
  <2>2. \E u \in DOMAIN g : \A v \in DOMAIN g : g[u] <= g[v]
    BY <2>1 DEF IsLeast
  <2>3. IsLeast(g, c)
    BY <2>2 DEF IsLeast
  <2> QED
    BY <2>3, MatchedLeast
<1> HIDE DEF c
<1>4. c \in DOMAIN g
  BY <1>3 DEF IsLeast
<1>5. Matched(Without(f, s), Without(g, c))
  BY <1>1, <1>3, <1>4, MatchedWithout
<1>6. IsLeast(Without(g, c), d) /\ Without(g, c)[d] = f[t]
  <2>1. \E w : IsLeast(Without(g, c), w)
    BY <1>2, <1>5, MatchedLeast
  <2>2. DOMAIN Without(g, c) = DOMAIN g \ {c} /\ \A u \in DOMAIN g \ {c} : Without(g, c)[u] = g[u]
    BY DEF Without
  <2>3. \E u \in DOMAIN g \ {c} : \A v \in DOMAIN g \ {c} : g[u] <= g[v]
    BY <2>1, <2>2 DEF IsLeast
  <2>4. d \in DOMAIN g \ {c} /\ \A v \in DOMAIN g \ {c} : g[d] <= g[v]
    BY <2>3
  <2> HIDE DEF d
  <2>5. IsLeast(Without(g, c), d)
    BY <2>2, <2>4 DEF IsLeast
  <2> QED
    BY <1>1, <1>2, <1>5, <2>5, MatchedLeast
<1> HIDE DEF d
<1>7. d \in DOMAIN g /\ d # c /\ g[d] = f[t] /\ d \in DOMAIN Without(g, c)
  BY <1>6 DEF IsLeast, Without
<1>8. t \in DOMAIN Without(f, s)
  BY DEF IsLeast
<1>9. Matched(Without(Without(f, s), t), Without(Without(g, c), d))
  BY <1>1, <1>5, <1>6, <1>7, <1>8, MatchedWithout
<1>10. s \notin DOMAIN Without(Without(f, s), t) /\ c \notin DOMAIN Without(Without(g, c), d)
  BY DEF Without
<1>11. Matched(Mix2(f, s, t, x), Mix2(g, c, d, x))
  BY <1>9, <1>10, MatchedWith
<1>12. MixedExactly(g) = Mixing(g, c, d, g[c] + 2 * g[d])
  <2>1. ~ \A u, v \in DOMAIN g : u = v
    BY <1>4, <1>7
  <2> QED
    BY <2>1 DEF MixedExactly, Mixing, c, d
<1>13. MixedExactly(g) = Mix2(g, c, d, x)
  <2>1. g[c] + 2 * g[d] = x
    BY <1>3, <1>7
  <2> HIDE DEF x
  <2> QED
    BY <1>4, <1>7, <1>12, <2>1, MixIsWith
<1>14. Mixing(f, s, t, x) = Mix2(f, s, t, x)
  BY <1>1, MixIsWith
<1> QED
  BY <1>11, <1>13, <1>14

\* Natural numbers: the least of a set, and induction from it.
LEMMA Smaller ==
    ASSUME NEW x \in Nat, NEW y \in Nat, x < y PROVE <<x, y>> \in OpToRel(<, Nat)
BY DEF OpToRel

LEMMA Least ==
    ASSUME NEW T, T \subseteq Nat, T # {} PROVE \E x \in T : \A y \in T : x <= y
<1>1. PICK x \in T : \A y \in T : ~ (<<y, x>> \in OpToRel(<, Nat))
  BY NatLessThanWellFounded, WFMin
<1>2. ASSUME NEW y \in T PROVE x <= y
  <2>1. ~(y < x)
    BY <1>1, Smaller
  <2> QED
    BY <2>1
<1> QED
  BY <1>1, <1>2

LEMMA Induction ==
    ASSUME NEW T, 0 \in T, \A m \in Nat : m \in T => m + 1 \in T PROVE Nat \subseteq T
<1> SUFFICES ASSUME Nat \ T # {} PROVE FALSE
  OBVIOUS
<1>1. PICK x \in Nat \ T : \A y \in Nat \ T : x <= y
  BY Least
<1>2. x # 0 /\ x - 1 \in Nat /\ x - 1 \in T
  BY <1>1
<1> QED
  BY <1>1, <1>2

\* A function that says what the exact queues up to n are.
QueuesTo(f, n, h) ==
    /\ h[0] = f
    /\ \A c \in 1..n : h[c] = MixedExactly(h[c - 1])

LEMMA QueuesExist == ASSUME NEW f PROVE \A n \in Nat : \E h : QueuesTo(f, n, h)
<1> DEFINE T == { n \in Nat : \E h : QueuesTo(f, n, h) }
<1>1. 0 \in T
  <2> DEFINE h == [c \in 0..0 |-> f]
  <2>1. QueuesTo(f, 0, h)
    BY DEF QueuesTo
  <2> QED
    BY <2>1
<1>2. ASSUME NEW n \in Nat, n \in T PROVE n + 1 \in T
  <2>1. PICK h : QueuesTo(f, n, h)
    BY <1>2
  <2> DEFINE x == MixedExactly(h[n])
             g == [c \in 0..(n + 1) |-> IF c = n + 1 THEN x ELSE h[c]]
  <2> HIDE DEF x
  <2>2. \A c \in 0..n : g[c] = h[c]
    OBVIOUS
  <2>3. g[n + 1] = x
    OBVIOUS
  <2> HIDE DEF g
  <2>4. g[0] = f
    BY <2>1, <2>2 DEF QueuesTo
  <2>5. ASSUME NEW c \in 1..(n + 1) PROVE g[c] = MixedExactly(g[c - 1])
    <3>1. c - 1 \in 0..n /\ g[c - 1] = h[c - 1]
      BY <2>2
    <3>2. CASE c = n + 1
      <4>1. c - 1 = n
        BY <3>2
      <4> QED
        BY <2>3, <3>1, <3>2, <4>1 DEF x
    <3>3. CASE c # n + 1
      <4>1. c \in 1..n /\ g[c] = h[c]
        BY <2>2, <3>3
      <4> QED
        BY <2>1, <3>1, <4>1 DEF QueuesTo
    <3> QED
      BY <3>2, <3>3
  <2>6. QueuesTo(f, n + 1, g)
    BY <2>4, <2>5 DEF QueuesTo
  <2> QED
    BY <2>6
<1> HIDE DEF T
<1>3. Nat \subseteq T
  BY <1>1, <1>2, Induction
<1> QED
  BY <1>3 DEF T

\* Two of them agree where both say something.
LEMMA QueuesAgree ==
    ASSUME NEW f, NEW m \in Nat, NEW n \in Nat, m <= n, NEW g, NEW h, QueuesTo(f, m, g), QueuesTo(f, n, h)
    PROVE  \A c \in 0..m : g[c] = h[c]
<1> DEFINE T == { c \in Nat : c <= m => g[c] = h[c] }
<1>1. 0 \in T
  BY DEF QueuesTo
<1>2. ASSUME NEW c \in Nat, c \in T PROVE c + 1 \in T
  <2> SUFFICES ASSUME c + 1 <= m PROVE g[c + 1] = h[c + 1]
    OBVIOUS
  <2>1. g[c] = h[c] /\ c + 1 \in 1..m /\ c + 1 \in 1..n /\ (c + 1) - 1 = c
    BY <1>2
  <2> QED
    BY <2>1 DEF QueuesTo
<1> HIDE DEF T
<1>3. Nat \subseteq T
  BY <1>1, <1>2, Induction
<1> QED
  BY <1>3 DEF T

\* So the recursive definition has a value for every number of mixes.
LEMMA ExactQueueIs ==
    /\ ExactQueue[0] = cookies
    /\ \A c \in Nat : ExactQueue[c + 1] = MixedExactly(ExactQueue[c])
<1> DEFINE p(n) == CHOOSE h : QueuesTo(cookies, n, h)
           f == [n \in Nat |-> p(n)[n]]
<1>1. \A n \in Nat : QueuesTo(cookies, n, p(n))
  BY QueuesExist
<1> HIDE DEF p
<1>2. ASSUME NEW n \in Nat PROVE f[0] = cookies /\ f[n + 1] = MixedExactly(f[n])
  <2>1. f[n] = p(n)[n] /\ f[0] = p(0)[0] /\ f[n + 1] = p(n + 1)[n + 1]
    OBVIOUS
  <2>2. QueuesTo(cookies, n, p(n)) /\ QueuesTo(cookies, 0, p(0)) /\ QueuesTo(cookies, n + 1, p(n + 1))
    BY <1>1
  <2>3. p(n)[n] = p(n + 1)[n]
    <3>1. n <= n + 1 /\ n + 1 \in Nat /\ n \in 0..n
      OBVIOUS
    <3> QED
      BY <2>2, <3>1, QueuesAgree
  <2>4. p(n + 1)[n + 1] = MixedExactly(p(n + 1)[n])
    <3>1. n + 1 \in 1..(n + 1) /\ (n + 1) - 1 = n
      OBVIOUS
    <3> QED
      BY <2>2, <3>1 DEF QueuesTo
  <2>5. p(0)[0] = cookies
    BY <2>2 DEF QueuesTo
  <2> QED
    BY <2>1, <2>3, <2>4, <2>5
<1> DEFINE next(g, n) == IF n = 0 THEN cookies ELSE MixedExactly(g[n - 1])
           Is(g) == g = [n \in Nat |-> next(g, n)]
<1>3. ExactQueue = CHOOSE g : Is(g)
  BY DEF ExactQueue
<1>4. Is(f)
  <2>1. ASSUME NEW n \in Nat PROVE f[n] = next(f, n)
    <3> HIDE DEF f
    <3>1. CASE n = 0
      BY <1>2, <3>1
    <3>2. CASE n # 0
      <4>1. n - 1 \in Nat /\ (n - 1) + 1 = n
        BY <3>2
      <4>2. f[(n - 1) + 1] = MixedExactly(f[n - 1])
        BY <1>2, <4>1
      <4> QED
        BY <3>2, <4>1, <4>2
    <3> QED
      BY <3>1, <3>2
  <2>2. f = [n \in Nat |-> f[n]]
    OBVIOUS
  <2> HIDE DEF f, next
  <2> QED
    BY <2>1, <2>2
<1> HIDE DEF f, Is
<1>5. Is(ExactQueue)
  BY <1>3, <1>4
<1>6. \A n \in Nat : ExactQueue[n] = next(ExactQueue, n)
  <2> DEFINE g == ExactQueue
             v(n) == next(g, n)
  <2> HIDE DEF g
  <2>1. g = [n \in Nat |-> v(n)]
    BY <1>5 DEF Is, g
  <2> HIDE DEF v
  <2>2. \A n \in Nat : g[n] = v(n)
    BY <2>1
  <2> QED
    BY <2>2 DEF g, v
<1>7. ASSUME NEW n \in Nat PROVE ExactQueue[n + 1] = MixedExactly(ExactQueue[n])
  <2>1. n + 1 \in Nat /\ n + 1 # 0 /\ (n + 1) - 1 = n
    OBVIOUS
  <2> QED
    BY <1>6, <2>1
<1> QED
  BY <1>6, <1>7

\* Within the limits the queue is the exact one after as many mixes, and fewer
\* were not enough.
ExactSoFar ==
    /\ mix_pc = "loop" => DOMAIN cookies # {}
    /\ mix_pc = "done" /\ mix_result # -1 => DOMAIN cookies # {}
    /\ WithinLimits => /\ Matched(queue, ExactQueue[count])
                       /\ \A c \in 0..(count - 1) : ~EnoughAfter(c)

LEMMA EnoughIs ==
    ASSUME Matched(queue, ExactQueue[count])
    PROVE  EnoughAfter(count) <=> DOMAIN cookies # {} /\ \A s \in DOMAIN queue : queue[s] >= target
<1> DEFINE g == ExactQueue[count]
<1>1. PICK p : Matching(p, queue, g)
  BY DEF Matched
<1> HIDE DEF g
<1>2. /\ \A s \in DOMAIN queue : p[s] \in DOMAIN g /\ g[p[s]] = queue[s]
      /\ \A w \in DOMAIN g : \E s \in DOMAIN queue : p[s] = w
  BY <1>1 DEF Matching
<1>3. (\A w \in DOMAIN g : g[w] >= target) <=> \A s \in DOMAIN queue : queue[s] >= target
  BY <1>2
<1> QED
  BY <1>3 DEF EnoughAfter, g

LEMMA ExactStart == MixInit => ExactSoFar
<1> SUFFICES ASSUME MixInit PROVE ExactSoFar
  OBVIOUS
<1>1. queue = cookies /\ count = 0 /\ mix_pc = "start"
  BY DEF MixInit
<1>2. Matched(cookies, cookies)
  <2> DEFINE p == [s \in DOMAIN cookies |-> s]
  <2>1. Matching(p, cookies, cookies)
    BY DEF Matching
  <2> HIDE DEF p
  <2> QED
    BY <2>1 DEF Matched
<1>3. Matched(queue, ExactQueue[count])
  BY <1>1, <1>2, ExactQueueIs
<1>4. \A c \in 0..(count - 1) : FALSE
  BY <1>1
<1> QED
  BY <1>1, <1>3, <1>4 DEF ExactSoFar

LEMMA ExactStep == IInv /\ ExactSoFar /\ [MixNext]_mixVars => ExactSoFar'
<1> SUFFICES ASSUME IInv, ExactSoFar, [MixNext]_mixVars PROVE ExactSoFar'
  OBVIOUS
<1>1. UNCHANGED <<cookies, target>>
  BY DEF MixNext, ReturnIfEmpty, StartLoop, ReturnCount, Mix, ReturnFailure, Return, Finished, mixVars
<1>2. UNCHANGED ExactQueue /\ (WithinLimits' <=> WithinLimits)
  BY <1>1 DEF ExactQueue, WithinLimits
<1>3. \A c : EnoughAfter(c)' <=> EnoughAfter(c)
  BY <1>1, <1>2 DEF EnoughAfter
<1>4. /\ \A s \in DOMAIN queue : queue[s] \in Nat
      /\ target \in Nat /\ count \in Nat
  BY CookiesAssumption DEF IInv, MixTypeOK
<1>5. CASE Mix
  <2>1. PICK s \in DOMAIN queue, t \in DOMAIN queue :
           /\ IsTop(s) /\ IsSecond(s, t)
           /\ queue' = [u \in DOMAIN queue \ {t} |-> IF u = s THEN Mixed(s, t) ELSE queue[u]]
    BY <1>5 DEF Mix
  <2>2. mix_pc = "loop" /\ mix_pc' = mix_pc /\ ~TopReached /\ count' = count + 1
    BY <1>5 DEF Mix
  <2>3. ASSUME WithinLimits
        PROVE  Matched(queue', ExactQueue'[count']) /\ \A c \in 0..(count' - 1) : ~EnoughAfter(c)
    <3>1. Matched(queue, ExactQueue[count]) /\ \A c \in 0..(count - 1) : ~EnoughAfter(c)
      BY <2>3 DEF ExactSoFar
    <3>2. queue[s] < target /\ Mixed(s, t) = queue[s] + 2 * queue[t]
      BY <1>4, <2>1, <2>2, <2>3, MixExact
    <3>3. ~EnoughAfter(count)
      BY <1>4, <3>1, <3>2, EnoughIs
    <3>4. \A c \in 0..(count' - 1) : c \in 0..(count - 1) \/ c = count
      BY <1>4, <2>2
    <3>5. IsLeast(queue, s) /\ IsLeast(Without(queue, s), t)
      BY <2>1 DEF IsLeast, Without, IsTop, IsSecond
    <3>6. Matched(queue', MixedExactly(ExactQueue[count]))
      <4>1. queue' = Mixing(queue, s, t, queue[s] + 2 * queue[t])
        BY <2>1, <3>2 DEF Mixing
      <4> QED
        BY <1>4, <3>1, <3>5, <4>1, MatchedMix
    <3>7. ExactQueue'[count'] = MixedExactly(ExactQueue[count])
      BY <1>2, <1>4, <2>2, ExactQueueIs
    <3> QED
      BY <3>1, <3>3, <3>4, <3>6, <3>7
  <2> QED
    BY <1>1, <1>2, <1>3, <2>2, <2>3 DEF ExactSoFar
<1>6. CASE UNCHANGED <<queue, count>>
  <2>1. WithinLimits => /\ Matched(queue', ExactQueue'[count'])
                        /\ \A c \in 0..(count' - 1) : ~EnoughAfter(c)
    BY <1>2, <1>6 DEF ExactSoFar
  <2>2. mix_pc' = "loop" => DOMAIN cookies # {}
    BY DEF MixNext, ReturnIfEmpty, StartLoop, ReturnCount, Mix, ReturnFailure, Return, Finished, mixVars, ExactSoFar
  <2>3. mix_pc' = "done" /\ mix_result' # -1 => DOMAIN cookies # {}
    BY DEF MixNext, ReturnIfEmpty, StartLoop, ReturnCount, Mix, ReturnFailure, Return, Finished, mixVars, ExactSoFar
  <2> QED
    BY <1>1, <1>2, <1>3, <2>1, <2>2, <2>3 DEF ExactSoFar
<1> QED
  BY <1>5, <1>6 DEF MixNext, ReturnIfEmpty, StartLoop, ReturnCount, ReturnFailure, Return, Finished, mixVars

\* For any values and any target within the limits, mixing_count returns what
\* it would in integers without a size: the least number of mixes after which
\* all have reached the target, -1 if there is none (jesse_and_cookies.cc
\* 41-73).
THEOREM ExactCount == MixSpec => []ResultExact
<1>1. IInv /\ ExactSoFar => ResultExact
  <2> SUFFICES ASSUME IInv, ExactSoFar, mix_pc = "done", WithinLimits PROVE ResultExact
    BY DEF ResultExact
  <2> DEFINE n == Cardinality(DOMAIN cookies)
             enough == { c \in 0..n : EnoughAfter(c) }
  <2>1. Matched(queue, ExactQueue[count]) /\ \A c \in 0..(count - 1) : ~EnoughAfter(c)
    BY DEF ExactSoFar
  <2>2. /\ \A s \in DOMAIN queue : queue[s] \in Nat
        /\ target \in Nat /\ count \in Nat /\ Size \in Nat /\ IsFiniteSet(DOMAIN queue)
        /\ count + Size = n /\ (DOMAIN cookies # {} => Size >= 1)
    BY FiniteQueue, CookiesAssumption DEF IInv, MixTypeOK, CountBounded
  <2>3. n \in Nat
    BY <2>2
  <2> HIDE DEF n
  <2>4. CASE mix_result # -1
    <3>1. mix_result = count /\ DOMAIN cookies # {} /\ \A s \in DOMAIN queue : queue[s] >= target
      BY <2>4 DEF IInv, ResultJustified, ExactSoFar
    <3>2. EnoughAfter(count)
      BY <2>1, <3>1, EnoughIs
    <3>3. mix_result \in enough
      BY <2>2, <2>3, <3>1, <3>2
    <3>4. \A c \in enough : mix_result <= c
      BY <2>1, <2>2, <2>3, <3>1
    <3> QED
      BY <3>3, <3>4 DEF ResultExact, n
  <2>5. CASE mix_result = -1
    <3>1. Size <= 1 /\ \A s \in DOMAIN queue : queue[s] < target
      BY <2>5 DEF IInv, ResultJustified
    <3>2. ASSUME NEW c \in 0..n, EnoughAfter(c) PROVE FALSE
      <4>1. DOMAIN cookies # {} /\ Size = 1 /\ n = count + 1
        BY <2>2, <3>1, <3>2 DEF EnoughAfter
      <4>2. PICK s : s \in DOMAIN queue
        <5>1. DOMAIN queue # {}
          BY <4>1, FS_EmptySet DEF Size
        <5> QED
          BY <5>1
      <4>3. ~EnoughAfter(count)
        BY <2>1, <2>2, <3>1, <4>2, EnoughIs
      <4>4. \A u, v \in DOMAIN ExactQueue[count] : u = v
        <5>1. PICK p : Matching(p, queue, ExactQueue[count])
          BY <2>1 DEF Matched
        <5>2. \A u, v \in DOMAIN queue : u = v
          BY <2>2, <4>1, AtMostOne DEF Size
        <5> QED
          BY <5>1, <5>2 DEF Matching
      <4>5. ExactQueue[n] = ExactQueue[count]
        BY <2>2, <4>1, <4>4, ExactQueueIs DEF MixedExactly
      <4>6. ~EnoughAfter(n)
        BY <4>3, <4>5 DEF EnoughAfter
      <4>7. c \in 0..(count - 1) \/ c = count \/ c = n
        BY <2>2, <4>1
      <4> QED
        BY <2>1, <3>2, <4>3, <4>6, <4>7
    <3> QED
      BY <2>5, <3>2 DEF ResultExact, n
  <2> QED
    BY <2>4, <2>5
<1> QED
  BY <1>1, InductiveInit, InductiveNext, ExactStart, ExactStep, PTL DEF MixSpec
============================================================================
