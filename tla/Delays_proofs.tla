--------------------------- MODULE Delays_proofs ---------------------------
(* Proofs about Delays, for every width of a Duration and every policy. *)
EXTENDS Waits, WellFoundedInduction, TLAPS

USE DelaysAssumption

-----------------------------------------------------------------------------
(* One step of the loop. *)

\* A value that fits is left as it is.
LEMMA WrapFits ==
  ASSUME NEW n \in Duration
  PROVE  Wrap(n) = n
<1>1. n + Bound \in 0..(2 * Bound - 1)
  BY DEF Duration
<1>2. (n + Bound) % (2 * Bound) = n + Bound
  BY <1>1
<1> QED BY <1>2 DEF Wrap, Duration

\* Comparing with half of the limit (retry.go:43) makes a doubling exact: it is
\* the lesser of twice the delay and the limit, and never overflows.
THEOREM DoublingIsExact ==
  ASSUME NEW ceiling \in Duration, NEW delay \in 1..ceiling
  PROVE  /\ Double(delay, ceiling) = Lesser(2 * delay, ceiling)
         /\ Double(delay, ceiling) \in 1..ceiling
<1>1. ceiling \in Nat /\ delay \in Nat /\ delay <= ceiling
  BY DEF Duration
<1>2. CASE delay > ceiling \div 2
  BY <1>1, <1>2 DEF Double, Lesser
<1>3. CASE ~(delay > ceiling \div 2)
  <2>1. 2 * delay <= ceiling
    BY <1>1, <1>3
  <2>2. 2 * delay \in Duration
    BY <1>1, <2>1 DEF Duration
  <2>3. Double(delay, ceiling) = 2 * delay
    BY <1>3, <2>2, WrapFits DEF Double
  <2> QED BY <1>1, <2>1, <2>3 DEF Lesser
<1> QED BY <1>2, <1>3

\* Whatever the policy holds, the first delay is positive and within the limit.
THEOREM PolicyIsUsable ==
  ASSUME NEW initial \in Duration, NEW ceiling \in Duration
  PROVE  /\ MaxDelay(ceiling) \in Duration
         /\ Lesser(InitialDelay(initial), MaxDelay(ceiling)) \in 1..MaxDelay(ceiling)
<1>1. MaxDelay(ceiling) \in 1..(Bound - 1)
  BY DEF MaxDelay, Duration
<1>2. InitialDelay(initial) \in Nat \ {0}
  BY DEF InitialDelay, Duration
<1> QED BY <1>1, <1>2 DEF Lesser, Duration

\* Jitter keeps at least half of a delay and adds nothing to it (retry.go:50).
THEOREM JitterIsBounded ==
  ASSUME NEW delay \in Nat, NEW d \in Jittered(delay)
  PROVE  d \in Nat /\ delay \div 2 <= d /\ d <= delay
<1>1. PICK r \in 0..(delay - delay \div 2) : d = delay \div 2 + r
  BY DEF Jittered
<1>2. delay \div 2 \in Nat /\ delay \div 2 <= delay
  OBVIOUS
<1> QED BY <1>1, <1>2

-----------------------------------------------------------------------------
(* Induction over the attempts. *)

\* Induction: what fails for a number fails for a least one.
LEMMA LeastNatural ==
  ASSUME NEW T \in SUBSET Nat, T # {}
  PROVE  \E m \in T : \A n \in T : m <= n
<1> DEFINE R == OpToRel(<, Nat)
<1>1. IsWellFoundedOn(R, Nat)
  BY NatLessThanWellFounded
<1>2. \A x, y \in Nat : <<x, y>> \in R <=> x < y
  BY DEF OpToRel
<1> HIDE DEF R
<1>3. PICK m \in T : \A n \in T : ~ (<<n, m>> \in R)
  BY <1>1, WFMin
<1>4. ASSUME NEW n \in T
      PROVE  m <= n
  <2>1. m \in Nat /\ n \in Nat
    OBVIOUS
  <2>2. ~(n < m)
    BY <1>2, <1>3, <2>1
  <2> QED BY <2>1, <2>2
<1> QED BY <1>4

\* g[n] is a after n applications of F.
Iterates(g, S, a, F) ==
    g \in [Nat -> S] /\ g[0] = a /\ \A n \in Nat : g[n + 1] = F[g[n]]

\* Recursion: a function can be applied over and over.
LEMMA Iteration ==
  ASSUME NEW S, NEW a \in S, NEW F \in [S -> S]
  PROVE  \E g : Iterates(g, S, a, F)
<1> DEFINE Starts(g, n) == /\ g \in [0..n -> S]
                           /\ g[0] = a
                           /\ \A m \in 0..(n - 1) : g[m + 1] = F[g[m]]
           T == {n \in Nat : \A g \in [0..n -> S] : ~Starts(g, n)}
<1>1. T = {}
  <2>1. SUFFICES ASSUME T # {} PROVE FALSE
    OBVIOUS
  <2>2. PICK n \in T : \A m \in T : n <= m
    BY <2>1, LeastNatural
  <2>3. n # 0
    <3>1. Starts([m \in 0..0 |-> a], 0)
      OBVIOUS
    <3> QED BY <3>1
  <2>4. n - 1 \in Nat /\ n - 1 \notin T
    BY <2>2, <2>3
  <2>5. PICK g \in [0..(n - 1) -> S] : Starts(g, n - 1)
    BY <2>4
  <2> DEFINE h == [m \in 0..n |-> IF m = n THEN F[g[n - 1]] ELSE g[m]]
  <2>6. h \in [0..n -> S]
    BY <2>4, <2>5
  <2>7. h[0] = a
    BY <2>3, <2>4, <2>5
  <2>8. ASSUME NEW m \in 0..(n - 1) PROVE h[m + 1] = F[h[m]]
    BY <2>4, <2>5
  <2>9. Starts(h, n)
    BY <2>6, <2>7, <2>8
  <2> QED BY <2>2, <2>6, <2>9
<1>2. ASSUME NEW n \in Nat, NEW k \in Nat, NEW g, NEW h, Starts(g, n), Starts(h, k)
      PROVE \A m \in Nat : m <= n /\ m <= k => g[m] = h[m]
  <2> DEFINE V == {m \in Nat : m <= n /\ m <= k /\ g[m] # h[m]}
  <2>1. SUFFICES ASSUME V # {} PROVE FALSE
    OBVIOUS
  <2>2. PICK m \in V : \A l \in V : m <= l
    BY <2>1, LeastNatural
  <2>3. m # 0
    BY <1>2
  <2>4. m - 1 \in Nat /\ m - 1 \notin V /\ m - 1 \in 0..(n - 1) /\ m - 1 \in 0..(k - 1)
    BY <2>2, <2>3
  <2>5. g[m - 1] = h[m - 1]
    BY <2>4
  <2>6. g[(m - 1) + 1] = F[g[m - 1]] /\ h[(m - 1) + 1] = F[h[m - 1]]
    BY <1>2, <2>4
  <2> QED BY <2>5, <2>6, <2>4
<1> DEFINE part == [n \in Nat |-> CHOOSE g \in [0..n -> S] : Starts(g, n)]
           f == [n \in Nat |-> part[n][n]]
<1>3. ASSUME NEW n \in Nat PROVE Starts(part[n], n)
  <2>1. \E g \in [0..n -> S] : Starts(g, n)
    BY <1>1
  <2> HIDE DEF Starts
  <2> QED BY <2>1
<1> HIDE DEF part
<1>4. f \in [Nat -> S]
  BY <1>3
<1>5. f[0] = a
  BY <1>3
<1>6. ASSUME NEW n \in Nat PROVE f[n + 1] = F[f[n]]
  <2>1. part[n + 1][n + 1] = F[part[n + 1][n]]
    BY <1>3
  <2>2. part[n + 1][n] = part[n][n]
    <3>1. Starts(part[n + 1], n + 1) /\ Starts(part[n], n)
      BY <1>3
    <3> HIDE DEF Starts
    <3>2. \A m \in Nat : m <= n /\ m <= n + 1 => part[n][m] = part[n + 1][m]
      BY <1>2, <3>1
    <3> QED BY <3>2
  <2> QED BY <2>1, <2>2
<1> HIDE DEF f
<1> QED BY <1>4, <1>5, <1>6 DEF Iterates

\* What the doublings of a number are.
LEMMA DoubledType ==
  ASSUME NEW first \in Nat
  PROVE  /\ Doubled(first) \in [Nat -> Nat]
         /\ Doubled(first)[0] = first
         /\ \A n \in Nat : Doubled(first)[n + 1] = 2 * Doubled(first)[n]
<1> DEFINE F == [d \in Nat |-> 2 * d]
           Solves(f) == f = [n \in Nat |-> IF n = 0 THEN first ELSE 2 * f[n - 1]]
<1>0. F \in [Nat -> Nat]
  OBVIOUS
<1>1. PICK g : Iterates(g, Nat, first, F)
  <2> HIDE DEF F
  <2> QED BY <1>0, Iteration
<1>2. Solves(g)
  <2>1. ASSUME NEW n \in Nat
        PROVE  g[n] = IF n = 0 THEN first ELSE 2 * g[n - 1]
    <3>1. CASE n = 0
      BY <1>1, <3>1 DEF Iterates
    <3>2. CASE n # 0
      <4>1. n - 1 \in Nat /\ (n - 1) + 1 = n
        BY <3>2
      <4>2. g[(n - 1) + 1] = F[g[n - 1]]
        BY <1>1, <4>1 DEF Iterates
      <4>3. g[n - 1] \in Nat
        BY <1>1, <4>1 DEF Iterates
      <4> QED BY <3>2, <4>1, <4>2, <4>3
    <3> QED BY <3>1, <3>2
  <2> HIDE DEF F
  <2>2. g = [n \in Nat |-> g[n]]
    BY <1>1 DEF Iterates
  <2> QED BY <2>1, <2>2
<1>3. Solves(Doubled(first))
  BY <1>2 DEF Doubled
<1>4. \A n \in Nat : Doubled(first)[n] = IF n = 0 THEN first ELSE 2 * Doubled(first)[n - 1]
  BY <1>3
<1>5. \A n \in Nat : Doubled(first)[n + 1] = 2 * Doubled(first)[n]
  BY <1>4
<1>6. Doubled(first)[0] = first
  BY <1>4
<1>7. ASSUME NEW n \in Nat
      PROVE  Doubled(first)[n] \in Nat
  <2> DEFINE T == {m \in Nat : Doubled(first)[m] \notin Nat}
  <2>1. SUFFICES ASSUME T # {} PROVE FALSE
    OBVIOUS
  <2>2. PICK m \in T : \A k \in T : m <= k
    BY <2>1, LeastNatural
  <2>3. m # 0
    BY <1>6
  <2>4. m - 1 \in Nat /\ m - 1 \notin T
    BY <2>2, <2>3
  <2> QED BY <1>4, <2>3, <2>4
<1>8. Doubled(first) = [n \in Nat |-> Doubled(first)[n]]
  BY <1>3
<1> QED BY <1>5, <1>6, <1>7, <1>8

\* What the delays of a policy are: the loop of retry.go:42-48.
LEMMA UnjitteredType ==
  ASSUME NEW initial \in Duration, NEW ceiling \in Duration
  PROVE  LET top == MaxDelay(ceiling)
             delay == Unjittered(initial, ceiling)
         IN  /\ delay[1] = Lesser(InitialDelay(initial), top)
             /\ \A n \in Nat \ {0} :
                  /\ delay[n] \in 1..top
                  /\ delay[n + 1] = Lesser(2 * delay[n], top)
<1> DEFINE top == MaxDelay(ceiling)
           delay == Unjittered(initial, ceiling)
           first == Lesser(InitialDelay(initial), top)
           next(d) == IF d < top THEN Double(d, top) ELSE d
           F == [d \in 1..top |-> next(d)]
           Solves(f) == f = [n \in Nat \ {0} |-> IF n = 1 THEN first
                                                 ELSE IF f[n - 1] < top THEN Double(f[n - 1], top)
                                                 ELSE f[n - 1]]
<1>1. top \in Duration /\ top \in Nat /\ first \in 1..top
  BY PolicyIsUsable DEF Duration, MaxDelay
<1>2. ASSUME NEW d \in 1..top
      PROVE  next(d) = Lesser(2 * d, top) /\ next(d) \in 1..top
  BY <1>1, DoublingIsExact DEF Lesser
<1>3. Solves(delay) <=> delay = [n \in Nat \ {0} |-> IF n = 1 THEN first ELSE next(delay[n - 1])]
  OBVIOUS
<1> HIDE DEF next, first, top
<1>4. F \in [1..top -> 1..top]
  BY <1>2
<1>5. PICK g : Iterates(g, 1..top, first, F)
  <2> HIDE DEF F
  <2> QED BY <1>1, <1>4, Iteration
<1>6. \E f : f = [n \in Nat \ {0} |-> IF n = 1 THEN first ELSE next(f[n - 1])]
  <2> DEFINE h == [n \in Nat \ {0} |-> g[n - 1]]
  <2>1. ASSUME NEW n \in Nat \ {0}
        PROVE  h[n] = IF n = 1 THEN first ELSE next(h[n - 1])
    <3>1. CASE n = 1
      BY <1>5, <3>1 DEF Iterates
    <3>2. CASE n # 1
      <4>1. n - 2 \in Nat /\ n - 1 \in Nat \ {0} /\ (n - 2) + 1 = n - 1 /\ (n - 1) - 1 = n - 2
        BY <3>2
      <4>2. g[(n - 2) + 1] = F[g[n - 2]] /\ g[n - 2] \in 1..top
        BY <1>5, <4>1 DEF Iterates
      <4>3. g[n - 1] = next(g[n - 2])
        BY <4>1, <4>2
      <4> QED BY <3>2, <4>1, <4>3
    <3> QED BY <3>1, <3>2
  <2>2. h = [n \in Nat \ {0} |-> h[n]]
    OBVIOUS
  <2> HIDE DEF h
  <2>3. h = [n \in Nat \ {0} |-> IF n = 1 THEN first ELSE next(h[n - 1])]
    BY <2>1, <2>2
  <2> QED BY <2>3
<1>7. delay = [n \in Nat \ {0} |-> IF n = 1 THEN first ELSE next(delay[n - 1])]
  <2>1. delay = CHOOSE f : f = [n \in Nat \ {0} |-> IF n = 1 THEN first ELSE next(f[n - 1])]
    BY DEF Unjittered, next, first, top
  <2> QED BY <1>6, <2>1
<1> HIDE DEF delay
<1>8. delay[1] = first
  BY <1>7
<1>9. ASSUME NEW n \in Nat \ {0}
      PROVE  delay[n + 1] = next(delay[n])
  BY <1>7
<1>10. ASSUME NEW n \in Nat \ {0}
       PROVE  delay[n] \in 1..top
  <2> DEFINE T == {m \in Nat : m # 0 /\ delay[m] \notin 1..top}
  <2>1. SUFFICES ASSUME T # {} PROVE FALSE
    OBVIOUS
  <2>2. PICK m \in T : \A k \in T : m <= k
    BY <2>1, LeastNatural
  <2>3. m # 1
    BY <1>1, <1>8
  <2>4. m - 1 \in Nat \ {0} /\ m - 1 \notin T /\ (m - 1) + 1 = m
    BY <2>2, <2>3
  <2>5. delay[m - 1] \in 1..top
    BY <2>4
  <2> QED BY <1>2, <1>9, <2>4, <2>5
<1>11. \A n \in Nat \ {0} : delay[n + 1] = Lesser(2 * delay[n], top)
  BY <1>2, <1>9, <1>10
<1>12. delay[1] = Lesser(InitialDelay(initial), top)
  BY <1>8 DEF first
<1> QED BY <1>10, <1>11, <1>12 DEF delay, top

\* The delay before any attempt is the first one doubled with every attempt before it,
\* up to the limit: the closed form of the loop.
THEOREM DelayIsExponential ==
  ASSUME NEW initial \in Duration, NEW ceiling \in Duration, NEW attempt \in Nat \ {0}
  PROVE  LET top == MaxDelay(ceiling)
             first == Lesser(InitialDelay(initial), top)
         IN  Unjittered(initial, ceiling)[attempt] = Lesser(Doubled(first)[attempt - 1], top)
<1> DEFINE top == MaxDelay(ceiling)
           first == Lesser(InitialDelay(initial), top)
           delay == Unjittered(initial, ceiling)
           double == Doubled(first)
<1>1. top \in Nat /\ first \in Nat /\ first <= top
  BY PolicyIsUsable DEF Duration
<1>2. /\ delay[1] = first
      /\ \A n \in Nat \ {0} : delay[n] \in 1..top /\ delay[n + 1] = Lesser(2 * delay[n], top)
  BY UnjitteredType
<1>3. /\ double[0] = first
      /\ \A n \in Nat : double[n] \in Nat /\ double[n + 1] = 2 * double[n]
  BY <1>1, DoubledType
<1> DEFINE T == {n \in Nat : n # 0 /\ delay[n] # Lesser(double[n - 1], top)}
<1> HIDE DEF top, first, delay, double
<1>4. T = {}
  <2>1. SUFFICES ASSUME T # {} PROVE FALSE
    OBVIOUS
  <2>2. PICK m \in T : \A k \in T : m <= k
    BY <2>1, LeastNatural
  <2>3. m # 1
    BY <1>1, <1>2, <1>3 DEF Lesser
  <2>4. m - 1 \in Nat \ {0} /\ m - 2 \in Nat /\ m - 1 \notin T /\ (m - 1) + 1 = m
        /\ (m - 1) - 1 = m - 2 /\ (m - 2) + 1 = m - 1
    BY <2>2, <2>3
  <2>5. delay[m - 1] = Lesser(double[m - 2], top)
    BY <2>4
  <2>6. double[m - 1] = 2 * double[m - 2] /\ double[m - 2] \in Nat
    BY <1>3, <2>4
  <2>7. delay[m] = Lesser(2 * delay[m - 1], top)
    BY <1>2, <2>4
  <2>8. delay[m] = Lesser(double[m - 1], top)
    BY <1>1, <2>5, <2>6, <2>7 DEF Lesser
  <2> QED BY <2>8
<1> QED BY <1>4 DEF top, first, delay, double

\* No policy and no attempt deviate from the closed form.
LEMMA NoDeviations == Deviations = {}
<1>1. SUFFICES ASSUME NEW p \in Deviations PROVE FALSE
  OBVIOUS
<1> DEFINE top == MaxDelay(p.ceiling)
           first == Lesser(InitialDelay(p.initial), top)
           delay == Unjittered(p.initial, p.ceiling)[p.attempt]
<1>2. p.initial \in Duration /\ p.ceiling \in Duration /\ p.attempt \in Nat \ {0}
  BY DEF Deviations
<1>3. delay = Lesser(Doubled(first)[p.attempt - 1], top)
  BY <1>2, DelayIsExponential
<1>4. delay \in Nat
  <2>1. delay \in 1..top
    BY <1>2, UnjitteredType
  <2>2. top \in Nat
    BY <1>2 DEF MaxDelay, Duration
  <2> QED BY <2>1, <2>2
<1>5. PICK d \in Jittered(delay) : d < delay \div 2 \/ d > delay
  BY <1>3 DEF Deviations
<1>6. d \in Nat /\ delay \div 2 <= d /\ d <= delay /\ delay \div 2 \in Nat
  BY <1>4, JitterIsBounded
<1> QED BY <1>4, <1>5, <1>6

\* Whatever the policy and the calls do, a wait before another attempt is that of an
\* exponential backoff (RetryPolicy.Delay, retry.go:31-51).
THEOREM BackoffDoubles == Spec => []BackoffIsExponential
<1>1. BackoffIsExponential
  BY NoDeviations DEF BackoffIsExponential
<1> QED BY <1>1, PTL
=============================================================================
