---------------------- MODULE CapabilitySchedulerProofs ---------------------
(* The choice of a runner, for any runners, labels and jobs.                   *)
EXTENDS CapabilityScheduler, FiniteSetTheorems, SequenceTheorems, WellFoundedInduction, TLAPS

-----------------------------------------------------------------------------
(* Induction, in the form of a least counterexample *)

\* A non-empty set of naturals has a least element.
LEMMA LeastElement ==
  ASSUME NEW I, I \subseteq Nat, I # {}
  PROVE  \E x \in I : \A y \in I : x <= y
<1> DEFINE less == {ss \in Nat \X Nat : ss[1] < ss[2]}
<1>1. IsWellFoundedOn(less, Nat)
  BY NatLessThanWellFounded DEF OpToRel
<1> HIDE DEF less
<1>2. PICK x \in I : \A y \in I : ~ (<<y, x>> \in less)
  BY <1>1, WFMin
<1>3. ASSUME NEW y \in I PROVE x <= y
  <2>1. x \in Nat /\ y \in Nat
    OBVIOUS
  <2>2. y < x => <<y, x>> \in less
    BY <2>1, Zenon DEF less
  <2> QED BY <1>2, <2>1, <2>2
<1> QED BY <1>3

\* A loop of n rounds keeps what holds before it and after each round.
LEMMA LoopInduction ==
  ASSUME NEW n \in Nat, NEW T, 0 \in T, \A k \in 0..(n - 1) : k \in T => k + 1 \in T
  PROVE  \A k \in 0..n : k \in T
<1> SUFFICES ASSUME {k \in 0..n : k \notin T} # {} PROVE FALSE
    OBVIOUS
<1>1. PICK x \in {k \in 0..n : k \notin T} : \A y \in {k \in 0..n : k \notin T} : x <= y
  <2>1. {k \in 0..n : k \notin T} \subseteq Nat
    OBVIOUS
  <2> QED BY <2>1, LeastElement
<1>2. x \in 0..n /\ x \notin T /\ x # 0
  OBVIOUS
<1>3. x - 1 \in 0..(n - 1) /\ x - 1 \in 0..n
  BY <1>2
<1>4. x - 1 \in T
  <2>1. ~ (x <= x - 1)
    BY <1>2
  <2> QED BY <1>1, <1>3, <2>1
<1>5. (x - 1) + 1 \in T
  BY <1>3, <1>4
<1> QED BY <1>2, <1>5

-----------------------------------------------------------------------------
(* The loop of Schedule *)

\* One round: r is looked at when the best so far is `best'.
Better(need, best, r) ==
  IF CanRun(r, need) /\ (best = NULL \/ lessRecentlyUsed(r, best)) THEN r ELSE best

\* g is what the fold computes for each set of positions in D.
Folded(g, D, need, cand) ==
  g = [s \in SUBSET D |-> IF s = {} THEN NULL ELSE Better(need, g[s \ {Max(s)}], cand[Max(s)])]

\* The last position of a set that has it.
LEMMA MaxFacts ==
  ASSUME NEW k \in Nat, NEW s \in SUBSET (1..k), k \in s
  PROVE  Max(s) = k
<1>1. \A y \in s : k >= y
  OBVIOUS
<1>2. \A x \in s : (\A y \in s : x >= y) => x = k
  <2> SUFFICES ASSUME NEW x \in s, x >= k PROVE x = k
      OBVIOUS
  <2> QED BY <1>1
<1> QED BY <1>1, <1>2 DEF Max

\* Such a g exists: the fold is well defined.
LEMMA FoldExists ==
  ASSUME NEW n \in Nat, NEW need, NEW cand
  PROVE  \E g : Folded(g, 1..n, need, cand)
<1> DEFINE T == {k \in 0..n : \E g : Folded(g, 1..k, need, cand)}
<1>1. 0 \in T
  <2> DEFINE g == [s \in SUBSET (1..0) |-> NULL]
  <2>1. \A s \in SUBSET (1..0) : s = {}
    OBVIOUS
  <2>2. Folded(g, 1..0, need, cand)
    BY <2>1 DEF Folded
  <2> QED BY <2>2
<1>2. ASSUME NEW k \in 0..(n - 1), k \in T PROVE k + 1 \in T
  <2>1. PICK g : Folded(g, 1..k, need, cand)
    BY <1>2
  <2> DEFINE h == [s \in SUBSET (1..(k + 1)) |->
                     IF k + 1 \in s THEN Better(need, g[s \ {k + 1}], cand[k + 1]) ELSE g[s]]
             Round(f, s) == Better(need, f[s \ {Max(s)}], cand[Max(s)])
  <2>2. \A s \in SUBSET (1..(k + 1)) : k + 1 \notin s => s \in SUBSET (1..k)
    OBVIOUS
  <2>3. \A s \in SUBSET (1..k) : k + 1 \notin s /\ s \in SUBSET (1..(k + 1))
    OBVIOUS
  <2>4. \A s \in SUBSET (1..k) : g[s] = IF s = {} THEN NULL ELSE Round(g, s)
    <3> HIDE DEF h
    <3> QED BY <2>1, Zenon DEF Folded
  <2>5. \A s \in SUBSET (1..k) : h[s] = g[s]
    BY <2>3
  <2>6. ASSUME NEW s \in SUBSET (1..(k + 1)) PROVE h[s] = IF s = {} THEN NULL ELSE Round(h, s)
    <3>1. CASE k + 1 \in s
      <4>1. Max(s) = k + 1 /\ s # {} /\ s \ {k + 1} \in SUBSET (1..k)
        BY <2>2, <3>1, MaxFacts
      <4>2. h[s \ {k + 1}] = g[s \ {k + 1}]
        <5> HIDE DEF h
        <5> QED BY <2>5, <4>1
      <4>3. h[s] = Better(need, g[s \ {k + 1}], cand[k + 1])
        BY <3>1
      <4> HIDE DEF h
      <4> QED BY <4>1, <4>2, <4>3
    <3>2. CASE k + 1 \notin s
      <4>1. s \in SUBSET (1..k) /\ s \ {Max(s)} \in SUBSET (1..k)
        BY <2>2, <3>2
      <4> HIDE DEF h
      <4>2. h[s] = g[s] /\ h[s \ {Max(s)}] = g[s \ {Max(s)}]
        BY <2>5, <4>1
      <4> QED BY <2>4, <4>1, <4>2
    <3> QED BY <3>1, <3>2
  <2>7. h = [s \in SUBSET (1..(k + 1)) |-> IF s = {} THEN NULL ELSE Round(h, s)]
    <3>1. h = [s \in SUBSET (1..(k + 1)) |-> h[s]]
      OBVIOUS
    <3> HIDE DEF h
    <3> QED BY <2>6, <3>1
  <2>8. Folded(h, 1..(k + 1), need, cand)
    <3> HIDE DEF h
    <3> QED BY <2>7, Zenon DEF Folded
  <2> QED BY <2>8
<1> HIDE DEF T
<1>3. n \in T
  BY <1>1, <1>2, LoopInduction
<1> QED BY <1>3 DEF T

\* scheduler.go, Schedule: the value of best before the loop and after each round.
LEMMA LoopOfSchedule ==
  ASSUME NEW n \in Nat, NEW need, NEW cand, DOMAIN cand = 1..n
  PROVE  \E best : /\ best[0] = NULL
                   /\ \A k \in 0..(n - 1) : best[k + 1] = Better(need, best[k], cand[k + 1])
                   /\ Schedule(need, cand) = best[n]
<1>1. PICK g : Folded(g, 1..n, need, cand) /\ Schedule(need, cand) = g[1..n]
  <2>1. PICK f : Folded(f, 1..n, need, cand)
    BY FoldExists
  <2>2. Folded(f, DOMAIN cand, need, cand)
    BY <2>1
  <2>3. \E h : Folded(h, DOMAIN cand, need, cand) /\ Schedule(need, cand) = h[DOMAIN cand]
    BY <2>2 DEF Schedule, FoldLeft, MapThenFoldSet, Better, Folded
  <2> QED BY <2>3
<1>2. \A s \in SUBSET (1..n) : g[s] = IF s = {} THEN NULL
                                       ELSE Better(need, g[s \ {Max(s)}], cand[Max(s)])
  BY <1>1, Zenon DEF Folded
<1> DEFINE best == [k \in 0..n |-> g[1..k]]
<1>3. best[0] = NULL
  <2>1. 1..0 = {} /\ 1..0 \in SUBSET (1..n) /\ 0 \in 0..n
    OBVIOUS
  <2> QED BY <1>2, <2>1
<1>4. ASSUME NEW k \in 0..(n - 1) PROVE best[k + 1] = Better(need, best[k], cand[k + 1])
  <2>1. /\ 1..(k + 1) \in SUBSET (1..n) /\ 1..(k + 1) # {}
        /\ k \in 0..n /\ k + 1 \in 0..n /\ (1..(k + 1)) \ {k + 1} = 1..k
    OBVIOUS
  <2>2. Max(1..(k + 1)) = k + 1
    BY MaxFacts
  <2>3. g[1..(k + 1)] = Better(need, g[1..k], cand[k + 1])
    BY <1>2, <2>1, <2>2
  <2> QED BY <2>1, <2>3
<1>5. Schedule(need, cand) = best[n]
  BY <1>1
<1> HIDE DEF best
<1> QED BY <1>3, <1>4, <1>5

-----------------------------------------------------------------------------
(* Least recently used is an order *)

\* Where a runner stands in a list without repetitions.
LEMMA PositionFacts ==
  ASSUME NEW S, NEW s \in Seq(S), IsInjective(s)
  PROVE  /\ \A x : In(s, x) => Position(s, x) \in 1..Len(s) /\ s[Position(s, x)] = x
         /\ \A i \in 1..Len(s) : In(s, s[i]) /\ Position(s, s[i]) = i
         /\ \A x : In(s, x) <=> \E i \in 1..Len(s) : s[i] = x
         /\ Len(s) \in Nat /\ \A i \in 1..Len(s) : s[i] \in S
<1>1. Len(s) \in Nat /\ DOMAIN s = 1..Len(s) /\ \A i \in 1..Len(s) : s[i] \in S
  BY LenProperties, ElementOfSeq
<1>2. \A x : In(s, x) => Position(s, x) \in 1..Len(s) /\ s[Position(s, x)] = x
  BY <1>1 DEF In, Position
<1>3. \A i \in 1..Len(s) : In(s, s[i])
  BY <1>1 DEF In
<1>4. \A i \in 1..Len(s) : Position(s, s[i]) = i
  BY <1>1, <1>2, <1>3 DEF IsInjective
<1> QED BY <1>1, <1>2, <1>3, <1>4 DEF In

\* scheduler.go, lessRecentlyUsed: of two runners one is preferred, and preference
\* is transitive, so the outcome of the loop does not depend on the order.
LEMMA LeastRecentIsAnOrder ==
  ASSUME ChoiceTypeOK
  PROVE  /\ \A a, b \in Runners : a # b => lessRecentlyUsed(a, b) \/ lessRecentlyUsed(b, a)
         /\ \A a, b, c \in Runners : lessRecentlyUsed(a, b) /\ lessRecentlyUsed(b, c)
                                        => lessRecentlyUsed(a, c)
         /\ \A r \in Runners : r # NULL
         /\ \A r : LastAssigned(r) = NULL <=> ~In(recent, r)
         /\ \A r : LastAssigned(r) # NULL => LastAssigned(r) = Position(recent, r)
                                             /\ LastAssigned(r) \in Nat
         /\ \A a, b : LastAssigned(a) = LastAssigned(b) /\ LastAssigned(a) # NULL => a = b
<1>1. recent \in Seq(Runners) /\ IsInjective(recent) /\ Runners \subseteq Nat /\ NULL \notin Nat
  BY ChoiceAssumption DEF ChoiceTypeOK
<1>2. Len(recent) \in Nat
      /\ \A x : In(recent, x) => Position(recent, x) \in 1..Len(recent)
                                 /\ recent[Position(recent, x)] = x
  BY <1>1, PositionFacts
<1>3. \A r : LastAssigned(r) = IF In(recent, r) THEN Position(recent, r) ELSE NULL
  BY DEF LastAssigned
<1>4. /\ \A r : LastAssigned(r) = NULL <=> ~In(recent, r)
      /\ \A r : LastAssigned(r) # NULL => LastAssigned(r) = Position(recent, r)
                                          /\ LastAssigned(r) \in Nat
  <2>1. \A x : In(recent, x) => Position(recent, x) \in Nat
    BY <1>2
  <2> QED BY <1>1, <1>3, <2>1
<1>5. \A a, b : LastAssigned(a) = LastAssigned(b) /\ LastAssigned(a) # NULL => a = b
  BY <1>2, <1>4
<1>6. ASSUME NEW a \in Runners, NEW b \in Runners, a # b
      PROVE  lessRecentlyUsed(a, b) \/ lessRecentlyUsed(b, a)
  BY <1>1, <1>4, <1>5, <1>6 DEF lessRecentlyUsed
<1>7. ASSUME NEW a \in Runners, NEW b \in Runners, NEW c \in Runners,
             lessRecentlyUsed(a, b), lessRecentlyUsed(b, c)
      PROVE  lessRecentlyUsed(a, c)
  BY <1>1, <1>4, <1>7 DEF lessRecentlyUsed
<1> QED BY <1>1, <1>4, <1>5, <1>6, <1>7

\* b is the least recently used of the runners in C that can run the job, or there is none.
Least(b, need, C) ==
  LET able == {r \in C : CanRun(r, need)} IN
  IF able = {} THEN b = NULL ELSE b \in able /\ \A q \in able \ {b} : lessRecentlyUsed(b, q)

\* scheduler.go, Schedule: the result is the least recently used of the candidates, in
\* whatever order they come.
LEMMA ScheduleIsLeast ==
  ASSUME ChoiceTypeOK, NEW n \in Nat, NEW need, NEW cand \in [1..n -> Runners]
  PROVE  Least(Schedule(need, cand), need, {cand[i] : i \in 1..n})
<1> DEFINE C(k) == {cand[i] : i \in 1..k}
<1>1. PICK best : /\ best[0] = NULL
                  /\ \A k \in 0..(n - 1) : best[k + 1] = Better(need, best[k], cand[k + 1])
                  /\ Schedule(need, cand) = best[n]
  BY LoopOfSchedule
<1> DEFINE T == {k \in 0..n : Least(best[k], need, C(k))}
<1>2. 0 \in T
  <2>1. C(0) = {} /\ 0 \in 0..n
    OBVIOUS
  <2> HIDE DEF C
  <2> QED BY <1>1, <2>1 DEF Least
<1>3. ASSUME NEW k \in 0..(n - 1), k \in T PROVE k + 1 \in T
  <2> DEFINE c == cand[k + 1]
             able == {r \in C(k) : CanRun(r, need)}
             able1 == {r \in C(k + 1) : CanRun(r, need)}
  <2>1. k \in 0..n /\ k + 1 \in 0..n /\ k + 1 \in 1..n /\ 1..(k + 1) = (1..k) \cup {k + 1}
        /\ 1..k \subseteq 1..n
    OBVIOUS
  <2>2. C(k + 1) = C(k) \cup {c} /\ C(k) \subseteq Runners /\ c \in Runners
    BY <2>1
  <2>3. IF able = {} THEN best[k] = NULL
        ELSE best[k] \in able /\ \A q \in able \ {best[k]} : lessRecentlyUsed(best[k], q)
    BY <1>3 DEF Least
  <2>4. best[k + 1] = Better(need, best[k], c)
    BY <1>1
  <2> HIDE DEF C, c
  <2>5. able1 = able \cup (IF CanRun(c, need) THEN {c} ELSE {})
    BY <2>2
  <2>6. able \subseteq Runners
    BY <2>2
  <2> HIDE DEF able, able1
  <2>7. IF able1 = {} THEN best[k + 1] = NULL
        ELSE best[k + 1] \in able1 /\ \A q \in able1 \ {best[k + 1]} : lessRecentlyUsed(best[k + 1], q)
    <3>1. CASE ~CanRun(c, need)
      <4>1. able1 = able /\ best[k + 1] = best[k]
        BY <2>4, <2>5, <3>1 DEF Better
      <4> QED BY <2>3, <4>1
    <3>2. CASE CanRun(c, need) /\ able = {}
      BY <2>3, <2>4, <2>5, <3>2 DEF Better
    <3>3. CASE CanRun(c, need) /\ able # {} /\ lessRecentlyUsed(c, best[k])
      <4>1. best[k + 1] = c /\ able1 = able \cup {c}
        BY <2>4, <2>5, <3>3 DEF Better
      <4>2. best[k] \in Runners
        BY <2>3, <2>6, <3>3
      <4>3. \A q \in able : lessRecentlyUsed(c, q)
        BY <2>2, <2>3, <2>6, <3>3, <4>2, LeastRecentIsAnOrder
      <4> QED BY <4>1, <4>3
    <3>4. CASE CanRun(c, need) /\ able # {} /\ ~lessRecentlyUsed(c, best[k])
      <4>1. best[k] \in Runners /\ best[k] # NULL
        BY <2>3, <2>6, <3>4, LeastRecentIsAnOrder
      <4>2. best[k + 1] = best[k] /\ able1 = able \cup {c}
        BY <2>4, <2>5, <3>4, <4>1 DEF Better
      <4>3. c # best[k] => lessRecentlyUsed(best[k], c)
        BY <2>2, <3>4, <4>1, LeastRecentIsAnOrder
      <4> QED BY <2>3, <3>4, <4>2, <4>3
    <3> QED BY <3>1, <3>2, <3>3, <3>4
  <2>8. Least(best[k + 1], need, C(k + 1))
    BY <2>7 DEF Least, able1
  <2> QED BY <2>1, <2>8
<1> HIDE DEF T
<1>4. \A k \in 0..(n - 1) : k \in T => k + 1 \in T
  BY <1>3
<1>5. \A k \in 0..n : k \in T
  BY <1>2, <1>4, LoopInduction
<1>6. n \in T
  BY <1>5
<1>7. Least(best[n], need, C(n))
  <2> HIDE DEF C
  <2> QED BY <1>6 DEF T
<1> QED BY <1>1, <1>7

\* store.go, IdleRunners: the pool is finite, and each order of it has every runner.
LEMMA PoolFacts ==
  ASSUME ChoiceTypeOK, NEW seq \in SetToSeqs(Pool)
  PROVE  \E n \in Nat : seq \in [1..n -> Runners] /\ {seq[i] : i \in 1..n} = Pool
<1>1. waiting \in Seq(Runners) /\ IsInjective(waiting) /\ \A r \in Pool : In(waiting, r)
  BY DEF ChoiceTypeOK, Pool
<1>2. Len(waiting) \in Nat /\ \A x : In(waiting, x) => Position(waiting, x) \in 1..Len(waiting)
                                                     /\ waiting[Position(waiting, x)] = x
  BY <1>1, PositionFacts
<1>3. IsFiniteSet(Pool)
  <2> DEFINE f == [r \in Pool |-> Position(waiting, r)]
  <2>1. f \in [Pool -> 1..Len(waiting)]
    BY <1>1, <1>2
  <2>2. \A a, b \in Pool : f[a] = f[b] => a = b
    BY <1>1, <1>2
  <2>3. f \in Injection(Pool, 1..Len(waiting))
    BY <2>1, <2>2 DEF Injection, IsInjective
  <2>4. IsFiniteSet(1..Len(waiting))
    BY <1>2, FS_Interval
  <2> HIDE DEF f
  <2> QED BY <2>3, <2>4, FS_Injection
<1> DEFINE n == Cardinality(Pool)
<1>4. n \in Nat
  BY <1>3, FS_CardinalityType
<1> HIDE DEF n
<1>5. seq \in [1..n -> Pool] /\ \A i, j \in 1..n : i # j => seq[i] # seq[j]
  BY DEF SetToSeqs, n
<1>6. seq \in Injection(1..n, Pool)
  BY <1>5 DEF Injection, IsInjective
<1>7. Cardinality(1..n) = n
  BY <1>4, FS_Interval
<1>8. seq \in Surjection(1..n, Pool)
  BY <1>3, <1>6, <1>7, FS_Injection DEF n
<1>9. {seq[i] : i \in 1..n} = Pool
  BY <1>5, <1>8 DEF Surjection
<1>10. Pool \subseteq Runners
  BY DEF Pool
<1> QED BY <1>4, <1>5, <1>9, <1>10

\* scheduler.go, Schedule, called with the pool.
LEMMA ChoiceFromPool ==
  ASSUME ChoiceTypeOK, NEW need, NEW seq \in SetToSeqs(Pool)
  PROVE  Least(Schedule(need, seq), need, Pool)
BY PoolFacts, ScheduleIsLeast

\* The reference definition of the choice agrees.
LEMMA LeastIsReference ==
  ASSUME ChoiceTypeOK, NEW need, NEW b, Least(b, need, Pool)
  PROVE  LET able == {r \in Pool : need \subseteq LabelsOf[r]}
             new  == {r \in able : ~In(recent, r)}
         IN b = CASE able = {} -> NULL
                  [] new # {}  -> CHOOSE r \in new : \A q \in new : r <= q
                  [] OTHER     -> CHOOSE r \in able : \A q \in able : Position(recent, r) <= Position(recent, q)
<1> DEFINE able == {r \in Pool : need \subseteq LabelsOf[r]}
           new  == {r \in able : ~In(recent, r)}
<1>1. IF able = {} THEN b = NULL ELSE b \in able /\ \A q \in able \ {b} : lessRecentlyUsed(b, q)
  BY DEF Least, CanRun
<1>2. able \subseteq Runners /\ Runners \subseteq Nat /\ new \subseteq able
  BY ChoiceAssumption DEF Pool
<1>3. \A r \in able : r \in new <=> LastAssigned(r) = NULL
  BY LeastRecentIsAnOrder
<1> HIDE DEF able, new
<1>4. ASSUME new # {} PROVE b = CHOOSE r \in new : \A q \in new : r <= q
  <2>1. b \in able /\ able # {}
    BY <1>1, <1>2, <1>4
  <2>2. b \in new
    BY <1>1, <1>2, <1>3, <1>4, <2>1 DEF lessRecentlyUsed
  <2>3. \A q \in new : b <= q
    BY <1>1, <1>2, <1>3, <2>1, <2>2 DEF lessRecentlyUsed
  <2>4. \A r \in new : (\A q \in new : r <= q) => r = b
    BY <1>2, <2>2, <2>3
  <2> QED BY <2>2, <2>3, <2>4
<1>5. ASSUME new = {}, able # {}
      PROVE  b = CHOOSE r \in able : \A q \in able : Position(recent, r) <= Position(recent, q)
  <2>1. b \in able /\ \A q \in able : LastAssigned(q) # NULL
    BY <1>1, <1>3, <1>5
  <2>2. \A q \in able : LastAssigned(q) = Position(recent, q) /\ Position(recent, q) \in Nat
    BY <2>1, LeastRecentIsAnOrder
  <2>3. \A q \in able : Position(recent, b) <= Position(recent, q)
    BY <1>1, <2>1, <2>2 DEF lessRecentlyUsed
  <2>4. ASSUME NEW r \in able, \A q \in able : Position(recent, r) <= Position(recent, q)
        PROVE  r = b
    <3>1. Position(recent, r) = Position(recent, b)
      BY <2>1, <2>2, <2>3, <2>4
    <3> QED BY <2>1, <2>2, <3>1, LeastRecentIsAnOrder
  <2> QED BY <2>1, <2>3, <2>4
<1> QED BY <1>1, <1>4, <1>5 DEF able, new

-----------------------------------------------------------------------------
(* A runner leaves a list, or moves to its end *)

\* RemoveFirst on a list without repetitions, by position.
LEMMA LeavesList ==
  ASSUME NEW S, NEW s \in Seq(S), IsInjective(s), NEW e
  PROVE  /\ RemoveFirst(s, e) \in Seq(S) /\ IsInjective(RemoveFirst(s, e))
         /\ \A x : In(RemoveFirst(s, e), x) <=> In(s, x) /\ x # e
         /\ \A x, y : In(s, x) /\ In(s, y) /\ x # e /\ y # e =>
              (Position(s, x) < Position(s, y)
                 => Position(RemoveFirst(s, e), x) < Position(RemoveFirst(s, e), y))
<1>1. Len(s) \in Nat /\ DOMAIN s = 1..Len(s) /\ \A i \in 1..Len(s) : s[i] \in S
  BY LenProperties, ElementOfSeq
<1>2. \A x : In(s, x) <=> \E i \in 1..Len(s) : s[i] = x
  BY <1>1 DEF In
<1>3. CASE ~In(s, e)
  <2>1. RemoveFirst(s, e) = s
    BY <1>2, <1>3 DEF RemoveFirst
  <2> QED BY <1>3, <2>1
<1>4. CASE In(s, e)
  <2> DEFINE I == {i \in 1..Len(s) : s[i] = e}
             n == Position(s, e)
             t == SubSeq(s, 1, n - 1)
             u == SubSeq(s, n + 1, Len(s))
             w == t \o u
  <2>1. n \in 1..Len(s) /\ s[n] = e
    BY <1>4, PositionFacts
  <2>2. I = {n}
    BY <1>1, <2>1 DEF IsInjective
  <2>3. Min(I) = n
    <3> HIDE DEF I, n
    <3> QED BY <2>1, <2>2 DEF Min
  <2>4. RemoveFirst(s, e) = w
    <3>1. RemoveFirst(s, e) = RemoveAt(s, Min(I))
      BY <1>2, <1>4, <2>2 DEF RemoveFirst, SelectInSeq
    <3> HIDE DEF I, n
    <3> QED BY <2>3, <3>1 DEF RemoveAt
  <2> HIDE DEF I, n
  <2>5. t \in Seq(S) /\ Len(t) = n - 1 /\ \A i \in 1..(n - 1) : t[i] = s[i]
    <3>1. 1 \in Int /\ n - 1 \in Int /\ \A i \in 1..(n - 1) : s[i] \in S
      BY <1>1, <2>1
    <3>2. /\ t \in Seq(S) /\ Len(t) = IF 1 <= n - 1 THEN n - 1 - 1 + 1 ELSE 0
          /\ \A i \in 1..(n - 1 - 1 + 1) : t[i] = s[1 + i - 1]
      BY <3>1, SubSeqProperties
    <3> HIDE DEF t
    <3> QED BY <3>2, <1>1, <2>1
  <2>6. /\ u \in Seq(S) /\ Len(u) = Len(s) - n
        /\ \A i \in 1..(Len(s) - n) : u[i] = s[n + i]
    <3>1. n + 1 \in Int /\ Len(s) \in Int /\ \A i \in (n + 1)..Len(s) : s[i] \in S
      BY <1>1, <2>1
    <3>2. /\ u \in Seq(S) /\ Len(u) = IF n + 1 <= Len(s) THEN Len(s) - (n + 1) + 1 ELSE 0
          /\ \A i \in 1..(Len(s) - (n + 1) + 1) : u[i] = s[n + 1 + i - 1]
      BY <3>1, SubSeqProperties
    <3> HIDE DEF u
    <3>3. Len(u) = Len(s) - n
      <4>1. n \in Nat /\ Len(s) \in Nat /\ n <= Len(s)
        BY <1>1, <2>1
      <4> QED BY <3>2, <4>1
    <3>4. ASSUME NEW i \in 1..(Len(s) - n) PROVE u[i] = s[n + i]
      <4>1. i \in 1..(Len(s) - (n + 1) + 1) /\ n + 1 + i - 1 = n + i
        BY <1>1, <2>1
      <4> QED BY <3>2, <4>1
    <3> QED BY <3>2, <3>3, <3>4
  <2>7. /\ w \in Seq(S) /\ Len(w) = Len(s) - 1
        /\ \A i \in 1..(Len(s) - 1) : w[i] = IF i < n THEN s[i] ELSE s[i + 1]
    <3> HIDE DEF t, u
    <3>1. /\ t \o u \in Seq(S) /\ Len(t \o u) = Len(t) + Len(u)
          /\ \A i \in 1..(Len(t) + Len(u)) : (t \o u)[i] = IF i <= Len(t) THEN t[i] ELSE u[i - Len(t)]
      BY <2>5, <2>6, ConcatProperties
    <3>2. ASSUME NEW i \in 1..(Len(s) - 1) PROVE (t \o u)[i] = IF i < n THEN s[i] ELSE s[i + 1]
      <4>1. (t \o u)[i] = IF i <= n - 1 THEN t[i] ELSE u[i - (n - 1)]
        BY <1>1, <2>1, <2>5, <2>6, <3>1
      <4>2. CASE i < n
        <5>1. i \in 1..(n - 1) /\ i <= n - 1
          BY <1>1, <2>1, <4>2
        <5> QED BY <2>5, <4>1, <4>2, <5>1
      <4>3. CASE ~(i < n)
        <5>1. i - (n - 1) \in 1..(Len(s) - n) /\ ~(i <= n - 1) /\ n + (i - (n - 1)) = i + 1
          BY <1>1, <2>1, <4>3
        <5> QED BY <2>6, <4>1, <4>3, <5>1
      <4> QED BY <4>2, <4>3
    <3> QED BY <1>1, <2>1, <2>5, <2>6, <3>1, <3>2
  <2> HIDE DEF w
  <2> DEFINE at(i) == IF i < n THEN i ELSE i + 1
  <2>8. \A i \in 1..(Len(s) - 1) : at(i) \in 1..Len(s) /\ at(i) # n /\ w[i] = s[at(i)]
    BY <1>1, <2>1, <2>7
  <2>9. DOMAIN w = 1..(Len(s) - 1)
    BY <1>1, <2>7, LenProperties
  <2>10. IsInjective(w)
    <3> SUFFICES ASSUME NEW i \in 1..(Len(s) - 1), NEW j \in 1..(Len(s) - 1), w[i] = w[j]
                 PROVE  i = j
        BY <2>9 DEF IsInjective
    <3>1. at(i) = at(j)
      <4> HIDE DEF at
      <4> QED BY <1>1, <2>8 DEF IsInjective
    <3> QED BY <1>1, <2>1, <3>1
  <2>11. ASSUME NEW k \in 1..Len(s), s[k] # e
         PROVE  /\ In(w, s[k])
                /\ Position(w, s[k]) = IF k < n THEN k ELSE k - 1
    <3> DEFINE i == IF k < n THEN k ELSE k - 1
    <3>1. i \in 1..(Len(s) - 1) /\ at(i) = k
      BY <1>1, <2>1, <2>11
    <3>2. w[i] = s[k]
      <4> HIDE DEF i, at
      <4> QED BY <2>8, <3>1
    <3>3. In(w, w[i]) /\ Position(w, w[i]) = i
      <4> HIDE DEF i, at
      <4> QED BY <2>7, <2>10, <3>1, PositionFacts
    <3> QED BY <3>2, <3>3
  <2>12. ASSUME NEW x PROVE In(w, x) <=> In(s, x) /\ x # e
    <3>1. ASSUME In(w, x) PROVE In(s, x) /\ x # e
      <4>1. PICK i \in 1..(Len(s) - 1) : w[i] = x
        BY <2>9, <3>1 DEF In
      <4> HIDE DEF at
      <4> QED BY <1>1, <1>2, <2>1, <2>8, <4>1 DEF IsInjective
    <3> QED BY <1>2, <2>11, <3>1
  <2>13. ASSUME NEW x, NEW y, In(s, x), In(s, y), x # e, y # e, Position(s, x) < Position(s, y)
         PROVE  Position(w, x) < Position(w, y)
    <3>1. /\ Position(s, x) \in 1..Len(s) /\ s[Position(s, x)] = x
          /\ Position(s, y) \in 1..Len(s) /\ s[Position(s, y)] = y
      BY <2>13, PositionFacts
    <3>2. Position(s, x) # n /\ Position(s, y) # n
      BY <2>1, <2>13, <3>1
    <3>3. /\ Position(w, x) = IF Position(s, x) < n THEN Position(s, x) ELSE Position(s, x) - 1
          /\ Position(w, y) = IF Position(s, y) < n THEN Position(s, y) ELSE Position(s, y) - 1
      BY <2>11, <2>13, <3>1
    <3> QED BY <1>1, <2>1, <2>13, <3>1, <3>2, <3>3
  <2> HIDE DEF at
  <2> QED BY <2>4, <2>7, <2>10, <2>12, <2>13
<1> QED BY <1>3, <1>4

\* Append of a new element.
LEMMA JoinsList ==
  ASSUME NEW S, NEW s \in Seq(S), IsInjective(s), NEW e \in S, ~In(s, e)
  PROVE  /\ Append(s, e) \in Seq(S) /\ IsInjective(Append(s, e))
         /\ \A x : In(Append(s, e), x) <=> In(s, x) \/ x = e
         /\ \A x : In(s, x) => /\ Position(Append(s, e), x) = Position(s, x)
                               /\ Position(Append(s, e), x) < Position(Append(s, e), e)
<1> DEFINE w == Append(s, e)
<1>1. Len(s) \in Nat /\ DOMAIN s = 1..Len(s)
  BY LenProperties
<1>2. /\ w \in Seq(S) /\ Len(w) = Len(s) + 1
      /\ \A i \in 1..Len(s) : w[i] = s[i]
      /\ w[Len(s) + 1] = e
  BY AppendProperties
<1> HIDE DEF w
<1>3. DOMAIN w = 1..(Len(s) + 1)
  BY <1>2, LenProperties
<1>4. \A i \in 1..Len(s) : s[i] # e
  BY <1>1 DEF In
<1>5. IsInjective(w)
  <2> SUFFICES ASSUME NEW i \in 1..(Len(s) + 1), NEW j \in 1..(Len(s) + 1), w[i] = w[j]
               PROVE  i = j
      BY <1>3 DEF IsInjective
  <2> QED BY <1>1, <1>2, <1>4 DEF IsInjective
<1>6. \A x : In(w, x) <=> In(s, x) \/ x = e
  <2>1. \A i \in 1..(Len(s) + 1) : i \in 1..Len(s) \/ i = Len(s) + 1
    BY <1>1
  <2>2. \A i \in 1..Len(s) : i \in 1..(Len(s) + 1)
    BY <1>1
  <2>3. Len(s) + 1 \in 1..(Len(s) + 1)
    BY <1>1
  <2> QED BY <1>1, <1>2, <1>3, <2>1, <2>2, <2>3 DEF In
<1>7. \A i \in 1..(Len(s) + 1) : Position(w, w[i]) = i
  BY <1>2, <1>5, PositionFacts
<1>8. ASSUME NEW x, In(s, x) PROVE Position(w, x) = Position(s, x) /\ Position(w, x) < Position(w, e)
  <2>1. Position(s, x) \in 1..Len(s) /\ s[Position(s, x)] = x
    BY <1>8, PositionFacts
  <2>2. Position(w, x) = Position(s, x)
    BY <1>1, <1>2, <1>7, <2>1
  <2>3. Position(w, e) = Len(s) + 1
    BY <1>1, <1>2, <1>7
  <2> QED BY <1>1, <2>1, <2>2, <2>3
<1> QED BY <1>2, <1>5, <1>6, <1>8 DEF w

-----------------------------------------------------------------------------
(* The invariants *)

\* scheduler.go and service.go: what is chosen is still the least recently used of its
\* pool when AssignJob runs, since only AssignJob writes last_assigned_at.
PickIsLeast ==
  pick # NoPick =>
    \A q \in pick.pool \ {pick.runner} : CanRun(q, pick.need) => lessRecentlyUsed(pick.runner, q)

\* Whoever was given a job past a waiting runner was assigned later than that one.
Behind(q, r) == In(recent, q) /\ (In(recent, r) => Position(recent, r) < Position(recent, q))
PassedIsBehind == \A r, q \in Runners : passed[r][q] # 0 => passed[r][q] = 1 /\ Behind(q, r)

ChoiceInv == ChoiceTypeOK /\ PickIsLeast /\ PassedIsBehind

\* The start.
LEMMA InitChoice ==
  ASSUME ChoiceInit
  PROVE  ChoiceInv
<1>1. <<>> \in Seq(Runners) /\ DOMAIN <<>> = {} /\ IsInjective(<<>>)
  BY EmptySeq DEF IsInjective
<1>2. \A x : ~In(<<>>, x)
  BY <1>1 DEF In
<1>3. Nobody \in [Runners -> 0..2] /\ \A r \in Runners : Nobody[r] = 0
  BY DEF Nobody
<1>4. ChoiceTypeOK
  BY <1>1, <1>2, <1>3 DEF ChoiceInit, ChoiceTypeOK
<1> QED BY <1>3, <1>4 DEF ChoiceInit, ChoiceInv, PickIsLeast, PassedIsBehind

\* Steps that write no last_assigned_at, choose nobody, and at most forget what a
\* runner was passed over.
Outside == /\ UNCHANGED recent /\ (UNCHANGED pick \/ pick' = NoPick)
           /\ \A r \in Runners : passed'[r] \in {passed[r], Nobody}

\* They keep the order.
LEMMA OutsideKeeps ==
  ASSUME ChoiceInv, Outside
  PROVE  PickIsLeast' /\ PassedIsBehind'
<1>1. \A a, b : lessRecentlyUsed(a, b)' <=> lessRecentlyUsed(a, b)
  BY DEF Outside, lessRecentlyUsed, LastAssigned
<1>2. PickIsLeast'
  BY <1>1 DEF ChoiceInv, PickIsLeast, Outside, CanRun
<1>3. PassedIsBehind'
  BY DEF ChoiceInv, PassedIsBehind, Outside, Nobody, Behind
<1> QED BY <1>2, <1>3

\* store.go, RegisterRunner, releaseRunner and Heartbeat: a runner becomes idle.
LEMMA JoinsKeeps ==
  ASSUME ChoiceInv, NEW r \in Runners, Joins(r), status[r] # "IDLE",
         status' = [status EXCEPT ![r] = "IDLE"], fresh' \in [Runners -> BOOLEAN],
         UNCHANGED <<recent, pick>>
  PROVE  ChoiceInv'
<1>1. waiting \in Seq(Runners) /\ IsInjective(waiting) /\ ~In(waiting, r)
  BY DEF ChoiceInv, ChoiceTypeOK
<1>2. /\ waiting' \in Seq(Runners) /\ IsInjective(waiting')
      /\ \A x : In(waiting', x) <=> In(waiting, x) \/ x = r
  BY <1>1, JoinsList DEF Joins
<1>3. ChoiceTypeOK'
  <2>1. \A q \in Runners : status'[q] = IF q = r THEN "IDLE" ELSE status[q]
    BY DEF ChoiceInv, ChoiceTypeOK
  <2> QED BY <1>2, <2>1 DEF ChoiceInv, ChoiceTypeOK, Joins
<1>4. Outside
  BY DEF Outside, Joins
<1> QED BY <1>3, <1>4, OutsideKeeps DEF ChoiceInv

\* store.go, ReapOfflineRunners.
LEMMA ReapKeeps ==
  ASSUME ChoiceInv, NEW r \in Runners, Reap(r)
  PROVE  ChoiceInv'
<1>1. waiting \in Seq(Runners) /\ IsInjective(waiting)
  BY DEF ChoiceInv, ChoiceTypeOK
<1>2. /\ waiting' \in Seq(Runners) /\ IsInjective(waiting')
      /\ \A x : In(waiting', x) <=> In(waiting, x) /\ x # r
  BY <1>1, LeavesList DEF Reap, Leaves
<1>3. Nobody \in [Runners -> 0..2]
  BY DEF Nobody
<1>4. ChoiceTypeOK'
  <2>1. \A q \in Runners : status'[q] = IF q = r THEN "OFFLINE" ELSE status[q]
    BY DEF ChoiceInv, ChoiceTypeOK, Reap
  <2> QED BY <1>2, <1>3, <2>1 DEF ChoiceInv, ChoiceTypeOK, Reap, Leaves
<1>5. Outside
  BY DEF Outside, Reap, Leaves, ChoiceInv, ChoiceTypeOK
<1> QED BY <1>4, <1>5, OutsideKeeps DEF ChoiceInv

\* service.go, assign: the candidates are read and one is chosen.
LEMMA ChooseKeeps ==
  ASSUME ChoiceInv, NEW need \in Needs, Choose(need)
  PROVE  ChoiceInv'
<1>1. PICK seq \in SetToSeqs(Pool) :
        /\ Schedule(need, seq) # NULL
        /\ pick' = [runner |-> Schedule(need, seq), need |-> need, pool |-> Pool]
  BY DEF Choose, IdleRunners
<1>2. UNCHANGED <<status, fresh, recent, waiting, passed>>
  BY DEF Choose
<1> DEFINE b == Schedule(need, seq)
<1>3. Least(b, need, Pool)
  BY ChoiceFromPool DEF ChoiceInv
<1> HIDE DEF b
<1>4. b \in Pool /\ \A q \in Pool \ {b} : CanRun(q, need) => lessRecentlyUsed(b, q)
  BY <1>1, <1>3 DEF Least, b
<1>5. pick' = [runner |-> b, need |-> need, pool |-> Pool]
  BY <1>1 DEF b
<1>6. Pool \subseteq Runners
  BY DEF Pool
<1>7. pick' \in [runner : Runners, need : Needs, pool : SUBSET Runners] /\ pick'.runner \in pick'.pool
  BY <1>4, <1>5, <1>6
<1>8. ChoiceTypeOK'
  BY <1>2, <1>7 DEF ChoiceInv, ChoiceTypeOK
<1>9. PickIsLeast'
  <2>1. \A a, c : lessRecentlyUsed(a, c)' <=> lessRecentlyUsed(a, c)
    BY <1>2 DEF lessRecentlyUsed, LastAssigned
  <2>2. pick'.runner = b /\ pick'.need = need /\ pick'.pool = Pool
    BY <1>5
  <2> QED BY <1>4, <2>1, <2>2 DEF PickIsLeast, CanRun
<1>10. PassedIsBehind'
  BY <1>2 DEF ChoiceInv, PassedIsBehind, Behind
<1> QED BY <1>8, <1>9, <1>10 DEF ChoiceInv

\* store.go, AssignJob: the runner moves to the end of the order, behind all that it
\* was given the job past.
LEMMA AssignKeeps ==
  ASSUME ChoiceInv, Assign
  PROVE  ChoiceInv'
<1> DEFINE r == pick.runner
           over == {q \in pick.pool \ {r} : CanRun(q, pick.need) /\ status[q] = "IDLE"}
<1>1. /\ status' = [status EXCEPT ![r] = "BUSY"] /\ recent' = Append(RemoveFirst(recent, r), r)
      /\ waiting' = RemoveFirst(waiting, r) /\ pick' = NoPick /\ UNCHANGED fresh
      /\ passed' = [q \in Runners |-> IF q = r THEN Nobody
                      ELSE IF q \in over THEN [passed[q] EXCEPT ![r] = IF @ = 0 THEN 1 ELSE 2]
                      ELSE passed[q]]
      /\ pick # NoPick
  BY DEF Assign, AssignedNow
<1>2. r \in Runners /\ over \subseteq Runners \ {r}
  BY <1>1 DEF ChoiceInv, ChoiceTypeOK
<1>3. /\ \A q \in over : lessRecentlyUsed(r, q)
  BY <1>1 DEF ChoiceInv, PickIsLeast
<1> HIDE DEF r, over
<1>4. /\ waiting \in Seq(Runners) /\ IsInjective(waiting)
      /\ recent \in Seq(Runners) /\ IsInjective(recent)
  BY DEF ChoiceInv, ChoiceTypeOK
<1>5. /\ waiting' \in Seq(Runners) /\ IsInjective(waiting')
      /\ \A x : In(waiting', x) <=> In(waiting, x) /\ x # r
  BY <1>1, <1>4, LeavesList
<1> DEFINE rest == RemoveFirst(recent, r)
<1>6. /\ rest \in Seq(Runners) /\ IsInjective(rest)
      /\ \A x : In(rest, x) <=> In(recent, x) /\ x # r
      /\ \A x, y : In(recent, x) /\ In(recent, y) /\ x # r /\ y # r =>
           (Position(recent, x) < Position(recent, y) => Position(rest, x) < Position(rest, y))
  BY <1>4, LeavesList
<1>7. recent' = Append(rest, r)
  BY <1>1
<1> HIDE DEF rest
<1>8. /\ recent' \in Seq(Runners) /\ IsInjective(recent')
      /\ \A x : In(recent', x) <=> In(rest, x) \/ x = r
      /\ \A x : In(rest, x) => /\ Position(recent', x) = Position(rest, x)
                               /\ Position(recent', x) < Position(recent', r)
  BY <1>2, <1>6, <1>7, JoinsList
<1>9. \A p, q \in Runners : p = r /\ q # r => Behind(p, q)'
  BY <1>6, <1>8 DEF Behind
<1>10. \A p, q \in Runners : p # r /\ q # r /\ Behind(p, q) => Behind(p, q)'
  BY <1>6, <1>8 DEF Behind
<1>11. \A q \in over : ~Behind(r, q)
  <2> SUFFICES ASSUME NEW q \in over, Behind(r, q) PROVE FALSE
      OBVIOUS
  <2>1. In(recent, r) /\ LastAssigned(r) # NULL /\ LastAssigned(r) \in Nat
        /\ LastAssigned(r) = Position(recent, r)
    BY LeastRecentIsAnOrder DEF Behind, ChoiceInv
  <2>2. LastAssigned(q) # NULL /\ LastAssigned(r) < LastAssigned(q)
    BY <1>3, <2>1 DEF lessRecentlyUsed
  <2>3. In(recent, q) /\ LastAssigned(q) = Position(recent, q) /\ LastAssigned(q) \in Nat
    BY <2>2, LeastRecentIsAnOrder DEF ChoiceInv
  <2> QED BY <2>1, <2>2, <2>3 DEF Behind
<1>12. \A q \in over : passed[q][r] = 0
  BY <1>2, <1>11 DEF ChoiceInv, PassedIsBehind
<1>13. /\ passed \in [Runners -> [Runners -> 0..2]]
       /\ Nobody \in [Runners -> 0..2] /\ \A p \in Runners : Nobody[p] = 0
  BY DEF ChoiceInv, ChoiceTypeOK, Nobody
<1>14. \A q, p \in Runners : passed'[q][p] = IF q = r THEN 0
                                             ELSE IF q \in over /\ p = r THEN 1
                                             ELSE passed[q][p]
  BY <1>1, <1>2, <1>12, <1>13
<1>15. passed' \in [Runners -> [Runners -> 0..2]]
  BY <1>1, <1>2, <1>13
<1>16. ChoiceTypeOK'
  <2>1. \A q \in Runners : status'[q] = IF q = r THEN "BUSY" ELSE status[q]
    BY <1>1 DEF ChoiceInv, ChoiceTypeOK
  <2>2. status' \in [Runners -> {"NONE", "IDLE", "BUSY", "OFFLINE"}]
    BY <1>1 DEF ChoiceInv, ChoiceTypeOK
  <2>3. \A q \in Runners : /\ In(waiting', q) <=> status'[q] = "IDLE"
                           /\ status'[q] = "BUSY" => In(recent', q)
    BY <1>5, <1>6, <1>8, <2>1 DEF ChoiceInv, ChoiceTypeOK
  <2>4. fresh' \in [Runners -> BOOLEAN]
    BY <1>1 DEF ChoiceInv, ChoiceTypeOK
  <2> QED BY <1>1, <1>5, <1>8, <1>15, <2>2, <2>3, <2>4 DEF ChoiceTypeOK
<1>17. PickIsLeast'
  BY <1>1 DEF PickIsLeast, NoPick
<1>18. PassedIsBehind'
  <2> SUFFICES ASSUME NEW q \in Runners, NEW p \in Runners, passed'[q][p] # 0
               PROVE  passed'[q][p] = 1 /\ Behind(p, q)'
      BY DEF PassedIsBehind
  <2>1. q # r
    BY <1>14
  <2>2. CASE p = r
    <3>1. passed'[q][p] = 1
      BY <1>14, <2>1, <2>2 DEF ChoiceInv, PassedIsBehind
    <3> QED BY <1>9, <2>1, <2>2, <3>1
  <2>3. CASE p # r
    <3>1. passed'[q][p] = passed[q][p]
      BY <1>14, <2>1, <2>3
    <3>2. passed[q][p] = 1 /\ Behind(p, q)
      BY <3>1 DEF ChoiceInv, PassedIsBehind
    <3> QED BY <1>10, <2>1, <2>3, <3>1, <3>2
  <2> QED BY <2>2, <2>3
<1> QED BY <1>16, <1>17, <1>18 DEF ChoiceInv

\* Every step keeps the invariants.
LEMMA StepChoice ==
  ASSUME ChoiceInv, [ChoiceNext]_choiceVars
  PROVE  ChoiceInv'
<1>1. ASSUME NEW need \in Needs, Choose(need) PROVE ChoiceInv'
  BY <1>1, ChooseKeeps
<1>2. CASE Assign
  BY <1>2, AssignKeeps
<1>3. CASE AssignFails
  <2>1. Outside /\ UNCHANGED <<status, fresh, recent, waiting, passed>> /\ pick' = NoPick
    BY <1>3 DEF AssignFails, Outside
  <2>2. ChoiceTypeOK'
    BY <2>1 DEF ChoiceInv, ChoiceTypeOK
  <2> QED BY <2>1, <2>2, OutsideKeeps DEF ChoiceInv
<1>4. ASSUME NEW r \in Runners, Register(r) PROVE ChoiceInv'
  <2>1. fresh' \in [Runners -> BOOLEAN]
    BY <1>4 DEF Register, ChoiceInv, ChoiceTypeOK
  <2> QED BY <1>4, <2>1, JoinsKeeps DEF Register
<1>5. ASSUME NEW r \in Runners, Release(r) PROVE ChoiceInv'
  <2>1. fresh' \in [Runners -> BOOLEAN]
    BY <1>5 DEF Release, ChoiceInv, ChoiceTypeOK
  <2> QED BY <1>5, <2>1, JoinsKeeps DEF Release
<1>6. ASSUME NEW r \in Runners, FallsSilent(r) PROVE ChoiceInv'
  <2>1. Outside
    BY <1>6 DEF FallsSilent, Outside, ChoiceInv, ChoiceTypeOK
  <2>2. Nobody \in [Runners -> 0..2]
    BY DEF Nobody
  <2>3. ChoiceTypeOK'
    BY <1>6, <2>2 DEF FallsSilent, ChoiceInv, ChoiceTypeOK
  <2> QED BY <2>1, <2>3, OutsideKeeps DEF ChoiceInv
<1>7. ASSUME NEW r \in Runners, Reap(r) PROVE ChoiceInv'
  BY <1>7, ReapKeeps
<1>8. ASSUME NEW r \in Runners, Heartbeat(r) PROVE ChoiceInv'
  <2>1. fresh' \in [Runners -> BOOLEAN] /\ UNCHANGED <<recent, pick>>
    BY <1>8 DEF Heartbeat, ChoiceInv, ChoiceTypeOK
  <2>2. CASE status[r] = "OFFLINE"
    BY <1>8, <2>1, <2>2, JoinsKeeps DEF Heartbeat
  <2>3. CASE status[r] # "OFFLINE"
    <3>1. Outside /\ UNCHANGED <<status, waiting, passed>>
      BY <1>8, <2>1, <2>3 DEF Heartbeat, Outside
    <3>2. ChoiceTypeOK'
      BY <2>1, <3>1 DEF ChoiceInv, ChoiceTypeOK
    <3> QED BY <3>1, <3>2, OutsideKeeps DEF ChoiceInv
  <2> QED BY <2>2, <2>3
<1>9. CASE UNCHANGED choiceVars
  <2>1. Outside
    BY <1>9 DEF choiceVars, Outside
  <2>2. ChoiceTypeOK'
    BY <1>9 DEF choiceVars, ChoiceInv, ChoiceTypeOK
  <2> QED BY <2>1, <2>2, OutsideKeeps DEF ChoiceInv
<1> QED BY <1>1, <1>2, <1>3, <1>4, <1>5, <1>6, <1>7, <1>8, <1>9 DEF ChoiceNext

-----------------------------------------------------------------------------

\* scheduler.go, Schedule: for any number of runners and any labels, the loop chooses
\* the least recently used of the pool in whatever order the database returned it.
THEOREM ChoiceCorrect == ChoiceSpec => []ChoiceIsLeastRecent
<1>1. ChoiceInv => ChoiceIsLeastRecent
  <2> SUFFICES ASSUME ChoiceInv PROVE ChoiceIsLeastRecent
      OBVIOUS
  <2>1. ASSUME NEW need \in Needs, NEW seq \in SetToSeqs(Pool)
        PROVE  Least(Schedule(need, seq), need, Pool) /\ ChoiceTypeOK
    BY ChoiceFromPool DEF ChoiceInv
  <2> QED BY <2>1, LeastIsReference DEF ChoiceIsLeastRecent
<1>2. ChoiceInit => ChoiceInv
  BY InitChoice
<1>3. ChoiceInv /\ [ChoiceNext]_choiceVars => ChoiceInv'
  BY StepChoice
<1> QED BY <1>1, <1>2, <1>3, PTL DEF ChoiceSpec

\* architecture.md, "LRU spreads load": for any number of runners, whatever comes and
\* goes between the choice and its assignment, no runner is given two jobs past
\* another that waits in the pool.
THEOREM LoadIsSpread == ChoiceSpec => []PassedOverOnce
<1>1. ChoiceInv => PassedOverOnce
  <2> SUFFICES ASSUME ChoiceInv, NEW r \in Runners, NEW q \in Runners PROVE passed[r][q] <= 1
      BY DEF PassedOverOnce
  <2> QED BY DEF ChoiceInv, PassedIsBehind
<1>2. ChoiceInit => ChoiceInv
  BY InitChoice
<1>3. ChoiceInv /\ [ChoiceNext]_choiceVars => ChoiceInv'
  BY StepChoice
<1> QED BY <1>1, <1>2, <1>3, PTL DEF ChoiceSpec
=============================================================================
