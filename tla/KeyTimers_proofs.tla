-------------------------- MODULE KeyTimers_proofs --------------------------
(***************************************************************************)
(* Theorems about the timing wheel, and about the slot table, the leases   *)
(* and the timers that end keys, for any radix, slots, lifetimes and       *)
(* retention.                                                              *)
(*                                                                         *)
(* The wheel.  A delay is split over the levels like a number over its     *)
(* digits (EntryIs): some level can take it, and its bucket, its rotation  *)
(* and the rest that its link carries add up to the tick that was asked    *)
(* for.  NextLeg keeps that sum when a bucket's turn comes.  So what a     *)
(* wheel will deliver is a set of timers and ticks which a turn changes by *)
(* what is due, a request by what was asked, and a removal by the timers   *)
(* that were named (TickedDelivers, ScheduledDelivers, WithoutDelivers).   *)
(*                                                                         *)
(* That every row will be ended.  IInv: a row's timers are known to be of  *)
(* ITS key and ITS lease (Needed), a lease that a row refers to answers    *)
(* for it (Told), and a renewal in progress is of a live row.  It needs    *)
(* what the wheel holds and not when it delivers.                          *)
(*                                                                         *)
(* That it ends when it should.  DInv, inductive with IInv: the latest     *)
(* delivery of a live row's timers is its latest expiry and Retention      *)
(* after that, a dead row's reap comes no earlier than its end allows      *)
(* (Timed), a timer of a key is of a lease the key has had (Owned), what   *)
(* is given out stays within the wheel's span whatever the clock does      *)
(* (ClockInv), and a lease that nothing cancelled is of a live row (Live). *)
(*                                                                         *)
(* What every command and every tick does with the schedule is one         *)
(* operator, Settle, and one lemma for each invariant: SettleKeeps,        *)
(* SettleTimes.                                                            *)
(***************************************************************************)
EXTENDS KeyTimers, WellFoundedInduction, TLAPS


-----------------------------------------------------------------------------
(* The wheel: periods and routes                                             *)

\* A set of numbers that is not empty has a lowest one.
LEMMA LowestExists ==
    ASSUME NEW T, T \subseteq Nat, T # {}
    PROVE  \E x \in T : \A y \in T : x <= y
<1>1. PICK x \in T : \A y \in T : ~ (<<y, x>> \in OpToRel(<, Nat))
  BY WFMin, NatLessThanWellFounded
<1>2. ASSUME NEW y \in T PROVE ~ (y < x)
  BY <1>1 DEF OpToRel
<1> QED
  BY <1>2

\* Division with remainder.
LEMMA Division ==
    ASSUME NEW a \in Nat, NEW d \in Nat \ {0}
    PROVE  a \div d \in Nat /\ a % d \in Nat /\ a % d < d /\ a = d * (a \div d) + (a % d)
OBVIOUS

LEMMA DivisionIs ==
    ASSUME NEW q \in Nat, NEW r \in Nat, NEW d \in Nat \ {0}, r < d
    PROVE  (d * q + r) % d = r /\ (d * q + r) \div d = q
OBVIOUS

\* What follows for a number and its successor.
LEMMA DivisionNext ==
    ASSUME NEW a \in Nat, NEW d \in Nat \ {0}
    PROVE  /\ (a + 1) % d # 0 => (a + 1) % d = (a % d) + 1
           /\ (a + 1) % d = 0 => a % d = d - 1
<1> DEFINE q == a \div d
           r == a % d
<1>1. q \in Nat /\ r \in Nat /\ r < d /\ a = d * q + r
  BY Division
<1>2. r = a % d
  OBVIOUS
<1> HIDE DEF q, r
<1>3. CASE r = d - 1
  <2>1. a + 1 = d * (q + 1) + 0
    <3>1. d * (q + 1) = d * q + d
      BY <1>1
    <3> QED
      BY <1>1, <1>3, <3>1
  <2>2. (d * (q + 1) + 0) % d = 0
    BY <1>1, DivisionIs
  <2> QED
    BY <1>2, <1>3, <2>1, <2>2
<1>4. CASE r # d - 1
  <2>1. a + 1 = d * q + (r + 1) /\ r + 1 \in Nat /\ r + 1 < d
    BY <1>1, <1>4
  <2>2. (d * q + (r + 1)) % d = r + 1
    BY <1>1, <2>1, DivisionIs
  <2> QED
    BY <1>1, <1>2, <1>4, <2>1, <2>2
<1> QED
  BY <1>3, <1>4

-----------------------------------------------------------------------------
(* The periods of the levels                                                 *)

LEMMA RadixIs == Radix \in Nat /\ Radix > 1 /\ MaxDelay \in Nat \ {0} /\ 0 \in Buckets
BY WheelAssumption DEF WheelAssumption, Buckets

\* The recursion defines a period for every level.
LEMMA PeriodIs ==
    /\ Period[0] = 1
    /\ \A l \in Nat : Period[l] \in Nat \ {0} /\ Period[l + 1] = Radix * Period[l]
<1> DEFINE Upto(n) == {g \in [0 .. n -> Nat] : g[0] = 1 /\ \A k \in 0 .. n : k # n => g[k + 1] = Radix * g[k]}
<1>1. ASSUME NEW n \in Nat PROVE Upto(n) # {}
  <2> DEFINE T == {k \in Nat : Upto(k) = {}}
  <2>1. SUFFICES ASSUME T # {} PROVE FALSE
    BY <1>1
  <2>2. PICK x \in T : \A y \in T : x <= y
    BY <2>1, LowestExists
  <2>3. x \in Nat /\ Upto(x) = {}
    BY <2>2
  <2>4. CASE x = 0
    <3>1. [k \in 0 .. 0 |-> 1] \in Upto(0)
      OBVIOUS
    <3> QED
      BY <2>3, <2>4, <3>1
  <2>5. CASE x # 0
    <3>1. x - 1 \in Nat /\ Upto(x - 1) # {}
      <4>1. x - 1 \in Nat /\ ~ (x <= x - 1)
        BY <2>3, <2>5
      <4> HIDE DEF Upto
      <4> QED
        BY <2>2, <4>1
    <3>2. PICK g \in Upto(x - 1) : TRUE
      BY <3>1
    <3>3. g \in [0 .. (x - 1) -> Nat] /\ g[0] = 1 /\ \A k \in 0 .. (x - 1) : k # x - 1 => g[k + 1] = Radix * g[k]
      BY <3>2
    <3> DEFINE h == [k \in 0 .. x |-> IF k = x THEN Radix * g[x - 1] ELSE g[k]]
    <3>4. h \in [0 .. x -> Nat]
      <4>1. ASSUME NEW k \in 0 .. x PROVE (IF k = x THEN Radix * g[x - 1] ELSE g[k]) \in Nat
        <5>1. g[x - 1] \in Nat
          BY <3>1, <3>3
        <5>2. Radix * g[x - 1] \in Nat
          BY <5>1, RadixIs
        <5>3. k # x => k \in 0 .. (x - 1)
          BY <2>3
        <5> QED
          BY <3>3, <5>2, <5>3
      <4> QED
        BY <4>1
    <3>5. h[0] = 1
      BY <2>3, <2>5, <3>3
    <3>6. ASSUME NEW k \in 0 .. x, k # x PROVE h[k + 1] = Radix * h[k]
      <4>1. k \in 0 .. (x - 1) /\ k + 1 \in 0 .. x
        BY <2>3, <3>6
      <4>2. CASE k = x - 1
        BY <2>3, <4>1, <4>2
      <4>3. CASE k # x - 1
        BY <2>3, <3>3, <4>1, <4>3
      <4> QED
        BY <4>2, <4>3
    <3>7. h \in Upto(x)
      BY <3>4, <3>5, <3>6
    <3> QED
      BY <2>3, <3>7
  <2> QED
    BY <2>4, <2>5
<1>2. ASSUME NEW n \in Nat, NEW g \in Upto(n), NEW h \in Upto(n + 1), NEW k \in 0 .. n PROVE g[k] = h[k]
  <2> DEFINE T == {j \in 0 .. n : g[j] # h[j]}
  <2>1. SUFFICES ASSUME T # {} PROVE FALSE
    BY <1>2
  <2>2. PICK x \in T : \A y \in T : x <= y
    <3>1. T \subseteq Nat
      OBVIOUS
    <3> HIDE DEF T
    <3> QED
      BY <2>1, <3>1, LowestExists
  <2>3. x \in 0 .. n /\ g[x] # h[x]
    BY <2>2
  <2>4. CASE x = 0
    BY <2>3, <2>4
  <2>5. CASE x # 0
    <3>1. x - 1 \in 0 .. n /\ x - 1 # n /\ x - 1 \in 0 .. (n + 1) /\ x - 1 # n + 1 /\ x - 1 \notin T /\ (x - 1) + 1 = x
      BY <2>2, <2>3, <2>5
    <3>2. g[x - 1] = h[x - 1]
      BY <3>1
    <3>3. g[(x - 1) + 1] = Radix * g[x - 1] /\ h[(x - 1) + 1] = Radix * h[x - 1]
      BY <3>1
    <3> QED
      BY <2>3, <3>1, <3>2, <3>3
  <2> QED
    BY <2>4, <2>5
<1> DEFINE some(n) == CHOOSE g \in Upto(n) : TRUE
           F == [n \in Nat |-> some(n)[n]]
           Def(g) == [n \in Nat |-> IF n = 0 THEN 1 ELSE Radix * g[n - 1]]
<1>3. \A n \in Nat : some(n) \in Upto(n)
  <2> HIDE DEF Upto
  <2> QED
    BY <1>1
<1> HIDE DEF some
<1>4. F[0] = 1
  BY <1>3
<1>5. ASSUME NEW n \in Nat PROVE F[n + 1] = Radix * F[n]
  <2>1. some(n) \in Upto(n) /\ some(n + 1) \in Upto(n + 1)
    <3> HIDE DEF Upto
    <3>1. n + 1 \in Nat
      OBVIOUS
    <3> QED
      BY <1>3, <3>1
  <2>2. some(n)[n] = some(n + 1)[n]
    <3>1. n \in 0 .. n
      OBVIOUS
    <3> HIDE DEF Upto
    <3> QED
      BY <1>2, <2>1, <3>1
  <2>3. some(n + 1)[n + 1] = Radix * some(n + 1)[n]
    BY <2>1
  <2>4. n + 1 \in Nat
    OBVIOUS
  <2> QED
    BY <2>2, <2>3, <2>4
<1>6. F = Def(F)
  <2>1. ASSUME NEW n \in Nat PROVE F[n] = IF n = 0 THEN 1 ELSE Radix * F[n - 1]
    <3>1. CASE n = 0
      BY <1>4, <3>1
    <3>2. CASE n # 0
      <4>1. n - 1 \in Nat /\ (n - 1) + 1 = n
        BY <3>2
      <4> HIDE DEF F
      <4> QED
        BY <1>5, <3>2, <4>1
    <3> QED
      BY <3>1, <3>2
  <2>2. F = [n \in Nat |-> F[n]]
    OBVIOUS
  <2> HIDE DEF F
  <2> QED
    BY <2>1, <2>2
<1>7. Period = CHOOSE g : g = Def(g)
  BY DEF Period
<1>8. Period = Def(Period)
  <2> HIDE DEF F, Def
  <2> QED
    BY <1>6, <1>7
<1>9. \A n \in Nat : Period[n] = IF n = 0 THEN 1 ELSE Radix * Period[n - 1]
  BY <1>8
<1>10. Period[0] = 1
  BY <1>9
<1>11. ASSUME NEW l \in Nat PROVE Period[l + 1] = Radix * Period[l]
  <2>1. l + 1 \in Nat /\ l + 1 # 0 /\ (l + 1) - 1 = l
    OBVIOUS
  <2> QED
    BY <1>9, <2>1
<1>12. ASSUME NEW l \in Nat PROVE Period[l] \in Nat \ {0}
  <2> DEFINE T == {k \in Nat : Period[k] \notin Nat \ {0}}
  <2>1. SUFFICES ASSUME T # {} PROVE FALSE
    BY <1>12
  <2>2. PICK x \in T : \A y \in T : x <= y
    BY <2>1, LowestExists
  <2>3. x # 0
    BY <1>10, <2>2
  <2>4. x - 1 \in Nat /\ x - 1 \notin T /\ (x - 1) + 1 = x
    BY <2>2, <2>3
  <2>5. Period[x - 1] \in Nat \ {0} /\ Period[x] = Radix * Period[x - 1]
    BY <1>11, <2>4
  <2>6. Radix * Period[x - 1] \in Nat \ {0}
    <3>1. \A p \in Nat \ {0} : Radix * p \in Nat \ {0}
      BY RadixIs
    <3> QED
      BY <2>5, <3>1
  <2> QED
    BY <2>2, <2>5, <2>6
<1> QED
  BY <1>10, <1>11, <1>12

\* Of a level and a coarser one, the period of the one divides that of the other.
LEMMA PeriodDivides ==
    ASSUME NEW m \in Nat, NEW l \in Nat, m <= l
    PROVE  \E q \in Nat \ {0} : Period[l] = Period[m] * q
<1> DEFINE Divides(n) == \E q \in Nat \ {0} : Period[n] = Period[m] * q
           T == {n \in Nat : m <= n /\ ~ Divides(n)}
<1>1. SUFFICES ASSUME T # {} PROVE FALSE
  OBVIOUS
<1>2. PICK x \in T : \A y \in T : x <= y
  <2> HIDE DEF Divides
  <2> QED
    BY <1>1, LowestExists
<1>3. x \in Nat /\ m <= x /\ ~ Divides(x)
  BY <1>2
<1>4. x # m
  <2>1. Period[m] = Period[m] * 1
    BY PeriodIs
  <2> QED
    BY <1>3, <2>1
<1>5. x - 1 \in Nat /\ m <= x - 1 /\ (x - 1) + 1 = x /\ ~ (x <= x - 1)
  BY <1>3, <1>4
<1>6. Divides(x - 1)
  <2> HIDE DEF Divides
  <2> QED
    BY <1>2, <1>5
<1>7. PICK q \in Nat \ {0} : Period[x - 1] = Period[m] * q
  BY <1>6
<1>8. Period[x] = Radix * Period[x - 1]
  BY <1>5, PeriodIs
<1>9. Radix * q \in Nat \ {0} /\ Period[x] = Period[m] * (Radix * q)
  BY <1>7, <1>8, PeriodIs, RadixIs
<1> QED
  BY <1>3, <1>9

LEMMA PeriodGrows ==
    ASSUME NEW m \in Nat, NEW l \in Nat, m < l
    PROVE  Period[m] < Period[l] /\ Radix * Period[m] <= Period[l]
<1>1. m + 1 \in Nat /\ m + 1 <= l
  OBVIOUS
<1>2. PICK q \in Nat \ {0} : Period[l] = Period[m + 1] * q
  BY <1>1, PeriodDivides
<1>3. Period[m + 1] = Radix * Period[m] /\ Period[m] \in Nat \ {0} /\ Period[m + 1] \in Nat \ {0}
  BY <1>1, PeriodIs
<1>4. Period[m + 1] <= Period[m + 1] * q
  BY <1>3
<1>5. Period[m] < Radix * Period[m]
  BY <1>3, RadixIs
<1> QED
  BY <1>2, <1>3, <1>4, <1>5, PeriodIs

LEMMA PeriodReaches == \A n \in Nat : n < Period[n]
<1> DEFINE T == {n \in Nat : ~ (n < Period[n])}
<1>1. SUFFICES ASSUME T # {} PROVE FALSE
  OBVIOUS
<1>2. PICK x \in T : \A y \in T : x <= y
  BY <1>1, LowestExists
<1>3. x # 0
  BY <1>2, PeriodIs
<1>4. x - 1 \in Nat /\ x - 1 \notin T /\ (x - 1) + 1 = x
  BY <1>2, <1>3
<1>5. x - 1 < Period[x - 1] /\ Period[x] = Radix * Period[x - 1] /\ Period[x - 1] \in Nat
  BY <1>4, PeriodIs
<1>6. Period[x - 1] + 1 <= Radix * Period[x - 1]
  <2>1. \A p \in Nat : p > 0 => p + 1 <= Radix * p
    BY RadixIs
  <2> QED
    BY <1>4, <1>5, <2>1
<1>7. Period[x - 1] + 1 <= Period[x] /\ Period[x] \in Nat /\ x \in Nat
  BY <1>2, <1>5, <1>6, PeriodIs
<1>8. x < Period[x]
  BY <1>4, <1>5, <1>7
<1> QED
  BY <1>2, <1>8

\* TimingWheel::new finds a number of levels that span the longest delay.
LEMMA LevelsAre == LevelCount \in Nat \ {0} /\ 0 \in Levels /\ Levels \subseteq Nat /\ Span = Period[LevelCount]
<1> DEFINE T == {n \in Nat : n > 0 /\ Period[n] >= MaxDelay}
           Fits(n) == Period[n] >= MaxDelay /\ \A m \in 1 .. (n - 1) : Period[m] < MaxDelay
<1>1. MaxDelay \in T
  BY RadixIs, PeriodReaches, PeriodIs
<1>2. PICK x \in T : \A y \in T : x <= y
  <2> HIDE DEF T
  <2>1. T \subseteq Nat
    BY DEF T
  <2> QED
    BY <1>1, <2>1, LowestExists
<1>3. x \in 1 .. MaxDelay
  BY <1>1, <1>2, RadixIs
<1>4. ASSUME NEW m \in 1 .. (x - 1) PROVE Period[m] < MaxDelay
  <2>1. m \in Nat /\ m > 0 /\ ~ (x <= m)
    BY <1>2
  <2>2. ~ (Period[m] >= MaxDelay)
    BY <1>2, <2>1
  <2> QED
    BY <2>1, <2>2, RadixIs, PeriodIs
<1>5. Fits(x)
  BY <1>2, <1>4
<1>6. LevelCount = CHOOSE n \in 1 .. MaxDelay : Fits(n)
  BY DEF LevelCount
<1> HIDE DEF Fits
<1>7. LevelCount \in 1 .. MaxDelay
  BY <1>3, <1>5, <1>6
<1> QED
  BY <1>7, RadixIs DEF Levels, Span

\* Levels have a coarsest one.
LEMMA CoarsestIs ==
    ASSUME NEW S, S \subseteq Levels, S # {}
    PROVE  Coarsest(S) \in S /\ \A m \in S : m <= Coarsest(S)
<1> DEFINE T == {n \in Nat : \E l \in S : n = LevelCount - l}
<1>1. \A l \in S : l \in Nat /\ LevelCount - l \in T
  BY LevelsAre DEF Levels
<1>2. T # {}
  BY <1>1
<1>3. PICK x \in T : \A y \in T : x <= y
  BY <1>2, LowestExists
<1>4. PICK l \in S : x = LevelCount - l
  BY <1>3
<1>5. \A m \in S : m <= l
  <2> SUFFICES ASSUME NEW m \in S PROVE m <= l
    OBVIOUS
  <2>1. LevelCount - l <= LevelCount - m /\ m \in Nat /\ l \in Nat
    BY <1>1, <1>3, <1>4
  <2> QED
    BY <2>1, LevelsAre
<1> HIDE DEF T
<1> QED
  BY <1>4, <1>5 DEF Coarsest

-----------------------------------------------------------------------------
(* Rotations                                                                 *)

LEMMA LevelPeriod == \A l \in Levels : l \in Nat /\ Period[l] \in Nat \ {0}
BY LevelsAre, PeriodIs

\* The next rotation of a level is its next boundary after now.
LEMMA NextRotationIs ==
    ASSUME NEW t \in Nat, NEW l \in Nat
    PROVE  /\ NextRotation(t, l) = Period[l] * (t \div Period[l]) + Period[l]
           /\ NextRotation(t, l) \in Nat /\ t < NextRotation(t, l) /\ NextRotation(t, l) <= t + Period[l]
<1> DEFINE p == Period[l]
           q == t \div p
           r == t % p
<1>1. p \in Nat \ {0}
  BY PeriodIs
<1>2. NextRotation(t, l) = t - r + p
  BY DEF NextRotation
<1>3. q \in Nat /\ r \in Nat /\ r < p /\ t = p * q + r
  <2> HIDE DEF p
  <2> QED
    BY <1>1, Division
<1>4. p * q \in Nat
  <2> HIDE DEF p, q
  <2> QED
    BY <1>1, <1>3
<1> HIDE DEF p, q, r
<1>5. t - r + p = p * q + p
  BY <1>1, <1>3, <1>4
<1>6. t - r + p \in Nat /\ t < t - r + p /\ t - r + p <= t + p
  BY <1>1, <1>3
<1> QED
  BY <1>2, <1>5, <1>6 DEF p, q

\* A level that does not turn over keeps its next rotation, which is still ahead.
LEMMA RotationStays ==
    ASSUME NEW t \in Nat, NEW l \in Nat, (t + 1) % Period[l] # 0
    PROVE  NextRotation(t + 1, l) = NextRotation(t, l) /\ t + 1 < NextRotation(t, l)
<1>1. Period[l] \in Nat \ {0}
  BY PeriodIs
<1>2. (t + 1) % Period[l] = (t % Period[l]) + 1 /\ t % Period[l] \in Nat
  BY <1>1, DivisionNext, Division
<1>3. t + 1 \in Nat
  OBVIOUS
<1>4. NextRotation(t + 1, l) = NextRotation(t, l)
  BY <1>1, <1>2 DEF NextRotation
<1> QED
  BY <1>3, <1>4, NextRotationIs

\* One that does was at its next rotation, and comes to the one after.
LEMMA RotationTurns ==
    ASSUME NEW t \in Nat, NEW l \in Nat, (t + 1) % Period[l] = 0
    PROVE  NextRotation(t, l) = t + 1 /\ NextRotation(t + 1, l) = t + 1 + Period[l]
<1>1. Period[l] \in Nat \ {0}
  BY PeriodIs
<1>2. t % Period[l] = Period[l] - 1
  BY <1>1, DivisionNext
<1> QED
  BY <1>1, <1>2 DEF NextRotation

\* Every finer level turns over with it: TimingWheel::tick stops at the first that
\* does not.
LEMMA FinerTurns ==
    ASSUME NEW t \in Nat, NEW m \in Nat, NEW l \in Nat, m <= l, t % Period[l] = 0
    PROVE  t % Period[m] = 0
<1>1. PICK q \in Nat \ {0} : Period[l] = Period[m] * q
  BY PeriodDivides
<1>2. Period[l] \in Nat \ {0} /\ Period[m] \in Nat \ {0}
  BY PeriodIs
<1>3. t \div Period[l] \in Nat /\ t = Period[l] * (t \div Period[l]) + 0
  BY <1>2, Division
<1>4. PICK n \in Nat : t = Period[l] * n
  BY <1>2, <1>3
<1>5. q * n \in Nat /\ t = Period[m] * (q * n) + 0
  BY <1>1, <1>2, <1>4
<1>6. \A k \in Nat : (Period[m] * k + 0) % Period[m] = 0
  BY <1>2, DivisionIs
<1> QED
  BY <1>5, <1>6

-----------------------------------------------------------------------------
(* Legs                                                                      *)

\* The next leg goes to a finer level than the one it comes from, and with what it
\* leaves it makes up the ticks that were left.
LEMMA NextLegIs ==
    ASSUME NEW l \in Levels, NEW rest \in Nat, rest # 0, rest < Period[l]
    PROVE  /\ NextLeg(rest).level \in Levels /\ NextLeg(rest).level < l
           /\ NextLeg(rest).bucket \in Buckets
           /\ NextLeg(rest).rest \in Nat /\ NextLeg(rest).rest < Period[NextLeg(rest).level]
           /\ rest = Period[NextLeg(rest).level] + NextLeg(rest).bucket * Period[NextLeg(rest).level] + NextLeg(rest).rest
<1> DEFINE S == {m \in Levels : Period[m] <= rest}
           level == Coarsest(S)
           p == Period[level]
           q == rest \div p
           r == rest % p
<1>1. NextLeg(rest) = [level |-> level, bucket |-> q - 1, rest |-> r]
  BY DEF NextLeg
<1>2. 0 \in S
  BY LevelsAre, PeriodIs
<1>3. level \in S /\ \A m \in S : m <= level
  <2>1. S \subseteq Levels /\ S # {}
    BY <1>2
  <2> HIDE DEF S
  <2> QED
    BY <2>1, CoarsestIs
<1>4. level \in Levels /\ p <= rest
  BY <1>3
<1> HIDE DEF level
<1>5. level \in Nat /\ l \in Nat /\ p \in Nat \ {0} /\ Period[l] \in Nat
  BY <1>4, LevelPeriod
<1>6. level < l
  <2>1. l = level => FALSE
    BY <1>4, <1>5
  <2>2. l < level => FALSE
    BY <1>4, <1>5, PeriodGrows
  <2> QED
    BY <1>5, <2>1, <2>2
<1>7. rest < Radix * p
  <2>1. level + 1 \in Levels /\ level + 1 \in Nat
    BY <1>5, <1>6, LevelsAre DEF Levels
  <2>2. level + 1 \notin S
    BY <1>3, <1>5
  <2>3. Period[level + 1] = Radix * p
    BY <1>5, PeriodIs
  <2>4. Radix * p \in Nat
    BY <1>5, RadixIs
  <2> QED
    BY <2>1, <2>2, <2>3, <2>4
<1>8. q \in Nat /\ r \in Nat /\ r < p /\ rest = p * q + r
  <2> HIDE DEF p
  <2> QED
    BY <1>5, Division
<1> HIDE DEF p, q, r
<1>9. q > 0
  BY <1>4, <1>5, <1>8
<1>10. q < Radix
  <2> SUFFICES ASSUME q >= Radix PROVE FALSE
    BY <1>8, RadixIs
  <2>1. p * q >= p * Radix
    BY <1>5, <1>8, RadixIs
  <2> QED
    BY <1>5, <1>7, <1>8, <2>1, RadixIs
<1>11. q - 1 \in Buckets
  BY <1>8, <1>9, <1>10, RadixIs DEF Buckets
<1>12. rest = p + (q - 1) * p + r
  BY <1>5, <1>8
<1> QED
  BY <1>1, <1>4, <1>6, <1>8, <1>11, <1>12 DEF p

\* The rotation of a coarser level is within a revolution of that of a finer one.
LEMMA RotationsNest ==
    ASSUME NEW t \in Nat, NEW l \in Nat
    PROVE  NextRotation(t, l + 1) <= NextRotation(t, l) + (Radix - 1) * Period[l]
<1> DEFINE p == Period[l]
           big == Period[l + 1]
           q == t \div big
           r == t % big
           n == r \div p
           s == r % p
<1>1. p \in Nat \ {0} /\ big = Radix * p /\ big \in Nat \ {0} /\ l + 1 \in Nat
  BY PeriodIs
<1>2. q \in Nat /\ r \in Nat /\ r < big /\ t = big * q + r
  <2> HIDE DEF big
  <2> QED
    BY <1>1, Division
<1>3. NextRotation(t, l + 1) = t - r + big /\ NextRotation(t, l) = t - (t % p) + p
  BY DEF NextRotation
<1> HIDE DEF big, q, r
<1>4. n \in Nat /\ s \in Nat /\ s < p /\ r = p * n + s
  <2> HIDE DEF p
  <2> QED
    BY <1>1, <1>2, Division
<1> HIDE DEF p, n, s
<1>5. Radix * q + n \in Nat /\ t = p * (Radix * q + n) + s
  <2>1. big * q = p * (Radix * q)
    BY <1>1, <1>2, RadixIs
  <2>2. p * (Radix * q + n) = p * (Radix * q) + p * n
    BY <1>1, <1>2, <1>4, RadixIs
  <2>3. Radix * q + n \in Nat
    BY <1>2, <1>4, RadixIs
  <2>4. p * (Radix * q) \in Nat /\ p * n \in Nat
    BY <1>1, <1>2, <1>4, RadixIs
  <2> QED
    BY <1>2, <1>4, <2>1, <2>2, <2>3, <2>4
<1>6. t % p = s
  <2>1. \A k \in Nat : (p * k + s) % p = s
    BY <1>1, <1>4, DivisionIs
  <2> QED
    BY <1>5, <2>1
<1>7. (Radix - 1) * p = big - p
  BY <1>1, RadixIs
<1>8. s <= r
  <2>1. p * n \in Nat
    BY <1>1, <1>4
  <2> QED
    BY <1>4, <2>1
<1>9. t - r + big <= t - s + p + (big - p)
  BY <1>1, <1>2, <1>4, <1>8
<1> QED
  BY <1>3, <1>6, <1>7, <1>9 DEF p, big

\* Whatever the tick, some level takes any delay that the wheel spans, and its first
\* leg and what it leaves make up the delay (TimingWheel::schedule, entry_leg).
LEMMA EntryIs ==
    ASSUME NEW t \in Nat, NEW delay \in 1 .. Span
    PROVE  /\ Placeable(t, delay)
           /\ Entry(t, delay).level \in Levels /\ Entry(t, delay).bucket \in Buckets
           /\ Entry(t, delay).rest \in Nat /\ Entry(t, delay).rest < Period[Entry(t, delay).level]
           /\ NextRotation(t, Entry(t, delay).level) + Entry(t, delay).bucket * Period[Entry(t, delay).level]
                + Entry(t, delay).rest = t + delay
<1> DEFINE due == t + delay
           Ahead(l) == due - NextRotation(t, l)
           S == {l \in Levels : Ahead(l) >= 0}
           top == Coarsest(S)
<1>0. delay \in Nat /\ Span \in Nat
  BY LevelsAre, PeriodIs
<1>1. due \in Nat /\ \A l \in Levels : l \in Nat /\ Period[l] \in Nat \ {0} /\ NextRotation(t, l) \in Nat
  <2>1. due \in Nat
    BY <1>0
  <2> QED
    BY <2>1, LevelPeriod, NextRotationIs
<1>2. 0 \in S
  <2>1. Period[0] = 1 /\ 0 \in Nat
    BY PeriodIs
  <2>2. NextRotation(t, 0) <= t + 1 /\ NextRotation(t, 0) \in Nat
    BY <2>1, NextRotationIs
  <2> QED
    BY <2>2, LevelsAre
<1>3. top \in S /\ \A m \in S : m <= top
  <2>1. S \subseteq Levels /\ S # {}
    BY <1>2
  <2> HIDE DEF S
  <2> QED
    BY <2>1, CoarsestIs
<1> HIDE DEF top
<1>4. top \in Levels /\ top \in Nat /\ Ahead(top) \in Nat /\ Period[top] \in Nat \ {0}
  BY <1>1, <1>3
<1>5. Ahead(top) < Radix * Period[top]
  <2>1. CASE top + 1 \in Levels
    <3>1. NextRotation(t, top + 1) <= NextRotation(t, top) + (Radix - 1) * Period[top]
      BY <1>4, RotationsNest
    <3>2. top + 1 \notin S
      BY <1>3, <1>4
    <3>3. Ahead(top + 1) < 0 /\ NextRotation(t, top + 1) \in Nat /\ NextRotation(t, top) \in Nat
      BY <1>1, <1>4, <2>1, <3>2
    <3>4. (Radix - 1) * Period[top] <= Radix * Period[top] /\ (Radix - 1) * Period[top] \in Nat /\ Radix * Period[top] \in Nat
      <4>1. \A p \in Nat \ {0} : (Radix - 1) * p <= Radix * p /\ (Radix - 1) * p \in Nat /\ Radix * p \in Nat
        BY RadixIs
      <4> QED
        BY <1>4, <4>1
    <3> QED
      BY <1>1, <3>1, <3>3, <3>4
  <2>2. CASE top + 1 \notin Levels
    <3>1. top + 1 = LevelCount
      BY <1>4, <2>2, LevelsAre DEF Levels
    <3>2. Span = Radix * Period[top] /\ Span \in Nat
      BY <1>4, <3>1, LevelsAre, PeriodIs
    <3>3. NextRotation(t, top) > t /\ NextRotation(t, top) \in Nat
      BY <1>4, NextRotationIs
    <3> QED
      BY <1>0, <1>4, <3>2, <3>3
  <2> QED
    BY <2>1, <2>2
<1> HIDE DEF S
<1>6. top \in Reaching(t, due)
  <2>1. Ahead(top) \div Period[top] < Radix
    <3> DEFINE a == Ahead(top)
               p == Period[top]
               q == a \div p
    <3>1. a \in Nat /\ p \in Nat \ {0} /\ a < Radix * p
      BY <1>4, <1>5
    <3> HIDE DEF a, p
    <3>2. q \in Nat /\ a % p \in Nat /\ a = p * q + (a % p)
      BY <3>1, Division
    <3> HIDE DEF q
    <3>3. q < Radix
      <4> SUFFICES ASSUME q >= Radix PROVE FALSE
        BY <3>2, RadixIs
      <4>1. p * q >= p * Radix
        BY <3>1, <3>2, RadixIs
      <4>2. p * q \in Nat /\ p * Radix = Radix * p
        BY <3>1, <3>2, RadixIs
      <4> QED
        BY <3>1, <3>2, <4>1, <4>2, RadixIs
    <3> QED
      BY <3>3 DEF a, p, q
  <2> QED
    BY <1>4, <2>1 DEF Reaching
<1> DEFINE level == Coarsest(Reaching(t, due))
           ahead == Ahead(level)
           p == Period[level]
           q == ahead \div p
           r == ahead % p
<1>7. level \in Reaching(t, due)
  <2>1. Reaching(t, due) \subseteq Levels /\ Reaching(t, due) # {}
    BY <1>6 DEF Reaching
  <2> QED
    BY <2>1, CoarsestIs
<1>8. Entry(t, delay) = [level |-> level, bucket |-> q, rest |-> r]
  <2>1. \A a, l : l = Coarsest(Reaching(t, t + delay)) /\ a = t + delay - NextRotation(t, l) =>
                    Entry(t, delay) = [level |-> l, bucket |-> a \div Period[l], rest |-> a % Period[l]]
    BY DEF Entry
  <2>2. level = Coarsest(Reaching(t, t + delay))
    OBVIOUS
  <2>3. level \in Levels
    BY <1>7 DEF Reaching
  <2> HIDE DEF level
  <2>4. ahead = t + delay - NextRotation(t, level)
    BY <1>0, <1>1, <2>3
  <2> HIDE DEF ahead
  <2> QED
    BY <2>1, <2>2, <2>4
<1>9. Placeable(t, delay)
  BY <1>6 DEF Placeable
<1> HIDE DEF level
<1>10. level \in Levels /\ ahead >= 0 /\ q < Radix
  BY <1>7 DEF Reaching
<1>11. p \in Nat \ {0} /\ NextRotation(t, level) \in Nat /\ ahead \in Nat
  BY <1>1, <1>10
<1>12. ahead = due - NextRotation(t, level)
  OBVIOUS
<1> HIDE DEF Ahead, ahead, due
<1>13. q \in Nat /\ r \in Nat /\ r < p /\ ahead = p * q + r
  <2> HIDE DEF p
  <2> QED
    BY <1>11, Division
<1> HIDE DEF q, r
<1>14. q \in Buckets
  BY <1>10, <1>13, RadixIs DEF Buckets
<1>15. NextRotation(t, level) + q * p + r = due
  <2>1. q * p = p * q /\ q * p \in Nat
    BY <1>11, <1>13
  <2> QED
    BY <1>1, <1>11, <1>12, <1>13, <2>1 DEF due
<1> QED
  BY <1>8, <1>9, <1>10, <1>13, <1>14, <1>15 DEF p, due

-----------------------------------------------------------------------------
(* The wheel as a set of deliveries                                          *)

\* What every wheel in use is: its links are due within their level's period.
WheelOK(w) ==
    /\ {"ticks", "level"} \subseteq DOMAIN w /\ w.ticks \in Nat
    /\ \A l \in Levels, b \in Buckets : \A k \in w.level[l][b] : k.rest \in Nat /\ k.rest < Period[l]

\* The delivery that a link stands for.
DeliveryOf(ticks, l, b, k) ==
    [timer |-> k.timer, at |-> NextRotation(ticks, l) + b * Period[l] + k.rest]

LEMMA DeliveriesAre ==
    ASSUME NEW w, NEW d
    PROVE  d \in Deliveries(w) <=>
             \E l \in Levels, b \in Buckets : \E k \in w.level[l][b] : d = DeliveryOf(w.ticks, l, b, k)
<1> DEFINE Of(l, b) == {[timer |-> k.timer, at |-> NextRotation(w.ticks, l) + b * Period[l] + k.rest] : k \in w.level[l][b]}
<1>1. Deliveries(w) = UNION {Of(l, b) : l \in Levels, b \in Buckets}
  BY DEF Deliveries
<1>2. \A l, b : d \in Of(l, b) <=> \E k \in w.level[l][b] : d = DeliveryOf(w.ticks, l, b, k)
  BY DEF DeliveryOf
<1> HIDE DEF Of
<1>3. d \in UNION {Of(l, b) : l \in Levels, b \in Buckets} <=> \E l \in Levels, b \in Buckets : d \in Of(l, b)
  <2>1. ASSUME d \in UNION {Of(l, b) : l \in Levels, b \in Buckets} PROVE \E l \in Levels, b \in Buckets : d \in Of(l, b)
    <3>1. PICK B \in {Of(l, b) : l \in Levels, b \in Buckets} : d \in B
      BY <2>1
    <3> QED
      BY <3>1
  <2>2. ASSUME NEW l \in Levels, NEW b \in Buckets, d \in Of(l, b) PROVE d \in UNION {Of(m, a) : m \in Levels, a \in Buckets}
    BY <2>2
  <2> QED
    BY <2>1, <2>2
<1> QED
  BY <1>1, <1>2, <1>3

\* A timer is held by the routes that will deliver it.
LEMMA HeldIs ==
    ASSUME NEW w, NEW x
    PROVE  x \in Held(w) <=> \E l \in Levels, b \in Buckets : \E k \in w.level[l][b] : k.timer = x
<1>1. ASSUME x \in Held(w) PROVE \E l \in Levels, b \in Buckets : \E k \in w.level[l][b] : k.timer = x
  <2>1. PICK k \in UNION {w.level[l][b] : l \in Levels, b \in Buckets} : k.timer = x
    BY <1>1 DEF Held
  <2>2. PICK B \in {w.level[l][b] : l \in Levels, b \in Buckets} : k \in B
    BY <2>1
  <2>3. PICK l \in Levels, b \in Buckets : B = w.level[l][b]
    BY <2>2
  <2> QED
    BY <2>1, <2>2, <2>3
<1>2. ASSUME NEW l \in Levels, NEW b \in Buckets, NEW k \in w.level[l][b], k.timer = x PROVE x \in Held(w)
  <2>1. k \in UNION {w.level[m][a] : m \in Levels, a \in Buckets}
    BY <1>2
  <2> QED
    BY <1>2, <2>1 DEF Held
<1> QED
  BY <1>1, <1>2

LEMMA HeldIsDelivered ==
    ASSUME NEW w, NEW x
    PROVE  x \in Held(w) <=> \E d \in Deliveries(w) : d.timer = x
<1>1. \A l, b, k : DeliveryOf(w.ticks, l, b, k).timer = k.timer
  BY DEF DeliveryOf
<1>2. ASSUME x \in Held(w) PROVE \E d \in Deliveries(w) : d.timer = x
  <2>1. PICK l \in Levels, b \in Buckets : \E k \in w.level[l][b] : k.timer = x
    BY <1>2, HeldIs
  <2>2. PICK k \in w.level[l][b] : k.timer = x
    BY <2>1
  <2>3. DeliveryOf(w.ticks, l, b, k) \in Deliveries(w)
    BY DeliveriesAre
  <2> QED
    BY <1>1, <2>2, <2>3
<1>3. ASSUME NEW d \in Deliveries(w), d.timer = x PROVE x \in Held(w)
  <2>1. PICK l \in Levels, b \in Buckets : \E k \in w.level[l][b] : d = DeliveryOf(w.ticks, l, b, k)
    BY DeliveriesAre
  <2> QED
    BY <1>1, <1>3, <2>1, HeldIs
<1> QED
  BY <1>2, <1>3

\* No delivery is in the past.
LEMMA DeliversLater ==
    ASSUME NEW w, WheelOK(w), NEW d \in Deliveries(w)
    PROVE  d.at \in Nat /\ w.ticks < d.at
<1>1. PICK l \in Levels, b \in Buckets : \E k \in w.level[l][b] : d = DeliveryOf(w.ticks, l, b, k)
  BY DeliveriesAre
<1>2. PICK k \in w.level[l][b] : d = DeliveryOf(w.ticks, l, b, k)
  BY <1>1
<1>3. k.rest \in Nat /\ w.ticks \in Nat /\ b \in Nat /\ Period[l] \in Nat /\ l \in Nat
  BY LevelPeriod, RadixIs DEF WheelOK, Buckets
<1>4. b * Period[l] \in Nat
  BY <1>3
<1>5. NextRotation(w.ticks, l) \in Nat /\ w.ticks < NextRotation(w.ticks, l)
  BY <1>3, NextRotationIs
<1>6. d.at = NextRotation(w.ticks, l) + b * Period[l] + k.rest
  BY <1>2 DEF DeliveryOf
<1> QED
  BY <1>3, <1>4, <1>5, <1>6

\* A new wheel delivers nothing (TimingWheel::new).
LEMMA NewDelivers == WheelOK(NewWheel) /\ Deliveries(NewWheel) = {} /\ NewWheel.ticks = 0
<1>1. \A l \in Levels, b \in Buckets : NewWheel.level[l][b] = {}
  BY DEF NewWheel
<1>2. \A x : x \notin Deliveries(NewWheel)
  BY <1>1, DeliveriesAre
<1>3. NewWheel.ticks = 0 /\ {"ticks", "level"} \subseteq DOMAIN NewWheel
  BY DEF NewWheel
<1> QED
  BY <1>1, <1>2, <1>3 DEF WheelOK

-----------------------------------------------------------------------------
(* The wheel: what its steps deliver                                         *)

\* The delivery of a link of a bucket, worked out.
LEMMA LinkAt ==
    ASSUME NEW w, WheelOK(w), NEW l \in Levels, NEW b \in Buckets, NEW k \in w.level[l][b]
    PROVE  /\ l \in Nat /\ b \in Nat /\ k.rest \in Nat /\ k.rest < Period[l] /\ Period[l] \in Nat \ {0}
           /\ w.ticks \in Nat /\ NextRotation(w.ticks, l) \in Nat /\ b * Period[l] \in Nat
           /\ DeliveryOf(w.ticks, l, b, k).timer = k.timer
           /\ DeliveryOf(w.ticks, l, b, k).at = NextRotation(w.ticks, l) + b * Period[l] + k.rest
<1>1. l \in Nat /\ b \in Nat /\ k.rest \in Nat /\ k.rest < Period[l] /\ Period[l] \in Nat \ {0} /\ w.ticks \in Nat
  BY LevelPeriod, RadixIs DEF WheelOK, Buckets
<1>2. NextRotation(w.ticks, l) \in Nat
  BY <1>1, NextRotationIs
<1>3. b * Period[l] \in Nat
  <2>1. \A p \in Nat : b * p \in Nat
    BY <1>1
  <2> QED
    BY <1>1, <2>1
<1> QED
  BY <1>1, <1>2, <1>3 DEF DeliveryOf

\* A tick delivers what is due at it, on that tick, and leaves all other deliveries
\* where they are in time: levels that turn over shift their buckets, and the links
\* of the first one go on to a finer level (TimingWheel::tick).
THEOREM TickedDelivers ==
    ASSUME NEW w, WheelOK(w)
    PROVE  /\ WheelOK(Ticked(w)) /\ Ticked(w).ticks = w.ticks + 1
           /\ \A d : d \in Deliveries(Ticked(w)) <=> d \in Deliveries(w) /\ d.at # w.ticks + 1
<1> DEFINE ticks == w.ticks + 1
           turning == Turning(ticks)
           drained == UNION {w.level[l][0] : l \in turning}
           Relayed(l, b) == {[timer |-> k.timer, rest |-> NextLeg(k.rest).rest] :
                               k \in {j \in drained : j.rest # 0 /\ NextLeg(j.rest).level = l
                                                      /\ NextLeg(j.rest).bucket = b}}
           Shifted(l, b) == IF l \notin turning THEN w.level[l][b]
                            ELSE IF b = Radix - 1 THEN {} ELSE w.level[l][b + 1]
           v == Ticked(w)
<1>1. v = [ticks |-> ticks, level |-> [l \in Levels |-> [b \in Buckets |-> Shifted(l, b) \cup Relayed(l, b)]]]
  BY DEF Ticked
<1>2. /\ v.ticks = ticks /\ {"ticks", "level"} \subseteq DOMAIN v
      /\ \A l \in Levels, b \in Buckets : v.level[l][b] = Shifted(l, b) \cup Relayed(l, b)
  <2> HIDE DEF Shifted, Relayed, v
  <2> QED
    BY <1>1
<1> HIDE DEF v
<1>3. w.ticks \in Nat /\ ticks \in Nat /\ ticks = w.ticks + 1
  BY DEF WheelOK
<1>4. \A l \in Levels : l \in turning <=> ticks % Period[l] = 0
  BY DEF Turning
<1>5. turning \subseteq Levels
  BY DEF Turning
<1>6. ASSUME NEW k PROVE k \in drained <=> \E l \in turning : k \in w.level[l][0]
  OBVIOUS
<1>7. ASSUME NEW l \in Levels, NEW b \in Buckets, NEW k
      PROVE  /\ l \notin turning => (k \in Shifted(l, b) <=> k \in w.level[l][b])
             /\ l \in turning => (k \in Shifted(l, b) <=> b # Radix - 1 /\ k \in w.level[l][b + 1])
  OBVIOUS
<1>8. ASSUME NEW l \in Levels, NEW b \in Buckets, NEW k
      PROVE  k \in Relayed(l, b) <=> \E j \in drained : /\ j.rest # 0 /\ NextLeg(j.rest).level = l /\ NextLeg(j.rest).bucket = b
                                                        /\ k = [timer |-> j.timer, rest |-> NextLeg(j.rest).rest]
  OBVIOUS
<1> HIDE DEF turning, drained, Shifted, Relayed, ticks
\* Levels before and after.
<1>9. ASSUME NEW l \in Levels, l \notin turning
      PROVE  NextRotation(ticks, l) = NextRotation(w.ticks, l) /\ ticks < NextRotation(w.ticks, l)
  BY <1>3, <1>4, <1>9, LevelPeriod, RotationStays
<1>10. ASSUME NEW l \in Levels, l \in turning
       PROVE  NextRotation(w.ticks, l) = ticks /\ NextRotation(ticks, l) = ticks + Period[l]
  BY <1>3, <1>4, <1>10, LevelPeriod, RotationTurns
\* A link that is not drained.
<1>11. ASSUME NEW l \in Levels, NEW b \in Buckets, NEW k \in w.level[l][b], l \notin turning
       PROVE  /\ DeliveryOf(ticks, l, b, k) = DeliveryOf(w.ticks, l, b, k)
              /\ DeliveryOf(w.ticks, l, b, k).at # ticks
  <2>1. DeliveryOf(ticks, l, b, k) = DeliveryOf(w.ticks, l, b, k)
    BY <1>9, <1>11 DEF DeliveryOf
  <2> QED
    BY <1>3, <1>9, <1>11, <2>1, LinkAt
<1>12. ASSUME NEW l \in Levels, NEW b \in Buckets, b + 1 \in Buckets, NEW k \in w.level[l][b + 1], l \in turning
       PROVE  /\ DeliveryOf(ticks, l, b, k) = DeliveryOf(w.ticks, l, b + 1, k)
              /\ DeliveryOf(w.ticks, l, b + 1, k).at # ticks
  <2>1. /\ Period[l] \in Nat \ {0} /\ k.rest \in Nat /\ b + 1 \in Nat
        /\ DeliveryOf(w.ticks, l, b + 1, k).at = NextRotation(w.ticks, l) + (b + 1) * Period[l] + k.rest
    BY <1>12, LinkAt
  <2>2. b \in Nat
    BY RadixIs DEF Buckets
  <2>3. (b + 1) * Period[l] = b * Period[l] + Period[l] /\ b * Period[l] \in Nat
    <3>1. \A p \in Nat : (b + 1) * p = b * p + p /\ b * p \in Nat
      BY <2>2
    <3> QED
      BY <2>1, <3>1
  <2>4. NextRotation(w.ticks, l) + (b + 1) * Period[l] + k.rest = NextRotation(ticks, l) + b * Period[l] + k.rest
    BY <1>3, <1>10, <1>12, <2>1, <2>3
  <2>5. DeliveryOf(ticks, l, b, k) = DeliveryOf(w.ticks, l, b + 1, k)
    BY <2>4 DEF DeliveryOf
  <2>6. NextRotation(w.ticks, l) + (b + 1) * Period[l] + k.rest # ticks
    BY <1>3, <1>10, <1>12, <2>1, <2>3
  <2> QED
    BY <2>1, <2>5, <2>6
\* A link that is drained delivers at once, or goes on.
<1>13. ASSUME NEW l \in Levels, NEW k \in w.level[l][0], l \in turning
       PROVE  /\ k.rest \in Nat /\ k.rest < Period[l]
              /\ DeliveryOf(w.ticks, l, 0, k) = [timer |-> k.timer, at |-> ticks + k.rest]
  <2>1. 0 * Period[l] = 0 /\ k.rest \in Nat /\ k.rest < Period[l] /\ Period[l] \in Nat
    BY RadixIs, LinkAt
  <2>2. NextRotation(w.ticks, l) + 0 * Period[l] + k.rest = ticks + k.rest
    BY <1>3, <1>10, <1>13, <2>1
  <2> QED
    BY <2>1, <2>2 DEF DeliveryOf
<1>14. ASSUME NEW l \in Levels, NEW j \in w.level[l][0], l \in turning, j.rest # 0
       PROVE  /\ NextLeg(j.rest).level \in Levels /\ NextLeg(j.rest).bucket \in Buckets
              /\ NextLeg(j.rest).rest \in Nat /\ NextLeg(j.rest).rest < Period[NextLeg(j.rest).level]
              /\ \A k : k = [timer |-> j.timer, rest |-> NextLeg(j.rest).rest] =>
                    DeliveryOf(ticks, NextLeg(j.rest).level, NextLeg(j.rest).bucket, k) = DeliveryOf(w.ticks, l, 0, j)
  <2> DEFINE m == NextLeg(j.rest).level
             a == NextLeg(j.rest).bucket
             rest == NextLeg(j.rest).rest
  <2>1. j.rest \in Nat /\ j.rest < Period[l] /\ DeliveryOf(w.ticks, l, 0, j) = [timer |-> j.timer, at |-> ticks + j.rest]
    BY <1>13, <1>14
  <2>2. /\ m \in Levels /\ m < l /\ a \in Buckets /\ rest \in Nat /\ rest < Period[m]
        /\ j.rest = Period[m] + a * Period[m] + rest
    BY <1>14, <2>1, NextLegIs
  <2> HIDE DEF m, a, rest
  <2>3. m \in Nat /\ l \in Nat /\ a \in Nat /\ Period[m] \in Nat \ {0}
    BY <2>2, LevelPeriod, RadixIs DEF Buckets
  <2>4. m \in turning
    <3>1. m <= l /\ ticks % Period[l] = 0
      BY <1>4, <1>14, <2>2, <2>3
    <3> QED
      BY <1>3, <1>4, <2>2, <2>3, <3>1, FinerTurns
  <2>5. NextRotation(ticks, m) = ticks + Period[m]
    BY <1>10, <2>2, <2>4
  <2>6. a * Period[m] \in Nat
    BY <2>3
  <2>7. NextRotation(ticks, m) + a * Period[m] + rest = ticks + j.rest
    BY <1>3, <2>2, <2>3, <2>5, <2>6
  <2>8. ASSUME NEW k, k = [timer |-> j.timer, rest |-> rest]
        PROVE  DeliveryOf(ticks, m, a, k) = DeliveryOf(w.ticks, l, 0, j)
    BY <2>1, <2>7, <2>8 DEF DeliveryOf
  <2> QED
    BY <2>2, <2>8 DEF m, a, rest
\* Every link of the wheel after the tick is one of the wheel before, and the other way.
<1>15. ASSUME NEW l \in Levels, NEW b \in Buckets, NEW k \in v.level[l][b]
       PROVE  /\ k.rest \in Nat /\ k.rest < Period[l]
              /\ DeliveryOf(ticks, l, b, k) \in Deliveries(w) /\ DeliveryOf(ticks, l, b, k).at # ticks
  <2>1. CASE k \in Shifted(l, b) /\ l \notin turning
    <3>1. k \in w.level[l][b]
      BY <1>7, <2>1
    <3>2. k.rest \in Nat /\ k.rest < Period[l]
      BY <3>1, LinkAt
    <3>3. DeliveryOf(w.ticks, l, b, k) \in Deliveries(w)
      BY <3>1, DeliveriesAre
    <3> QED
      BY <1>11, <2>1, <3>1, <3>2, <3>3
  <2>2. CASE k \in Shifted(l, b) /\ l \in turning
    <3>1. b + 1 \in Buckets /\ k \in w.level[l][b + 1]
      BY <1>7, <2>2, RadixIs DEF Buckets
    <3>2. k.rest \in Nat /\ k.rest < Period[l]
      BY <3>1, LinkAt
    <3>3. DeliveryOf(w.ticks, l, b + 1, k) \in Deliveries(w)
      BY <3>1, DeliveriesAre
    <3> QED
      BY <1>12, <2>2, <3>1, <3>2, <3>3
  <2>3. CASE k \in Relayed(l, b)
    <3>1. PICK j \in drained : /\ j.rest # 0 /\ NextLeg(j.rest).level = l /\ NextLeg(j.rest).bucket = b
                               /\ k = [timer |-> j.timer, rest |-> NextLeg(j.rest).rest]
      BY <1>8, <2>3
    <3>2. PICK m \in turning : j \in w.level[m][0]
      BY <1>6
    <3>3. m \in Levels
      BY <1>5
    <3>4. k.rest = NextLeg(j.rest).rest
      BY <3>1
    <3>5. k.rest \in Nat /\ k.rest < Period[l]
      BY <1>14, <3>1, <3>2, <3>3, <3>4
    <3>6. DeliveryOf(ticks, l, b, k) = DeliveryOf(w.ticks, m, 0, j)
      BY <1>14, <3>1, <3>2, <3>3
    <3>7. DeliveryOf(w.ticks, m, 0, j) \in Deliveries(w)
      BY <3>2, <3>3, RadixIs, DeliveriesAre
    <3>8. DeliveryOf(w.ticks, m, 0, j) = [timer |-> j.timer, at |-> ticks + j.rest] /\ j.rest \in Nat
      BY <1>13, <3>2, <3>3
    <3>a. DeliveryOf(w.ticks, m, 0, j).at = ticks + j.rest
      BY <3>8
    <3>9. ticks + j.rest # ticks
      BY <1>3, <3>1, <3>8
    <3> QED
      BY <3>5, <3>6, <3>7, <3>a, <3>9
  <2> QED
    BY <1>2, <2>1, <2>2, <2>3
<1>16. ASSUME NEW l \in Levels, NEW b \in Buckets, NEW k \in w.level[l][b], DeliveryOf(w.ticks, l, b, k).at # ticks
       PROVE  DeliveryOf(w.ticks, l, b, k) \in Deliveries(v)
  <2>1. CASE l \notin turning
    <3>1. k \in v.level[l][b]
      BY <1>2, <1>7, <2>1
    <3> QED
      BY <1>2, <1>11, <2>1, <3>1, DeliveriesAre
  <2>2. CASE l \in turning /\ b # 0
    <3>1. b - 1 \in Buckets /\ (b - 1) + 1 = b /\ b - 1 # Radix - 1
      BY <2>2, RadixIs DEF Buckets
    <3>2. k \in v.level[l][b - 1]
      BY <1>2, <1>7, <2>2, <3>1
    <3>3. DeliveryOf(ticks, l, b - 1, k) = DeliveryOf(w.ticks, l, b, k)
      BY <1>12, <2>2, <3>1
    <3> QED
      BY <1>2, <3>1, <3>2, <3>3, DeliveriesAre
  <2>3. CASE l \in turning /\ b = 0
    <3>a. k \in w.level[l][0]
      BY <2>3
    <3>b. DeliveryOf(w.ticks, l, 0, k) = [timer |-> k.timer, at |-> ticks + k.rest] /\ k.rest \in Nat
      BY <1>13, <2>3, <3>a
    <3>1. k \in w.level[l][0] /\ DeliveryOf(w.ticks, l, 0, k).at = ticks + k.rest /\ k.rest \in Nat
      BY <3>a, <3>b
    <3>2. k.rest # 0
      BY <1>3, <1>16, <2>3, <3>1
    <3>3. k \in drained
      BY <1>6, <2>3
    <3> DEFINE m == NextLeg(k.rest).level
               a == NextLeg(k.rest).bucket
               next == [timer |-> k.timer, rest |-> NextLeg(k.rest).rest]
    <3>4. m \in Levels /\ a \in Buckets /\ DeliveryOf(ticks, m, a, next) = DeliveryOf(w.ticks, l, 0, k)
      BY <1>14, <2>3, <3>1, <3>2
    <3>5. next \in Relayed(m, a)
      BY <1>8, <3>2, <3>3, <3>4
    <3> HIDE DEF m, a, next
    <3>6. next \in v.level[m][a]
      BY <1>2, <3>4, <3>5
    <3> QED
      BY <1>2, <2>3, <3>4, <3>6, DeliveriesAre
  <2> QED
    BY <2>1, <2>2, <2>3
<1>17. WheelOK(v)
  BY <1>2, <1>3, <1>15 DEF WheelOK
<1>18. ASSUME NEW d \in Deliveries(v) PROVE d \in Deliveries(w) /\ d.at # ticks
  <2>1. PICK l \in Levels, b \in Buckets : \E k \in v.level[l][b] : d = DeliveryOf(ticks, l, b, k)
    BY <1>2, DeliveriesAre
  <2> QED
    BY <1>15, <2>1
<1>19. ASSUME NEW d \in Deliveries(w), d.at # ticks PROVE d \in Deliveries(v)
  <2>1. PICK l \in Levels, b \in Buckets : \E k \in w.level[l][b] : d = DeliveryOf(w.ticks, l, b, k)
    BY DeliveriesAre
  <2> QED
    BY <1>16, <1>19, <2>1
<1> QED
  BY <1>2, <1>17, <1>18, <1>19 DEF v, ticks

\* A request is delivered after its delay, to the tick; one the wheel cannot place is
\* not, and nothing else changes (TimingWheel::schedule).
THEOREM ScheduledDelivers ==
    ASSUME NEW w, WheelOK(w), NEW requests
    PROVE  /\ WheelOK(Scheduled(w, requests)) /\ Scheduled(w, requests).ticks = w.ticks
           /\ \A d : d \in Deliveries(Scheduled(w, requests)) <=>
                       \/ d \in Deliveries(w)
                       \/ \E r \in requests : r.delay \in 1 .. Span /\ d = [timer |-> r.timer, at |-> w.ticks + r.delay]
<1> DEFINE placed == {r \in requests : Placeable(w.ticks, r.delay)}
           Filed(l, b) == {[timer |-> r.timer, rest |-> Entry(w.ticks, r.delay).rest] :
                             r \in {p \in placed : LET e == Entry(w.ticks, p.delay)
                                                   IN e.level = l /\ e.bucket = b}}
           v == Scheduled(w, requests)
<1>1. v = [w EXCEPT !.level = [l \in Levels |-> [b \in Buckets |-> w.level[l][b] \cup Filed(l, b)]]]
  BY DEF Scheduled
<1>2. {"ticks", "level"} \subseteq DOMAIN w /\ w.ticks \in Nat
  BY DEF WheelOK
<1>3. ASSUME NEW l, NEW b, NEW k
      PROVE  k \in Filed(l, b) <=> \E r \in requests : /\ Placeable(w.ticks, r.delay)
                                                       /\ Entry(w.ticks, r.delay).level = l /\ Entry(w.ticks, r.delay).bucket = b
                                                       /\ k = [timer |-> r.timer, rest |-> Entry(w.ticks, r.delay).rest]
  OBVIOUS
<1> HIDE DEF placed, Filed, v
<1>4. /\ v.ticks = w.ticks /\ {"ticks", "level"} \subseteq DOMAIN v
      /\ v.level = [l \in Levels |-> [b \in Buckets |-> w.level[l][b] \cup Filed(l, b)]]
  BY <1>1, <1>2
<1>5. \A l \in Levels, b \in Buckets : v.level[l][b] = w.level[l][b] \cup Filed(l, b)
  BY <1>4
<1>6. ASSUME NEW r \in requests, Placeable(w.ticks, r.delay),
             NEW k, k = [timer |-> r.timer, rest |-> Entry(w.ticks, r.delay).rest]
      PROVE  /\ r.delay \in 1 .. Span
             /\ Entry(w.ticks, r.delay).level \in Levels /\ Entry(w.ticks, r.delay).bucket \in Buckets
             /\ k.rest \in Nat /\ k.rest < Period[Entry(w.ticks, r.delay).level]
             /\ DeliveryOf(w.ticks, Entry(w.ticks, r.delay).level, Entry(w.ticks, r.delay).bucket, k)
                  = [timer |-> r.timer, at |-> w.ticks + r.delay]
  <2>1. r.delay \in 1 .. Span
    BY <1>6 DEF Placeable
  <2>2. k.timer = r.timer /\ k.rest = Entry(w.ticks, r.delay).rest
    BY <1>6
  <2> DEFINE delay == r.delay
  <2>3. delay \in 1 .. Span
    BY <2>1
  <2> HIDE DEF delay
  <2>4. /\ Entry(w.ticks, delay).level \in Levels /\ Entry(w.ticks, delay).bucket \in Buckets
        /\ Entry(w.ticks, delay).rest \in Nat /\ Entry(w.ticks, delay).rest < Period[Entry(w.ticks, delay).level]
        /\ NextRotation(w.ticks, Entry(w.ticks, delay).level) + Entry(w.ticks, delay).bucket * Period[Entry(w.ticks, delay).level]
             + Entry(w.ticks, delay).rest = w.ticks + delay
    BY <1>2, <2>3, EntryIs
  <2> QED
    BY <2>1, <2>2, <2>4 DEF delay, DeliveryOf
<1>7. ASSUME NEW l \in Levels, NEW b \in Buckets, NEW k \in v.level[l][b]
      PROVE  /\ k.rest \in Nat /\ k.rest < Period[l]
             /\ \/ DeliveryOf(w.ticks, l, b, k) \in Deliveries(w)
                \/ \E r \in requests : r.delay \in 1 .. Span /\ DeliveryOf(w.ticks, l, b, k) = [timer |-> r.timer, at |-> w.ticks + r.delay]
  <2>1. CASE k \in w.level[l][b]
    <3>1. DeliveryOf(w.ticks, l, b, k) \in Deliveries(w)
      BY <2>1, DeliveriesAre
    <3> QED
      BY <2>1, <3>1, LinkAt
  <2>2. CASE k \in Filed(l, b)
    <3>1. PICK r \in requests : /\ Placeable(w.ticks, r.delay)
                                /\ Entry(w.ticks, r.delay).level = l /\ Entry(w.ticks, r.delay).bucket = b
                                /\ k = [timer |-> r.timer, rest |-> Entry(w.ticks, r.delay).rest]
      BY <1>3, <2>2
    <3>2. /\ r.delay \in 1 .. Span /\ k.rest \in Nat /\ k.rest < Period[l]
          /\ DeliveryOf(w.ticks, l, b, k) = [timer |-> r.timer, at |-> w.ticks + r.delay]
      BY <1>6, <3>1
    <3> QED
      BY <3>2
  <2> QED
    BY <1>5, <2>1, <2>2
<1>8. ASSUME NEW r \in requests, r.delay \in 1 .. Span, NEW d, d = [timer |-> r.timer, at |-> w.ticks + r.delay]
      PROVE  d \in Deliveries(v)
  <2>1. Placeable(w.ticks, r.delay)
    <3> DEFINE delay == r.delay
    <3>1. delay \in 1 .. Span
      BY <1>8
    <3> HIDE DEF delay
    <3>2. Placeable(w.ticks, delay)
      BY <1>2, <3>1, EntryIs
    <3> QED
      BY <3>2 DEF delay
  <2> DEFINE l == Entry(w.ticks, r.delay).level
             b == Entry(w.ticks, r.delay).bucket
             k == [timer |-> r.timer, rest |-> Entry(w.ticks, r.delay).rest]
  <2>2. l \in Levels /\ b \in Buckets /\ DeliveryOf(w.ticks, l, b, k) = d
    BY <1>6, <1>8, <2>1
  <2>3. k \in Filed(l, b)
    BY <1>3, <2>1
  <2> HIDE DEF l, b, k
  <2>4. k \in v.level[l][b]
    BY <1>5, <2>2, <2>3
  <2> QED
    BY <1>4, <2>2, <2>4, DeliveriesAre
<1>9. ASSUME NEW d \in Deliveries(w) PROVE d \in Deliveries(v)
  <2>1. PICK l \in Levels, b \in Buckets : \E k \in w.level[l][b] : d = DeliveryOf(w.ticks, l, b, k)
    BY DeliveriesAre
  <2>2. \E k \in v.level[l][b] : d = DeliveryOf(v.ticks, l, b, k)
    BY <1>4, <1>5, <2>1
  <2> QED
    BY <2>2, DeliveriesAre
<1>10. ASSUME NEW d \in Deliveries(v)
       PROVE  \/ d \in Deliveries(w)
              \/ \E r \in requests : r.delay \in 1 .. Span /\ d = [timer |-> r.timer, at |-> w.ticks + r.delay]
  <2>1. PICK l \in Levels, b \in Buckets : \E k \in v.level[l][b] : d = DeliveryOf(w.ticks, l, b, k)
    BY <1>4, DeliveriesAre
  <2> QED
    BY <1>7, <2>1
<1>11. WheelOK(v)
  BY <1>2, <1>4, <1>7 DEF WheelOK
<1> QED
  BY <1>4, <1>8, <1>9, <1>10, <1>11 DEF v

\* Taking timers off the wheel takes their deliveries off, and no others.
LEMMA WithoutDelivers ==
    ASSUME NEW w, WheelOK(w), NEW timers
    PROVE  /\ WheelOK(Without(w, timers)) /\ Without(w, timers).ticks = w.ticks
           /\ \A d : d \in Deliveries(Without(w, timers)) <=> d \in Deliveries(w) /\ d.timer \notin timers
<1> DEFINE v == Without(w, timers)
<1>1. v = [w EXCEPT !.level = [l \in Levels |-> [b \in Buckets |-> {k \in w.level[l][b] : k.timer \notin timers}]]]
  BY DEF Without
<1> HIDE DEF v
<1>2. {"ticks", "level"} \subseteq DOMAIN w
  BY DEF WheelOK
<1>3. /\ v.ticks = w.ticks /\ {"ticks", "level"} \subseteq DOMAIN v
      /\ \A l \in Levels, b \in Buckets : v.level[l][b] = {k \in w.level[l][b] : k.timer \notin timers}
  BY <1>1, <1>2
<1>4. \A l, b, k : DeliveryOf(w.ticks, l, b, k).timer = k.timer
  BY DEF DeliveryOf
<1>5. ASSUME NEW d \in Deliveries(v) PROVE d \in Deliveries(w) /\ d.timer \notin timers
  <2>1. PICK l \in Levels, b \in Buckets : \E k \in v.level[l][b] : d = DeliveryOf(w.ticks, l, b, k)
    BY <1>3, DeliveriesAre
  <2> QED
    BY <1>3, <1>4, <2>1, DeliveriesAre
<1>6. ASSUME NEW d \in Deliveries(w), d.timer \notin timers PROVE d \in Deliveries(v)
  <2>1. PICK l \in Levels, b \in Buckets : \E k \in w.level[l][b] : d = DeliveryOf(w.ticks, l, b, k)
    BY DeliveriesAre
  <2>2. \E k \in v.level[l][b] : d = DeliveryOf(v.ticks, l, b, k)
    BY <1>3, <1>4, <1>6, <2>1
  <2> QED
    BY <2>2, DeliveriesAre
<1>7. WheelOK(v)
  BY <1>3 DEF WheelOK
<1> QED
  BY <1>3, <1>5, <1>6, <1>7 DEF v

-----------------------------------------------------------------------------
(* What the wheel holds                                                      *)

\* A wheel has buckets.
IsWheel(w) == "level" \in DOMAIN w

\* A new wheel holds nothing (TimingWheel::new).
LEMMA NewHoldsNothing == IsWheel(NewWheel) /\ Held(NewWheel) = {}
<1>1. \A l \in Levels, b \in Buckets : NewWheel.level[l][b] = {}
  BY DEF NewWheel
<1>2. \A x : x \notin Held(NewWheel)
  BY <1>1, HeldIs
<1> QED
  BY <1>2 DEF NewWheel, IsWheel

\* A tick delivers timers, and takes none on.
LEMMA TickedHolds ==
    ASSUME NEW w
    PROVE  IsWheel(Ticked(w)) /\ Held(Ticked(w)) \subseteq Held(w)
<1> DEFINE ticks == w.ticks + 1
           turning == Turning(ticks)
           drained == UNION {w.level[l][0] : l \in turning}
           Relayed(l, b) == {[timer |-> k.timer, rest |-> NextLeg(k.rest).rest] :
                               k \in {j \in drained : j.rest # 0 /\ NextLeg(j.rest).level = l
                                                      /\ NextLeg(j.rest).bucket = b}}
           Shifted(l, b) == IF l \notin turning THEN w.level[l][b]
                            ELSE IF b = Radix - 1 THEN {} ELSE w.level[l][b + 1]
<1>0. Radix \in Nat /\ Radix > 1 /\ 0 \in Buckets
  BY WheelAssumption DEF WheelAssumption, Buckets
<1>1. Ticked(w) = [ticks |-> ticks,
                   level |-> [l \in Levels |-> [b \in Buckets |-> Shifted(l, b) \cup Relayed(l, b)]]]
  BY DEF Ticked
<1>2. turning \subseteq Levels
  BY DEF Turning
<1> HIDE DEF turning
<1>3. ASSUME NEW k \in drained PROVE k.timer \in Held(w)
  <2>1. PICK l \in turning : k \in w.level[l][0]
    BY <1>3
  <2> QED
    BY <1>0, <1>2, <2>1, HeldIs
<1>4. ASSUME NEW l \in Levels, NEW b \in Buckets, NEW k \in Relayed(l, b) PROVE k.timer \in Held(w)
  <2>1. \E j \in drained : k = [timer |-> j.timer, rest |-> NextLeg(j.rest).rest]
    BY <1>4
  <2> QED
    BY <1>3, <2>1
<1>5. ASSUME NEW l \in Levels, NEW b \in Buckets, NEW k \in Shifted(l, b) PROVE k.timer \in Held(w)
  <2>1. CASE l \notin turning
    BY <1>5, <2>1, HeldIs
  <2>2. CASE l \in turning /\ b # Radix - 1 /\ k \in w.level[l][b + 1]
    <3>1. b + 1 \in Buckets
      BY <1>0, <2>2 DEF Buckets
    <3> QED
      BY <2>2, <3>1, HeldIs
  <2> QED
    BY <1>5, <2>1, <2>2
<1> HIDE DEF drained, Relayed, Shifted, ticks
<1>6. \A l \in Levels, b \in Buckets : Ticked(w).level[l][b] = Shifted(l, b) \cup Relayed(l, b)
  BY <1>1
<1>7. ASSUME NEW x \in Held(Ticked(w)) PROVE x \in Held(w)
  <2>1. PICK l \in Levels, b \in Buckets : \E k \in Ticked(w).level[l][b] : k.timer = x
    BY HeldIs
  <2> QED
    BY <1>4, <1>5, <1>6, <2>1
<1>8. IsWheel(Ticked(w))
  BY <1>1 DEF IsWheel
<1> QED
  BY <1>7, <1>8

\* What is scheduled is held besides what was, or is not held at all.
LEMMA ScheduledHolds ==
    ASSUME NEW w, IsWheel(w), NEW requests
    PROVE  /\ IsWheel(Scheduled(w, requests))
           /\ Held(w) \subseteq Held(Scheduled(w, requests))
           /\ Held(Scheduled(w, requests)) \subseteq Held(w) \cup {r.timer : r \in requests}
<1> DEFINE placed == {r \in requests : Placeable(w.ticks, r.delay)}
           Filed(l, b) == {[timer |-> r.timer, rest |-> Entry(w.ticks, r.delay).rest] :
                             r \in {p \in placed : LET e == Entry(w.ticks, p.delay)
                                                   IN e.level = l /\ e.bucket = b}}
           v == Scheduled(w, requests)
<1>1. v = [w EXCEPT !.level = [l \in Levels |-> [b \in Buckets |-> w.level[l][b] \cup Filed(l, b)]]]
  BY DEF Scheduled
<1>2. ASSUME NEW l, NEW b, NEW k \in Filed(l, b) PROVE k.timer \in {r.timer : r \in requests}
  BY <1>2
<1> HIDE DEF placed, Filed, v
<1>3. IsWheel(v) /\ v.level = [l \in Levels |-> [b \in Buckets |-> w.level[l][b] \cup Filed(l, b)]]
  BY <1>1 DEF IsWheel
<1>4. \A l \in Levels, b \in Buckets : v.level[l][b] = w.level[l][b] \cup Filed(l, b)
  BY <1>3
<1>5. ASSUME NEW x \in Held(w) PROVE x \in Held(v)
  BY <1>4, HeldIs
<1>6. ASSUME NEW x \in Held(v) PROVE x \in Held(w) \cup {r.timer : r \in requests}
  <2>1. PICK l \in Levels, b \in Buckets : \E k \in v.level[l][b] : k.timer = x
    BY HeldIs
  <2> QED
    BY <1>2, <1>4, <2>1, HeldIs
<1> QED
  BY <1>3, <1>5, <1>6 DEF v

\* A timer fired early is off the wheel, and no other one.
LEMMA WithoutHolds ==
    ASSUME NEW w, IsWheel(w), NEW timers
    PROVE  IsWheel(Without(w, timers)) /\ Held(Without(w, timers)) = Held(w) \ timers
<1> DEFINE v == Without(w, timers)
<1>1. v = [w EXCEPT !.level = [l \in Levels |-> [b \in Buckets |->
                                 {k \in w.level[l][b] : k.timer \notin timers}]]]
  BY DEF Without
<1> HIDE DEF v
<1>2. IsWheel(v) /\ \A l \in Levels, b \in Buckets : v.level[l][b] = {k \in w.level[l][b] : k.timer \notin timers}
  BY <1>1 DEF IsWheel
<1>3. ASSUME NEW x PROVE x \in Held(v) <=> x \in Held(w) /\ x \notin timers
  <2>1. ASSUME x \in Held(v) PROVE x \in Held(w) /\ x \notin timers
    <3>1. PICK l \in Levels, b \in Buckets : \E k \in v.level[l][b] : k.timer = x
      BY <2>1, HeldIs
    <3> QED
      BY <1>2, <3>1, HeldIs
  <2>2. ASSUME x \in Held(w), x \notin timers PROVE x \in Held(v)
    <3>1. PICK l \in Levels, b \in Buckets : \E k \in w.level[l][b] : k.timer = x
      BY <2>2, HeldIs
    <3> QED
      BY <1>2, <2>2, <3>1, HeldIs
  <2> QED
    BY <2>1, <2>2
<1> QED
  BY <1>2, <1>3 DEF v

-----------------------------------------------------------------------------
(* Rows, leases and the timers they need                                     *)

\* The key of a row, and the timers by which it will end: both stages of a live
\* one, the reap of a dead one.
RowKey(row, s) == [slot |-> s, gen |-> row.gen]
Needed(row, s) == IF row.state = "active" THEN Stages(RowKey(row, s), row.lease)
                  ELSE IF Dead(row) THEN {Stage(RowKey(row, s), row.lease, "reap")} ELSE {}

\* What a lease of a live row may say: nothing yet, that a clock was at its
\* expiry, or that the store was closed.
Answers(l, latest, closed) == \/ l.reason = "none"
                              \/ l.reason = "expired" /\ l.expires <= latest
                              \/ closed /\ l.reason = "rotated"
Tells(l, latest) == l.reason = "revoked" \/ (l.reason = "expired" /\ l.expires <= latest)
Mine(row, s, ls) == {l \in ls : l.key = RowKey(row, s) /\ l.number = row.lease}
Told(row, s, ls, time, skew, closed) ==
    /\ row.state = "active" => \E l \in Mine(row, s, ls) : Answers(l, time + skew, closed)
    /\ row.state = "revoked" /\ row.lease # 0 => \E l \in Mine(row, s, ls) : Tells(l, row.tombstone + skew)

LEMMA Constants ==
    /\ Slots \subseteq Nat /\ Ttls \subseteq Nat /\ Retention \in Nat
    /\ MaxGeneration \in Nat /\ MaxLeases \in Nat \ {0} /\ MaxSkew \in Nat /\ MaxUpsets \in Nat /\ MaxTime \in Nat
BY TimersAssumption DEF TimersAssumption

\* The fields of a row.
LEMMA RowFields ==
    ASSUME NEW row \in Row
    PROVE  /\ row.gen \in 0 .. MaxGeneration /\ row.state \in {"free", "active", "expired", "revoked"}
           /\ row.expires \in Nat /\ row.lease \in 0 .. MaxLeases /\ row.tombstone \in Nat
BY DEF Row

\* The timers of a key are timers.
LEMMA TimersAre ==
    ASSUME NEW key \in KeyId, NEW n \in 0 .. MaxLeases
    PROVE  /\ Stages(key, n) \subseteq Timer /\ Stage(key, n, "reap") \in Timer /\ Stage(key, n, "retire") \in Timer
           /\ \A t \in Stages(key, n) : t.key = key
BY DEF Stages, Stage, Timer

\* Placements are of the stages of one lease.
LEMMA PlacementsAre ==
    ASSUME NEW key, NEW n, NEW expires
    PROVE  {r.timer : r \in Placements(key, n, expires)} = Stages(key, n)
BY DEF Placements, Stages, Request

\* The timers a row needs carry its key.
LEMMA NeededAre ==
    ASSUME NEW row, NEW s
    PROVE  /\ \A t \in Needed(row, s) : t.key = RowKey(row, s) /\ t \in Stages(RowKey(row, s), row.lease)
           /\ row.state = "active" => Needed(row, s) = Stages(RowKey(row, s), row.lease)
           /\ Dead(row) => Stage(RowKey(row, s), row.lease, "reap") \in Needed(row, s)
           /\ row.state # "active" => Needed(row, s) \subseteq {Stage(RowKey(row, s), row.lease, "reap")}
BY DEF Needed, Stages, Stage, Dead

\* Cancelling keeps every lease, with its first reason.
LEMMA CancelledIs ==
    ASSUME NEW l \in Lease, NEW reason \in {"expired", "revoked", "rotated"}
    PROVE  /\ Cancelled(l, reason) \in Lease
           /\ Cancelled(l, reason).key = l.key /\ Cancelled(l, reason).number = l.number
           /\ Cancelled(l, reason).expires = l.expires
           /\ Cancelled(l, reason).reason = IF l.reason = "none" THEN reason ELSE l.reason
           /\ l.reason # "none" => Cancelled(l, reason) = l
BY DEF Cancelled, Lease

LEMMA CancelAllKeeps ==
    ASSUME NEW ls \in SUBSET Lease, NEW which, NEW reason \in {"expired", "revoked", "rotated"}
    PROVE  /\ CancelAll(ls, which, reason) \subseteq Lease
           /\ \A l \in ls : \E k \in CancelAll(ls, which, reason) :
                 /\ k.key = l.key /\ k.number = l.number /\ k.expires = l.expires
                 /\ k.reason = IF l \in which /\ l.reason = "none" THEN reason ELSE l.reason
           /\ \A l \in ls : l \notin which \/ l.reason # "none" => l \in CancelAll(ls, which, reason)
<1>1. \A l \in ls : (IF l \in which THEN Cancelled(l, reason) ELSE l) \in CancelAll(ls, which, reason)
  BY DEF CancelAll
<1>2. ASSUME NEW k \in CancelAll(ls, which, reason) PROVE k \in Lease
  <2>1. PICK l \in ls : k = IF l \in which THEN Cancelled(l, reason) ELSE l
    BY DEF CancelAll
  <2> QED
    BY <2>1, CancelledIs
<1>3. ASSUME NEW l \in ls
      PROVE  \E k \in CancelAll(ls, which, reason) :
                 /\ k.key = l.key /\ k.number = l.number /\ k.expires = l.expires
                 /\ k.reason = IF l \in which /\ l.reason = "none" THEN reason ELSE l.reason
  BY <1>1, CancelledIs
<1>4. ASSUME NEW l \in ls, l \notin which \/ l.reason # "none" PROVE l \in CancelAll(ls, which, reason)
  BY <1>1, <1>4, CancelledIs
<1> QED
  BY <1>2, <1>3, <1>4

\* More leases tell no less.
LEMMA ToldByMore ==
    ASSUME NEW row, NEW s, NEW ls, NEW ms, ls \subseteq ms, NEW time, NEW skew, NEW closed,
           Told(row, s, ls, time, skew, closed)
    PROVE  Told(row, s, ms, time, skew, closed)
BY DEF Told, Mine

\* A row after the callbacks: reaped, retired, or as it was, and then no timer
\* that could end it has fired.
LEMMA RowAfterIs ==
    ASSUME NEW row \in Row, NEW s \in Slots, NEW fired
    PROVE  /\ RowAfter(row, s, fired) \in Row
           /\ RowAfter(row, s, fired).gen = row.gen
           /\ \/ RowAfter(row, s, fired).state = "free"
              \/ /\ RowAfter(row, s, fired).state = "expired" /\ row.state = "active"
                 /\ RowAfter(row, s, fired).lease = row.lease
                 /\ RowAfter(row, s, fired).expires = row.expires /\ RowAfter(row, s, fired).tombstone = row.expires
                 /\ Stage(RowKey(row, s), row.lease, "reap") \notin fired
              \/ /\ RowAfter(row, s, fired) = row /\ row.state # "free"
                 /\ Stage(RowKey(row, s), row.lease, "reap") \notin fired
                 /\ row.state = "active" => Stage(RowKey(row, s), row.lease, "retire") \notin fired
<1> DEFINE after == RowAfter(row, s, fired)
           reaped == \E t \in fired : t.stage = "reap" /\ Holds(row, s, t.key)
           retired == row.state = "active" /\ \E t \in fired : t.stage = "retire" /\ Holds(row, s, t.key)
           gone == [row EXCEPT !.state = "expired", !.tombstone = row.expires]
<1>0. after = IF reaped THEN FreeRow(row.gen) ELSE IF retired THEN gone ELSE row
  BY DEF RowAfter
<1>1. /\ Stage(RowKey(row, s), row.lease, "reap").stage = "reap"
      /\ Stage(RowKey(row, s), row.lease, "retire").stage = "retire"
      /\ row.state # "free" => \A stage : Holds(row, s, Stage(RowKey(row, s), row.lease, stage).key)
  BY DEF Stage, RowKey, Holds
<1>2. FreeRow(row.gen) \in Row /\ FreeRow(row.gen).state = "free" /\ FreeRow(row.gen).gen = row.gen
  BY RowFields, Constants DEF FreeRow, Row
<1>3. /\ gone \in Row /\ gone.state = "expired" /\ gone.gen = row.gen
      /\ gone.lease = row.lease /\ gone.expires = row.expires /\ gone.tombstone = row.expires
  <2> DEFINE half == [row EXCEPT !.state = "expired"]
  <2>1. gone = [half EXCEPT !.tombstone = row.expires]
    BY DEF Row
  <2>2. /\ half \in Row /\ half.state = "expired" /\ half.gen = row.gen
        /\ half.lease = row.lease /\ half.expires = row.expires
    BY DEF Row
  <2> HIDE DEF half
  <2>3. [half EXCEPT !.tombstone = row.expires] \in Row
    BY <2>2, RowFields DEF Row
  <2>4. /\ [half EXCEPT !.tombstone = row.expires].state = half.state
        /\ [half EXCEPT !.tombstone = row.expires].gen = half.gen
        /\ [half EXCEPT !.tombstone = row.expires].lease = half.lease
        /\ [half EXCEPT !.tombstone = row.expires].expires = half.expires
        /\ [half EXCEPT !.tombstone = row.expires].tombstone = row.expires
    BY <2>2 DEF Row
  <2> QED
    BY <2>1, <2>2, <2>3, <2>4
<1> HIDE DEF after, gone
<1>4. CASE reaped
  BY <1>0, <1>2, <1>4 DEF after
<1>5. CASE ~reaped /\ row.state # "free"
  <2>1. Stage(RowKey(row, s), row.lease, "reap") \notin fired
    BY <1>1, <1>5
  <2>2. CASE retired
    BY <1>0, <1>3, <1>5, <2>1, <2>2 DEF after
  <2>3. CASE ~retired
    <3>1. row.state = "active" => Stage(RowKey(row, s), row.lease, "retire") \notin fired
      BY <1>1, <1>5, <2>3
    <3> QED
      BY <1>0, <1>5, <2>1, <2>3, <3>1 DEF after
  <2> QED
    BY <2>2, <2>3
<1>6. CASE ~reaped /\ row.state = "free"
  BY <1>0, <1>6 DEF after
<1> QED
  BY <1>4, <1>5, <1>6

-----------------------------------------------------------------------------
(* The invariant                                                             *)

TimeType == /\ now \in Nat /\ clock \in 0 .. MaxTime /\ target \in Nat
            /\ upsets \in 0 .. MaxUpsets /\ safe \in BOOLEAN
TableType == rows \in [Slots -> Row] /\ leases \subseteq Lease
ScheduleType == handles \subseteq Timer /\ Held(wheel) \subseteq Timer /\ IsWheel(wheel)
GivenType == longest \in [Slots -> Nat]

\* Each row has the timers that will end it, where they can be reached.
ScheduledInv == \A s \in Slots : Needed(rows[s], s) \subseteq Held(wheel) \cap handles
\* Each row's lease says how its key ended.
ToldInv == \A s \in Slots : Told(rows[s], s, leases, clock, upsets, safe)
\* A renewal is of a live row, and the actor does nothing else meanwhile.
RenewInv == \/ renewing = Idle
            \/ /\ renewing \in [slot : Slots, expires : Nat] /\ target = now
               /\ rows[renewing.slot].state = "active" /\ rows[renewing.slot].lease < MaxLeases
IInv == TimeType /\ TableType /\ ScheduleType /\ GivenType /\ ScheduledInv /\ ToldInv /\ RenewInv

\* What a step that settles the schedule must hand to Settle: rows whose timers are
\* all there, each of them off the wheel or reachable, and that are told of.
CanSettle(rs, ls, w, timers, early, reachable, time, skew, closed) ==
    /\ rs \in [Slots -> Row] /\ ls \subseteq Lease
    /\ IsWheel(w) /\ Held(w) \subseteq Timer /\ reachable \subseteq Timer
    /\ \A s \in Slots : /\ Needed(rs[s], s) \subseteq timers
                        /\ Needed(rs[s], s) \cap (Held(w) \ early) \subseteq reachable
                        /\ Told(rs[s], s, ls, time, skew, closed)

\* Settle ends the rows whose timers have run, and leaves the others scheduled and
\* told of.  Of a wheel that holds nothing, no row is left.
LEMMA SettleKeeps ==
    ASSUME NEW rs, NEW ls, NEW w, NEW timers, NEW early, NEW reachable, NEW time, NEW skew, NEW closed,
           CanSettle(rs, ls, w, timers, early, reachable, time, skew, closed),
           Settle(rs, ls, w, timers, early, reachable)
    PROVE  /\ TableType' /\ ScheduleType' /\ ScheduledInv'
           /\ \A s \in Slots : Told(rows'[s], s, leases', time, skew, closed)
           /\ Held(w) = {} => \A s \in Slots : rows'[s].state = "free"
<1> DEFINE left == Held(w) \ early
           fired == timers \ left
           ended == {l \in ls : Stage(l.key, l.number, "retire") \in fired}
           kept == CancelAll(ls, ended, "expired")
<1>1. /\ rows' = [s \in Slots |-> RowAfter(rs[s], s, fired)]
      /\ leases' = {l \in kept : Stages(l.key, l.number) \cap left # {}}
      /\ wheel' = Without(w, early) /\ handles' = reachable \cap left
  BY DEF Settle, Retired
<1>2. /\ rs \in [Slots -> Row] /\ ls \in SUBSET Lease
      /\ IsWheel(w) /\ Held(w) \subseteq Timer /\ reachable \subseteq Timer
      /\ \A s \in Slots : /\ Needed(rs[s], s) \subseteq timers
                          /\ Needed(rs[s], s) \cap left \subseteq reachable
                          /\ Told(rs[s], s, ls, time, skew, closed)
  BY DEF CanSettle
<1>3. IsWheel(wheel') /\ Held(wheel') = left
  BY <1>1, <1>2, WithoutHolds
<1>4. \A t : t \in timers /\ t \notin fired => t \in left
  OBVIOUS
<1> HIDE DEF fired
<1>5. kept \subseteq Lease /\ \A x \in ls : x \notin ended \/ x.reason # "none" => x \in kept
  <2> HIDE DEF ended
  <2>1. /\ kept \subseteq Lease
        /\ \A x \in ls : x \notin ended \/ x.reason # "none" => x \in kept
    BY <1>2, CancelAllKeeps
  <2> HIDE DEF kept
  <2> QED
    BY <2>1
<1> HIDE DEF kept
<1>6. ScheduleType'
  BY <1>1, <1>2, <1>3 DEF ScheduleType
<1>7. TableType'
  <2>1. \A s \in Slots : rs[s] \in Row /\ rows'[s] = RowAfter(rs[s], s, fired)
    BY <1>1, <1>2
  <2>2. rows' \in [Slots -> Row]
    BY <1>1, <2>1, RowAfterIs
  <2> QED
    BY <1>1, <1>5, <2>2 DEF TableType
<1>8. ASSUME NEW s \in Slots
      PROVE  /\ Needed(rows'[s], s) \subseteq left /\ Needed(rows'[s], s) \subseteq reachable
             /\ rows'[s].state # "free" => left # {}
             /\ Told(rows'[s], s, leases', time, skew, closed)
  <2> DEFINE row == rs[s]
             key == RowKey(row, s)
             reap == Stage(key, row.lease, "reap")
             retire == Stage(key, row.lease, "retire")
  <2>1. row \in Row /\ rows'[s] = RowAfter(row, s, fired) /\ row.state \in {"free", "active", "expired", "revoked"}
    BY <1>1, <1>2, RowFields
  <2>2. Needed(row, s) \subseteq timers /\ Needed(row, s) \cap left \subseteq reachable
        /\ Told(row, s, ls, time, skew, closed)
    BY <1>2
  <2>3. CASE rows'[s].state = "free"
    BY <2>3 DEF Needed, Dead, Told
  <2>4. CASE /\ rows'[s].state = "expired" /\ row.state = "active"
             /\ rows'[s].gen = row.gen /\ rows'[s].lease = row.lease /\ reap \notin fired
    <3>1. Needed(rows'[s], s) = {reap}
      BY <2>4 DEF Needed, Dead, RowKey
    <3>2. reap \in Needed(row, s)
      BY <2>4 DEF Needed, Stages
    <3>3. reap \in left /\ reap \in reachable
      BY <1>4, <2>2, <2>4, <3>2
    <3>4. Told(rows'[s], s, leases', time, skew, closed)
      BY <2>4 DEF Told
    <3> QED
      BY <3>1, <3>3, <3>4
  <2>5. CASE /\ rows'[s] = row /\ row.state # "free" /\ reap \notin fired
             /\ row.state = "active" => retire \notin fired
    <3>1. Needed(row, s) \subseteq {reap, retire} /\ reap \in Needed(row, s)
          /\ (row.state # "active" => Needed(row, s) \subseteq {reap})
      BY <2>1, <2>5 DEF Needed, Stages, Dead
    <3>2. Needed(row, s) \subseteq left /\ Needed(row, s) \subseteq reachable
      <4>1. \A t \in Needed(row, s) : t \notin fired
        BY <2>5, <3>1
      <4> QED
        BY <1>4, <2>2, <4>1
    <3>3. ASSUME NEW l \in Mine(row, s, ls), l.reason # "none" \/ retire \notin fired PROVE l \in Mine(row, s, leases')
      <4>1. l \in ls /\ l.key = key /\ l.number = row.lease
        BY DEF Mine
      <4>2. l \notin ended \/ l.reason # "none"
        BY <3>3, <4>1
      <4>3. l \in kept
        BY <1>5, <4>1, <4>2
      <4>4. reap \in Stages(l.key, l.number) /\ reap \in left
        BY <3>1, <3>2, <4>1 DEF Stages
      <4> QED
        BY <1>1, <4>1, <4>3, <4>4 DEF Mine
    <3>4. ASSUME row.state = "active" PROVE \E l \in Mine(row, s, leases') : Answers(l, time + skew, closed)
      BY <2>2, <2>5, <3>3, <3>4 DEF Told
    <3>5. ASSUME row.state = "revoked", row.lease # 0
          PROVE  \E l \in Mine(row, s, leases') : Tells(l, row.tombstone + skew)
      <4>1. PICK l \in Mine(row, s, ls) : Tells(l, row.tombstone + skew)
        BY <2>2, <3>5 DEF Told
      <4>2. l.reason # "none"
        BY <4>1 DEF Tells
      <4> QED
        BY <3>3, <4>1, <4>2
    <3>6. Told(row, s, leases', time, skew, closed)
      BY <3>4, <3>5 DEF Told
    <3> QED
      BY <2>5, <3>1, <3>2, <3>6
  <2> QED
    BY <2>1, <2>3, <2>4, <2>5, RowAfterIs
<1>9. ScheduledInv'
  BY <1>1, <1>3, <1>8 DEF ScheduledInv
<1>10. Held(w) = {} => \A s \in Slots : rows'[s].state = "free"
  BY <1>8
<1> QED
  BY <1>6, <1>7, <1>8, <1>9, <1>10

\* The expiries given out are times.
LEMMA GivenKeeps ==
    ASSUME NEW longer \in [Slots -> Nat], Given(longer)
    PROVE  GivenType'
<1>1. longest' = [s \in Slots |-> IF rows'[s].state = "active" THEN longer[s] ELSE 0]
  BY DEF Given
<1> QED
  BY <1>1 DEF GivenType

\* Rows that nothing ends are told of at any time.
LEMMA FreeIsTold ==
    ASSUME \A s \in Slots : rows'[s].state = "free"
    PROVE  ToldInv'
BY DEF ToldInv, Told

-----------------------------------------------------------------------------
(* The commands                                                              *)

\* The slot that an issue takes.
LEMMA IssuedSlot ==
    ASSUME Issuable # {}
    PROVE  (CHOOSE t \in Issuable : \A u \in Issuable : t <= u) \in Issuable
<1>1. Issuable \subseteq Nat
  BY Constants DEF Issuable
<1> QED
  BY <1>1, LowestExists

\* What the parts say of a row.
LEMMA SlotFacts ==
    ASSUME IInv, NEW s \in Slots
    PROVE  /\ rows[s] \in Row /\ KeyOf(s) = RowKey(rows[s], s) /\ KeyOf(s) \in KeyId
           /\ Needed(rows[s], s) \subseteq Held(wheel) /\ Needed(rows[s], s) \subseteq handles
           /\ Told(rows[s], s, leases, clock, upsets, safe)
           /\ LeaseOf(s) = Mine(rows[s], s, leases)
           /\ \A l \in LeaseOf(s) : l.key.slot = s
<1>1. rows[s] \in Row
  BY DEF IInv, TableType
<1>2. KeyOf(s) = RowKey(rows[s], s) /\ KeyOf(s) \in KeyId /\ KeyOf(s).slot = s
  BY <1>1, RowFields DEF KeyOf, RowKey, KeyId
<1>3. LeaseOf(s) = Mine(rows[s], s, leases) /\ \A l \in LeaseOf(s) : l.key.slot = s
  BY <1>2 DEF LeaseOf, Mine
<1>4. Needed(rows[s], s) \subseteq Held(wheel) /\ Needed(rows[s], s) \subseteq handles
  BY DEF IInv, ScheduledInv
<1>5. Told(rows[s], s, leases, clock, upsets, safe)
  BY DEF IInv, ToldInv
<1> QED
  BY <1>1, <1>2, <1>3, <1>4, <1>5

\* Nothing needed by another slot has a handle that belongs to a key of slot s.
LEMMA OthersKeepHandles ==
    ASSUME IInv, NEW key, NEW z \in Slots, z # key.slot
    PROVE  Needed(rows[z], z) \cap HandlesOf(key) = {}
<1>1. RowKey(rows[z], z).slot = z
  BY DEF RowKey
<1>2. \A t \in Needed(rows[z], z) : t.key = RowKey(rows[z], z)
  BY NeededAre
<1> QED
  BY <1>1, <1>2 DEF HandlesOf

\* A row that just got the first or the next lease is scheduled and told of; the
\* other rows are as they were (actor_issue, actor_renew with a cancelled lease).
LEMMA WatchKeeps ==
    ASSUME IInv, NEW s \in Slots, NEW row \in Row, row.state = "active", row.lease # 0, NEW expires \in Nat,
           Settle([rows EXCEPT ![s] = row],
                  leases \cup {NewLease(RowKey(row, s), row.lease, expires)},
                  Scheduled(wheel, Placements(RowKey(row, s), row.lease, expires)),
                  Held(wheel) \cup Stages(RowKey(row, s), row.lease), {},
                  ReachedBy(RowKey(row, s), row.lease))
    PROVE  /\ TableType' /\ ScheduleType' /\ ScheduledInv'
           /\ \A z \in Slots : Told(rows'[z], z, leases', clock, upsets, safe)
<1> DEFINE key == RowKey(row, s)
           new == NewLease(key, row.lease, expires)
           rs == [rows EXCEPT ![s] = row]
           ls == leases \cup {new}
           w == Scheduled(wheel, Placements(key, row.lease, expires))
           timers == Held(wheel) \cup Stages(key, row.lease)
           reachable == ReachedBy(key, row.lease)
<1>1. key \in KeyId /\ key.slot = s /\ Stages(key, row.lease) \subseteq Timer
  BY RowFields, TimersAre DEF RowKey, KeyId
<1>2. new \in Lease /\ new.key = key /\ new.number = row.lease /\ new.reason = "none"
  BY <1>1, RowFields DEF NewLease, Lease
<1>3. rs \in [Slots -> Row] /\ rs[s] = row /\ \A z \in Slots \ {s} : rs[z] = rows[z]
  BY DEF IInv, TableType
<1>4. ls \subseteq Lease
  BY <1>2 DEF IInv, TableType
<1>5. IsWheel(w) /\ Held(w) \subseteq Timer /\ reachable \subseteq Timer
  <2>1. /\ IsWheel(w)
        /\ Held(w) \subseteq Held(wheel) \cup {r.timer : r \in Placements(key, row.lease, expires)}
    BY ScheduledHolds DEF IInv, ScheduleType
  <2>2. Held(w) \subseteq Held(wheel) \cup Stages(key, row.lease)
    BY <2>1, PlacementsAre
  <2>3. reachable \subseteq handles \cup Stages(key, row.lease)
    BY DEF ReachedBy
  <2> QED
    BY <1>1, <2>1, <2>2, <2>3 DEF IInv, ScheduleType
<1> HIDE DEF new, rs, w
<1>6. ASSUME NEW z \in Slots
      PROVE  /\ Needed(rs[z], z) \subseteq timers /\ Needed(rs[z], z) \subseteq reachable
             /\ Told(rs[z], z, ls, clock, upsets, safe)
  <2>1. CASE z = s
    <3>1. Needed(row, s) = Stages(key, row.lease)
      BY NeededAre
    <3>2. Told(row, s, ls, clock, upsets, safe)
      <4>1. new \in Mine(row, s, ls)
        BY <1>2 DEF Mine
      <4> QED
        BY <1>2, <4>1 DEF Told, Answers
    <3> QED
      BY <1>3, <2>1, <3>1, <3>2 DEF ReachedBy
  <2>2. CASE z # s
    <3>1. Needed(rows[z], z) \subseteq Held(wheel) /\ Needed(rows[z], z) \subseteq handles
          /\ Needed(rows[z], z) \cap HandlesOf(key) = {}
      BY <1>1, <2>2, SlotFacts, OthersKeepHandles
    <3>2. Told(rows[z], z, ls, clock, upsets, safe)
      BY SlotFacts, ToldByMore
    <3> QED
      BY <1>3, <2>2, <3>1, <3>2 DEF ReachedBy
  <2> QED
    BY <2>1, <2>2
<1>7. CanSettle(rs, ls, w, timers, {}, reachable, clock, upsets, safe)
  BY <1>3, <1>4, <1>5, <1>6 DEF CanSettle
<1>8. Settle(rs, ls, w, timers, {}, reachable)
  BY DEF rs, w, new
<1> HIDE DEF ls, timers, reachable
<1> QED
  BY <1>7, <1>8, SettleKeeps

\* What a step between two messages starts from.
LEMMA IInvParts ==
    ASSUME IInv
    PROVE  /\ now \in Nat /\ clock \in Nat /\ clock \in 0 .. MaxTime /\ target \in Nat
           /\ upsets \in Nat /\ upsets \in 0 .. MaxUpsets /\ safe \in BOOLEAN
           /\ rows \in [Slots -> Row] /\ leases \in SUBSET Lease /\ longest \in [Slots -> Nat]
           /\ handles \subseteq Timer /\ Held(wheel) \subseteq Timer /\ IsWheel(wheel)
           /\ renewing # Idle => /\ renewing.slot \in Slots /\ renewing.expires \in Nat /\ target = now
                                 /\ rows[renewing.slot].state = "active" /\ rows[renewing.slot].lease < MaxLeases
BY Constants DEF IInv, TimeType, TableType, ScheduleType, GivenType, RenewInv

\* A step that settles at an unchanged time, with no renewal left open.
LEMMA SettledCloses ==
    ASSUME IInv, TableType', ScheduleType', ScheduledInv', GivenType',
           \A s \in Slots : Told(rows'[s], s, leases', clock, upsets, safe),
           UNCHANGED <<safe, clock, upsets>>, now' \in Nat, target' \in Nat, renewing' = Idle
    PROVE  IInv'
BY DEF IInv, TimeType, ToldInv, RenewInv

LEMMA IssueKeeps == ASSUME IInv, Issue PROVE IInv'
<1>1. PICK ttl \in Ttls :
        /\ Ready /\ Issuable # {}
        /\ LET s   == CHOOSE t \in Issuable : \A u \in Issuable : t <= u
               key == [slot |-> s, gen |-> rows[s].gen + 1]
               expires == clock + ttl
           IN /\ Settle([rows EXCEPT ![s] = [gen |-> key.gen, state |-> "active",
                                             expires |-> expires, lease |-> 1, tombstone |-> 0]],
                        leases \cup {NewLease(key, 1, expires)},
                        Scheduled(wheel, Placements(key, 1, expires)),
                        Held(wheel) \cup Stages(key, 1), {}, ReachedBy(key, 1))
              /\ Given([longest EXCEPT ![s] = expires])
        /\ UNCHANGED <<now, target, renewing, safe, clock, upsets>>
  BY DEF Issue
<1> DEFINE s   == CHOOSE t \in Issuable : \A u \in Issuable : t <= u
           expires == clock + ttl
           key == [slot |-> s, gen |-> rows[s].gen + 1]
           row == [gen |-> rows[s].gen + 1, state |-> "active", expires |-> expires, lease |-> 1, tombstone |-> 0]
<1>2. s \in Slots /\ rows[s].gen < MaxGeneration
  <2>1. s \in Issuable
    BY <1>1, IssuedSlot
  <2> HIDE DEF s
  <2> QED
    BY <2>1 DEF Issuable
<1>3. /\ Settle([rows EXCEPT ![s] = row], leases \cup {NewLease(key, 1, expires)},
                Scheduled(wheel, Placements(key, 1, expires)),
                Held(wheel) \cup Stages(key, 1), {}, ReachedBy(key, 1))
      /\ Given([longest EXCEPT ![s] = expires])
  BY <1>1
<1> HIDE DEF s
<1>4. expires \in Nat
  BY IInvParts, Constants
<1> HIDE DEF expires
<1>5. row \in Row /\ row.state = "active" /\ row.lease = 1 /\ RowKey(row, s) = key
  BY <1>2, <1>4, SlotFacts, RowFields, Constants DEF Row, RowKey
<1> HIDE DEF row, key
<1>6. /\ TableType' /\ ScheduleType' /\ ScheduledInv'
      /\ \A z \in Slots : Told(rows'[z], z, leases', clock, upsets, safe)
  BY <1>2, <1>3, <1>4, <1>5, WatchKeeps
<1>7. GivenType'
  <2>1. [longest EXCEPT ![s] = expires] \in [Slots -> Nat]
    BY <1>4, IInvParts
  <2> QED
    BY <1>3, <2>1, GivenKeeps
<1>8. now' \in Nat /\ target' \in Nat /\ renewing' = Idle /\ UNCHANGED <<safe, clock, upsets>>
  BY <1>1, IInvParts DEF Ready
<1> QED
  BY <1>6, <1>7, <1>8, SettledCloses

LEMMA RenewReplacesKeeps == ASSUME IInv, RenewReplaces PROVE IInv'
<1> DEFINE s   == renewing.slot
           expires == renewing.expires
           number == rows[s].lease + 1
           half == [rows[s] EXCEPT !.expires = expires]
           row == [half EXCEPT !.lease = number]
<1>1. /\ s \in Slots /\ expires \in Nat /\ rows[s].state = "active" /\ number \in 1 .. MaxLeases
      /\ rows \in [Slots -> Row] /\ rows[s] \in Row
  <2>1. s \in Slots /\ expires \in Nat /\ rows[s].state = "active" /\ rows[s].lease < MaxLeases
    BY IInvParts DEF RenewReplaces
  <2>2. rows \in [Slots -> Row] /\ rows[s] \in Row
    BY <2>1, IInvParts
  <2>3. rows[s].lease \in Nat /\ MaxLeases \in Nat
    BY <2>2, RowFields, Constants
  <2> QED
    BY <2>1, <2>2, <2>3
<1>2. /\ Settle([rows EXCEPT ![s].expires = expires, ![s].lease = number],
                leases \cup {NewLease(KeyOf(s), number, expires)},
                Scheduled(wheel, Placements(KeyOf(s), number, expires)),
                Held(wheel) \cup Stages(KeyOf(s), number), {}, ReachedBy(KeyOf(s), number))
      /\ Given([longest EXCEPT ![s] = expires])
      /\ renewing' = Idle /\ UNCHANGED <<now, target, safe, clock, upsets>>
  BY DEF RenewReplaces
<1> HIDE DEF s, expires, number
<1>3. half \in Row /\ half.gen = rows[s].gen /\ half.state = "active"
  BY <1>1 DEF Row
<1>4. [rows EXCEPT ![s].expires = expires, ![s].lease = number] = [rows EXCEPT ![s] = row]
  <2> DEFINE once == [rows EXCEPT ![s].expires = expires]
  <2>1. once = [rows EXCEPT ![s] = half]
    OBVIOUS
  <2>2. [rows EXCEPT ![s].expires = expires, ![s].lease = number] = [once EXCEPT ![s].lease = number]
    BY <1>1
  <2>3. once[s] = half /\ once \in [Slots -> Row] /\ \A z \in Slots \ {s} : once[z] = rows[z]
    BY <1>1, <1>3, <2>1
  <2> HIDE DEF once, half
  <2>4. [once EXCEPT ![s].lease = number] = [once EXCEPT ![s] = row]
    BY <2>3
  <2> HIDE DEF row
  <2>5. [once EXCEPT ![s] = row] = [rows EXCEPT ![s] = row]
    BY <1>1, <2>3
  <2> QED
    BY <2>2, <2>4, <2>5
<1> HIDE DEF half
<1>5. row \in Row /\ row.state = "active" /\ row.lease = number /\ number # 0 /\ row.gen = rows[s].gen
  BY <1>1, <1>3 DEF Row
<1> HIDE DEF row
<1>6. RowKey(row, s) = KeyOf(s)
  BY <1>5 DEF RowKey, KeyOf
<1>7. /\ TableType' /\ ScheduleType' /\ ScheduledInv'
      /\ \A z \in Slots : Told(rows'[z], z, leases', clock, upsets, safe)
  BY <1>1, <1>2, <1>4, <1>5, <1>6, WatchKeeps
<1>8. GivenType'
  <2>1. [longest EXCEPT ![s] = expires] \in [Slots -> Nat]
    BY <1>1, IInvParts
  <2> QED
    BY <1>2, <2>1, GivenKeeps
<1>9. now' \in Nat /\ target' \in Nat
  BY <1>2, IInvParts
<1> QED
  BY <1>2, <1>7, <1>8, <1>9, SettledCloses

LEMMA RenewLeaseKeeps == ASSUME IInv, RenewLease PROVE IInv'
<1> DEFINE s   == renewing.slot
           expires == renewing.expires
           both == Stages(KeyOf(s), rows[s].lease) \subseteq HandlesOf(KeyOf(s))
           rs == [rows EXCEPT ![s].expires = expires]
           ls == {IF l \in LeaseOf(s) THEN [l EXCEPT !.expires = expires] ELSE l : l \in leases}
           w == IF both THEN Scheduled(wheel, Placements(KeyOf(s), rows[s].lease, expires)) ELSE wheel
           longer == [longest EXCEPT ![s] = IF expires > @ THEN expires ELSE @]
<1>1. s \in Slots /\ expires \in Nat /\ rows[s].state = "active" /\ rows[s] \in Row /\ rows \in [Slots -> Row]
  BY IInvParts DEF RenewLease
<1>2. /\ \E l \in LeaseOf(s) : l.reason = "none"
      /\ Settle(rs, ls, w, Held(wheel), {}, handles) /\ Given(longer)
      /\ renewing' = Idle /\ UNCHANGED <<now, target, safe, clock, upsets>>
  BY DEF RenewLease
<1> HIDE DEF s, expires
<1>3. rs[s] = [rows[s] EXCEPT !.expires = expires] /\ \A z \in Slots \ {s} : rs[z] = rows[z]
  BY <1>1
<1>4. /\ rs[s] \in Row /\ rs[s].state = "active" /\ rs[s].gen = rows[s].gen /\ rs[s].lease = rows[s].lease
  BY <1>1, <1>3 DEF Row
<1>5. rs \in [Slots -> Row]
  BY <1>1, <1>3, <1>4
<1>6. \A l \in leases : \E k \in ls : /\ k \in Lease /\ k.key = l.key /\ k.number = l.number /\ k.reason = l.reason
                                      /\ l \notin LeaseOf(s) => k = l
  <2>1. ASSUME NEW l \in Lease
        PROVE  /\ [l EXCEPT !.expires = expires] \in Lease
               /\ [l EXCEPT !.expires = expires].key = l.key /\ [l EXCEPT !.expires = expires].number = l.number
               /\ [l EXCEPT !.expires = expires].reason = l.reason
    BY <1>1 DEF Lease
  <2>2. \A l \in leases : (IF l \in LeaseOf(s) THEN [l EXCEPT !.expires = expires] ELSE l) \in ls
    OBVIOUS
  <2> HIDE DEF ls
  <2> QED
    BY <2>1, <2>2, IInvParts
<1>7. ls \subseteq Lease
  <2>1. ASSUME NEW l \in Lease PROVE [l EXCEPT !.expires = expires] \in Lease
    BY <1>1 DEF Lease
  <2>2. \A k \in ls : \E l \in leases : k = l \/ k = [l EXCEPT !.expires = expires]
    OBVIOUS
  <2> HIDE DEF ls
  <2> QED
    BY <2>1, <2>2, IInvParts
<1>8. IsWheel(w) /\ Held(w) \subseteq Timer
  <2>1. Stages(KeyOf(s), rows[s].lease) \subseteq Timer
    BY <1>1, SlotFacts, TimersAre, RowFields
  <2>2. /\ IsWheel(Scheduled(wheel, Placements(KeyOf(s), rows[s].lease, expires)))
        /\ Held(Scheduled(wheel, Placements(KeyOf(s), rows[s].lease, expires)))
             \subseteq Held(wheel) \cup {r.timer : r \in Placements(KeyOf(s), rows[s].lease, expires)}
    BY ScheduledHolds, IInvParts
  <2>3. {r.timer : r \in Placements(KeyOf(s), rows[s].lease, expires)} \subseteq Timer
    BY <2>1, PlacementsAre
  <2> QED
    BY <2>2, <2>3, IInvParts
<1> HIDE DEF rs, ls, w
<1>9. ASSUME NEW z \in Slots
      PROVE  /\ Needed(rs[z], z) \subseteq Held(wheel) /\ Needed(rs[z], z) \subseteq handles
             /\ Told(rs[z], z, ls, clock, upsets, safe)
  <2>1. CASE z = s
    <3>1. Needed(rs[s], s) = Needed(rows[s], s)
      BY <1>1, <1>4 DEF Needed, RowKey
    <3>2. PICK l \in LeaseOf(s) : l.reason = "none"
      BY <1>2
    <3>3. l \in leases /\ l.key = RowKey(rs[s], s) /\ l.number = rs[s].lease
      BY <1>4, <3>2 DEF LeaseOf, KeyOf, RowKey
    <3>4. PICK k \in ls : k.key = l.key /\ k.number = l.number /\ k.reason = "none"
      BY <1>6, <3>2, <3>3
    <3>5. k \in Mine(rs[s], s, ls) /\ Answers(k, clock + upsets, safe)
      BY <3>3, <3>4 DEF Mine, Answers
    <3>6. Told(rs[s], s, ls, clock, upsets, safe)
      BY <1>4, <3>5 DEF Told
    <3> QED
      BY <1>1, <2>1, <3>1, <3>6, SlotFacts
  <2>2. CASE z # s
    <3>1. rs[z] = rows[z] /\ Told(rows[z], z, leases, clock, upsets, safe)
      BY <1>3, <2>2, SlotFacts
    <3>2. ASSUME NEW l \in Mine(rows[z], z, leases) PROVE l \in Mine(rows[z], z, ls)
      <4>1. l \in leases /\ l.key = RowKey(rows[z], z) /\ l.number = rows[z].lease
        BY DEF Mine
      <4>2. l \notin LeaseOf(s)
        BY <1>1, <2>2, <4>1, SlotFacts DEF RowKey
      <4>3. l \in ls
        BY <1>6, <4>1, <4>2
      <4> QED
        BY <4>1, <4>3 DEF Mine
    <3>3. Told(rows[z], z, ls, clock, upsets, safe)
      BY <3>1, <3>2 DEF Told
    <3> QED
      BY <3>1, <3>3, SlotFacts
  <2> QED
    BY <2>1, <2>2
<1>10. CanSettle(rs, ls, w, Held(wheel), {}, handles, clock, upsets, safe)
  BY <1>5, <1>7, <1>8, <1>9, IInvParts DEF CanSettle
<1>11. /\ TableType' /\ ScheduleType' /\ ScheduledInv'
       /\ \A z \in Slots : Told(rows'[z], z, leases', clock, upsets, safe)
  BY <1>2, <1>10, SettleKeeps
<1>12. GivenType'
  <2>1. longer \in [Slots -> Nat]
    BY <1>1, IInvParts
  <2> QED
    BY <1>2, <2>1, GivenKeeps
<1>13. now' \in Nat /\ target' \in Nat
  BY <1>2, IInvParts
<1> QED
  BY <1>2, <1>11, <1>12, <1>13, SettledCloses

LEMMA RevokeKeeps == ASSUME IInv, Revoke PROVE IInv'
<1>1. PICK s \in Slots :
        /\ Ready /\ rows[s].state = "active" /\ ~safe
        /\ Settle([rows EXCEPT ![s].state = "revoked", ![s].tombstone = clock],
                  CancelAll(leases, LeaseOf(s), "revoked"), wheel, Held(wheel),
                  {t \in HandlesOf(KeyOf(s)) : t.stage = "retire"}, handles)
        /\ Given(longest)
        /\ UNCHANGED <<now, target, renewing, safe, clock, upsets>>
  BY DEF Revoke
<1> DEFINE half == [rows[s] EXCEPT !.state = "revoked"]
           row == [half EXCEPT !.tombstone = clock]
           rs == [rows EXCEPT ![s] = row]
           ls == CancelAll(leases, LeaseOf(s), "revoked")
           early == {t \in HandlesOf(KeyOf(s)) : t.stage = "retire"}
<1>2. rows \in [Slots -> Row] /\ rows[s] \in Row /\ clock \in Nat /\ upsets \in Nat /\ leases \in SUBSET Lease
  BY IInvParts
<1>3. half \in Row /\ half.state = "revoked" /\ half.gen = rows[s].gen /\ half.lease = rows[s].lease
  BY <1>2 DEF Row
<1>4. [rows EXCEPT ![s].state = "revoked", ![s].tombstone = clock] = rs
  <2> DEFINE once == [rows EXCEPT ![s].state = "revoked"]
  <2>1. once = [rows EXCEPT ![s] = half]
    OBVIOUS
  <2>2. [rows EXCEPT ![s].state = "revoked", ![s].tombstone = clock] = [once EXCEPT ![s].tombstone = clock]
    BY <1>2
  <2>3. once[s] = half /\ once \in [Slots -> Row] /\ \A z \in Slots \ {s} : once[z] = rows[z]
    BY <1>2, <1>3, <2>1
  <2> HIDE DEF once, half
  <2>4. [once EXCEPT ![s].tombstone = clock] = [once EXCEPT ![s] = row]
    BY <2>3
  <2> HIDE DEF row
  <2>5. [once EXCEPT ![s] = row] = [rows EXCEPT ![s] = row]
    BY <1>2, <2>3
  <2> QED
    BY <2>2, <2>4, <2>5
<1> HIDE DEF half
<1>5. /\ row \in Row /\ row.state = "revoked" /\ row.tombstone = clock
      /\ row.gen = rows[s].gen /\ row.lease = rows[s].lease
  BY <1>2, <1>3 DEF Row
<1> HIDE DEF row
<1>6. rs \in [Slots -> Row] /\ rs[s] = row /\ \A z \in Slots \ {s} : rs[z] = rows[z]
  BY <1>2, <1>5
<1>7. /\ ls \subseteq Lease
      /\ \A l \in leases : \E k \in ls :
            /\ k.key = l.key /\ k.number = l.number /\ k.expires = l.expires
            /\ k.reason = IF l \in LeaseOf(s) /\ l.reason = "none" THEN "revoked" ELSE l.reason
      /\ \A l \in leases : l \notin LeaseOf(s) \/ l.reason # "none" => l \in ls
  BY <1>2, CancelAllKeeps
<1> HIDE DEF rs, ls
<1>8. ASSUME NEW z \in Slots
      PROVE  /\ Needed(rs[z], z) \subseteq Held(wheel) /\ Needed(rs[z], z) \subseteq handles
             /\ Told(rs[z], z, ls, clock, upsets, safe)
  <2>1. CASE z = s
    <3>0. RowKey(row, s) = KeyOf(s)
      BY <1>5 DEF RowKey, KeyOf
    <3>1. Needed(row, s) \subseteq Needed(rows[s], s)
      BY <1>1, <1>5 DEF Needed, RowKey, Dead, Stages
    <3>2. PICK l \in Mine(rows[s], s, leases) : Answers(l, clock + upsets, safe)
      BY <1>1, SlotFacts DEF Told
    <3>3. l \in leases /\ l \in LeaseOf(s) /\ l.key = KeyOf(s) /\ l.number = row.lease
      BY <1>5, <3>2, SlotFacts DEF Mine
    <3>4. PICK k \in ls :
            /\ k.key = l.key /\ k.number = l.number /\ k.expires = l.expires
            /\ k.reason = IF l \in LeaseOf(s) /\ l.reason = "none" THEN "revoked" ELSE l.reason
      BY <1>7, <3>3
    <3>5. k \in Mine(row, s, ls)
      BY <3>0, <3>3, <3>4 DEF Mine
    <3>6. Tells(k, row.tombstone + upsets)
      BY <1>1, <1>5, <3>2, <3>3, <3>4 DEF Answers, Tells
    <3>7. Told(row, s, ls, clock, upsets, safe)
      BY <1>5, <3>5, <3>6 DEF Told
    <3> QED
      BY <1>6, <2>1, <3>1, <3>7, SlotFacts
  <2>2. CASE z # s
    <3>1. rs[z] = rows[z] /\ Told(rows[z], z, leases, clock, upsets, safe)
      BY <1>6, <2>2, SlotFacts
    <3>2. ASSUME NEW l \in Mine(rows[z], z, leases) PROVE l \in Mine(rows[z], z, ls)
      <4>1. l \in leases /\ l.key = RowKey(rows[z], z) /\ l.number = rows[z].lease
        BY DEF Mine
      <4>2. l \notin LeaseOf(s)
        BY <2>2, <4>1, SlotFacts DEF RowKey
      <4>3. l \in ls
        BY <1>7, <4>1, <4>2
      <4> QED
        BY <4>1, <4>3 DEF Mine
    <3>3. Told(rows[z], z, ls, clock, upsets, safe)
      BY <3>1, <3>2 DEF Told
    <3> QED
      BY <3>1, <3>3, SlotFacts
  <2> QED
    BY <2>1, <2>2
<1>9. CanSettle(rs, ls, wheel, Held(wheel), early, handles, clock, upsets, safe)
  BY <1>6, <1>7, <1>8, IInvParts DEF CanSettle
<1>10. Settle(rs, ls, wheel, Held(wheel), early, handles)
  BY <1>1, <1>4 DEF ls
<1> HIDE DEF early
<1>11. /\ TableType' /\ ScheduleType' /\ ScheduledInv'
       /\ \A z \in Slots : Told(rows'[z], z, leases', clock, upsets, safe)
  BY <1>9, <1>10, SettleKeeps
<1>12. GivenType'
  BY <1>1, IInvParts, GivenKeeps
<1>13. now' \in Nat /\ target' \in Nat /\ renewing' = Idle /\ UNCHANGED <<safe, clock, upsets>>
  BY <1>1, IInvParts DEF Ready
<1> QED
  BY <1>11, <1>12, <1>13, SettledCloses

LEMMA CollectKeeps == ASSUME IInv, Collect PROVE IInv'
<1> DEFINE due == {KeyOf(s) : s \in {t \in Slots : Collectable(rows[t])}}
           early == {t \in handles : t.key \in due}
           reachable == {t \in handles : t.key \notin due}
<1>1. /\ Settle(rows, leases, wheel, Held(wheel), early, reachable)
      /\ Given(longest) /\ Ready /\ UNCHANGED <<now, target, renewing, safe, clock, upsets>>
  BY DEF Collect
<1>2. \A z \in Slots : Needed(rows[z], z) \subseteq Held(wheel) /\ Needed(rows[z], z) \subseteq early \cup reachable
                       /\ Told(rows[z], z, leases, clock, upsets, safe)
  BY SlotFacts
<1>3. reachable \subseteq Timer
  BY IInvParts
<1> HIDE DEF early, reachable
<1>4. CanSettle(rows, leases, wheel, Held(wheel), early, reachable, clock, upsets, safe)
  BY <1>2, <1>3, IInvParts DEF CanSettle
<1>5. /\ TableType' /\ ScheduleType' /\ ScheduledInv'
      /\ \A z \in Slots : Told(rows'[z], z, leases', clock, upsets, safe)
  BY <1>1, <1>4, SettleKeeps
<1>6. GivenType'
  BY <1>1, IInvParts, GivenKeeps
<1>7. now' \in Nat /\ target' \in Nat /\ renewing' = Idle /\ UNCHANGED <<safe, clock, upsets>>
  BY <1>1, IInvParts DEF Ready
<1> QED
  BY <1>5, <1>6, <1>7, SettledCloses

LEMMA WheelTickKeeps == ASSUME IInv, WheelTick PROVE IInv'
<1>1. /\ Settle(rows, leases, Ticked(wheel), Held(wheel), {}, handles)
      /\ Given(longest) /\ now < target /\ now' = now + 1 /\ UNCHANGED <<target, renewing, safe, clock, upsets>>
  BY DEF WheelTick
<1>2. IsWheel(Ticked(wheel)) /\ Held(Ticked(wheel)) \subseteq Timer
  BY TickedHolds, IInvParts
<1>3. CanSettle(rows, leases, Ticked(wheel), Held(wheel), {}, handles, clock, upsets, safe)
  BY <1>2, SlotFacts, IInvParts DEF CanSettle
<1>4. /\ TableType' /\ ScheduleType' /\ ScheduledInv'
      /\ \A z \in Slots : Told(rows'[z], z, leases', clock, upsets, safe)
  BY <1>1, <1>3, SettleKeeps
<1>5. GivenType'
  BY <1>1, IInvParts, GivenKeeps
<1>6. now' \in Nat /\ target' \in Nat /\ renewing' = Idle /\ UNCHANGED <<safe, clock, upsets>>
  BY <1>1, IInvParts
<1> QED
  BY <1>4, <1>5, <1>6, SettledCloses

\* Dropping the schedule ends every row (Leases::wipe, drop_schedule).
LEMMA DropsKeep ==
    ASSUME IInv, NEW ls, ls \subseteq Lease, Settle(rows, ls, NewWheel, Held(wheel), {}, {}),
           Given(longest), now' \in Nat, clock' \in 0 .. MaxTime, target' \in Nat, safe' \in BOOLEAN,
           renewing' = Idle, upsets' = upsets,
           \A s \in Slots : Told(rows[s], s, ls, clock, upsets, TRUE)
    PROVE  IInv' /\ \A s \in Slots : rows'[s].state = "free"
<1>1. CanSettle(rows, ls, NewWheel, Held(wheel), {}, {}, clock, upsets, TRUE)
  BY NewHoldsNothing, SlotFacts, IInvParts DEF CanSettle
<1>2. TableType' /\ ScheduleType' /\ ScheduledInv' /\ \A s \in Slots : rows'[s].state = "free"
  BY <1>1, SettleKeeps, NewHoldsNothing
<1>3. ToldInv'
  BY <1>2, FreeIsTold
<1>4. GivenType'
  BY IInvParts, GivenKeeps
<1>5. TimeType' /\ RenewInv'
  BY IInvParts DEF TimeType, RenewInv
<1> QED
  BY <1>2, <1>3, <1>4, <1>5 DEF IInv

\* Cancelling for good says no less than before to a closed store.
LEMMA RotatedIsTold ==
    ASSUME IInv, NEW which, NEW s \in Slots
    PROVE  /\ CancelAll(leases, which, "rotated") \subseteq Lease
           /\ Told(rows[s], s, CancelAll(leases, which, "rotated"), clock, upsets, TRUE)
           /\ Told(rows[s], s, leases, clock, upsets, TRUE)
<1> DEFINE ls == CancelAll(leases, which, "rotated")
<1>1. /\ ls \subseteq Lease
      /\ \A l \in leases : \E k \in ls :
            /\ k.key = l.key /\ k.number = l.number /\ k.expires = l.expires
            /\ k.reason = IF l \in which /\ l.reason = "none" THEN "rotated" ELSE l.reason
  BY IInvParts, CancelAllKeeps
<1> HIDE DEF ls
<1>2. Told(rows[s], s, leases, clock, upsets, TRUE)
  BY SlotFacts DEF Told, Answers
<1>3. ASSUME NEW l \in Mine(rows[s], s, leases)
      PROVE  \E k \in Mine(rows[s], s, ls) :
                /\ Answers(l, clock + upsets, TRUE) => Answers(k, clock + upsets, TRUE)
                /\ Tells(l, rows[s].tombstone + upsets) => Tells(k, rows[s].tombstone + upsets)
  <2>1. l \in leases /\ l.key = RowKey(rows[s], s) /\ l.number = rows[s].lease
    BY DEF Mine
  <2>2. PICK k \in ls : /\ k.key = l.key /\ k.number = l.number /\ k.expires = l.expires
                        /\ k.reason = IF l \in which /\ l.reason = "none" THEN "rotated" ELSE l.reason
    BY <1>1, <2>1
  <2>3. k \in Mine(rows[s], s, ls)
    BY <2>1, <2>2 DEF Mine
  <2>4. k.reason = l.reason \/ (k.reason = "rotated" /\ l.reason = "none")
    BY <2>2
  <2>5. /\ Answers(l, clock + upsets, TRUE) => Answers(k, clock + upsets, TRUE)
        /\ Tells(l, rows[s].tombstone + upsets) => Tells(k, rows[s].tombstone + upsets)
    BY <2>2, <2>4 DEF Answers, Tells
  <2> QED
    BY <2>3, <2>5
<1>4. Told(rows[s], s, ls, clock, upsets, TRUE)
  BY <1>2, <1>3 DEF Told
<1> QED
  BY <1>1, <1>2, <1>4 DEF ls

LEMMA WipeKeeps == ASSUME IInv, Wipe PROVE IInv'
<1> DEFINE which == UNION {LeaseOf(s) : s \in Slots}
<1>1. /\ Settle(rows, CancelAll(leases, which, "rotated"), NewWheel, Held(wheel), {}, {})
      /\ Given(longest) /\ now' = clock /\ target' = clock /\ safe' = FALSE
      /\ Ready /\ UNCHANGED <<renewing, clock, upsets>>
  BY DEF Wipe
<1> HIDE DEF which
<1>2. CancelAll(leases, which, "rotated") \subseteq Lease
  BY IInvParts, CancelAllKeeps
<1>3. now' \in Nat /\ clock' \in 0 .. MaxTime /\ target' \in Nat /\ safe' \in BOOLEAN
      /\ renewing' = Idle /\ upsets' = upsets
  BY <1>1, IInvParts DEF Ready
<1> QED
  BY <1>1, <1>2, <1>3, DropsKeep, RotatedIsTold

LEMMA JumpKeeps == ASSUME IInv, Jump PROVE IInv'
<1>1. /\ Settle(rows, leases, NewWheel, Held(wheel), {}, {})
      /\ Given(longest) /\ now' = 0 /\ target' = 0 /\ clock' = 0
      /\ Ready /\ UNCHANGED <<renewing, safe, upsets>>
  BY DEF Jump
<1>2. now' \in Nat /\ clock' \in 0 .. MaxTime /\ target' \in Nat /\ safe' \in BOOLEAN
      /\ renewing' = Idle /\ upsets' = upsets
  BY <1>1, IInvParts, Constants DEF Ready
<1>3. leases \subseteq Lease /\ \A s \in Slots : Told(rows[s], s, leases, clock, upsets, TRUE)
  BY IInvParts, RotatedIsTold
<1> QED
  BY <1>1, <1>2, <1>3, DropsKeep

-----------------------------------------------------------------------------
(* A restart                                                                 *)

\* What Leases::restored makes of the table rs that the store loads.
OwingFrom(deadline) == IF deadline > clock THEN deadline - clock ELSE 0
RestoredLeases(rs) == {NewLease(KeyOf(s), 1, rs[s].expires) : s \in {z \in Slots : rs[z].state = "active"}}
RestoredTimers(rs) ==
  (UNION {Stages(KeyOf(s), 1) : s \in {z \in Slots : rs[z].state = "active"}})
    \cup {Stage(KeyOf(s), 0, "reap") : s \in {z \in Slots : Dead(rs[z])}}
RestoredRequests(rs) ==
  {[timer |-> Stage(KeyOf(s), 1, "retire"), delay |-> OwingFrom(rs[s].expires)] :
     s \in {z \in Slots : rs[z].state = "active"}}
  \cup {[timer |-> Stage(KeyOf(s), 1, "reap"), delay |-> OwingFrom(rs[s].expires + Retention)] :
          s \in {z \in Slots : rs[z].state = "active"}}
  \cup {[timer |-> Stage(KeyOf(s), 0, "reap"), delay |-> OwingFrom(rs[s].tombstone + Retention)] :
          s \in {z \in Slots : Dead(rs[z])}}

LEMMA RestoredAre ==
    ASSUME NEW rs
    PROVE  /\ \A l : l \in RestoredLeases(rs) <=>
                \E s \in Slots : rs[s].state = "active" /\ l = NewLease(KeyOf(s), 1, rs[s].expires)
           /\ \A t : t \in RestoredTimers(rs) <=>
                \/ \E s \in Slots : rs[s].state = "active" /\ t \in Stages(KeyOf(s), 1)
                \/ \E s \in Slots : Dead(rs[s]) /\ t = Stage(KeyOf(s), 0, "reap")
           /\ \A r : r \in RestoredRequests(rs) <=>
                \/ \E s \in Slots : rs[s].state = "active" /\
                     r = [timer |-> Stage(KeyOf(s), 1, "retire"), delay |-> OwingFrom(rs[s].expires)]
                \/ \E s \in Slots : rs[s].state = "active" /\
                     r = [timer |-> Stage(KeyOf(s), 1, "reap"), delay |-> OwingFrom(rs[s].expires + Retention)]
                \/ \E s \in Slots : Dead(rs[s]) /\
                     r = [timer |-> Stage(KeyOf(s), 0, "reap"), delay |-> OwingFrom(rs[s].tombstone + Retention)]
<1>1. \A l : l \in RestoredLeases(rs) <=>
         \E s \in Slots : rs[s].state = "active" /\ l = NewLease(KeyOf(s), 1, rs[s].expires)
  BY DEF RestoredLeases
<1>2. \A t : t \in RestoredTimers(rs) <=>
                \/ \E s \in Slots : rs[s].state = "active" /\ t \in Stages(KeyOf(s), 1)
                \/ \E s \in Slots : Dead(rs[s]) /\ t = Stage(KeyOf(s), 0, "reap")
  BY DEF RestoredTimers
<1>3. \A r : r \in RestoredRequests(rs) <=>
                \/ \E s \in Slots : rs[s].state = "active" /\
                     r = [timer |-> Stage(KeyOf(s), 1, "retire"), delay |-> OwingFrom(rs[s].expires)]
                \/ \E s \in Slots : rs[s].state = "active" /\
                     r = [timer |-> Stage(KeyOf(s), 1, "reap"), delay |-> OwingFrom(rs[s].expires + Retention)]
                \/ \E s \in Slots : Dead(rs[s]) /\
                     r = [timer |-> Stage(KeyOf(s), 0, "reap"), delay |-> OwingFrom(rs[s].tombstone + Retention)]
  BY DEF RestoredRequests
<1> QED
  BY <1>1, <1>2, <1>3

\* A row as the next start finds it: dead rows have no lease, live ones their first.
Restored(row, was) ==
    /\ row \in Row /\ row.gen = was.gen /\ row.expires = was.expires
    /\ row.state = "active" => row.lease = 1
    /\ row.state # "active" => row.lease = 0
    /\ row.state # "free" => was.state # "free"
LoadedAs(row, state, lease, tombstone) ==
  [row EXCEPT !.state = state, !.lease = lease, !.tombstone = tombstone]
LEMMA LoadedRow ==
    ASSUME NEW row \in Row, row.state # "free", NEW state \in {"active", "expired"}, NEW tombstone \in Nat,
           NEW lease, lease = IF state = "active" THEN 1 ELSE 0
    PROVE  Restored(LoadedAs(row, state, lease, tombstone), row)
<1> DEFINE a == [row EXCEPT !.state = state]
           b == [a EXCEPT !.lease = lease]
           c == [b EXCEPT !.tombstone = tombstone]
<1>0. lease \in 0 .. MaxLeases
  BY Constants
<1>1. LoadedAs(row, state, lease, tombstone) = c
  BY DEF Row, LoadedAs
<1>2. a \in Row /\ a.gen = row.gen /\ a.state = state /\ a.expires = row.expires
  BY DEF Row
<1> HIDE DEF a
<1>3. b \in Row /\ b.gen = a.gen /\ b.state = a.state /\ b.lease = lease /\ b.expires = a.expires
  BY <1>0, <1>2 DEF Row
<1> HIDE DEF b
<1>4. c \in Row /\ c.gen = b.gen /\ c.state = b.state /\ c.lease = b.lease /\ c.expires = b.expires
  BY <1>3 DEF Row
<1> HIDE DEF c
<1> QED
  BY <1>1, <1>2, <1>3, <1>4 DEF Restored

LEMMA UnleasedRow ==
    ASSUME NEW row \in Row, row.state # "active"
    PROVE  Restored([row EXCEPT !.lease = 0], row)
BY Constants DEF Row, Restored

LEMMA RestartIs ==
    ASSUME IInv, Restart
    PROVE  \E rs \in [Slots -> Row] :
             /\ \A s \in Slots : Restored(rs[s], rows[s])
             /\ Settle(rs, RestoredLeases(rs), Scheduled(NewWheel, RestoredRequests(rs)),
                       RestoredTimers(rs), {}, RestoredTimers(rs))
             /\ Given([s \in Slots |-> rs[s].expires])
             /\ Ready /\ upsets < MaxUpsets /\ now' = clock /\ target' = clock /\ upsets' = upsets + 1
             /\ UNCHANGED <<renewing, safe, clock>>
<1>1. PICK compacted \in BOOLEAN :
    LET Loaded(row) ==
          IF row.state = "active" \/ (row.state = "expired" /\ ~compacted)
          THEN IF row.expires <= clock
               THEN [row EXCEPT !.state = "expired", !.lease = 0, !.tombstone = row.expires]
               ELSE [row EXCEPT !.state = "active", !.lease = 1, !.tombstone = 0]
          ELSE [row EXCEPT !.lease = 0]
        rs == [s \in Slots |-> Loaded(rows[s])]
        live == {s \in Slots : rs[s].state = "active"}
        dead == {s \in Slots : Dead(rs[s])}
        Owing(deadline) == IF deadline > clock THEN deadline - clock ELSE 0
        timers == (UNION {Stages(KeyOf(s), 1) : s \in live})
                    \cup {Stage(KeyOf(s), 0, "reap") : s \in dead}
        requests ==
          {[timer |-> Stage(KeyOf(s), 1, "retire"), delay |-> Owing(rs[s].expires)] : s \in live}
          \cup {[timer |-> Stage(KeyOf(s), 1, "reap"),
                 delay |-> Owing(rs[s].expires + Retention)] : s \in live}
          \cup {[timer |-> Stage(KeyOf(s), 0, "reap"),
                 delay |-> Owing(rs[s].tombstone + Retention)] : s \in dead}
    IN /\ Ready /\ ~safe /\ upsets < MaxUpsets
       /\ Settle(rs, {NewLease(KeyOf(s), 1, rs[s].expires) : s \in live},
                 Scheduled(NewWheel, requests), timers, {}, timers)
       /\ Given([s \in Slots |-> rs[s].expires])
       /\ now' = clock /\ target' = clock
       /\ upsets' = upsets + 1
       /\ UNCHANGED <<renewing, safe, clock>>
  BY DEF Restart
<1> DEFINE Loaded(row) ==
             IF row.state = "active" \/ (row.state = "expired" /\ ~compacted)
             THEN IF row.expires <= clock
                  THEN [row EXCEPT !.state = "expired", !.lease = 0, !.tombstone = row.expires]
                  ELSE [row EXCEPT !.state = "active", !.lease = 1, !.tombstone = 0]
             ELSE [row EXCEPT !.lease = 0]
           rs == [s \in Slots |-> Loaded(rows[s])]
<1>2. /\ Settle(rs, RestoredLeases(rs), Scheduled(NewWheel, RestoredRequests(rs)),
                RestoredTimers(rs), {}, RestoredTimers(rs))
      /\ Given([s \in Slots |-> rs[s].expires])
      /\ Ready /\ upsets < MaxUpsets /\ now' = clock /\ target' = clock /\ upsets' = upsets + 1
      /\ UNCHANGED <<renewing, safe, clock>>
  BY <1>1 DEF RestoredLeases, RestoredRequests, RestoredTimers, OwingFrom
<1>3. ASSUME NEW s \in Slots PROVE Restored(rs[s], rows[s])
  <2> DEFINE before == rows[s]
             ended == rows[s].expires
  <2>1. before \in Row /\ ended \in Nat /\ 0 \in Nat
    BY SlotFacts, RowFields
  <2>2. \/ rs[s] = LoadedAs(before, "expired", 0, ended) /\ before.state # "free"
        \/ rs[s] = LoadedAs(before, "active", 1, 0) /\ before.state # "free"
        \/ rs[s] = [before EXCEPT !.lease = 0] /\ before.state # "active"
    BY DEF LoadedAs
  <2> HIDE DEF rs, before, ended
  <2>3. CASE rs[s] = LoadedAs(before, "expired", 0, ended) /\ before.state # "free"
    BY <2>1, <2>3, LoadedRow DEF before
  <2>4. CASE rs[s] = LoadedAs(before, "active", 1, 0) /\ before.state # "free"
    BY <2>1, <2>4, LoadedRow DEF before
  <2>5. CASE rs[s] = [before EXCEPT !.lease = 0] /\ before.state # "active"
    BY <2>1, <2>5, UnleasedRow DEF before
  <2> QED
    BY <2>2, <2>3, <2>4, <2>5
<1>4. rs \in [Slots -> Row]
  <2>1. rs = [s \in Slots |-> rs[s]]
    OBVIOUS
  <2> HIDE DEF rs
  <2> QED
    BY <1>3, <2>1 DEF Restored
<1> HIDE DEF rs
<1> QED
  BY <1>2, <1>3, <1>4

\* The start hands Settle what it must.
LEMMA RestoredSettles ==
    ASSUME IInv, NEW rs \in [Slots -> Row], \A s \in Slots : Restored(rs[s], rows[s])
    PROVE  CanSettle(rs, RestoredLeases(rs), Scheduled(NewWheel, RestoredRequests(rs)), RestoredTimers(rs), {},
                     RestoredTimers(rs), clock, upsets + 1, safe)
<1> DEFINE ls == RestoredLeases(rs)
           timers == RestoredTimers(rs)
           requests == RestoredRequests(rs)
           w == Scheduled(NewWheel, requests)
<1>2. ASSUME NEW s \in Slots
      PROVE  /\ rs[s] \in Row /\ KeyOf(s) \in KeyId /\ RowKey(rs[s], s) = KeyOf(s) /\ rs[s].expires \in Nat
             /\ Stages(KeyOf(s), 1) \subseteq Timer /\ Stage(KeyOf(s), 0, "reap") \in Timer
             /\ rs[s].state = "active" => rs[s].lease = 1
             /\ rs[s].state # "active" => rs[s].lease = 0
  <2>1. /\ KeyOf(s) \in KeyId /\ RowKey(rs[s], s) = KeyOf(s) /\ rs[s].expires \in Nat
        /\ rs[s] \in Row /\ (rs[s].state = "active" => rs[s].lease = 1) /\ (rs[s].state # "active" => rs[s].lease = 0)
    BY SlotFacts, RowFields DEF KeyOf, RowKey, Restored
  <2>2. 0 \in 0 .. MaxLeases /\ 1 \in 0 .. MaxLeases
    BY Constants
  <2> QED
    BY <2>1, <2>2, TimersAre
<1>3. timers \subseteq Timer
  BY <1>2, RestoredAre
<1>4. {r.timer : r \in requests} \subseteq timers
  <2>1. \A r \in requests :
          \/ \E s \in Slots : rs[s].state = "active" /\ r.timer \in {Stage(KeyOf(s), 1, "retire"), Stage(KeyOf(s), 1, "reap")}
          \/ \E s \in Slots : Dead(rs[s]) /\ r.timer = Stage(KeyOf(s), 0, "reap")
    BY RestoredAre
  <2> HIDE DEF requests
  <2> QED
    BY <2>1, RestoredAre DEF Stages
<1>5. IsWheel(w) /\ Held(w) \subseteq Timer
  BY <1>3, <1>4, ScheduledHolds, NewHoldsNothing
<1>6. ls \subseteq Lease
  <2> SUFFICES ASSUME NEW s \in Slots PROVE NewLease(KeyOf(s), 1, rs[s].expires) \in Lease
    BY RestoredAre
  <2>1. KeyOf(s) \in KeyId /\ rs[s].expires \in Nat /\ 1 \in 1 .. MaxLeases
    BY <1>2, Constants
  <2> QED
    BY <2>1 DEF NewLease, Lease
<1> HIDE DEF requests, w
<1>7. ASSUME NEW s \in Slots
      PROVE  Needed(rs[s], s) \subseteq timers /\ Told(rs[s], s, ls, clock, upsets + 1, safe)
  <2>1. CASE rs[s].state = "active"
    <3>1. rs[s].lease = 1 /\ RowKey(rs[s], s) = KeyOf(s)
      BY <1>2, <2>1
    <3>2. Needed(rs[s], s) = Stages(KeyOf(s), 1)
      BY <2>1, <3>1 DEF Needed
    <3>3. Stages(KeyOf(s), 1) \subseteq timers
      BY <2>1, RestoredAre
    <3> DEFINE l == NewLease(KeyOf(s), 1, rs[s].expires)
    <3>4. l \in ls
      BY <2>1, RestoredAre
    <3>5. l.key = KeyOf(s) /\ l.number = 1 /\ l.reason = "none"
      BY DEF NewLease
    <3> HIDE DEF l, ls
    <3>6. l \in Mine(rs[s], s, ls)
      BY <3>1, <3>4, <3>5 DEF Mine
    <3>7. Told(rs[s], s, ls, clock, upsets + 1, safe)
      BY <2>1, <3>5, <3>6 DEF Told, Answers
    <3> QED
      BY <3>2, <3>3, <3>7
  <2>2. CASE Dead(rs[s])
    <3>1. rs[s].lease = 0 /\ rs[s].state # "active" /\ RowKey(rs[s], s) = KeyOf(s)
      BY <1>2, <2>2 DEF Dead
    <3>2. Needed(rs[s], s) = {Stage(KeyOf(s), 0, "reap")}
      BY <2>2, <3>1 DEF Needed
    <3>3. Stage(KeyOf(s), 0, "reap") \in timers
      BY <2>2, RestoredAre
    <3> QED
      BY <3>1, <3>2, <3>3 DEF Told
  <2>3. CASE rs[s].state # "active" /\ ~Dead(rs[s])
    BY <2>3 DEF Needed, Dead, Told
  <2> QED
    BY <2>1, <2>2, <2>3
<1> HIDE DEF ls, timers
<1>8. CanSettle(rs, ls, w, timers, {}, timers, clock, upsets + 1, safe)
  BY <1>3, <1>5, <1>6, <1>7 DEF CanSettle
<1> QED
  BY <1>8 DEF ls, w, timers, requests

LEMMA RestartKeeps == ASSUME IInv, Restart PROVE IInv'
<1>1. PICK rs \in [Slots -> Row] :
        /\ \A s \in Slots : Restored(rs[s], rows[s])
        /\ Settle(rs, RestoredLeases(rs), Scheduled(NewWheel, RestoredRequests(rs)),
                  RestoredTimers(rs), {}, RestoredTimers(rs))
        /\ Given([s \in Slots |-> rs[s].expires])
        /\ Ready /\ upsets < MaxUpsets /\ now' = clock /\ target' = clock /\ upsets' = upsets + 1
        /\ UNCHANGED <<renewing, safe, clock>>
  BY RestartIs
<1>2. /\ TableType' /\ ScheduleType' /\ ScheduledInv'
      /\ \A z \in Slots : Told(rows'[z], z, leases', clock, upsets + 1, safe)
  BY <1>1, RestoredSettles, SettleKeeps
<1>11. GivenType'
  <2>1. [s \in Slots |-> rs[s].expires] \in [Slots -> Nat]
    BY <1>1, RowFields
  <2> QED
    BY <1>1, <2>1, GivenKeeps
<1>12. ToldInv'
  BY <1>1, <1>2 DEF ToldInv
<1>13. TimeType'
  <2>1. upsets' \in 0 .. MaxUpsets
    BY <1>1, IInvParts, Constants
  <2> QED
    BY <1>1, <2>1, IInvParts DEF TimeType
<1>14. RenewInv'
  BY <1>1 DEF Ready, RenewInv
<1> QED
  BY <1>2, <1>11, <1>12, <1>13, <1>14 DEF IInv

-----------------------------------------------------------------------------
(* Steps that leave the schedule alone                                       *)

\* Leases and clock may change while every row stays told of.
LEMMA UnsettledCloses ==
    ASSUME IInv, UNCHANGED <<rows, wheel, now, handles, longest>>, leases' \subseteq Lease,
           clock' \in 0 .. MaxTime, upsets' \in 0 .. MaxUpsets, target' \in Nat, safe' \in BOOLEAN,
           renewing' = Idle \/ (renewing' = renewing /\ target' = target),
           \A s \in Slots : Told(rows[s], s, leases', clock', upsets', safe')
    PROVE  IInv'
<1>1. TimeType' /\ GivenType'
  BY DEF IInv, TimeType, GivenType
<1>2. TableType' /\ ScheduleType' /\ ScheduledInv'
  BY DEF IInv, TableType, ScheduleType, ScheduledInv
<1>3. ToldInv'
  BY DEF ToldInv
<1>4. RenewInv'
  BY DEF IInv, RenewInv
<1> QED
  BY <1>1, <1>2, <1>3, <1>4 DEF IInv

LEMMA RenewBeginKeeps == ASSUME IInv, RenewBegin PROVE IInv'
<1>1. PICK s \in Slots, ttl \in Ttls :
        /\ Ready /\ rows[s].state = "active" /\ rows[s].lease < MaxLeases
        /\ renewing' = [slot |-> s, expires |-> clock + ttl]
        /\ UNCHANGED <<rows, leases, wheel, now, target, handles, safe, clock, upsets, longest>>
  BY DEF RenewBegin
<1>2. clock + ttl \in Nat
  BY IInvParts, Constants
<1>3. TimeType' /\ TableType' /\ ScheduleType' /\ GivenType'
  BY <1>1 DEF IInv, TimeType, TableType, ScheduleType, GivenType
<1>4. ScheduledInv' /\ ToldInv'
  BY <1>1 DEF IInv, ScheduledInv, ToldInv
<1>5. RenewInv'
  BY <1>1, <1>2 DEF RenewInv, Ready
<1> QED
  BY <1>3, <1>4, <1>5 DEF IInv

LEMMA FailClosedKeeps == ASSUME IInv, FailClosed PROVE IInv'
<1> DEFINE which == UNION {LeaseOf(s) : s \in Slots}
<1>1. /\ leases' = CancelAll(leases, which, "rotated") /\ safe' = TRUE /\ renewing' = Idle
      /\ UNCHANGED <<rows, wheel, now, target, handles, clock, upsets, longest>>
  BY DEF FailClosed
<1> HIDE DEF which
<1>2. leases' \subseteq Lease
  BY <1>1, IInvParts, CancelAllKeeps
<1>3. \A s \in Slots : Told(rows[s], s, leases', clock', upsets', safe')
  BY <1>1, RotatedIsTold
<1>4. clock' \in 0 .. MaxTime /\ upsets' \in 0 .. MaxUpsets /\ target' \in Nat /\ safe' \in BOOLEAN
  BY <1>1, IInvParts
<1>5. UNCHANGED <<rows, wheel, now, handles, longest>>
  BY <1>1
<1> QED
  BY <1>1, <1>2, <1>3, <1>4, <1>5, UnsettledCloses

\* A clock that goes on, or back while that is counted, is at any expiry it was at.
LEMMA LaterIsTold ==
    ASSUME IInv, NEW s \in Slots, NEW time \in Nat, NEW skew \in Nat, time + skew >= clock + upsets, skew >= upsets
    PROVE  Told(rows[s], s, leases, time, skew, safe)
<1>1. /\ \A l \in leases : l.expires \in Nat
      /\ rows[s].tombstone \in Nat /\ clock \in Nat /\ upsets \in Nat
  BY IInvParts, SlotFacts, RowFields DEF Lease
<1>2. Mine(rows[s], s, leases) \subseteq leases
  BY DEF Mine
<1>3. \A l \in leases : Answers(l, clock + upsets, safe) => Answers(l, time + skew, safe)
  BY <1>1 DEF Answers
<1>4. \A l \in leases : Tells(l, rows[s].tombstone + upsets) => Tells(l, rows[s].tombstone + skew)
  BY <1>1 DEF Tells
<1>5. Told(rows[s], s, leases, clock, upsets, safe)
  BY SlotFacts
<1> QED
  BY <1>2, <1>3, <1>4, <1>5 DEF Told

LEMMA AdvanceKeeps == ASSUME IInv, Advance PROVE IInv'
<1>1. /\ clock < MaxTime /\ clock' = clock + 1
      /\ UNCHANGED <<upsets, rows, leases, wheel, now, target, handles, renewing, safe, longest>>
  BY DEF Advance
<1>2. clock' \in 0 .. MaxTime /\ upsets' \in 0 .. MaxUpsets /\ target' \in Nat /\ safe' \in BOOLEAN
      /\ leases' \subseteq Lease
  BY <1>1, IInvParts, Constants
<1>3. \A s \in Slots : Told(rows[s], s, leases, clock + 1, upsets, safe)
  BY LaterIsTold, IInvParts
<1> QED
  BY <1>1, <1>2, <1>3, UnsettledCloses

LEMMA StepBackKeeps == ASSUME IInv, StepBack PROVE IInv'
<1>1. /\ clock > 0 /\ upsets < MaxUpsets /\ clock' = clock - 1 /\ upsets' = upsets + 1
      /\ UNCHANGED <<rows, leases, wheel, now, target, handles, renewing, safe, longest>>
  BY DEF StepBack
<1>2. clock' \in 0 .. MaxTime /\ upsets' \in 0 .. MaxUpsets /\ target' \in Nat /\ safe' \in BOOLEAN
      /\ leases' \subseteq Lease
  BY <1>1, IInvParts, Constants
<1>3. \A s \in Slots : Told(rows[s], s, leases, clock - 1, upsets + 1, safe)
  BY <1>1, LaterIsTold, IInvParts
<1> QED
  BY <1>1, <1>2, <1>3, UnsettledCloses

LEMMA WakeKeeps == ASSUME IInv, Wake PROVE IInv'
<1>1. Ready /\ target' = clock
      /\ UNCHANGED <<rows, leases, wheel, now, handles, renewing, safe, clock, upsets, longest>>
  BY DEF Wake
<1>2. clock' \in 0 .. MaxTime /\ upsets' \in 0 .. MaxUpsets /\ target' \in Nat /\ safe' \in BOOLEAN
      /\ leases' \subseteq Lease /\ renewing' = Idle
  BY <1>1, IInvParts DEF Ready
<1> QED
  BY <1>1, <1>2, UnsettledCloses, SlotFacts

LEMMA FindExpiredKeeps == ASSUME IInv, FindExpired PROVE IInv'
<1>1. PICK found \in leases :
        /\ found.reason = "none" /\ found.expires <= clock
        /\ leases' = CancelAll(leases, {found}, "expired")
        /\ UNCHANGED <<rows, wheel, now, target, handles, renewing, safe, clock, upsets, longest>>
  BY DEF FindExpired
<1> DEFINE ls == CancelAll(leases, {found}, "expired")
<1>a. /\ ls \subseteq Lease
      /\ \A l \in leases : \E k \in ls :
            /\ k.key = l.key /\ k.number = l.number /\ k.expires = l.expires
            /\ k.reason = IF l \in {found} /\ l.reason = "none" THEN "expired" ELSE l.reason
      /\ \A l \in leases : l \notin {found} \/ l.reason # "none" => l \in ls
  BY IInvParts, CancelAllKeeps
<1>b. leases' = ls
  BY <1>1
<1> HIDE DEF ls
<1>2. /\ leases' \subseteq Lease
      /\ \A l \in leases : \E k \in leases' :
            /\ k.key = l.key /\ k.number = l.number /\ k.expires = l.expires
            /\ k.reason = IF l \in {found} /\ l.reason = "none" THEN "expired" ELSE l.reason
      /\ \A l \in leases : l \notin {found} \/ l.reason # "none" => l \in leases'
  BY <1>a, <1>b
<1>3. clock \in Nat /\ upsets \in Nat /\ found.expires \in Nat
  BY IInvParts DEF Lease
<1>4. ASSUME NEW s \in Slots PROVE Told(rows[s], s, leases', clock, upsets, safe)
  <2>1. ASSUME NEW l \in Mine(rows[s], s, leases), Answers(l, clock + upsets, safe)
        PROVE  \E k \in Mine(rows[s], s, leases') : Answers(k, clock + upsets, safe)
    <3>1. l \in leases /\ l.key = RowKey(rows[s], s) /\ l.number = rows[s].lease
      BY DEF Mine
    <3>2. CASE l # found
      BY <1>2, <2>1, <3>1, <3>2 DEF Mine
    <3>3. CASE l = found
      <4>1. PICK k \in leases' : k.key = l.key /\ k.number = l.number /\ k.expires = l.expires /\ k.reason = "expired"
        BY <1>1, <1>2, <3>3
      <4>2. k \in Mine(rows[s], s, leases')
        BY <3>1, <4>1 DEF Mine
      <4>3. k.expires <= clock + upsets
        BY <1>1, <1>3, <3>3, <4>1
      <4> QED
        BY <4>1, <4>2, <4>3 DEF Answers
    <3> QED
      BY <3>2, <3>3
  <2>2. ASSUME NEW l \in Mine(rows[s], s, leases), Tells(l, rows[s].tombstone + upsets)
        PROVE  l \in Mine(rows[s], s, leases')
    <3>1. l \in leases /\ l.reason # "none"
      BY <2>2 DEF Mine, Tells
    <3> QED
      BY <1>2, <3>1 DEF Mine
  <2> QED
    BY <2>1, <2>2, SlotFacts DEF Told
<1>5. clock' \in 0 .. MaxTime /\ upsets' \in 0 .. MaxUpsets /\ target' \in Nat /\ safe' \in BOOLEAN
  BY <1>1, IInvParts
<1>6. \A s \in Slots : Told(rows[s], s, leases', clock', upsets', safe')
  BY <1>1, <1>4
<1>7. UNCHANGED <<rows, wheel, now, handles, longest>> /\ renewing' = renewing /\ target' = target
  BY <1>1
<1> QED
  BY <1>2, <1>5, <1>6, <1>7, UnsettledCloses

-----------------------------------------------------------------------------
(* The invariant and the theorems                                            *)

LEMMA Initially == Init => IInv
<1> SUFFICES ASSUME Init PROVE IInv
  OBVIOUS
<1>1. FreeRow(0) \in Row /\ FreeRow(0).state = "free"
  BY Constants DEF FreeRow, Row
<1>2. TimeType
  <2>1. now = 0 /\ clock = 0 /\ target = 0 /\ upsets = 0 /\ safe \in BOOLEAN
    BY DEF Init
  <2>2. now \in Nat /\ clock \in 0 .. MaxTime /\ target \in Nat /\ upsets \in 0 .. MaxUpsets
    BY <2>1, Constants
  <2> QED
    BY <2>1, <2>2 DEF TimeType
<1>3. TableType /\ \A s \in Slots : rows[s] = FreeRow(0)
  BY <1>1 DEF Init, TableType
<1>4. ScheduleType
  BY NewHoldsNothing DEF Init, ScheduleType
<1>5. GivenType /\ RenewInv
  BY DEF Init, GivenType, RenewInv
<1>6. ScheduledInv /\ ToldInv
  BY <1>1, <1>3 DEF ScheduledInv, Needed, Dead, ToldInv, Told
<1> QED
  BY <1>2, <1>3, <1>4, <1>5, <1>6 DEF IInv

LEMMA Inductive == IInv /\ [Next]_vars => IInv'
<1> SUFFICES ASSUME IInv, [Next]_vars PROVE IInv'
  OBVIOUS
<1>1. CASE UNCHANGED vars
  BY <1>1 DEF vars, IInv, TimeType, TableType, ScheduleType, GivenType, ScheduledInv, ToldInv, RenewInv
<1>2. CASE Next
  BY <1>2, IssueKeeps, RenewBeginKeeps, RenewLeaseKeeps, RenewReplacesKeeps, RevokeKeeps, CollectKeeps, WipeKeeps,
     FailClosedKeeps, AdvanceKeeps, StepBackKeeps, WakeKeeps, WheelTickKeeps, JumpKeeps, FindExpiredKeeps,
     RestartKeeps DEF Next
<1> QED
  BY <1>1, <1>2

LEMMA InvariantHolds == Spec => []IInv
BY Initially, Inductive, PTL DEF Spec

LEMMA TypesAreTypeOK == IInv => TypeOK
<1> SUFFICES ASSUME IInv PROVE TypeOK
  OBVIOUS
<1>1. renewing \in [slot : Slots \cup {-1}, expires : Nat]
  BY DEF IInv, RenewInv, Idle
<1> QED
  BY <1>1 DEF IInv, TimeType, TableType, ScheduleType, GivenType, TypeOK

\* Every row will be ended: whatever is renewed, revoked, collected, found expired
\* or restored, a live row has both timers and a dead one its reap, on the wheel
\* and where a revocation finds them (leases.rs; nothing sweeps the table).
THEOREM RowsStayScheduled == Spec => []EveryRowIsScheduled
<1>1. IInv => EveryRowIsScheduled
  <2> SUFFICES ASSUME IInv PROVE EveryRowIsScheduled
    OBVIOUS
  <2>1. ASSUME NEW s \in Slots
        PROVE  /\ rows[s].state = "active" => Stages(KeyOf(s), rows[s].lease) \subseteq Held(wheel) \cap handles
               /\ Dead(rows[s]) => Stage(KeyOf(s), rows[s].lease, "reap") \in Held(wheel) \cap handles
    BY SlotFacts, NeededAre
  <2> QED
    BY <2>1, TypesAreTypeOK DEF EveryRowIsScheduled
<1> QED
  BY <1>1, InvariantHolds, PTL

\* A revoked key goes on reporting its revocation until its row is reaped, unless it
\* had been found expired first (lifecycle.rs, record_cancel keeps the first reason).
THEOREM RevokedKeysTell == Spec => []RevokedTellsWhy
<1>1. IInv => RevokedTellsWhy
  <2> SUFFICES ASSUME IInv, NEW s \in Slots, rows[s].state = "revoked", rows[s].lease # 0
               PROVE  \E l \in LeaseOf(s) :
                        \/ l.reason = "revoked"
                        \/ l.reason = "expired" /\ l.expires <= rows[s].tombstone + upsets
    BY DEF RevokedTellsWhy
  <2>1. Told(rows[s], s, leases, clock, upsets, safe) /\ LeaseOf(s) = Mine(rows[s], s, leases)
    BY SlotFacts
  <2> QED
    BY <2>1 DEF Told, Tells
<1> QED
  BY <1>1, InvariantHolds, PTL

-----------------------------------------------------------------------------
(* When rows end                                                             *)

\* A timer's last route ends at a tick: the timer runs then.
LastAt(D, t, at) == [timer |-> t, at |-> at] \in D /\ \A d \in D : d.timer = t => d.at <= at
Arms(D, t) == \E d \in D : d.timer = t
Own(row, s, stage) == Stage(RowKey(row, s), row.lease, stage)

\* The timers of a live row, those on the wheel, run at the latest expiry it was given
\* and Retention after that; the reap of a dead one Retention after its end or later.
\* The tick of a second is off later than the second.
Timed(row, s, D, off, last) ==
    /\ row.state = "active" =>
         /\ row.expires <= last
         /\ Arms(D, Own(row, s, "retire")) => LastAt(D, Own(row, s, "retire"), last + off)
         /\ Arms(D, Own(row, s, "reap")) => LastAt(D, Own(row, s, "reap"), last + Retention + off)
    /\ Dead(row) /\ Arms(D, Own(row, s, "reap")) =>
         \E d \in D : d.timer = Own(row, s, "reap") /\ row.tombstone + Retention + off <= d.at + Lead(row)

\* A timer of a slot is of a key it has had, and one of its present key of a lease it
\* has had; the reap that has no lease is of a row that has none.
Owned(row, s, ts) ==
    \A t \in ts : t.key.slot = s =>
      /\ t.key.gen <= row.gen
      /\ t.key = RowKey(row, s) /\ row.state # "free" =>
           t.lease <= row.lease /\ (t.lease = 0 => row.lease = 0)

\* LiveLeaseIsOfALiveRow, of any table and leases.
Live(rs, ls) ==
    \A l \in ls : l.reason = "none" /\ l.number = 1 =>
      rs[l.key.slot].gen = l.key.gen /\ rs[l.key.slot].state = "active" /\ rs[l.key.slot].lease = 1

\* D is left of B, and what a timer has lost is earlier than all it has left.
Trimmed(B, D) == D \subseteq B /\ \A b \in B : b \in D \/ \A d \in D : d.timer = b.timer => b.at < d.at

LEMMA TrimmedLast ==
    ASSUME NEW B, \A b \in B : b.at \in Nat, NEW D, Trimmed(B, D), NEW t, NEW at \in Int,
           Arms(B, t) => LastAt(B, t, at), Arms(D, t)
    PROVE  LastAt(D, t, at)
<1>1. PICK d \in D : d.timer = t
  BY DEF Arms
<1>2. d \in B /\ D \subseteq B
  BY DEF Trimmed
<1>3. LastAt(B, t, at)
  BY <1>1, <1>2 DEF Arms
<1> DEFINE last == [timer |-> t, at |-> at]
<1>4. last \in B /\ last.timer = t /\ last.at = at /\ \A b \in B : b.timer = t => b.at <= at
  BY <1>3 DEF LastAt
<1> HIDE DEF last
<1>5. last \in D
  <2>1. d.at <= at /\ d.at \in Nat
    BY <1>1, <1>2, <1>4
  <2>2. ~ (at < d.at)
    BY <2>1
  <2> QED
    BY <1>1, <1>4, <2>2 DEF Trimmed
<1> QED
  BY <1>2, <1>4, <1>5 DEF LastAt, last

\* The callbacks keep the times of the rows they leave.
LEMMA TimedSettles ==
    ASSUME NEW row \in Row, NEW s \in Slots, NEW B, \A b \in B : b.at \in Nat, NEW D, Trimmed(B, D),
           NEW off \in Int, NEW last \in Nat, Timed(row, s, B, off, last),
           NEW timers, NEW fired, Needed(row, s) \subseteq timers, \A t \in timers : t \notin fired => Arms(D, t)
    PROVE  Timed(RowAfter(row, s, fired), s, D, off, last)
<1> DEFINE after == RowAfter(row, s, fired)
           reap == Own(row, s, "reap")
           retire == Own(row, s, "retire")
<1>1. /\ row.expires \in Nat /\ row.tombstone \in Nat /\ Retention \in Nat
      /\ last + off \in Int /\ last + Retention + off \in Int
  BY RowFields, Constants
<1>2. CASE after.state = "free"
  BY <1>2 DEF Timed, Dead
<1>3. CASE /\ after.state = "expired" /\ row.state = "active" /\ reap \notin fired
           /\ after.gen = row.gen /\ after.lease = row.lease /\ after.tombstone = row.expires
  <2>1. Own(after, s, "reap") = reap
    BY <1>3 DEF Own, RowKey
  <2>2. reap \in timers
    BY <1>3, NeededAre DEF Stages, Own
  <2>3. LastAt(D, reap, last + Retention + off) /\ row.expires <= last
    BY <1>1, <1>3, <2>2, TrimmedLast DEF Timed
  <2> DEFINE d == [timer |-> reap, at |-> last + Retention + off]
  <2>4. d \in D /\ d.timer = reap /\ d.at = last + Retention + off
    BY <2>3 DEF LastAt
  <2>5. Lead(after) = 0
    BY <1>3 DEF Lead
  <2>6. after.tombstone + Retention + off <= last + Retention + off + 0
    BY <1>1, <1>3, <2>3
  <2> HIDE DEF d, after, reap
  <2> QED
    BY <1>3, <2>1, <2>4, <2>5, <2>6 DEF Timed, after
<1>4. CASE /\ after = row /\ row.state # "free" /\ reap \notin fired
           /\ row.state = "active" => retire \notin fired
  <2>1. CASE row.state = "active"
    <3>1. /\ row.expires <= last
          /\ Arms(B, retire) => LastAt(B, retire, last + off)
          /\ Arms(B, reap) => LastAt(B, reap, last + Retention + off)
      BY <2>1 DEF Timed
    <3> HIDE DEF retire, reap
    <3>2. Arms(D, retire) => LastAt(D, retire, last + off)
      BY <1>1, <3>1, TrimmedLast
    <3>3. Arms(D, reap) => LastAt(D, reap, last + Retention + off)
      BY <1>1, <3>1, TrimmedLast
    <3>4. ~Dead(row)
      BY <2>1 DEF Dead
    <3> QED
      BY <1>4, <3>1, <3>2, <3>3, <3>4 DEF Timed, retire, reap
  <2>2. CASE Dead(row)
    <3> HIDE DEF reap
    <3>1. ASSUME Arms(D, reap)
          PROVE  \E d \in D : d.timer = reap /\ row.tombstone + Retention + off <= d.at + Lead(row)
      <4>1. PICK e \in D : e.timer = reap
        BY <3>1 DEF Arms
      <4>2. D \subseteq B
        BY DEF Trimmed
      <4>3. PICK b \in B : b.timer = reap /\ row.tombstone + Retention + off <= b.at + Lead(row)
        BY <2>2, <4>1, <4>2 DEF Timed, Arms, reap
      <4>4. CASE b \in D
        BY <4>3, <4>4
      <4>5. CASE b \notin D
        <5>1. b.at < e.at /\ b.at \in Nat /\ e.at \in Nat
          BY <4>1, <4>2, <4>3, <4>5 DEF Trimmed
        <5>2. Lead(row) \in Nat
          BY Constants DEF Lead
        <5>3. row.tombstone + Retention + off <= e.at + Lead(row)
          BY <1>1, <4>3, <5>1, <5>2
        <5> QED
          BY <4>1, <5>3
      <4> QED
        BY <4>4, <4>5
    <3>2. row.state # "active"
      BY <2>2 DEF Dead
    <3> QED
      BY <1>4, <3>1, <3>2 DEF Timed, reap
  <2> QED
    BY <1>4, <2>1, <2>2, RowFields DEF Dead
<1>5. /\ after.gen = row.gen
      /\ \/ after.state = "free"
         \/ /\ after.state = "expired" /\ row.state = "active"
            /\ after.lease = row.lease /\ after.tombstone = row.expires
            /\ reap \notin fired
         \/ /\ after = row /\ row.state # "free" /\ reap \notin fired
            /\ row.state = "active" => retire \notin fired
  BY RowAfterIs DEF Own
<1> QED
  BY <1>2, <1>3, <1>4, <1>5

\* A timer of a row's key is the row's own, while its lease is its first or it has none.
LEMMA OwnTimer ==
    ASSUME NEW row \in Row, NEW s \in Slots, row.lease <= 1, NEW t \in Timer, Owned(row, s, {t}), Holds(row, s, t.key)
    PROVE  t = Own(row, s, t.stage) /\ t.stage \in {"retire", "reap"}
<1>1. t.key = RowKey(row, s) /\ t.key.slot = s /\ row.state # "free"
  BY DEF Holds, RowKey
<1>2. t.lease <= row.lease /\ (t.lease = 0 => row.lease = 0)
  BY <1>1 DEF Owned
<1>3. t.lease \in Nat /\ row.lease \in Nat /\ t.stage \in {"retire", "reap"}
  BY RowFields, Constants DEF Timer
<1>4. t.lease = row.lease
  BY <1>2, <1>3
<1>5. t = [key |-> t.key, lease |-> t.lease, stage |-> t.stage]
  BY DEF Timer
<1> QED
  BY <1>1, <1>3, <1>4, <1>5 DEF Own, Stage

\* What a step must hand to Settle for the times: the deliveries B that there were before
\* the tick, rows on time by them, and no reap that runs while the retirement waits.
CanTime(rs, ls, w, timers, early, B, off, longer) ==
    /\ rs \in [Slots -> Row] /\ ls \subseteq Lease /\ longer \in [Slots -> Nat] /\ timers \subseteq Timer
    /\ WheelOK(w) /\ off \in Int /\ Held(w) \subseteq timers
    /\ \A b \in B : b.at \in Nat
    /\ Trimmed(B, Deliveries(w))
    /\ Live(rs, ls)
    /\ \A s \in Slots :
         /\ Needed(rs[s], s) \subseteq timers
         /\ Timed(rs[s], s, B, off, longer[s]) /\ Owned(rs[s], s, timers)
         /\ rs[s].state = "active" /\ Own(rs[s], s, "retire") \in Held(w) \ early =>
              Own(rs[s], s, "reap") \in Held(w) \ early

LEMMA SettleTimes ==
    ASSUME NEW rs, NEW ls, NEW w, NEW timers, NEW early, NEW reachable, NEW B, NEW off, NEW longer,
           CanTime(rs, ls, w, timers, early, B, off, longer),
           Settle(rs, ls, w, timers, early, reachable), Given(longer)
    PROVE  /\ WheelOK(wheel') /\ wheel'.ticks = w.ticks
           /\ \A s \in Slots : /\ Timed(rows'[s], s, Deliveries(wheel'), off, longest'[s])
                               /\ Owned(rows'[s], s, Held(wheel'))
           /\ Live(rows', leases')
<1> DEFINE left == Held(w) \ early
           fired == timers \ left
           ended == {l \in ls : Stage(l.key, l.number, "retire") \in fired}
           v == Without(w, early)
           D == Deliveries(v)
<1>1. /\ rows' = [s \in Slots |-> RowAfter(rs[s], s, fired)]
      /\ leases' = {l \in CancelAll(ls, ended, "expired") : Stages(l.key, l.number) \cap left # {}}
      /\ wheel' = v
  BY DEF Settle, Retired
<1>2. /\ rs \in [Slots -> Row] /\ ls \subseteq Lease /\ longer \in [Slots -> Nat] /\ timers \subseteq Timer
      /\ WheelOK(w) /\ off \in Int /\ left \subseteq timers
      /\ \A b \in B : b.at \in Nat
      /\ Trimmed(B, Deliveries(w))
      /\ Live(rs, ls)
      /\ \A s \in Slots :
           /\ Needed(rs[s], s) \subseteq timers
           /\ Timed(rs[s], s, B, off, longer[s]) /\ Owned(rs[s], s, timers)
           /\ rs[s].state = "active" /\ Own(rs[s], s, "retire") \in left => Own(rs[s], s, "reap") \in left
  BY DEF CanTime
<1>3. /\ WheelOK(v) /\ v.ticks = w.ticks
      /\ \A d : d \in D <=> d \in Deliveries(w) /\ d.timer \notin early
  BY <1>2, WithoutDelivers
<1>4. \A t : t \in left <=> Arms(D, t)
  <2>1. \A t : t \in Held(w) <=> \E d \in Deliveries(w) : d.timer = t
    BY HeldIsDelivered
  <2> HIDE DEF D
  <2> QED
    BY <1>3, <2>1 DEF Arms
<1>5. \A t : t \in Held(v) <=> t \in left
  <2>1. \A t : t \in Held(v) <=> Arms(D, t)
    BY HeldIsDelivered DEF Arms
  <2> QED
    BY <1>4, <2>1
<1>6. Trimmed(B, D)
  <2> HIDE DEF D
  <2> QED
    BY <1>2, <1>3 DEF Trimmed
<1>7. \A t \in timers : t \notin fired <=> t \in left
  OBVIOUS
<1> HIDE DEF left, fired, v, D
<1>8. ASSUME NEW s \in Slots PROVE Timed(rows'[s], s, D, off, longest'[s])
  <2>1. rs[s] \in Row /\ longer[s] \in Nat /\ rows'[s] = RowAfter(rs[s], s, fired)
    BY <1>1, <1>2
  <2>2. Timed(rows'[s], s, D, off, longer[s])
    <3> DEFINE row == rs[s]
               last == longer[s]
    <3>1. /\ row \in Row /\ last \in Nat /\ off \in Int /\ Needed(row, s) \subseteq timers
          /\ Timed(row, s, B, off, last) /\ \A b \in B : b.at \in Nat
      BY <1>2, <2>1
    <3>2. \A t \in timers : t \notin fired => Arms(D, t)
      BY <1>4, <1>7
    <3> HIDE DEF row, last
    <3>3. Timed(RowAfter(row, s, fired), s, D, off, last)
      BY <1>6, <3>1, <3>2, TimedSettles
    <3> QED
      BY <2>1, <3>3 DEF row, last
  <2>3. longest'[s] = IF rows'[s].state = "active" THEN longer[s] ELSE 0
    BY DEF Given
  <2>4. CASE rows'[s].state = "active"
    BY <2>2, <2>3, <2>4
  <2>5. CASE rows'[s].state # "active"
    BY <2>2, <2>5 DEF Timed
  <2> QED
    BY <2>4, <2>5
<1>9. ASSUME NEW s \in Slots PROVE Owned(rows'[s], s, Held(v))
  <2> DEFINE row == rs[s]
             after == RowAfter(row, s, fired)
  <2>1. row \in Row /\ rows'[s] = after /\ Owned(row, s, timers)
    BY <1>1, <1>2
  <2>2. after.gen = row.gen /\ (after.state # "free" => row.state # "free" /\ after.lease = row.lease)
    <3> HIDE DEF row
    <3> QED
      BY <2>1, RowAfterIs
  <2> HIDE DEF row, after
  <2>3. RowKey(after, s) = RowKey(row, s)
    BY <2>2 DEF RowKey
  <2>4. \A t \in Held(v) : t \in timers
    BY <1>2, <1>5
  <2>5. Owned(after, s, Held(v))
    BY <2>1, <2>2, <2>3, <2>4 DEF Owned
  <2> QED
    BY <2>1, <2>5
<1>10. ASSUME NEW k \in leases', k.reason = "none", k.number = 1
       PROVE  /\ rows'[k.key.slot].gen = k.key.gen /\ rows'[k.key.slot].state = "active"
              /\ rows'[k.key.slot].lease = 1
  <2>1. k \in CancelAll(ls, ended, "expired")
    BY <1>1
  <2>2. PICK l \in ls : k = IF l \in ended THEN Cancelled(l, "expired") ELSE l
    BY <2>1 DEF CancelAll
  <2>3. l \in Lease
    BY <1>2
  <2>4. k = l /\ l \notin ended
    BY <1>10, <2>2, <2>3, CancelledIs
  <2> HIDE DEF ended
  <2> DEFINE s == k.key.slot
             row == rs[s]
  <2>5. k \in Lease /\ s \in Slots /\ k.key = [slot |-> s, gen |-> k.key.gen]
    BY <2>3, <2>4 DEF Lease, KeyId
  <2>6. row.gen = k.key.gen /\ row.state = "active" /\ row.lease = 1
    BY <1>2, <1>10, <2>4 DEF Live
  <2>7. row \in Row /\ rows'[s] = RowAfter(row, s, fired) /\ Owned(row, s, timers) /\ Needed(row, s) \subseteq timers
    BY <1>1, <1>2, <2>5
  <2>8. (Own(row, s, "retire") \in left => Own(row, s, "reap") \in left)
    BY <1>2, <2>5, <2>6
  <2>9. Stage(k.key, k.number, "retire") = Own(row, s, "retire")
    BY <1>10, <2>5, <2>6 DEF Own, RowKey
  <2>10. Stage(k.key, k.number, "retire") \notin fired
    BY <2>4 DEF ended
  <2> HIDE DEF s, row
  <2>11. Own(row, s, "retire") \in timers
    BY <2>6, <2>7, NeededAre DEF Stages, Own
  <2>12. Own(row, s, "retire") \in left /\ Own(row, s, "reap") \in left
    BY <1>7, <2>8, <2>9, <2>10, <2>11
  <2>13. ASSUME NEW t \in fired, Holds(row, s, t.key) PROVE FALSE
    <3>1. t \in timers /\ t \notin left
      BY DEF fired
    <3>2. t \in Timer /\ Owned(row, s, {t})
      BY <1>2, <2>7, <3>1 DEF Owned
    <3>3. t = Own(row, s, t.stage) /\ t.stage \in {"retire", "reap"}
      BY <2>5, <2>6, <2>7, <2>13, <3>2, OwnTimer
    <3> QED
      BY <2>12, <3>1, <3>3
  <2>14. RowAfter(row, s, fired) = row
    BY <2>13 DEF RowAfter
  <2> QED
    BY <2>6, <2>7, <2>14 DEF s
<1>11. Live(rows', leases')
  BY <1>10 DEF Live
<1> QED
  BY <1>1, <1>3, <1>8, <1>9, <1>11 DEF D

TimedInv == \A s \in Slots : Timed(rows[s], s, Deliveries(wheel), wheel.ticks - now, longest[s])
OwnedInv == \A s \in Slots : Owned(rows[s], s, Held(wheel))
\* An expiry that was given is within the wheel's reach, by the clock of a start as well.
Reaches(expires, time, back) == expires + Retention + back <= time + Span
ClockInv ==
    /\ clock <= now + MaxSkew
    /\ \A s \in Slots : rows[s].state # "free" => Reaches(rows[s].expires, clock, MaxUpsets - upsets)
    /\ renewing # Idle => /\ Reaches(renewing.expires, now, 0)
                          /\ Reaches(renewing.expires, clock, MaxUpsets - upsets)
DInv == WheelOK(wheel) /\ TimedInv /\ OwnedInv /\ ClockInv /\ Live(rows, leases)

\* A step that settles the schedule, with no renewal left open.
LEMMA SettledOnTime ==
    ASSUME NEW rs, NEW ls, NEW w, NEW timers, NEW early, NEW reachable, NEW B, NEW off, NEW longer,
           CanTime(rs, ls, w, timers, early, B, off, longer),
           Settle(rs, ls, w, timers, early, reachable), Given(longer),
           off = w.ticks - now', clock' <= now' + MaxSkew, renewing' = Idle,
           \A s \in Slots : rs[s].state # "free" => Reaches(rs[s].expires, clock', MaxUpsets - upsets')
    PROVE  DInv'
<1>1. /\ WheelOK(wheel') /\ wheel'.ticks = w.ticks
      /\ \A s \in Slots : /\ Timed(rows'[s], s, Deliveries(wheel'), off, longest'[s])
                          /\ Owned(rows'[s], s, Held(wheel'))
      /\ Live(rows', leases')
  BY SettleTimes
<1>2. ASSUME NEW s \in Slots, rows'[s].state # "free"
      PROVE  Reaches(rows'[s].expires, clock', MaxUpsets - upsets')
  <2> DEFINE fired == timers \ (Held(w) \ early)
  <2>1. rows'[s] = RowAfter(rs[s], s, fired) /\ rs[s] \in Row
    BY DEF Settle, CanTime
  <2> HIDE DEF fired
  <2>2. rs[s].state # "free" /\ rows'[s].expires = rs[s].expires
    BY <1>2, <2>1, RowAfterIs
  <2> QED
    BY <2>2
<1>3. TimedInv' /\ OwnedInv'
  BY <1>1 DEF TimedInv, OwnedInv
<1>4. ClockInv'
  BY <1>2 DEF ClockInv
<1> QED
  BY <1>1, <1>3, <1>4 DEF DInv

\* Cancelled, a lease is nobody's live lease.
LEMMA CancelledLive ==
    ASSUME NEW rs, NEW ls \in SUBSET Lease, Live(rs, ls), NEW which, NEW reason \in {"expired", "revoked", "rotated"}
    PROVE  /\ Live(rs, CancelAll(ls, which, reason))
           /\ \A k \in CancelAll(ls, which, reason) : k.reason = "none" => k \in ls /\ k \notin which
<1>1. ASSUME NEW k \in CancelAll(ls, which, reason), k.reason = "none" PROVE k \in ls /\ k \notin which
  <2>1. PICK l \in ls : k = IF l \in which THEN Cancelled(l, reason) ELSE l
    BY DEF CancelAll
  <2> QED
    BY <1>1, <2>1, CancelledIs
<1> QED
  BY <1>1 DEF Live

-----------------------------------------------------------------------------
(* Steps that leave the schedule alone                                       *)

\* The clock goes on or back and leases are cancelled, within the bounds.
LEMMA UnsettledOnTime ==
    ASSUME DInv, UNCHANGED <<rows, wheel, now, longest>>, ClockInv', Live(rows, leases')
    PROVE  DInv'
<1>1. TimedInv' /\ OwnedInv' /\ WheelOK(wheel')
  BY DEF DInv, TimedInv, OwnedInv
<1>2. Live(rows', leases')
  OBVIOUS
<1> QED
  BY <1>1, <1>2 DEF DInv

LEMMA WheelReach ==
    /\ Span \in Nat /\ Span > 0
    /\ \A ttl \in Ttls : /\ ttl \in Nat
                         /\ ttl + Retention + MaxSkew <= Span /\ ttl + Retention + MaxUpsets <= Span
BY TimersAssumption, LevelsAre, PeriodIs DEF TimersAssumption, Span

LEMMA RenewBeginOnTime == ASSUME IInv, DInv, RenewBegin PROVE DInv'
<1>1. PICK s \in Slots, ttl \in Ttls :
        /\ renewing' = [slot |-> s, expires |-> clock + ttl]
        /\ UNCHANGED <<rows, leases, wheel, now, target, handles, safe, clock, upsets, longest>>
  BY DEF RenewBegin
<1>2. /\ clock \in Nat /\ now \in Nat /\ upsets \in Nat /\ upsets <= MaxUpsets /\ clock <= now + MaxSkew
      /\ Retention \in Nat /\ MaxSkew \in Nat /\ MaxUpsets \in Nat
  BY IInvParts, Constants DEF DInv, ClockInv
<1>3. /\ Span \in Nat /\ ttl \in Nat
      /\ ttl + Retention + MaxSkew <= Span /\ ttl + Retention + MaxUpsets <= Span
  BY WheelReach
<1>4. /\ (clock + ttl) + Retention + 0 <= now + Span
      /\ (clock + ttl) + Retention + (MaxUpsets - upsets) <= clock + Span
  BY <1>2, <1>3
<1>5. /\ Reaches(clock + ttl, now, 0) /\ Reaches(clock + ttl, clock, MaxUpsets - upsets)
      /\ renewing'.expires = clock + ttl
  BY <1>1, <1>4 DEF Reaches
<1>6. ClockInv'
  BY <1>1, <1>5 DEF DInv, ClockInv
<1> QED
  BY <1>1, <1>6, UnsettledOnTime DEF DInv

LEMMA FailClosedOnTime == ASSUME IInv, DInv, FailClosed PROVE DInv'
<1> DEFINE which == UNION {LeaseOf(s) : s \in Slots}
<1>1. /\ leases' = CancelAll(leases, which, "rotated") /\ renewing' = Idle
      /\ UNCHANGED <<rows, wheel, now, target, handles, clock, upsets, longest>>
  BY DEF FailClosed
<1> HIDE DEF which
<1>2. Live(rows, leases')
  BY <1>1, IInvParts, CancelledLive DEF DInv
<1>3. ClockInv'
  BY <1>1 DEF DInv, ClockInv
<1> QED
  BY <1>1, <1>2, <1>3, UnsettledOnTime

LEMMA FindExpiredOnTime == ASSUME IInv, DInv, FindExpired PROVE DInv'
<1>1. PICK l \in leases :
        /\ leases' = CancelAll(leases, {l}, "expired")
        /\ UNCHANGED <<rows, wheel, now, target, handles, renewing, safe, clock, upsets, longest>>
  BY DEF FindExpired
<1>2. Live(rows, leases')
  BY <1>1, IInvParts, CancelledLive DEF DInv
<1>3. ClockInv'
  BY <1>1 DEF DInv, ClockInv
<1> QED
  BY <1>1, <1>2, <1>3, UnsettledOnTime

\* The clock may move while what was given stays in reach.
LEMMA ClockMoves ==
    ASSUME IInv, DInv, UNCHANGED <<rows, leases, wheel, now, renewing, longest>>,
           clock' \in Int, upsets' \in Int, clock' <= now + MaxSkew, clock' + upsets' >= clock + upsets
    PROVE  DInv'
<1>1. /\ clock \in Nat /\ now \in Nat /\ upsets \in Nat /\ Retention \in Nat /\ MaxUpsets \in Nat /\ Span \in Nat
      /\ \A s \in Slots : rows[s].expires \in Nat
      /\ renewing # Idle => renewing.expires \in Nat
  BY IInvParts, Constants, WheelReach, RowFields
<1>2. ASSUME NEW e \in Nat, Reaches(e, clock, MaxUpsets - upsets) PROVE Reaches(e, clock', MaxUpsets - upsets')
  <2>1. e + Retention + (MaxUpsets - upsets) <= clock + Span
    BY <1>2 DEF Reaches
  <2>2. \A c \in Int, u \in Int : c + u >= clock + upsets => e + Retention + (MaxUpsets - u) <= c + Span
    BY <1>1, <2>1
  <2>3. e + Retention + (MaxUpsets - upsets') <= clock' + Span
    BY <2>2
  <2> QED
    BY <2>3 DEF Reaches
<1>3. ClockInv'
  BY <1>1, <1>2 DEF DInv, ClockInv
<1> QED
  BY <1>3, UnsettledOnTime DEF DInv

LEMMA AdvanceOnTime == ASSUME IInv, DInv, Advance PROVE DInv'
<1>1. /\ clock < now + MaxSkew /\ clock' = clock + 1 /\ upsets' = upsets
      /\ UNCHANGED <<rows, leases, wheel, now, renewing, longest>>
  BY DEF Advance
<1>2. /\ clock \in Nat /\ now \in Nat /\ upsets \in Nat /\ MaxSkew \in Nat
  BY IInvParts, Constants
<1>3. clock' \in Int /\ upsets' \in Int /\ clock' <= now + MaxSkew /\ clock' + upsets' >= clock + upsets
  BY <1>1, <1>2
<1> QED
  BY <1>1, <1>3, ClockMoves

LEMMA StepBackOnTime == ASSUME IInv, DInv, StepBack PROVE DInv'
<1>1. /\ clock' = clock - 1 /\ upsets' = upsets + 1
      /\ UNCHANGED <<rows, leases, wheel, now, renewing, longest>>
  BY DEF StepBack
<1>2. /\ clock \in Nat /\ now \in Nat /\ upsets \in Nat /\ MaxSkew \in Nat /\ clock <= now + MaxSkew
  BY IInvParts, Constants DEF DInv, ClockInv
<1>3. clock' \in Int /\ upsets' \in Int /\ clock' <= now + MaxSkew /\ clock' + upsets' >= clock + upsets
  BY <1>1, <1>2
<1> QED
  BY <1>1, <1>3, ClockMoves

LEMMA WakeOnTime == ASSUME IInv, DInv, Wake PROVE DInv'
<1>1. UNCHANGED <<rows, leases, wheel, now, renewing, clock, upsets, longest>>
  BY DEF Wake
<1>2. ClockInv'
  BY <1>1 DEF DInv, ClockInv
<1> QED
  BY <1>1, <1>2, UnsettledOnTime DEF DInv

-----------------------------------------------------------------------------
(* Commands on time                                                          *)

\* What the two requests of a key add to the wheel.
LEMMA PlacedDelivers ==
    ASSUME NEW w, WheelOK(w), NEW key, NEW n, NEW expires
    PROVE  /\ WheelOK(Scheduled(w, Placements(key, n, expires)))
           /\ Scheduled(w, Placements(key, n, expires)).ticks = w.ticks
           /\ \A d : d \in Deliveries(Scheduled(w, Placements(key, n, expires))) <=>
                \/ d \in Deliveries(w)
                \/ DelayTo(expires) \in 1 .. Span /\ d = [timer |-> Stage(key, n, "retire"), at |-> w.ticks + DelayTo(expires)]
                \/ DelayTo(expires + Retention) \in 1 .. Span
                     /\ d = [timer |-> Stage(key, n, "reap"), at |-> w.ticks + DelayTo(expires + Retention)]
<1> DEFINE requests == Placements(key, n, expires)
           a == Request(Stage(key, n, "retire"), expires)
           b == Request(Stage(key, n, "reap"), expires + Retention)
<1>1. /\ requests = {a, b}
      /\ a.timer = Stage(key, n, "retire") /\ a.delay = DelayTo(expires)
      /\ b.timer = Stage(key, n, "reap") /\ b.delay = DelayTo(expires + Retention)
  BY DEF Placements, Request
<1> HIDE DEF requests, a, b
<1>2. /\ WheelOK(Scheduled(w, requests)) /\ Scheduled(w, requests).ticks = w.ticks
      /\ \A d : d \in Deliveries(Scheduled(w, requests)) <=>
                  \/ d \in Deliveries(w)
                  \/ \E r \in requests : r.delay \in 1 .. Span /\ d = [timer |-> r.timer, at |-> w.ticks + r.delay]
  BY ScheduledDelivers
<1>3. \A d : (\E r \in requests : r.delay \in 1 .. Span /\ d = [timer |-> r.timer, at |-> w.ticks + r.delay]) <=>
               \/ DelayTo(expires) \in 1 .. Span /\ d = [timer |-> Stage(key, n, "retire"), at |-> w.ticks + DelayTo(expires)]
               \/ DelayTo(expires + Retention) \in 1 .. Span
                    /\ d = [timer |-> Stage(key, n, "reap"), at |-> w.ticks + DelayTo(expires + Retention)]
  BY <1>1
<1> QED
  BY <1>2, <1>3 DEF requests

\* A delay from now to a deadline is delivered at the deadline's tick.
LEMMA DelayIs ==
    ASSUME now \in Nat, NEW ticks \in Nat, NEW deadline \in Nat
    PROVE  /\ DelayTo(deadline) \in 1 .. Span <=> deadline > now /\ deadline <= now + Span
           /\ deadline > now => ticks + DelayTo(deadline) = deadline + (ticks - now)
BY WheelReach DEF DelayTo

\* Only the timers of its key matter to a row.
LEMMA TimedFrame ==
    ASSUME NEW row, NEW s, NEW D, NEW E, NEW off, NEW last, Timed(row, s, D, off, last),
           \A d : d.timer.key = RowKey(row, s) => (d \in D <=> d \in E)
    PROVE  Timed(row, s, E, off, last)
<1>1. \A stage : Own(row, s, stage).key = RowKey(row, s)
  BY DEF Own, Stage
<1>2. ASSUME NEW t, t.key = RowKey(row, s)
      PROVE  /\ Arms(D, t) <=> Arms(E, t)
             /\ \A at : LastAt(D, t, at) => LastAt(E, t, at)
  <2>1. \A at : [timer |-> t, at |-> at].timer = t
    OBVIOUS
  <2>2. \A d : d.timer = t => (d \in D <=> d \in E)
    BY <1>2
  <2> QED
    BY <2>1, <2>2 DEF Arms, LastAt
<1> DEFINE retire == Own(row, s, "retire")
           reap == Own(row, s, "reap")
<1>3. /\ Arms(D, retire) <=> Arms(E, retire)
      /\ Arms(D, reap) <=> Arms(E, reap)
      /\ LastAt(D, retire, last + off) => LastAt(E, retire, last + off)
      /\ LastAt(D, reap, last + Retention + off) => LastAt(E, reap, last + Retention + off)
  BY <1>1, <1>2
<1>4. \A d \in D : d.timer = reap => d \in E
  BY <1>1
<1> HIDE DEF retire, reap
<1>5. /\ row.state = "active" =>
           /\ row.expires <= last
           /\ Arms(D, retire) => LastAt(D, retire, last + off)
           /\ Arms(D, reap) => LastAt(D, reap, last + Retention + off)
      /\ Dead(row) /\ Arms(D, reap) =>
           \E d \in D : d.timer = reap /\ row.tombstone + Retention + off <= d.at + Lead(row)
  BY DEF Timed, retire, reap
<1>6. /\ row.state = "active" =>
           /\ row.expires <= last
           /\ Arms(E, retire) => LastAt(E, retire, last + off)
           /\ Arms(E, reap) => LastAt(E, reap, last + Retention + off)
      /\ Dead(row) /\ Arms(E, reap) =>
           \E d \in E : d.timer = reap /\ row.tombstone + Retention + off <= d.at + Lead(row)
  BY <1>3, <1>4, <1>5
<1> QED
  BY <1>6 DEF Timed, retire, reap

\* What the second invariant says of a slot.
LEMMA SlotOnTime ==
    ASSUME IInv, DInv, NEW s \in Slots
    PROVE  /\ Timed(rows[s], s, Deliveries(wheel), wheel.ticks - now, longest[s])
           /\ Owned(rows[s], s, Held(wheel))
           /\ rows[s].state # "free" => Reaches(rows[s].expires, clock, MaxUpsets - upsets)
           /\ longest[s] \in Nat
           /\ rows[s].state = "active" =>
                /\ rows[s].lease \in Nat \ {0}
                /\ \A stage \in {"retire", "reap"} :
                     Own(rows[s], s, stage) \in Held(wheel) /\ Own(rows[s], s, stage) \in handles
<1>1. /\ Timed(rows[s], s, Deliveries(wheel), wheel.ticks - now, longest[s])
      /\ Owned(rows[s], s, Held(wheel))
      /\ rows[s].state # "free" => Reaches(rows[s].expires, clock, MaxUpsets - upsets)
  BY DEF DInv, TimedInv, OwnedInv, ClockInv
<1>2. ASSUME rows[s].state = "active" PROVE rows[s].lease \in Nat \ {0}
  <2>1. PICK l \in Mine(rows[s], s, leases) : TRUE
    BY <1>2, SlotFacts DEF Told
  <2>2. l \in Lease /\ l.number = rows[s].lease
    BY <2>1, IInvParts DEF Mine
  <2> QED
    BY <2>2, Constants DEF Lease
<1>3. ASSUME rows[s].state = "active", NEW stage \in {"retire", "reap"}
      PROVE  Own(rows[s], s, stage) \in Held(wheel) /\ Own(rows[s], s, stage) \in handles
  <2>1. Own(rows[s], s, stage) \in Needed(rows[s], s)
    BY <1>3, NeededAre DEF Stages, Own
  <2> QED
    BY <2>1, SlotFacts
<1> QED
  BY <1>1, <1>2, <1>3, IInvParts

LEMMA WheelOnTime ==
    ASSUME IInv, DInv
    PROVE  /\ WheelOK(wheel) /\ wheel.ticks \in Nat /\ now \in Nat /\ wheel.ticks - now \in Int
           /\ \A d \in Deliveries(wheel) : d.at \in Nat /\ wheel.ticks < d.at
           /\ \A t : t \in Held(wheel) <=> Arms(Deliveries(wheel), t)
<1>1. WheelOK(wheel) /\ wheel.ticks \in Nat /\ now \in Nat
  BY IInvParts DEF DInv, WheelOK
<1> QED
  BY <1>1, DeliversLater, HeldIsDelivered DEF Arms

\* A row that just got the first or the next lease ends on time (watch).
LEMMA WatchOnTime ==
    ASSUME IInv, DInv, NEW s \in Slots, NEW row \in Row, row.state = "active", row.lease # 0,
           Reaches(row.expires, now, 0), Reaches(row.expires, clock, MaxUpsets - upsets),
           Settle([rows EXCEPT ![s] = row],
                  leases \cup {NewLease(RowKey(row, s), row.lease, row.expires)},
                  Scheduled(wheel, Placements(RowKey(row, s), row.lease, row.expires)),
                  Held(wheel) \cup Stages(RowKey(row, s), row.lease), {},
                  ReachedBy(RowKey(row, s), row.lease)),
           Given([longest EXCEPT ![s] = row.expires]),
           renewing' = Idle, UNCHANGED <<now, clock, upsets>>,
           \A t \in Held(wheel) : t.key.slot = s =>
              t.key.gen <= row.gen /\ (t.key = RowKey(row, s) => t.lease < row.lease /\ t.lease # 0),
           \A l \in leases : l.key.slot = s => ~ (l.reason = "none" /\ l.number = 1)
    PROVE  DInv'
<1> DEFINE expires == row.expires
           key == RowKey(row, s)
           retire == Own(row, s, "retire")
           reap == Own(row, s, "reap")
           new == NewLease(key, row.lease, expires)
           rs == [rows EXCEPT ![s] = row]
           ls == leases \cup {new}
           w == Scheduled(wheel, Placements(key, row.lease, expires))
           timers == Held(wheel) \cup Stages(key, row.lease)
           longer == [longest EXCEPT ![s] = expires]
           off == wheel.ticks - now
           D == Deliveries(w)
<1>1. /\ expires \in Nat /\ Retention \in Nat \ {0} /\ Span \in Nat /\ now \in Nat /\ wheel.ticks \in Nat /\ off \in Int
      /\ row.lease \in 0 .. MaxLeases /\ row.lease \in Nat
      /\ expires + Retention + 0 <= now + Span
  BY RowFields, WheelReach, WheelOnTime, TimersAssumption DEF TimersAssumption, Reaches
<1>2. key \in KeyId /\ key.slot = s /\ Stages(key, row.lease) \subseteq Timer /\ timers \subseteq Timer
  <2>1. key \in KeyId /\ key.slot = s
    BY RowFields DEF RowKey, KeyId
  <2> HIDE DEF key
  <2>2. Stages(key, row.lease) \subseteq Timer
    BY <1>1, <2>1, TimersAre
  <2> QED
    BY <2>1, <2>2, IInvParts
<1>3. new \in Lease /\ new.key = key /\ new.number = row.lease
  <2> HIDE DEF key
  <2> QED
    BY <1>1, <1>2, Constants DEF NewLease, Lease
<1>4. rs \in [Slots -> Row] /\ rs[s] = row /\ \A z \in Slots \ {s} : rs[z] = rows[z]
  BY IInvParts
<1>5. longer \in [Slots -> Nat] /\ longer[s] = expires /\ \A z \in Slots \ {s} : longer[z] = longest[z]
  BY <1>1, IInvParts
<1>6. ls \subseteq Lease
  BY <1>3, IInvParts
<1>7. /\ Stages(key, row.lease) = {retire, reap} /\ retire # reap
      /\ retire.key = key /\ reap.key = key /\ retire.lease = row.lease /\ reap.lease = row.lease
  BY DEF Stages, Own, Stage
<1>8. /\ WheelOK(w) /\ w.ticks = wheel.ticks
      /\ \A d : d \in D <=>
           \/ d \in Deliveries(wheel)
           \/ DelayTo(expires) \in 1 .. Span /\ d = [timer |-> retire, at |-> wheel.ticks + DelayTo(expires)]
           \/ DelayTo(expires + Retention) \in 1 .. Span
                /\ d = [timer |-> reap, at |-> wheel.ticks + DelayTo(expires + Retention)]
  BY WheelOnTime, PlacedDelivers DEF Own
<1>9. \A t : t \in Held(w) <=> Arms(D, t)
  BY HeldIsDelivered DEF Arms
<1> HIDE DEF key, retire, reap, new, rs, ls, w, longer, D
<1>10. /\ DelayTo(expires) \in 1 .. Span <=> expires > now
       /\ DelayTo(expires + Retention) \in 1 .. Span <=> expires + Retention > now
       /\ expires > now => wheel.ticks + DelayTo(expires) = expires + off
       /\ expires + Retention > now => wheel.ticks + DelayTo(expires + Retention) = expires + Retention + off
  <2> DEFINE due == expires + Retention
  <2>1. due \in Nat /\ due <= now + Span /\ expires <= now + Span
    BY <1>1
  <2> HIDE DEF due
  <2>2. /\ DelayTo(due) \in 1 .. Span <=> due > now
        /\ due > now => wheel.ticks + DelayTo(due) = due + off
    BY <1>1, <2>1, DelayIs
  <2>3. /\ DelayTo(expires) \in 1 .. Span <=> expires > now
        /\ expires > now => wheel.ticks + DelayTo(expires) = expires + off
    BY <1>1, <2>1, DelayIs
  <2> QED
    BY <2>2, <2>3 DEF due
<1>11. \A d : d \in D <=>
           \/ d \in Deliveries(wheel)
           \/ expires > now /\ d = [timer |-> retire, at |-> expires + off]
           \/ expires + Retention > now /\ d = [timer |-> reap, at |-> expires + Retention + off]
  BY <1>8, <1>10
\* Both stages are new to the wheel.
<1>12. \A d \in Deliveries(wheel) : d.timer # retire /\ d.timer # reap
  <2>1. \A t \in Held(wheel) : t.key = key => t.lease < row.lease
    BY <1>2 DEF key
  <2>2. retire \notin Held(wheel) /\ reap \notin Held(wheel)
    BY <1>1, <1>7, <2>1
  <2> QED
    BY <2>2, WheelOnTime DEF Arms
<1>13. Timed(row, s, D, off, expires)
  <2>1. ASSUME Arms(D, retire) PROVE LastAt(D, retire, expires + off)
    BY <1>1, <1>7, <1>11, <1>12, <2>1 DEF Arms, LastAt
  <2>2. ASSUME Arms(D, reap) PROVE LastAt(D, reap, expires + Retention + off)
    BY <1>1, <1>7, <1>11, <1>12, <2>2 DEF Arms, LastAt
  <2>3. ~Dead(row) /\ expires <= expires
    BY <1>1 DEF Dead
  <2> QED
    BY <2>1, <2>2, <2>3 DEF Timed, retire, reap
<1>14. ASSUME retire \in Held(w) PROVE reap \in Held(w)
  <2>1. expires > now
    BY <1>7, <1>9, <1>11, <1>12, <1>14 DEF Arms
  <2>2. expires + Retention > now
    BY <1>1, <2>1
  <2> DEFINE d == [timer |-> reap, at |-> expires + Retention + off]
  <2>a. d \in D
    BY <1>11, <2>2
  <2>3. Arms(D, reap)
    BY <2>a DEF Arms
  <2> QED
    BY <1>9, <2>3
<1>15. Held(w) \subseteq timers /\ Held(wheel) \subseteq Held(w)
  <2>1. \A t : Arms(D, t) => Arms(Deliveries(wheel), t) \/ t = retire \/ t = reap
    BY <1>11 DEF Arms
  <2>2. \A t : Arms(Deliveries(wheel), t) => Arms(D, t)
    BY <1>11 DEF Arms
  <2> QED
    BY <1>7, <1>9, <2>1, <2>2, WheelOnTime
<1>16. Owned(row, s, timers)
  <2>1. ASSUME NEW t \in timers, t.key.slot = s
        PROVE  t.key.gen <= row.gen /\ (t.key = key => t.lease <= row.lease /\ t.lease # 0)
    <3>1. CASE t \in Held(wheel)
      <4>1. t.key.gen <= row.gen /\ (t.key = key => t.lease < row.lease /\ t.lease # 0)
        BY <2>1, <3>1 DEF key
      <4>2. t.lease \in Nat
        BY <3>1, IInvParts, Constants DEF Timer
      <4> QED
        BY <1>1, <4>1, <4>2
    <3>2. CASE t \in Stages(key, row.lease)
      <4>1. t.key = key /\ t.lease = row.lease
        BY <1>7, <3>2
      <4>2. key.gen = row.gen /\ row.gen \in Nat
        BY RowFields, Constants DEF key, RowKey
      <4> QED
        BY <1>1, <4>1, <4>2
    <3> QED
      BY <3>1, <3>2
  <2> QED
    BY <2>1 DEF Owned, key
<1>17. ASSUME NEW z \in Slots, z # s
       PROVE  /\ Needed(rows[z], z) \subseteq Held(wheel)
              /\ Timed(rows[z], z, D, off, longest[z]) /\ Owned(rows[z], z, timers)
              /\ rows[z].state = "active" => Own(rows[z], z, "reap") \in Held(w)
  <2>1. RowKey(rows[z], z) # key
    BY <1>2, <1>17 DEF RowKey
  <2>2. \A d : d.timer.key = RowKey(rows[z], z) => (d \in Deliveries(wheel) <=> d \in D)
    BY <1>7, <1>11, <2>1
  <2>3. Timed(rows[z], z, Deliveries(wheel), off, longest[z]) /\ Owned(rows[z], z, Held(wheel))
    BY <1>17, SlotOnTime
  <2>4. Timed(rows[z], z, D, off, longest[z])
    BY <2>2, <2>3, TimedFrame
  <2>5. Owned(rows[z], z, timers)
    BY <1>2, <1>7, <1>17, <2>3 DEF Owned
  <2>6. Needed(rows[z], z) \subseteq Held(wheel)
    BY SlotFacts
  <2>7. rows[z].state = "active" => Own(rows[z], z, "reap") \in Held(wheel)
    BY <1>17, SlotOnTime
  <2> QED
    BY <1>15, <2>4, <2>5, <2>6, <2>7
<1>18. Live(rs, ls)
  <2> SUFFICES ASSUME NEW l \in ls, l.reason = "none", l.number = 1
               PROVE  rs[l.key.slot].gen = l.key.gen /\ rs[l.key.slot].state = "active" /\ rs[l.key.slot].lease = 1
    BY DEF Live
  <2>1. CASE l = new
    BY <1>2, <1>3, <1>4, <2>1 DEF key, RowKey
  <2>2. CASE l \in leases
    <3>1. l.key.slot \in Slots \ {s}
      BY <2>2, IInvParts DEF Lease, KeyId
    <3> QED
      BY <1>4, <2>2, <3>1 DEF DInv, Live
  <2> QED
    BY <2>1, <2>2 DEF ls
<1>19. \A d \in D : d.at \in Nat
  BY <1>8, DeliversLater DEF D
<1>20. Trimmed(D, D)
  BY DEF Trimmed
<1>21. ASSUME NEW z \in Slots
       PROVE  /\ Needed(rs[z], z) \subseteq timers
              /\ Timed(rs[z], z, D, off, longer[z]) /\ Owned(rs[z], z, timers)
              /\ rs[z].state = "active" /\ Own(rs[z], z, "retire") \in Held(w) \ {} => Own(rs[z], z, "reap") \in Held(w) \ {}
  <2>1. CASE z = s
    <3>1. Needed(row, s) \subseteq timers
      BY NeededAre DEF key
    <3> QED
      BY <1>4, <1>5, <1>13, <1>14, <1>16, <2>1, <3>1 DEF retire, reap
  <2>2. CASE z # s
    BY <1>4, <1>5, <1>17, <2>2
  <2> QED
    BY <2>1, <2>2
<1> HIDE DEF timers, off
<1>22. CanTime(rs, ls, w, timers, {}, D, off, longer)
  BY <1>1, <1>2, <1>4, <1>5, <1>6, <1>8, <1>15, <1>18, <1>19, <1>20, <1>21 DEF CanTime, D
<1>23. Settle(rs, ls, w, timers, {}, ReachedBy(RowKey(row, s), row.lease)) /\ Given(longer)
  BY DEF rs, ls, new, w, timers, longer, key
<1>24. \A z \in Slots : rs[z].state # "free" => Reaches(rs[z].expires, clock', MaxUpsets - upsets')
  <2>1. ASSUME NEW z \in Slots, rs[z].state # "free" PROVE Reaches(rs[z].expires, clock, MaxUpsets - upsets)
    <3>1. CASE z = s
      BY <1>4, <3>1
    <3>2. CASE z # s
      BY <1>4, <2>1, <3>2, SlotOnTime
    <3> QED
      BY <3>1, <3>2
  <2> QED
    BY <2>1
<1>25. off = w.ticks - now' /\ clock' <= now' + MaxSkew
  BY <1>8 DEF off, DInv, ClockInv
<1> QED
  BY <1>22, <1>23, <1>24, <1>25, SettledOnTime

LEMMA IssueOnTime == ASSUME IInv, DInv, Issue PROVE DInv'
<1>1. PICK ttl \in Ttls :
        /\ Ready /\ Issuable # {}
        /\ LET s   == CHOOSE t \in Issuable : \A u \in Issuable : t <= u
               key == [slot |-> s, gen |-> rows[s].gen + 1]
               expires == clock + ttl
           IN /\ Settle([rows EXCEPT ![s] = [gen |-> key.gen, state |-> "active",
                                             expires |-> expires, lease |-> 1, tombstone |-> 0]],
                        leases \cup {NewLease(key, 1, expires)},
                        Scheduled(wheel, Placements(key, 1, expires)),
                        Held(wheel) \cup Stages(key, 1), {}, ReachedBy(key, 1))
              /\ Given([longest EXCEPT ![s] = expires])
        /\ UNCHANGED <<now, target, renewing, safe, clock, upsets>>
  BY DEF Issue
<1> DEFINE s   == CHOOSE t \in Issuable : \A u \in Issuable : t <= u
           expires == clock + ttl
           key == [slot |-> s, gen |-> rows[s].gen + 1]
           row == [gen |-> rows[s].gen + 1, state |-> "active", expires |-> expires, lease |-> 1, tombstone |-> 0]
<1>2. s \in Slots /\ rows[s].state = "free" /\ rows[s].gen < MaxGeneration
  <2>1. s \in Issuable
    BY <1>1, IssuedSlot
  <2> HIDE DEF s
  <2> QED
    BY <2>1 DEF Issuable
<1>3. /\ Settle([rows EXCEPT ![s] = row], leases \cup {NewLease(key, 1, expires)},
                Scheduled(wheel, Placements(key, 1, expires)),
                Held(wheel) \cup Stages(key, 1), {}, ReachedBy(key, 1))
      /\ Given([longest EXCEPT ![s] = expires])
  BY <1>1
<1> HIDE DEF s
<1>4. expires \in Nat /\ Reaches(expires, now, 0) /\ Reaches(expires, clock, MaxUpsets - upsets)
  <2>1. /\ clock \in Nat /\ now \in Nat /\ upsets \in Nat /\ clock <= now + MaxSkew
        /\ Retention \in Nat /\ MaxSkew \in Nat /\ MaxUpsets \in Nat
    BY IInvParts, Constants DEF DInv, ClockInv
  <2>2. /\ Span \in Nat /\ ttl \in Nat
        /\ ttl + Retention + MaxSkew <= Span /\ ttl + Retention + MaxUpsets <= Span
    BY WheelReach
  <2> QED
    BY <2>1, <2>2 DEF Reaches
<1> HIDE DEF expires
<1>5. /\ row \in Row /\ row.state = "active" /\ row.lease = 1 /\ row.expires = expires
      /\ row.gen = rows[s].gen + 1 /\ RowKey(row, s) = key
  BY <1>2, <1>4, SlotFacts, RowFields, Constants DEF Row, RowKey
<1> HIDE DEF row
<1>6. ASSUME NEW t \in Held(wheel), t.key.slot = s PROVE t.key.gen <= row.gen /\ t.key # key
  <2>1. t.key.gen <= rows[s].gen
    BY <1>2, <1>6, SlotOnTime DEF Owned
  <2>2. t.key.gen \in Nat /\ rows[s].gen \in Nat
    BY <1>2, IInvParts, SlotFacts, RowFields, Constants DEF Timer, KeyId
  <2>3. key.gen = rows[s].gen + 1
    OBVIOUS
  <2> QED
    BY <1>5, <2>1, <2>2, <2>3
<1>7. \A l \in leases : l.key.slot = s => ~ (l.reason = "none" /\ l.number = 1)
  BY <1>2 DEF DInv, Live
<1>8. renewing' = Idle /\ UNCHANGED <<now, clock, upsets>>
  BY <1>1, IInvParts DEF Ready
<1> HIDE DEF key
<1>9. /\ Settle([rows EXCEPT ![s] = row], leases \cup {NewLease(RowKey(row, s), row.lease, row.expires)},
                Scheduled(wheel, Placements(RowKey(row, s), row.lease, row.expires)),
                Held(wheel) \cup Stages(RowKey(row, s), row.lease), {}, ReachedBy(RowKey(row, s), row.lease))
      /\ Given([longest EXCEPT ![s] = row.expires])
  BY <1>3, <1>5
<1>10. row.lease # 0 /\ Reaches(row.expires, now, 0) /\ Reaches(row.expires, clock, MaxUpsets - upsets)
  BY <1>4, <1>5
<1>11. \A t \in Held(wheel) : t.key.slot = s =>
          t.key.gen <= row.gen /\ (t.key = RowKey(row, s) => t.lease < row.lease /\ t.lease # 0)
  BY <1>5, <1>6
<1> QED
  BY <1>2, <1>5, <1>7, <1>8, <1>9, <1>10, <1>11, WatchOnTime

LEMMA RenewReplacesOnTime == ASSUME IInv, DInv, RenewReplaces PROVE DInv'
<1> DEFINE s   == renewing.slot
           expires == renewing.expires
           number == rows[s].lease + 1
           half == [rows[s] EXCEPT !.expires = expires]
           row == [half EXCEPT !.lease = number]
<1>1. /\ s \in Slots /\ expires \in Nat /\ rows[s].state = "active" /\ number \in 1 .. MaxLeases
      /\ rows \in [Slots -> Row] /\ rows[s] \in Row /\ rows[s].lease \in Nat \ {0}
  <2>1. s \in Slots /\ expires \in Nat /\ rows[s].state = "active" /\ rows[s].lease < MaxLeases
    BY IInvParts DEF RenewReplaces
  <2>2. rows \in [Slots -> Row] /\ rows[s] \in Row /\ rows[s].lease \in Nat \ {0}
    BY <2>1, IInvParts, SlotOnTime
  <2>3. rows[s].lease \in Nat /\ MaxLeases \in Nat
    BY <2>2, RowFields, Constants
  <2> QED
    BY <2>1, <2>2, <2>3
<1>2. /\ Settle([rows EXCEPT ![s].expires = expires, ![s].lease = number],
                leases \cup {NewLease(KeyOf(s), number, expires)},
                Scheduled(wheel, Placements(KeyOf(s), number, expires)),
                Held(wheel) \cup Stages(KeyOf(s), number), {}, ReachedBy(KeyOf(s), number))
      /\ Given([longest EXCEPT ![s] = expires])
      /\ ~ \E l \in LeaseOf(s) : l.reason = "none"
      /\ renewing' = Idle /\ UNCHANGED <<now, target, safe, clock, upsets>>
  BY DEF RenewReplaces
<1>3. Reaches(expires, now, 0) /\ Reaches(expires, clock, MaxUpsets - upsets)
  BY DEF DInv, ClockInv, RenewReplaces
<1> HIDE DEF s, expires, number
<1>4. half \in Row /\ half.gen = rows[s].gen /\ half.state = "active" /\ half.expires = expires
  BY <1>1 DEF Row
<1>5. [rows EXCEPT ![s].expires = expires, ![s].lease = number] = [rows EXCEPT ![s] = row]
  <2> DEFINE once == [rows EXCEPT ![s].expires = expires]
  <2>1. once = [rows EXCEPT ![s] = half]
    OBVIOUS
  <2>2. [rows EXCEPT ![s].expires = expires, ![s].lease = number] = [once EXCEPT ![s].lease = number]
    BY <1>1
  <2>3. once[s] = half /\ once \in [Slots -> Row] /\ \A z \in Slots \ {s} : once[z] = rows[z]
    BY <1>1, <1>4, <2>1
  <2> HIDE DEF once, half
  <2>4. [once EXCEPT ![s].lease = number] = [once EXCEPT ![s] = row]
    BY <2>3
  <2> HIDE DEF row
  <2>5. [once EXCEPT ![s] = row] = [rows EXCEPT ![s] = row]
    BY <1>1, <2>3
  <2> QED
    BY <2>2, <2>4, <2>5
<1> HIDE DEF half
<1>6. /\ row \in Row /\ row.state = "active" /\ row.lease = number /\ number # 0
      /\ row.gen = rows[s].gen /\ row.expires = expires
  BY <1>1, <1>4 DEF Row
<1> HIDE DEF row
<1>7. RowKey(row, s) = KeyOf(s) /\ KeyOf(s) = RowKey(rows[s], s)
  BY <1>6 DEF RowKey, KeyOf
<1>8. ASSUME NEW t \in Held(wheel), t.key.slot = s
      PROVE  t.key.gen <= row.gen /\ (t.key = RowKey(row, s) => t.lease < row.lease /\ t.lease # 0)
  <2>1. /\ t.key.gen <= rows[s].gen
        /\ t.key = RowKey(rows[s], s) => t.lease <= rows[s].lease /\ (t.lease = 0 => rows[s].lease = 0)
    BY <1>1, <1>8, SlotOnTime DEF Owned
  <2>2. t.lease \in Nat
    BY IInvParts, Constants DEF Timer
  <2>3. row.lease = rows[s].lease + 1
    BY <1>6 DEF number
  <2> QED
    BY <1>1, <1>6, <1>7, <2>1, <2>2, <2>3
<1>9. \A l \in leases : l.key.slot = s => ~ (l.reason = "none" /\ l.number = 1)
  <2> SUFFICES ASSUME NEW l \in leases, l.key.slot = s, l.reason = "none", l.number = 1 PROVE FALSE
    OBVIOUS
  <2>1. rows[s].gen = l.key.gen /\ rows[s].lease = 1
    BY DEF DInv, Live
  <2>2. l.key = KeyOf(s)
    BY <2>1, IInvParts DEF Lease, KeyId, KeyOf
  <2>3. l \in LeaseOf(s)
    BY <2>1, <2>2 DEF LeaseOf
  <2> QED
    BY <1>2, <2>3
<1> QED
  BY <1>1, <1>2, <1>3, <1>5, <1>6, <1>7, <1>8, <1>9, WatchOnTime

\* A second route to a deadline, of a timer that has one: the later of both counts.
LEMMA SecondRoute ==
    ASSUME now \in Nat, NEW B, \A b \in B : b.at \in Nat, NEW D, NEW t, NEW off \in Int,
           NEW last \in Nat, NEW deadline \in Nat, NEW top, top = IF deadline > last THEN deadline ELSE last,
           LastAt(B, t, last + off), last > now,
           \A d : d.timer = t => (d \in D <=> d \in B \/ (deadline > now /\ d = [timer |-> t, at |-> deadline + off]))
    PROVE  LastAt(D, t, top + off)
<1> DEFINE old == [timer |-> t, at |-> last + off]
           new == [timer |-> t, at |-> deadline + off]
<1>1. old.timer = t /\ old.at = last + off /\ new.timer = t /\ new.at = deadline + off
  OBVIOUS
<1>2. old \in B /\ \A b \in B : b.timer = t => b.at <= last + off
  BY DEF LastAt
<1> HIDE DEF old, new
<1>3. old \in D /\ (deadline > now => new \in D) /\ \A d \in D : d.timer = t => d \in B \/ d = new
  BY <1>1, <1>2 DEF new
<1>4. \A d \in D : d.timer = t => d.at <= top + off
  <2>1. ASSUME NEW d \in D, d.timer = t PROVE d.at <= top + off
    <3>1. CASE d \in B
      <4>1. d.at \in Nat /\ d.at <= last + off
        BY <1>2, <2>1, <3>1
      <4> QED
        BY <4>1
    <3>2. CASE d = new
      BY <1>1, <3>2
    <3> QED
      BY <1>3, <2>1, <3>1, <3>2
  <2> QED
    BY <2>1
<1>5. CASE deadline > last
  <2>1. deadline > now /\ top = deadline
    BY <1>5
  <2>2. [timer |-> t, at |-> top + off] = new
    BY <2>1 DEF new
  <2> QED
    BY <1>3, <1>4, <2>1, <2>2 DEF LastAt
<1>6. CASE ~(deadline > last)
  <2>1. [timer |-> t, at |-> top + off] = old
    BY <1>6 DEF old
  <2> QED
    BY <1>3, <1>4, <2>1 DEF LastAt
<1> QED
  BY <1>5, <1>6

LEMMA RenewLeaseOnTime == ASSUME IInv, DInv, RenewLease PROVE DInv'
<1> DEFINE s   == renewing.slot
           expires == renewing.expires
           key == KeyOf(s)
           both == Stages(KeyOf(s), rows[s].lease) \subseteq HandlesOf(KeyOf(s))
           rs == [rows EXCEPT ![s].expires = expires]
           ls == {IF l \in LeaseOf(s) THEN [l EXCEPT !.expires = expires] ELSE l : l \in leases}
           w == Scheduled(wheel, Placements(KeyOf(s), rows[s].lease, expires))
           last == longest[s]
           top == IF expires > last THEN expires ELSE last
           longer == [longest EXCEPT ![s] = IF expires > @ THEN expires ELSE @]
           retire == Own(rows[s], s, "retire")
           reap == Own(rows[s], s, "reap")
           off == wheel.ticks - now
           D == Deliveries(w)
<1>1. /\ s \in Slots /\ expires \in Nat /\ rows[s].state = "active" /\ rows[s] \in Row /\ rows \in [Slots -> Row]
      /\ last \in Nat /\ longest \in [Slots -> Nat] /\ top \in Nat
  BY IInvParts DEF RenewLease
<1>2. /\ Settle(rs, ls, IF both THEN w ELSE wheel, Held(wheel), {}, handles) /\ Given(longer)
      /\ renewing' = Idle /\ UNCHANGED <<now, target, safe, clock, upsets>>
  BY DEF RenewLease
<1>3. Reaches(expires, now, 0) /\ Reaches(expires, clock, MaxUpsets - upsets)
  BY DEF DInv, ClockInv, RenewLease
<1>4. /\ expires + Retention <= now + Span
      /\ Retention \in Nat \ {0} /\ Span \in Nat /\ now \in Nat /\ wheel.ticks \in Nat /\ off \in Int
  <2>1. expires + Retention + 0 <= now + Span
    BY <1>3 DEF Reaches
  <2> QED
    BY <1>1, <2>1, WheelReach, WheelOnTime, TimersAssumption DEF TimersAssumption
<1> HIDE DEF s, expires
<1>5. /\ key = RowKey(rows[s], s) /\ key.slot = s /\ Stages(key, rows[s].lease) = {retire, reap} /\ retire # reap
      /\ retire.key = key /\ reap.key = key
      /\ retire = Stage(key, rows[s].lease, "retire") /\ reap = Stage(key, rows[s].lease, "reap")
  BY DEF Stages, Own, Stage, KeyOf, RowKey
<1>6. /\ retire \in Held(wheel) /\ retire \in handles /\ reap \in Held(wheel) /\ reap \in handles
  BY <1>1, SlotOnTime
<1>7. both
  <2> HIDE DEF retire, reap
  <2>1. retire \in HandlesOf(key) /\ reap \in HandlesOf(key)
    BY <1>5, <1>6 DEF HandlesOf
  <2> QED
    BY <1>5, <2>1
<1>8. rs[s] = [rows[s] EXCEPT !.expires = expires] /\ \A z \in Slots \ {s} : rs[z] = rows[z]
  BY <1>1
<1>9. /\ rs[s] \in Row /\ rs[s].state = "active" /\ rs[s].gen = rows[s].gen /\ rs[s].lease = rows[s].lease
      /\ rs[s].expires = expires
  BY <1>1, <1>8 DEF Row
<1>10. rs \in [Slots -> Row]
  BY <1>1, <1>8, <1>9
<1>11. \A k \in ls : \E l \in leases : /\ k \in Lease /\ k.key = l.key /\ k.number = l.number /\ k.reason = l.reason
  <2>1. ASSUME NEW l \in Lease
        PROVE  /\ [l EXCEPT !.expires = expires] \in Lease
               /\ [l EXCEPT !.expires = expires].key = l.key /\ [l EXCEPT !.expires = expires].number = l.number
               /\ [l EXCEPT !.expires = expires].reason = l.reason
    BY <1>1 DEF Lease
  <2>2. \A k \in ls : \E l \in leases : k = l \/ k = [l EXCEPT !.expires = expires]
    OBVIOUS
  <2> HIDE DEF ls
  <2> QED
    BY <2>1, <2>2, IInvParts
<1>12. longer \in [Slots -> Nat] /\ longer[s] = top /\ \A z \in Slots \ {s} : longer[z] = longest[z]
  BY <1>1
<1>13. /\ WheelOK(w) /\ w.ticks = wheel.ticks
       /\ \A d : d \in D <=>
            \/ d \in Deliveries(wheel)
            \/ DelayTo(expires) \in 1 .. Span /\ d = [timer |-> retire, at |-> wheel.ticks + DelayTo(expires)]
            \/ DelayTo(expires + Retention) \in 1 .. Span
                 /\ d = [timer |-> reap, at |-> wheel.ticks + DelayTo(expires + Retention)]
  BY <1>5, WheelOnTime, PlacedDelivers
<1>14. \A t : t \in Held(w) <=> Arms(D, t)
  BY HeldIsDelivered DEF Arms
<1> HIDE DEF key, both, rs, ls, w, longer, retire, reap, D
<1>15. /\ DelayTo(expires) \in 1 .. Span <=> expires > now
       /\ DelayTo(expires + Retention) \in 1 .. Span <=> expires + Retention > now
       /\ expires > now => wheel.ticks + DelayTo(expires) = expires + off
       /\ expires + Retention > now => wheel.ticks + DelayTo(expires + Retention) = expires + Retention + off
  <2> DEFINE due == expires + Retention
  <2>1. due \in Nat /\ due <= now + Span /\ expires <= now + Span
    BY <1>1, <1>4
  <2> HIDE DEF due
  <2>2. /\ DelayTo(due) \in 1 .. Span <=> due > now
        /\ due > now => wheel.ticks + DelayTo(due) = due + off
    BY <1>4, <2>1, DelayIs
  <2>3. /\ DelayTo(expires) \in 1 .. Span <=> expires > now
        /\ expires > now => wheel.ticks + DelayTo(expires) = expires + off
    BY <1>1, <1>4, <2>1, DelayIs
  <2> QED
    BY <2>2, <2>3 DEF due
<1>16. \A d : d \in D <=>
            \/ d \in Deliveries(wheel)
            \/ expires > now /\ d = [timer |-> retire, at |-> expires + off]
            \/ expires + Retention > now /\ d = [timer |-> reap, at |-> expires + Retention + off]
  BY <1>13, <1>15
<1>17. /\ LastAt(Deliveries(wheel), retire, last + off) /\ LastAt(Deliveries(wheel), reap, last + Retention + off)
       /\ last > now
  <2>1. Arms(Deliveries(wheel), retire) /\ Arms(Deliveries(wheel), reap)
    BY <1>6, WheelOnTime
  <2>2. LastAt(Deliveries(wheel), retire, last + off) /\ LastAt(Deliveries(wheel), reap, last + Retention + off)
    BY <1>1, <2>1, SlotOnTime DEF Timed, retire, reap
  <2> DEFINE d == [timer |-> retire, at |-> last + off]
  <2>3. d \in Deliveries(wheel) /\ d.at = last + off
    BY <2>2 DEF LastAt
  <2> HIDE DEF d
  <2>4. wheel.ticks < last + off
    BY <2>3, WheelOnTime
  <2>5. last > now
    BY <1>1, <1>4, <2>4
  <2> QED
    BY <2>2, <2>5
<1>18. Timed(rs[s], s, D, off, top)
  <2>1. LastAt(D, retire, top + off)
    <3>1. \A d : d.timer = retire =>
            (d \in D <=> d \in Deliveries(wheel) \/ (expires > now /\ d = [timer |-> retire, at |-> expires + off]))
      BY <1>5, <1>16
    <3> HIDE DEF last, top, off
    <3> QED
      BY <1>1, <1>4, <1>17, <3>1, SecondRoute, WheelOnTime DEF top
  <2>2. LastAt(D, reap, top + Retention + off)
    <3> DEFINE due == expires + Retention
               was == last + Retention
               be == top + Retention
    <3>1. \A d : d.timer = reap =>
            (d \in D <=> d \in Deliveries(wheel) \/ (due > now /\ d = [timer |-> reap, at |-> due + off]))
      BY <1>5, <1>16
    <3>2. /\ due \in Nat /\ was \in Nat /\ be = (IF due > was THEN due ELSE was)
          /\ LastAt(Deliveries(wheel), reap, was + off) /\ was > now
      BY <1>1, <1>4, <1>17
    <3> HIDE DEF due, was, be, off
    <3>3. LastAt(D, reap, be + off)
      BY <1>4, <3>1, <3>2, SecondRoute, WheelOnTime
    <3> QED
      BY <3>3 DEF be
  <2>3. Own(rs[s], s, "retire") = retire /\ Own(rs[s], s, "reap") = reap
    BY <1>9 DEF Own, RowKey, retire, reap
  <2>4. ~Dead(rs[s]) /\ rs[s].expires <= top
    BY <1>1, <1>9 DEF Dead
  <2> QED
    BY <2>1, <2>2, <2>3, <2>4 DEF Timed
<1>19. Held(w) \subseteq Held(wheel) /\ Held(wheel) \subseteq Held(w)
  <2>1. \A t : Arms(D, t) => Arms(Deliveries(wheel), t) \/ t = retire \/ t = reap
    BY <1>16 DEF Arms
  <2>2. \A t : Arms(Deliveries(wheel), t) => Arms(D, t)
    BY <1>16 DEF Arms
  <2> QED
    BY <1>6, <1>14, <2>1, <2>2, WheelOnTime
<1>20. ASSUME NEW z \in Slots, z # s PROVE Timed(rows[z], z, D, off, longest[z])
  <2>1. RowKey(rows[z], z) # key
    BY <1>5, <1>20 DEF RowKey
  <2>2. \A d : d.timer.key = RowKey(rows[z], z) => (d \in Deliveries(wheel) <=> d \in D)
    BY <1>5, <1>16, <2>1
  <2> QED
    BY <1>20, <2>2, SlotOnTime, TimedFrame
<1>21. Live(rs, ls)
  <2> SUFFICES ASSUME NEW k \in ls, k.reason = "none", k.number = 1
               PROVE  rs[k.key.slot].gen = k.key.gen /\ rs[k.key.slot].state = "active" /\ rs[k.key.slot].lease = 1
    BY DEF Live
  <2>1. PICK l \in leases : k \in Lease /\ k.key = l.key /\ l.number = 1 /\ l.reason = "none"
    BY <1>11
  <2>2. /\ rows[k.key.slot].gen = k.key.gen /\ rows[k.key.slot].state = "active" /\ rows[k.key.slot].lease = 1
    BY <2>1 DEF DInv, Live
  <2>3. k.key.slot \in Slots
    BY <2>1 DEF Lease, KeyId
  <2> QED
    BY <1>8, <1>9, <2>2, <2>3
<1>22. \A d \in D : d.at \in Nat
  BY <1>13, DeliversLater DEF D
<1>23. Trimmed(D, D)
  BY DEF Trimmed
<1>24. ASSUME NEW z \in Slots
       PROVE  /\ Needed(rs[z], z) \subseteq Held(wheel)
              /\ Timed(rs[z], z, D, off, longer[z]) /\ Owned(rs[z], z, Held(wheel))
              /\ rs[z].state = "active" => Own(rs[z], z, "reap") \in Held(w) \ {}
              /\ rs[z].state # "free" => Reaches(rs[z].expires, clock, MaxUpsets - upsets)
  <2>1. CASE z = s
    <3>1. Needed(rs[s], s) = Needed(rows[s], s) /\ RowKey(rs[s], s) = RowKey(rows[s], s)
          /\ Own(rs[s], s, "reap") = Own(rows[s], s, "reap")
      BY <1>1, <1>9 DEF Needed, RowKey, Own
    <3>2. Owned(rs[s], s, Held(wheel))
      BY <1>1, <1>9, <3>1, SlotOnTime DEF Owned
    <3>3. Needed(rs[s], s) \subseteq Held(wheel)
      BY <1>1, <3>1, SlotFacts
    <3>4. Own(rs[s], s, "reap") \in Held(w)
      BY <1>6, <1>19, <3>1 DEF reap
    <3> QED
      BY <1>3, <1>9, <1>12, <1>18, <2>1, <3>2, <3>3, <3>4
  <2>2. CASE z # s
    BY <1>8, <1>12, <1>19, <1>20, <2>2, SlotOnTime, SlotFacts
  <2> QED
    BY <2>1, <2>2
<1>25. ls \subseteq Lease
  BY <1>11
<1> HIDE DEF off
<1>26. CanTime(rs, ls, w, Held(wheel), {}, D, off, longer)
  BY <1>4, <1>10, <1>12, <1>13, <1>19, <1>21, <1>22, <1>23, <1>24, <1>25, IInvParts DEF CanTime, D
<1>27. Settle(rs, ls, w, Held(wheel), {}, handles) /\ Given(longer)
  BY <1>2, <1>7
<1>28. \A z \in Slots : rs[z].state # "free" => Reaches(rs[z].expires, clock', MaxUpsets - upsets')
  BY <1>2, <1>24
<1>29. off = w.ticks - now' /\ clock' <= now' + MaxSkew
  BY <1>2, <1>13 DEF off, DInv, ClockInv
<1> QED
  BY <1>2, <1>26, <1>27, <1>28, <1>29, SettledOnTime

LEMMA RevokeOnTime == ASSUME IInv, DInv, Revoke PROVE DInv'
<1>1. PICK s \in Slots :
        /\ Ready /\ rows[s].state = "active" /\ ~safe
        /\ Settle([rows EXCEPT ![s].state = "revoked", ![s].tombstone = clock],
                  CancelAll(leases, LeaseOf(s), "revoked"), wheel, Held(wheel),
                  {t \in HandlesOf(KeyOf(s)) : t.stage = "retire"}, handles)
        /\ Given(longest)
        /\ UNCHANGED <<now, target, renewing, safe, clock, upsets>>
  BY DEF Revoke
<1> DEFINE half == [rows[s] EXCEPT !.state = "revoked"]
           row == [half EXCEPT !.tombstone = clock]
           rs == [rows EXCEPT ![s] = row]
           ls == CancelAll(leases, LeaseOf(s), "revoked")
           early == {t \in HandlesOf(KeyOf(s)) : t.stage = "retire"}
           reap == Own(rows[s], s, "reap")
           retire == Own(rows[s], s, "retire")
           D == Deliveries(wheel)
           last == longest[s]
           off == wheel.ticks - now
<1>2. /\ rows \in [Slots -> Row] /\ rows[s] \in Row /\ clock \in Nat /\ now \in Nat /\ clock <= now + MaxSkew
      /\ leases \in SUBSET Lease
      /\ wheel.ticks \in Nat /\ last \in Nat /\ Retention \in Nat /\ MaxSkew \in Nat /\ off \in Int
  BY IInvParts, WheelOnTime, Constants DEF DInv, ClockInv
<1>3. half \in Row /\ half.state = "revoked" /\ half.gen = rows[s].gen /\ half.lease = rows[s].lease /\ half.expires = rows[s].expires
  BY <1>2 DEF Row
<1>4. [rows EXCEPT ![s].state = "revoked", ![s].tombstone = clock] = rs
  <2> DEFINE once == [rows EXCEPT ![s].state = "revoked"]
  <2>1. once = [rows EXCEPT ![s] = half]
    OBVIOUS
  <2>2. [rows EXCEPT ![s].state = "revoked", ![s].tombstone = clock] = [once EXCEPT ![s].tombstone = clock]
    BY <1>2
  <2>3. once[s] = half /\ once \in [Slots -> Row] /\ \A z \in Slots \ {s} : once[z] = rows[z]
    BY <1>2, <1>3, <2>1
  <2> HIDE DEF once, half
  <2>4. [once EXCEPT ![s].tombstone = clock] = [once EXCEPT ![s] = row]
    BY <2>3
  <2> HIDE DEF row
  <2>5. [once EXCEPT ![s] = row] = [rows EXCEPT ![s] = row]
    BY <1>2, <2>3
  <2> QED
    BY <2>2, <2>4, <2>5
<1> HIDE DEF half
<1>5. /\ row \in Row /\ row.state = "revoked" /\ row.tombstone = clock /\ row.expires = rows[s].expires
      /\ row.gen = rows[s].gen /\ row.lease = rows[s].lease
  BY <1>2, <1>3 DEF Row
<1> HIDE DEF row
<1>6. rs \in [Slots -> Row] /\ rs[s] = row /\ \A z \in Slots \ {s} : rs[z] = rows[z]
  BY <1>2, <1>5
<1>7. /\ ls \subseteq Lease /\ Live(rows, ls)
      /\ \A k \in ls : k.reason = "none" => k \in leases /\ k \notin LeaseOf(s)
  BY <1>2, CancelledLive, CancelAllKeeps DEF DInv
<1> HIDE DEF rs, ls
\* The wheel has not reached the expiry, and the clock is not far ahead of the wheel.
<1>8. Timed(row, s, D, off, last)
  <2>1. Own(row, s, "reap") = reap
    BY <1>5 DEF Own, RowKey
  <2>2. Arms(D, retire) /\ Arms(D, reap)
    BY <1>1, SlotOnTime, WheelOnTime
  <2>3. LastAt(D, retire, last + off) /\ LastAt(D, reap, last + Retention + off)
    BY <1>1, <2>2, SlotOnTime DEF Timed
  <2> DEFINE a == [timer |-> retire, at |-> last + off]
             b == [timer |-> reap, at |-> last + Retention + off]
  <2>4. a \in D /\ a.at = last + off /\ b \in D /\ b.timer = reap /\ b.at = last + Retention + off
    BY <2>3 DEF LastAt
  <2> HIDE DEF a, b, D, retire, reap, last
  <2>5. wheel.ticks < last + off
    BY <2>4, WheelOnTime DEF D
  <2>6. last > now
    BY <1>2, <2>5
  <2>7. Lead(row) = IF MaxSkew > 0 THEN MaxSkew - 1 ELSE 0
    BY <1>5 DEF Lead
  <2>8. clock <= last + Lead(row) /\ Lead(row) \in Nat
    BY <1>2, <2>6, <2>7
  <2> HIDE DEF off
  <2>9. clock + Retention + off <= last + Retention + off + Lead(row)
    BY <1>2, <2>8
  <2>10. row.tombstone + Retention + off <= b.at + Lead(row)
    BY <1>5, <2>4, <2>9
  <2> QED
    BY <1>5, <2>1, <2>4, <2>10 DEF Timed
<1>9. Live(rs, ls)
  <2> SUFFICES ASSUME NEW k \in ls, k.reason = "none", k.number = 1
               PROVE  rs[k.key.slot].gen = k.key.gen /\ rs[k.key.slot].state = "active" /\ rs[k.key.slot].lease = 1
    BY DEF Live
  <2>1. /\ k \in leases /\ k \notin LeaseOf(s)
        /\ rows[k.key.slot].gen = k.key.gen /\ rows[k.key.slot].state = "active" /\ rows[k.key.slot].lease = 1
    BY <1>7 DEF Live
  <2>2. k.key = [slot |-> k.key.slot, gen |-> k.key.gen] /\ k.key.slot \in Slots
    BY <1>2, <2>1 DEF Lease, KeyId
  <2>3. k.key.slot # s
    BY <2>1, <2>2 DEF LeaseOf, KeyOf
  <2> QED
    BY <1>6, <2>1, <2>2, <2>3
<1>10. \A t \in early : t.key = KeyOf(s)
  BY DEF HandlesOf
<1>11. ASSUME NEW z \in Slots
       PROVE  /\ Needed(rs[z], z) \subseteq Held(wheel)
              /\ Timed(rs[z], z, D, off, longest[z]) /\ Owned(rs[z], z, Held(wheel))
              /\ rs[z].state = "active" => Own(rs[z], z, "reap") \in Held(wheel) \ early
              /\ rs[z].state # "free" => Reaches(rs[z].expires, clock, MaxUpsets - upsets)
  <2>1. CASE z = s
    <3>1. RowKey(row, s) = RowKey(rows[s], s)
      BY <1>5 DEF RowKey
    <3>2. Needed(row, s) \subseteq Needed(rows[s], s)
      BY <1>1, <1>5, <3>1 DEF Needed, Dead, Stages
    <3>3. Owned(row, s, Held(wheel))
      BY <1>1, <1>5, <3>1, SlotOnTime DEF Owned
    <3>4. Needed(row, s) \subseteq Held(wheel) /\ Reaches(row.expires, clock, MaxUpsets - upsets)
      BY <1>1, <1>5, <3>2, SlotFacts, SlotOnTime
    <3> QED
      BY <1>5, <1>6, <1>8, <2>1, <3>3, <3>4
  <2>2. CASE z # s
    <3>1. rows[z].state = "active" => Own(rows[z], z, "reap") \in Held(wheel)
      BY SlotOnTime
    <3>2. Own(rows[z], z, "reap").key.slot = z /\ KeyOf(s).slot = s
      BY DEF Own, Stage, RowKey, KeyOf
    <3>3. Own(rows[z], z, "reap") \notin early
      BY <1>10, <2>2, <3>2
    <3> HIDE DEF early
    <3> QED
      BY <1>6, <2>2, <3>1, <3>3, SlotOnTime, SlotFacts
  <2> QED
    BY <2>1, <2>2
<1>12. Trimmed(D, D)
  BY DEF Trimmed
<1>13. \A d \in D : d.at \in Nat
  BY WheelOnTime
<1> HIDE DEF off, early
<1>14. CanTime(rs, ls, wheel, Held(wheel), early, D, off, longest)
  BY <1>2, <1>6, <1>7, <1>9, <1>11, <1>12, <1>13, IInvParts, WheelOnTime DEF CanTime, D
<1>15. Settle(rs, ls, wheel, Held(wheel), early, handles)
  BY <1>1, <1>4 DEF ls, early
<1>16. \A z \in Slots : rs[z].state # "free" => Reaches(rs[z].expires, clock', MaxUpsets - upsets')
  BY <1>1, <1>11
<1>17. off = wheel.ticks - now' /\ clock' <= now' + MaxSkew /\ renewing' = Idle
  BY <1>1, <1>2 DEF off, Ready
<1> QED
  BY <1>1, <1>14, <1>15, <1>16, <1>17, SettledOnTime

LEMMA CollectOnTime == ASSUME IInv, DInv, Collect PROVE DInv'
<1> DEFINE due == {KeyOf(s) : s \in {t \in Slots : Collectable(rows[t])}}
           early == {t \in handles : t.key \in due}
           reachable == {t \in handles : t.key \notin due}
           D == Deliveries(wheel)
           off == wheel.ticks - now
<1>1. /\ Settle(rows, leases, wheel, Held(wheel), early, reachable)
      /\ Given(longest) /\ Ready /\ UNCHANGED <<now, target, renewing, safe, clock, upsets>>
  BY DEF Collect
<1> HIDE DEF due, reachable
<1>2. ASSUME NEW z \in Slots
      PROVE  /\ Needed(rows[z], z) \subseteq Held(wheel)
             /\ Timed(rows[z], z, D, off, longest[z]) /\ Owned(rows[z], z, Held(wheel))
             /\ rows[z].state = "active" /\ Own(rows[z], z, "retire") \in Held(wheel) \ early =>
                  Own(rows[z], z, "reap") \in Held(wheel) \ early
             /\ rows[z].state # "free" => Reaches(rows[z].expires, clock, MaxUpsets - upsets)
  <2>1. Own(rows[z], z, "retire").key = Own(rows[z], z, "reap").key
    BY DEF Own, Stage
  <2>2. ASSUME rows[z].state = "active", Own(rows[z], z, "retire") \in Held(wheel) \ early
        PROVE  Own(rows[z], z, "reap") \in Held(wheel) \ early
    BY <2>1, <2>2, SlotOnTime
  <2> QED
    BY <2>2, SlotOnTime, SlotFacts
<1>3. Trimmed(D, D)
  BY DEF Trimmed
<1> HIDE DEF off, early
<1>4. CanTime(rows, leases, wheel, Held(wheel), early, D, off, longest)
  BY <1>2, <1>3, IInvParts, WheelOnTime DEF CanTime, off, DInv
<1>5. off = wheel.ticks - now' /\ clock' <= now' + MaxSkew /\ renewing' = Idle
  BY <1>1 DEF off, Ready, DInv, ClockInv
<1>6. \A z \in Slots : rows[z].state # "free" => Reaches(rows[z].expires, clock', MaxUpsets - upsets')
  BY <1>1, <1>2
<1> QED
  BY <1>1, <1>4, <1>5, <1>6, SettledOnTime

\* The wheel turns: a timer whose deliveries are all past has run, the latest of them now.
LEMMA TurnIsOnTime ==
    ASSUME IInv, DInv
    PROVE  /\ WheelOK(Ticked(wheel)) /\ Ticked(wheel).ticks = wheel.ticks + 1
           /\ Trimmed(Deliveries(wheel), Deliveries(Ticked(wheel)))
           /\ Held(Ticked(wheel)) \subseteq Held(wheel)
           /\ \A t : t \in Held(Ticked(wheel)) <=> \E d \in Deliveries(wheel) : d.timer = t /\ d.at # wheel.ticks + 1
<1> DEFINE v == Ticked(wheel)
           B == Deliveries(wheel)
           D == Deliveries(v)
<1>1. /\ WheelOK(v) /\ v.ticks = wheel.ticks + 1
      /\ \A d : d \in D <=> d \in B /\ d.at # wheel.ticks + 1
  BY WheelOnTime, TickedDelivers
<1>2. \A d \in D : d.at \in Nat /\ wheel.ticks + 1 < d.at
  <2> HIDE DEF v
  <2> QED
    BY <1>1, DeliversLater
<1>3. \A t : t \in Held(v) <=> \E d \in D : d.timer = t
  BY HeldIsDelivered
<1>4. \A t : t \in Held(wheel) <=> \E d \in B : d.timer = t
  BY HeldIsDelivered
<1> HIDE DEF v, B, D
<1>5. Trimmed(B, D)
  BY <1>1, <1>2 DEF Trimmed
<1>6. Held(v) \subseteq Held(wheel)
  BY <1>1, <1>3, <1>4
<1>7. \A t : t \in Held(v) <=> \E d \in B : d.timer = t /\ d.at # wheel.ticks + 1
  BY <1>1, <1>3
<1> QED
  BY <1>1, <1>5, <1>6, <1>7 DEF v, B, D

LEMMA WheelTickOnTime == ASSUME IInv, DInv, WheelTick PROVE DInv'
<1> DEFINE w == Ticked(wheel)
           B == Deliveries(wheel)
           off == wheel.ticks - now
<1>1. /\ Settle(rows, leases, w, Held(wheel), {}, handles)
      /\ Given(longest) /\ now < target /\ now' = now + 1 /\ UNCHANGED <<target, renewing, safe, clock, upsets>>
  BY DEF WheelTick
<1>2. /\ WheelOK(w) /\ w.ticks = wheel.ticks + 1 /\ Trimmed(B, Deliveries(w))
      /\ Held(w) \subseteq Held(wheel)
      /\ \A t : t \in Held(w) <=> \E d \in B : d.timer = t /\ d.at # wheel.ticks + 1
  BY TurnIsOnTime
<1>3. now \in Nat /\ wheel.ticks \in Nat /\ off \in Int /\ Retention \in Nat \ {0} /\ clock \in Nat /\ MaxSkew \in Nat
      /\ \A d \in B : d.at \in Nat /\ wheel.ticks < d.at
  BY IInvParts, WheelOnTime, TimersAssumption DEF TimersAssumption
<1> HIDE DEF w
<1>4. ASSUME NEW z \in Slots
      PROVE  /\ Needed(rows[z], z) \subseteq Held(wheel)
             /\ Timed(rows[z], z, B, off, longest[z]) /\ Owned(rows[z], z, Held(wheel))
             /\ rows[z].state = "active" => Own(rows[z], z, "reap") \in Held(w) \ {}
             /\ rows[z].state # "free" => Reaches(rows[z].expires, clock, MaxUpsets - upsets)
  <2>1. ASSUME rows[z].state = "active" PROVE Own(rows[z], z, "reap") \in Held(w)
    <3> DEFINE retire == Own(rows[z], z, "retire")
               reap == Own(rows[z], z, "reap")
               last == longest[z]
               a == [timer |-> retire, at |-> last + off]
               b == [timer |-> reap, at |-> last + Retention + off]
    <3>1. Arms(B, retire) /\ Arms(B, reap)
      BY <2>1, SlotOnTime, WheelOnTime
    <3>2. LastAt(B, retire, last + off) /\ LastAt(B, reap, last + Retention + off) /\ last \in Nat
      BY <2>1, <3>1, SlotOnTime DEF Timed
    <3>3. a \in B /\ a.at = last + off /\ b \in B /\ b.timer = reap /\ b.at = last + Retention + off
      BY <3>2 DEF LastAt
    <3> HIDE DEF a, b, B, off, last, retire, reap
    <3>4. last + off > wheel.ticks
      BY <1>3, <3>3
    <3>5. b.at # wheel.ticks + 1
      BY <1>3, <3>2, <3>3, <3>4
    <3> QED
      BY <1>2, <3>3, <3>5 DEF reap
  <2> QED
    BY <2>1, SlotOnTime, SlotFacts
<1>5. off = w.ticks - now' /\ clock' <= now' + MaxSkew /\ renewing' = Idle
  <2>1. clock <= now + MaxSkew
    BY DEF DInv, ClockInv
  <2>2. renewing' = Idle
    BY <1>1, <1>3, IInvParts
  <2> QED
    BY <1>1, <1>2, <1>3, <2>1, <2>2
<1> HIDE DEF off
<1>6. CanTime(rows, leases, w, Held(wheel), {}, B, off, longest)
  BY <1>2, <1>3, <1>4, IInvParts DEF CanTime, DInv
<1>7. \A z \in Slots : rows[z].state # "free" => Reaches(rows[z].expires, clock', MaxUpsets - upsets')
  BY <1>1, <1>4
<1> QED
  BY <1>1, <1>5, <1>6, <1>7, SettledOnTime

-----------------------------------------------------------------------------
(* Steps that begin a new schedule                                           *)

\* Rows that are to be ended owe nothing to the wheel.
LEMMA UnarmedTimes ==
    ASSUME NEW row, NEW s, NEW D, NEW off, NEW last, Timed(row, s, D, off, last), NEW off2
    PROVE  Timed(row, s, {}, off2, last)
BY DEF Timed, Arms

LEMMA DropsOnTime ==
    ASSUME IInv, DInv, NEW ls, ls \subseteq Lease, Live(rows, ls), Settle(rows, ls, NewWheel, Held(wheel), {}, {}),
           Given(longest), now' \in Nat, clock' = now', renewing' = Idle,
           \A s \in Slots : rows'[s].state = "free"
    PROVE  DInv'
<1> DEFINE off == 0 - now'
<1>1. WheelOK(NewWheel) /\ Deliveries(NewWheel) = {} /\ NewWheel.ticks = 0 /\ Held(NewWheel) = {}
  BY NewDelivers, NewHoldsNothing
<1>2. Trimmed({}, Deliveries(NewWheel))
  BY <1>1 DEF Trimmed
<1>3. ASSUME NEW s \in Slots
      PROVE  /\ Needed(rows[s], s) \subseteq Held(wheel) /\ Owned(rows[s], s, Held(wheel))
             /\ Timed(rows[s], s, {}, off, longest[s])
  BY SlotOnTime, SlotFacts, UnarmedTimes
<1>4. off \in Int
  OBVIOUS
<1> HIDE DEF off
<1>5. CanTime(rows, ls, NewWheel, Held(wheel), {}, {}, off, longest)
  BY <1>1, <1>2, <1>3, <1>4, IInvParts DEF CanTime
<1>6. /\ WheelOK(wheel') /\ wheel'.ticks = 0
      /\ \A s \in Slots : /\ Timed(rows'[s], s, Deliveries(wheel'), off, longest'[s])
                          /\ Owned(rows'[s], s, Held(wheel'))
      /\ Live(rows', leases')
  BY <1>1, <1>5, SettleTimes
<1>7. TimedInv' /\ OwnedInv'
  BY <1>6 DEF TimedInv, OwnedInv, off
<1>8. ClockInv'
  BY Constants DEF ClockInv
<1> QED
  BY <1>6, <1>7, <1>8 DEF DInv

LEMMA WipeOnTime == ASSUME IInv, DInv, Wipe PROVE DInv'
<1> DEFINE which == UNION {LeaseOf(s) : s \in Slots}
           ls == CancelAll(leases, which, "rotated")
<1>1. /\ Settle(rows, ls, NewWheel, Held(wheel), {}, {})
      /\ Given(longest) /\ now' = clock /\ target' = clock /\ safe' = FALSE
      /\ Ready /\ UNCHANGED <<renewing, clock, upsets>>
  BY DEF Wipe
<1> HIDE DEF which
<1>2. /\ ls \subseteq Lease /\ Live(rows, ls)
      /\ \A s \in Slots : Told(rows[s], s, ls, clock, upsets, TRUE)
  <2>1. leases \in SUBSET Lease /\ Live(rows, leases)
    BY IInvParts DEF DInv
  <2>2. Live(rows, ls)
    BY <2>1, CancelledLive
  <2>3. ls \subseteq Lease
    BY <2>1, CancelAllKeeps
  <2>4. \A s \in Slots : Told(rows[s], s, ls, clock, upsets, TRUE)
    BY RotatedIsTold
  <2> QED
    BY <2>2, <2>3, <2>4
<1> HIDE DEF ls
<1>3. now' \in Nat /\ clock' \in 0 .. MaxTime /\ target' \in Nat /\ safe' \in BOOLEAN
      /\ renewing' = Idle /\ upsets' = upsets /\ clock' = now'
  BY <1>1, IInvParts DEF Ready
<1>4. \A s \in Slots : rows'[s].state = "free"
  BY <1>1, <1>2, <1>3, DropsKeep
<1> QED
  BY <1>1, <1>2, <1>3, <1>4, DropsOnTime

LEMMA JumpOnTime == ASSUME IInv, DInv, Jump PROVE DInv'
<1>1. /\ Settle(rows, leases, NewWheel, Held(wheel), {}, {})
      /\ Given(longest) /\ now' = 0 /\ target' = 0 /\ clock' = 0
      /\ Ready /\ UNCHANGED <<renewing, safe, upsets>>
  BY DEF Jump
<1>2. now' \in Nat /\ clock' \in 0 .. MaxTime /\ target' \in Nat /\ safe' \in BOOLEAN
      /\ renewing' = Idle /\ upsets' = upsets /\ clock' = now'
  BY <1>1, IInvParts, Constants DEF Ready
<1>3. /\ leases \subseteq Lease /\ Live(rows, leases)
      /\ \A s \in Slots : Told(rows[s], s, leases, clock, upsets, TRUE)
  BY IInvParts, RotatedIsTold DEF DInv
<1>4. \A s \in Slots : rows'[s].state = "free"
  BY <1>1, <1>2, <1>3, DropsKeep
<1> QED
  BY <1>1, <1>2, <1>3, <1>4, DropsOnTime

\* A start asks for each timer once.
LEMMA AskedOnce ==
    ASSUME NEW rs, NEW s \in Slots, NEW r \in RestoredRequests(rs)
    PROVE  /\ r.timer = Stage(KeyOf(s), 1, "retire") => rs[s].state = "active" /\ r.delay = OwingFrom(rs[s].expires)
           /\ r.timer = Stage(KeyOf(s), 1, "reap") =>
                rs[s].state = "active" /\ r.delay = OwingFrom(rs[s].expires + Retention)
           /\ r.timer = Stage(KeyOf(s), 0, "reap") =>
                Dead(rs[s]) /\ r.delay = OwingFrom(rs[s].tombstone + Retention)
<1>1. \A z, n, m, stage, other : Stage(KeyOf(z), n, stage) = Stage(KeyOf(s), m, other) => z = s /\ n = m /\ stage = other
  BY DEF Stage, KeyOf
<1>2. \/ \E z \in Slots : /\ rs[z].state = "active" /\ r.timer = Stage(KeyOf(z), 1, "retire")
                          /\ r.delay = OwingFrom(rs[z].expires)
      \/ \E z \in Slots : /\ rs[z].state = "active" /\ r.timer = Stage(KeyOf(z), 1, "reap")
                          /\ r.delay = OwingFrom(rs[z].expires + Retention)
      \/ \E z \in Slots : /\ Dead(rs[z]) /\ r.timer = Stage(KeyOf(z), 0, "reap")
                          /\ r.delay = OwingFrom(rs[z].tombstone + Retention)
  BY RestoredAre
<1> QED
  BY <1>1, <1>2

\* What is owed, by the second of the start.
LEMMA OwedIs ==
    ASSUME clock \in Nat, NEW deadline \in Nat
    PROVE  /\ OwingFrom(deadline) \in 1 .. Span <=> deadline > clock /\ deadline <= clock + Span
           /\ deadline > clock => OwingFrom(deadline) = deadline + (0 - clock)
BY WheelReach DEF OwingFrom

\* The new wheel delivers what was asked for, on time.
LEMMA RestoredDeliver ==
    ASSUME IInv, NEW rs \in [Slots -> Row], NEW D, D = Deliveries(Scheduled(NewWheel, RestoredRequests(rs)))
    PROVE  /\ \A d \in D : \E r \in RestoredRequests(rs) : r.delay \in 1 .. Span /\ d.timer = r.timer /\ d.at = r.delay
           /\ \A r \in RestoredRequests(rs) : r.delay \in 1 .. Span => [timer |-> r.timer, at |-> r.delay] \in D
<1>1. \A d : d \in D <=>
         \/ d \in Deliveries(NewWheel)
         \/ \E r \in RestoredRequests(rs) : r.delay \in 1 .. Span /\ d = [timer |-> r.timer, at |-> NewWheel.ticks + r.delay]
  BY NewDelivers, ScheduledDelivers
<1>2. Deliveries(NewWheel) = {} /\ NewWheel.ticks = 0
  BY NewDelivers
<1>3. \A r : r.delay \in 1 .. Span => 0 + r.delay = r.delay
  BY WheelReach
<1>4. \A d : d \in D <=> \E r \in RestoredRequests(rs) : r.delay \in 1 .. Span /\ d = [timer |-> r.timer, at |-> r.delay]
  BY <1>1, <1>2, <1>3
<1> QED
  BY <1>4

\* A timer asked for once, with this delay, runs then or was not placed.
LEMMA AskedLast ==
    ASSUME IInv, NEW rs \in [Slots -> Row], NEW D, D = Deliveries(Scheduled(NewWheel, RestoredRequests(rs))),
           NEW t, NEW deadline \in Nat, \A r \in RestoredRequests(rs) : r.timer = t => r.delay = OwingFrom(deadline),
           Arms(D, t)
    PROVE  LastAt(D, t, deadline + (0 - clock)) /\ deadline > clock
<1>1. /\ \A d \in D : \E r \in RestoredRequests(rs) : r.delay \in 1 .. Span /\ d.timer = r.timer /\ d.at = r.delay
      /\ \A r \in RestoredRequests(rs) : r.delay \in 1 .. Span => [timer |-> r.timer, at |-> r.delay] \in D
  BY RestoredDeliver
<1>2. PICK d \in D : d.timer = t
  BY DEF Arms
<1>3. PICK r \in RestoredRequests(rs) : r.delay \in 1 .. Span /\ r.timer = t
  BY <1>1, <1>2
<1>4. clock \in Nat
  BY IInvParts
<1>5. r.delay = OwingFrom(deadline)
  BY <1>3
<1>6. deadline > clock /\ OwingFrom(deadline) = deadline + (0 - clock)
  BY <1>3, <1>4, <1>5, OwedIs
<1> DEFINE at == deadline + (0 - clock)
<1>7. r.delay = at
  BY <1>5, <1>6
<1>8. at \in Int
  BY <1>4
<1> HIDE DEF at
<1>9. [timer |-> t, at |-> at] \in D
  BY <1>1, <1>3, <1>7
<1>10. \A e \in D : e.timer = t => e.at = at
  BY <1>1, <1>5, <1>7
<1> QED
  BY <1>6, <1>8, <1>9, <1>10 DEF LastAt, at

\* A slot of the table a start loads, by the wheel it builds.
LEMMA RestoredSlot ==
    ASSUME IInv, DInv, NEW rs \in [Slots -> Row], \A z \in Slots : Restored(rs[z], rows[z]), NEW s \in Slots,
           NEW D, D = Deliveries(Scheduled(NewWheel, RestoredRequests(rs)))
    PROVE  /\ Timed(rs[s], s, D, 0 - clock, rs[s].expires) /\ Owned(rs[s], s, RestoredTimers(rs))
           /\ rs[s].state = "active" /\ Arms(D, Own(rs[s], s, "retire")) => Arms(D, Own(rs[s], s, "reap"))
           /\ rs[s].state # "free" => Reaches(rs[s].expires, clock, MaxUpsets - upsets)
<1> DEFINE row == rs[s]
           ends == row.expires
           retire == Own(row, s, "retire")
           reap == Own(row, s, "reap")
<1>1. /\ Restored(row, rows[s]) /\ row \in Row /\ ends \in Nat /\ row.tombstone \in Nat /\ Retention \in Nat
      /\ clock \in Nat /\ upsets \in Nat /\ MaxUpsets \in Nat /\ upsets <= MaxUpsets /\ Span \in Nat
  BY IInvParts, Constants, RowFields, WheelReach
<1>2. RowKey(row, s) = KeyOf(s)
  BY <1>1 DEF Restored, RowKey, KeyOf
<1>3. row.state # "free" => Reaches(ends, clock, MaxUpsets - upsets)
  BY <1>1, SlotOnTime DEF Restored
<1>4. \A t \in RestoredTimers(rs) : t.key.slot = s => t.key = KeyOf(s) /\ t.lease = IF row.state = "active" THEN 1 ELSE 0
  <2>1. \A z, n, stage : Stage(KeyOf(z), n, stage).key = KeyOf(z) /\ Stage(KeyOf(z), n, stage).lease = n
    BY DEF Stage
  <2>2. \A z \in Slots : KeyOf(z).slot = z
    BY DEF KeyOf
  <2>3. \A t \in RestoredTimers(rs) :
                \/ \E z \in Slots : rs[z].state = "active" /\ t.key = KeyOf(z) /\ t.lease = 1
                \/ \E z \in Slots : Dead(rs[z]) /\ t.key = KeyOf(z) /\ t.lease = 0
    BY <2>1, RestoredAre DEF Stages
  <2> QED
    BY <2>2, <2>3 DEF Dead
<1>5. Owned(row, s, RestoredTimers(rs))
  <2>1. KeyOf(s).gen = row.gen /\ row.gen \in Nat
    BY <1>1, Constants DEF Restored, KeyOf, Row
  <2>2. (row.state = "active" => row.lease = 1) /\ (row.state # "active" => row.lease = 0)
    BY <1>1 DEF Restored
  <2>3. row.lease = IF row.state = "active" THEN 1 ELSE 0
    BY <2>2
  <2> HIDE DEF row
  <2> QED
    BY <1>4, <2>1, <2>3 DEF Owned
<1>6. CASE row.state = "active"
  <2>1. retire = Stage(KeyOf(s), 1, "retire") /\ reap = Stage(KeyOf(s), 1, "reap")
    BY <1>1, <1>2, <1>6 DEF Restored, Own
  <2> DEFINE later == ends + Retention
  <2>2. later \in Nat
    BY <1>1
  <2>3. \A r \in RestoredRequests(rs) : /\ r.timer = retire => r.delay = OwingFrom(ends)
                                        /\ r.timer = reap => r.delay = OwingFrom(later)
    BY <2>1, AskedOnce
  <2>4. \E r \in RestoredRequests(rs) : r.timer = reap /\ r.delay = OwingFrom(later)
    <3> DEFINE r == [timer |-> Stage(KeyOf(s), 1, "reap"), delay |-> OwingFrom(rs[s].expires + Retention)]
    <3>1. r \in RestoredRequests(rs)
      BY <1>6, RestoredAre
    <3>2. r.timer = reap /\ r.delay = OwingFrom(later)
      BY <2>1
    <3> HIDE DEF r
    <3> QED
      BY <3>1, <3>2
  <2> HIDE DEF row, ends, retire, reap, later
  <2>5. Arms(D, retire) => LastAt(D, retire, ends + (0 - clock)) /\ ends > clock
    BY <1>1, <2>3, AskedLast
  <2>6. Arms(D, reap) => LastAt(D, reap, later + (0 - clock))
    BY <2>2, <2>3, AskedLast
  <2>7. ASSUME Arms(D, retire) PROVE Arms(D, reap)
    <3>1. ends + Retention + (MaxUpsets - upsets) <= clock + Span /\ ends > clock
      BY <1>3, <1>6, <2>5, <2>7 DEF Reaches
    <3>2. later > clock /\ later <= clock + Span
      BY <1>1, <3>1 DEF later
    <3>3. OwingFrom(later) \in 1 .. Span
      BY <1>1, <2>2, <3>2, OwedIs
    <3>4. PICK r \in RestoredRequests(rs) : r.timer = reap /\ r.delay = OwingFrom(later)
      BY <2>4
    <3>5. [timer |-> r.timer, at |-> r.delay] \in D
      BY <3>3, <3>4, RestoredDeliver
    <3> QED
      BY <3>4, <3>5 DEF Arms
  <2>8. Timed(row, s, D, 0 - clock, ends)
    <3>1. ends <= ends /\ ~Dead(row)
      BY <1>1, <1>6 DEF Dead
    <3>2. row.expires = ends /\ Own(row, s, "retire") = retire /\ Own(row, s, "reap") = reap
      BY DEF ends, retire, reap
    <3>3. ends + Retention + (0 - clock) = later + (0 - clock)
      BY DEF later
    <3> QED
      BY <2>5, <2>6, <3>1, <3>2, <3>3 DEF Timed
  <2> QED
    BY <1>3, <1>5, <2>7, <2>8 DEF row, ends, retire, reap
<1>7. CASE Dead(row)
  <2>1. row.lease = 0 /\ reap = Stage(KeyOf(s), 0, "reap") /\ row.state # "active"
    BY <1>1, <1>2, <1>7 DEF Restored, Own, Dead
  <2> DEFINE later == row.tombstone + Retention
  <2>2. later \in Nat
    BY <1>1
  <2>3. \A r \in RestoredRequests(rs) : r.timer = reap => r.delay = OwingFrom(later)
    BY <2>1, AskedOnce
  <2> HIDE DEF ends, retire, reap, later
  <2>4. ASSUME Arms(D, reap) PROVE LastAt(D, reap, later + (0 - clock))
    BY <2>2, <2>3, <2>4, AskedLast
  <2>5. ASSUME Arms(D, reap)
        PROVE  \E d \in D : d.timer = reap /\ row.tombstone + Retention + (0 - clock) <= d.at + Lead(row)
    <3> DEFINE d == [timer |-> reap, at |-> later + (0 - clock)]
    <3>1. d \in D /\ d.timer = reap /\ d.at = later + (0 - clock)
      BY <2>4, <2>5 DEF LastAt
    <3>2. Lead(row) \in Nat
      BY Constants DEF Lead
    <3> HIDE DEF d, row
    <3>3. row.tombstone + Retention + (0 - clock) <= d.at + Lead(row)
      BY <1>1, <2>2, <3>1, <3>2 DEF later
    <3> QED
      BY <3>1, <3>3
  <2>6. Timed(row, s, D, 0 - clock, ends)
    BY <2>1, <2>5 DEF Timed, reap
  <2> QED
    BY <1>3, <1>5, <2>1, <2>6 DEF ends
<1>8. CASE row.state # "active" /\ ~Dead(row)
  <2>1. Timed(row, s, D, 0 - clock, ends)
    BY <1>8 DEF Timed
  <2> QED
    BY <1>3, <1>5, <1>8, <2>1
<1> QED
  BY <1>6, <1>7, <1>8

LEMMA RestartOnTime == ASSUME IInv, DInv, Restart PROVE DInv'
<1>1. PICK rs \in [Slots -> Row] :
        /\ \A s \in Slots : Restored(rs[s], rows[s])
        /\ Settle(rs, RestoredLeases(rs), Scheduled(NewWheel, RestoredRequests(rs)),
                  RestoredTimers(rs), {}, RestoredTimers(rs))
        /\ Given([s \in Slots |-> rs[s].expires])
        /\ Ready /\ upsets < MaxUpsets /\ now' = clock /\ target' = clock /\ upsets' = upsets + 1
        /\ UNCHANGED <<renewing, safe, clock>>
  BY RestartIs
<1> DEFINE ls == RestoredLeases(rs)
           timers == RestoredTimers(rs)
           w == Scheduled(NewWheel, RestoredRequests(rs))
           D == Deliveries(w)
           off == 0 - clock
           longer == [s \in Slots |-> rs[s].expires]
<1>2. /\ ls \subseteq Lease /\ timers \subseteq Timer
      /\ \A s \in Slots : Needed(rs[s], s) \subseteq timers
  BY <1>1, RestoredSettles DEF CanSettle
<1>3. WheelOK(w) /\ w.ticks = 0
  BY NewDelivers, ScheduledDelivers
<1>4. \A d \in D : d.at \in Nat
  <2> HIDE DEF w
  <2> QED
    BY <1>3, DeliversLater
<1>5. \A t : t \in Held(w) <=> Arms(D, t)
  BY HeldIsDelivered DEF Arms
<1>6. Held(w) \subseteq timers
  <2>1. \A d \in D : \E r \in RestoredRequests(rs) : d.timer = r.timer
    BY RestoredDeliver
  <2>2. \A r \in RestoredRequests(rs) : r.timer \in timers
    BY RestoredAre DEF Stages
  <2> HIDE DEF D, timers, w
  <2> QED
    BY <1>5, <2>1, <2>2 DEF Arms
<1>7. Live(rs, ls)
  <2> SUFFICES ASSUME NEW k \in ls, k.reason = "none", k.number = 1
               PROVE  rs[k.key.slot].gen = k.key.gen /\ rs[k.key.slot].state = "active" /\ rs[k.key.slot].lease = 1
    BY DEF Live
  <2>1. PICK s \in Slots : rs[s].state = "active" /\ k = NewLease(KeyOf(s), 1, rs[s].expires)
    BY RestoredAre
  <2>2. k.key.slot = s /\ k.key.gen = rows[s].gen
    BY <2>1 DEF NewLease, KeyOf
  <2> QED
    BY <1>1, <2>1, <2>2 DEF Restored
<1>8. ASSUME NEW s \in Slots
      PROVE  /\ Timed(rs[s], s, D, off, longer[s]) /\ Owned(rs[s], s, timers)
             /\ rs[s].state = "active" /\ Arms(D, Own(rs[s], s, "retire")) => Arms(D, Own(rs[s], s, "reap"))
             /\ rs[s].state # "free" => Reaches(rs[s].expires, clock, MaxUpsets - upsets)
  BY <1>1, RestoredSlot
<1>9. off \in Int /\ longer \in [Slots -> Nat] /\ clock \in Nat /\ upsets \in Nat /\ MaxUpsets \in Nat
      /\ MaxSkew \in Nat /\ Span \in Nat /\ Retention \in Nat
  BY IInvParts, RowFields, Constants, WheelReach
<1>10. Trimmed(D, D)
  BY DEF Trimmed
<1> HIDE DEF ls, timers, w, off, longer
<1>11. CanTime(rs, ls, w, timers, {}, D, off, longer)
  BY <1>1, <1>2, <1>3, <1>4, <1>5, <1>6, <1>7, <1>8, <1>9, <1>10 DEF CanTime, D
<1>12. off = w.ticks - now' /\ clock' <= now' + MaxSkew /\ renewing' = Idle
  BY <1>1, <1>3, <1>9 DEF off, Ready
<1>13. ASSUME NEW s \in Slots, rs[s].state # "free" PROVE Reaches(rs[s].expires, clock', MaxUpsets - upsets')
  <2>1. rs[s].expires + Retention + (MaxUpsets - upsets) <= clock + Span /\ rs[s].expires \in Nat
    BY <1>8, <1>13, RowFields DEF Reaches
  <2>2. rs[s].expires + Retention + (MaxUpsets - (upsets + 1)) <= clock + Span
    BY <1>9, <2>1
  <2>3. upsets' = upsets + 1 /\ clock' = clock
    BY <1>1
  <2> QED
    BY <2>2, <2>3 DEF Reaches
<1>14. Settle(rs, ls, w, timers, {}, timers) /\ Given(longer)
  BY <1>1 DEF ls, w, timers, longer
<1> QED
  BY <1>11, <1>12, <1>13, <1>14, SettledOnTime

-----------------------------------------------------------------------------
(* The second invariant                                                      *)

LEMMA OnTimeInitially == Init => DInv
<1> SUFFICES ASSUME Init PROVE DInv
  OBVIOUS
<1>1. /\ rows = [s \in Slots |-> FreeRow(0)] /\ leases = {} /\ wheel = NewWheel
      /\ now = 0 /\ clock = 0 /\ upsets = 0 /\ renewing = Idle
  BY DEF Init
<1>2. WheelOK(wheel) /\ Deliveries(wheel) = {} /\ Held(wheel) = {}
  BY <1>1, NewDelivers, NewHoldsNothing
<1>3. \A s \in Slots : rows[s].state = "free"
  BY <1>1 DEF FreeRow
<1>4. TimedInv
  BY <1>3 DEF TimedInv, Timed, Dead
<1>5. OwnedInv
  BY <1>2 DEF OwnedInv, Owned
<1>6. ClockInv
  BY <1>1, <1>3, Constants DEF ClockInv
<1>7. Live(rows, leases)
  BY <1>1 DEF Live
<1> QED
  BY <1>2, <1>4, <1>5, <1>6, <1>7 DEF DInv

LEMMA OnTimeInductive == IInv /\ DInv /\ [Next]_vars => DInv'
<1> SUFFICES ASSUME IInv, DInv, [Next]_vars PROVE DInv'
  OBVIOUS
<1>1. CASE UNCHANGED vars
  BY <1>1 DEF vars, DInv, TimedInv, OwnedInv, ClockInv
<1>2. CASE Next
  BY <1>2, IssueOnTime, RenewBeginOnTime, RenewLeaseOnTime, RenewReplacesOnTime, RevokeOnTime, CollectOnTime,
     WipeOnTime, FailClosedOnTime, AdvanceOnTime, StepBackOnTime, WakeOnTime, WheelTickOnTime, JumpOnTime,
     FindExpiredOnTime, RestartOnTime
  DEF Next
<1> QED
  BY <1>1, <1>2

LEMMA OnTimeHolds == Spec => [](IInv /\ DInv)
<1>1. Init => IInv /\ DInv
  BY Initially, OnTimeInitially
<1>2. (IInv /\ DInv) /\ [Next]_vars => (IInv /\ DInv)'
  BY Inductive, OnTimeInductive
<1> QED
  BY <1>1, <1>2, PTL DEF Spec

\* The latest delivery of a timer is where LastAt says.
LEMMA LastIs ==
    ASSUME NEW t, NEW at \in Int, \A d \in Deliveries(wheel) : d.at \in Nat, LastAt(Deliveries(wheel), t, at)
    PROVE  LastDelivery(t) = at
<1> DEFINE D == Deliveries(wheel)
           ats == {d.at : d \in {e \in D : e.timer = t}}
           last == [timer |-> t, at |-> at]
<1>1. last \in D /\ last.timer = t /\ last.at = at /\ \A d \in D : d.timer = t => d.at <= at
  BY DEF LastAt
<1> HIDE DEF last, D
<1>2. at \in ats /\ \A x \in ats : x <= at /\ x \in Nat
  BY <1>1 DEF D
<1>3. LastDelivery(t) = CHOOSE x \in ats : \A y \in ats : y <= x
  BY DEF LastDelivery, D
<1> HIDE DEF ats
<1>4. \A x \in ats : (\A y \in ats : y <= x) => x = at
  BY <1>2
<1> QED
  BY <1>2, <1>3, <1>4

\* DeadlinesAreExact: the timers of a live row run at the tick of its expiry and
\* Retention after that, unless it was brought forward (TimingWheel::schedule,
\* Leases::watch and renew).
THEOREM DeadlinesStayExact == Spec => []DeadlinesAreExact
<1>1. IInv /\ DInv => DeadlinesAreExact
  <2> SUFFICES ASSUME IInv, DInv, NEW s \in Slots, rows[s].state = "active",
                      rows[s].expires = longest[s]
               PROVE  /\ LastDelivery(Stage(KeyOf(s), rows[s].lease, "retire"))
                           = TickOf(rows[s].expires)
                      /\ LastDelivery(Stage(KeyOf(s), rows[s].lease, "reap"))
                           = TickOf(rows[s].expires + Retention)
    BY DEF DeadlinesAreExact
  <2> DEFINE D == Deliveries(wheel)
             off == wheel.ticks - now
             last == longest[s]
             retire == Own(rows[s], s, "retire")
             reap == Own(rows[s], s, "reap")
  <2>1. Arms(D, retire) /\ Arms(D, reap)
    BY SlotOnTime, WheelOnTime
  <2>2. LastAt(D, retire, last + off) /\ LastAt(D, reap, last + Retention + off)
    BY <2>1, SlotOnTime DEF Timed
  <2>3. last \in Nat /\ off \in Int /\ Retention \in Nat /\ wheel.ticks \in Nat /\ now \in Nat
    BY SlotOnTime, WheelOnTime, Constants
  <2>4. last + off \in Int /\ last + Retention + off \in Int
    BY <2>3
  <2>5. \A d \in D : d.at \in Nat
    BY WheelOnTime
  <2> HIDE DEF off, last, retire, reap
  <2>6. LastDelivery(retire) = last + off /\ LastDelivery(reap) = last + Retention + off
    BY <2>2, <2>4, <2>5, LastIs
  <2>7. last + off = TickOf(last) /\ last + Retention + off = TickOf(last + Retention)
    BY <2>3 DEF TickOf, off
  <2>8. retire = Stage(KeyOf(s), rows[s].lease, "retire") /\ reap = Stage(KeyOf(s), rows[s].lease, "reap")
    BY DEF Own, RowKey, KeyOf, retire, reap
  <2> QED
    BY <2>6, <2>7, <2>8 DEF last
<1> QED
  BY <1>1, OnTimeHolds, PTL

\* LiveLeaseIsOfALiveRow: a lease that nothing cancelled is of a live row that refers to it
\* (the callback of the retirement marks the row and cancels the lease in one piece).
THEOREM LiveLeasesAreOfLiveRows == Spec => []LiveLeaseIsOfALiveRow
<1>1. DInv => LiveLeaseIsOfALiveRow
  BY DEF DInv, Live, LiveLeaseIsOfALiveRow
<1> QED
  BY <1>1, OnTimeHolds, PTL

\* Only a turn of the wheel's loop counts its ticks on.
LEMMA OnlyTicksTick ==
    ASSUME IInv, DInv, [Next]_vars, wheel'.ticks = wheel.ticks + 1
    PROVE  WheelTick
<1>1. wheel.ticks \in Nat /\ WheelOK(wheel)
  BY WheelOnTime
<1>2. \A rs, ls, w, timers, early, reachable :
         WheelOK(w) /\ Settle(rs, ls, w, timers, early, reachable) => wheel'.ticks = w.ticks
  BY WithoutDelivers DEF Settle
<1>3. WheelOK(NewWheel) /\ NewWheel.ticks = 0
  BY NewDelivers
<1>4. \A requests : /\ WheelOK(Scheduled(wheel, requests)) /\ Scheduled(wheel, requests).ticks = wheel.ticks
                    /\ WheelOK(Scheduled(NewWheel, requests)) /\ Scheduled(NewWheel, requests).ticks = 0
  BY <1>1, <1>3, ScheduledDelivers
<1>5. wheel.ticks + 1 # wheel.ticks /\ wheel.ticks + 1 # 0
  BY <1>1
<1>6. ~Issue
  BY <1>2, <1>4, <1>5 DEF Issue
<1>7. ~RenewLease
  BY <1>1, <1>2, <1>4, <1>5 DEF RenewLease
<1>8. ~RenewReplaces
  BY <1>2, <1>4, <1>5 DEF RenewReplaces
<1>9. ~Revoke
  BY <1>1, <1>2, <1>5 DEF Revoke
<1>10. ~Collect
  BY <1>1, <1>2, <1>5 DEF Collect
<1>11. ~Wipe
  BY <1>2, <1>3, <1>5 DEF Wipe
<1>12. ~Jump
  BY <1>2, <1>3, <1>5 DEF Jump
<1>13. ~Restart
  <2>1. ASSUME Restart PROVE FALSE
    <3>1. PICK rs \in [Slots -> Row] :
            Settle(rs, RestoredLeases(rs), Scheduled(NewWheel, RestoredRequests(rs)), RestoredTimers(rs), {}, RestoredTimers(rs))
      BY <2>1, RestartIs
    <3> QED
      BY <1>2, <1>4, <1>5, <3>1
  <2> QED
    BY <2>1
<1>14. ~RenewBegin /\ ~FailClosed /\ ~Advance /\ ~StepBack /\ ~Wake /\ ~FindExpired /\ ~UNCHANGED vars
  BY <1>5 DEF RenewBegin, FailClosed, Advance, StepBack, Wake, FindExpired, vars
<1> QED
  BY <1>6, <1>7, <1>8, <1>9, <1>10, <1>11, <1>12, <1>13, <1>14 DEF Next

\* NothingEndsEarly: a tick ends a live row at its expiry or later, and frees a dead one
\* Retention after its end or later (Leases::tick, retire and reap).
THEOREM NothingIsEndedEarly == Spec => NothingEndsEarly
<1>1. ASSUME IInv, DInv, [Next]_vars, wheel'.ticks = wheel.ticks + 1, NEW s \in Slots, ~Replaced(rows[s])
      PROVE  /\ rows[s].state = "active" /\ rows'[s].state # "active" => rows[s].expires <= now'
             /\ Dead(rows[s]) /\ rows'[s].state = "free" => rows[s].tombstone + Retention <= now' + Lead(rows[s])
  <2> DEFINE w == Ticked(wheel)
             B == Deliveries(wheel)
             off == wheel.ticks - now
             row == rows[s]
             fired == Held(wheel) \ (Held(w) \ {})
             last == longest[s]
             reap == Own(row, s, "reap")
             retire == Own(row, s, "retire")
  <2>1. /\ Settle(rows, leases, w, Held(wheel), {}, handles) /\ now' = now + 1
    BY <1>1, OnlyTicksTick DEF WheelTick
  <2>2. \A t : t \in Held(w) <=> \E d \in B : d.timer = t /\ d.at # wheel.ticks + 1
    BY <1>1, TurnIsOnTime
  <2>3. /\ now \in Nat /\ wheel.ticks \in Nat /\ off \in Int /\ Retention \in Nat /\ last \in Nat
        /\ row \in Row /\ row.expires \in Nat /\ row.tombstone \in Nat /\ Lead(row) \in Nat
        /\ \A d \in B : d.at \in Nat
    BY <1>1, IInvParts, WheelOnTime, SlotOnTime, SlotFacts, RowFields, Constants DEF Lead
  <2>4. rows'[s] = RowAfter(row, s, fired)
    BY <2>1 DEF Settle
  <2>5. Timed(row, s, B, off, last) /\ Owned(row, s, Held(wheel))
    BY <1>1, SlotOnTime
  <2>6. \A t : t \in Held(wheel) <=> Arms(B, t)
    BY <1>1, WheelOnTime
  <2>7. Held(wheel) \subseteq Timer
    BY <1>1, IInvParts
  <2>8. row.lease <= 1
    <3>1. row.lease \in Nat /\ ~(row.lease > 1)
      BY <1>1, <2>3, RowFields, Constants DEF Replaced
    <3> HIDE DEF row
    <3> QED
      BY <3>1
  <2> HIDE DEF w, B, off, row, last
  <2>9. ASSUME NEW t \in fired, Holds(row, s, t.key) PROVE t \in {retire, reap}
    <3>1. t \in Timer /\ Owned(row, s, {t})
      BY <2>5, <2>7 DEF Owned
    <3> QED
      BY <2>3, <2>8, <2>9, <3>1, OwnTimer
  \* A timer that runs now has all that was left of its deliveries now.
  <2>10. ASSUME NEW t \in fired PROVE \A d \in B : d.timer = t => d.at = wheel.ticks + 1
    BY <2>2
  <2>11. \A t \in fired : Arms(B, t)
    BY <2>6
  <2> HIDE DEF fired, retire, reap
  <2>12. ASSUME row.state = "active", rows'[s].state # "active" PROVE row.expires <= now'
    <3>1. PICK t \in fired : Holds(row, s, t.key)
      BY <2>4, <2>12 DEF RowAfter
    <3>2. CASE t = retire
      <4> DEFINE d == [timer |-> retire, at |-> last + off]
      <4>1. Arms(B, retire)
        BY <2>11, <3>2
      <4>2. LastAt(B, retire, last + off) /\ row.expires <= last
        BY <2>5, <2>12, <4>1 DEF Timed, retire
      <4>3. d \in B /\ d.timer = retire /\ d.at = last + off
        BY <4>2 DEF LastAt
      <4> HIDE DEF d
      <4>4. last + off = wheel.ticks + 1
        BY <2>10, <3>2, <4>3
      <4> QED
        BY <2>1, <2>3, <4>2, <4>4 DEF off
    <3>3. CASE t = reap
      <4> DEFINE d == [timer |-> reap, at |-> last + Retention + off]
                 e == [timer |-> retire, at |-> last + off]
      <4>1. Arms(B, reap)
        BY <2>11, <3>3
      <4>2. LastAt(B, reap, last + Retention + off) /\ row.expires <= last
        BY <2>5, <2>12, <4>1 DEF Timed, reap
      <4>3. d \in B /\ d.timer = reap /\ d.at = last + Retention + off
        BY <4>2 DEF LastAt
      <4>4. Arms(B, retire)
        BY <1>1, <2>12, <2>6, SlotOnTime DEF retire, row
      <4>5. LastAt(B, retire, last + off)
        BY <2>5, <2>12, <4>4 DEF Timed, retire
      <4>6. e \in B /\ e.at = last + off
        BY <4>5 DEF LastAt
      <4> HIDE DEF d, e
      <4>7. wheel.ticks < e.at
        BY <1>1, <4>6, WheelOnTime DEF B
      <4>8. last + Retention + off = wheel.ticks + 1 /\ wheel.ticks < last + off
        BY <2>10, <3>3, <4>3, <4>6, <4>7
      <4>9. Retention # 0
        BY TimersAssumption DEF TimersAssumption
      <4> QED
        BY <2>1, <2>3, <4>2, <4>8, <4>9 DEF off
    <3> QED
      BY <2>9, <3>1, <3>2, <3>3
  <2>13. ASSUME Dead(row), rows'[s].state = "free" PROVE row.tombstone + Retention <= now' + Lead(row)
    <3>1. PICK t \in fired : t.stage = "reap" /\ Holds(row, s, t.key)
      BY <2>4, <2>13 DEF RowAfter, Dead
    <3>2. t = reap
      <4>1. retire.stage = "retire"
        BY DEF retire, Own, Stage
      <4> QED
        BY <2>9, <3>1, <4>1
    <3>3. Arms(B, reap)
      BY <2>11, <3>1, <3>2
    <3>4. PICK d \in B : d.timer = reap /\ row.tombstone + Retention + off <= d.at + Lead(row)
      BY <2>5, <2>13, <3>3 DEF Timed, reap
    <3>5. d.at = wheel.ticks + 1
      BY <2>10, <3>1, <3>2, <3>4
    <3> QED
      BY <2>1, <2>3, <3>4, <3>5 DEF off
  <2> QED
    BY <2>12, <2>13 DEF row
<1> DEFINE OnTime == wheel'.ticks = wheel.ticks + 1 =>
       \A s \in Slots :
         ~Replaced(rows[s]) =>
           /\ rows[s].state = "active" /\ rows'[s].state # "active" => rows[s].expires <= now'
           /\ Dead(rows[s]) /\ rows'[s].state = "free" =>
                rows[s].tombstone + Retention <= now' + Lead(rows[s])
<1>2. (IInv /\ DInv) /\ [Next]_vars => [OnTime]_vars
  BY <1>1
<1>3. Spec => [][OnTime]_vars
  <2> HIDE DEF OnTime
  <2> QED
    BY <1>2, OnTimeHolds, PTL DEF Spec
<1> QED
  BY <1>3 DEF NothingEndsEarly
=============================================================================
