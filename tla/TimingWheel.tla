---------------------------- MODULE TimingWheel ----------------------------
(***************************************************************************)
(* The hierarchical timing wheel as operators on a value: the ticks        *)
(* elapsed, and the buckets of every level.  A link of a bucket carries a  *)
(* timer and the ticks its route still takes once the bucket is drained;   *)
(* the code has the legs that make up those ticks nested in one another.   *)
(* A link with no ticks left is Link::Deliver.                             *)
(*                                                                         *)
(* A bucket is a set: two routes of a timer that coincide drain together,  *)
(* and a timer outlives all its routes but the last either way.            *)
(***************************************************************************)
EXTENDS Integers

CONSTANTS
  Radix,     \* buckets of a level
  MaxDelay   \* the longest delay the wheel is built for

ASSUME WheelAssumption == Radix \in Nat \ {0, 1} /\ MaxDelay \in Nat \ {0}

\* Ticks spanned by a level and those below it.
Period[level \in Nat] == IF level = 0 THEN 1 ELSE Radix * Period[level - 1]

LevelCount == CHOOSE n \in 1..MaxDelay :
                 /\ Period[n] >= MaxDelay
                 /\ \A m \in 1..(n - 1) : Period[m] < MaxDelay
Levels == 0..(LevelCount - 1)
Buckets == 0..(Radix - 1)
\* TimingWheel::max_delay
Span == Period[LevelCount]

NewWheel == [ticks |-> 0, level |-> [l \in Levels |-> [b \in Buckets |-> {}]]]

Coarsest(S) == CHOOSE l \in S : \A m \in S : m <= l

\* The next leg of a route from a boundary of every level it uses.
NextLeg(rest) ==
  LET level == Coarsest({l \in Levels : Period[l] <= rest})
  IN [level |-> level, bucket |-> rest \div Period[level] - 1, rest |-> rest % Period[level]]

NextRotation(ticks, level) == ticks - (ticks % Period[level]) + Period[level]

\* The levels entry_leg takes a timer due at target on: their next rotation is
\* no later, and it is less than a revolution away.
Reaching(ticks, target) ==
  {l \in Levels : LET ahead == target - NextRotation(ticks, l)
                  IN ahead >= 0 /\ ahead \div Period[l] < Radix}

\* Mutant: what is left after the first leg is counted from now, not from the
\* rotation that ends the leg.
Entry_FromNow(ticks, delay) ==
  LET level == Coarsest(Reaching(ticks, ticks + delay))
  IN [level |-> level, bucket |-> (ticks + delay - NextRotation(ticks, level)) \div Period[level],
      rest |-> delay % Period[level]]
Entry(ticks, delay) ==
  LET level == Coarsest(Reaching(ticks, ticks + delay))
      ahead == ticks + delay - NextRotation(ticks, level)
  IN [level |-> level, bucket |-> ahead \div Period[level], rest |-> ahead % Period[level]]

Placeable(ticks, delay) == delay \in 1..Span /\ Reaching(ticks, ticks + delay) # {}

\* schedule, for each [timer, delay] of requests.  A request that is due at
\* once or too far ahead leaves no link, and so no reference to its timer.
Scheduled(w, requests) ==
  LET placed == {r \in requests : Placeable(w.ticks, r.delay)}
      Filed(l, b) == {[timer |-> r.timer, rest |-> Entry(w.ticks, r.delay).rest] :
                        r \in {p \in placed : LET e == Entry(w.ticks, p.delay)
                                              IN e.level = l /\ e.bucket = b}}
  IN [w EXCEPT !.level = [l \in Levels |-> [b \in Buckets |-> @[l][b] \cup Filed(l, b)]]]

\* The levels that turn over at a tick: a level whose period does not divide
\* the tick has no coarser one that does, where the code stops looking.
Turning(ticks) == {l \in Levels : ticks % Period[l] = 0}

\* One tick.  Levels are rotated from the finest up, and a leg goes on to a
\* level finer than the one it comes from, which has rotated already.
Ticked(w) ==
  LET ticks   == w.ticks + 1
      turning == Turning(ticks)
      drained == UNION {w.level[l][0] : l \in turning}
      Relayed(l, b) == {[timer |-> k.timer, rest |-> NextLeg(k.rest).rest] :
                          k \in {j \in drained : j.rest # 0 /\ NextLeg(j.rest).level = l
                                                 /\ NextLeg(j.rest).bucket = b}}
      Shifted(l, b) == IF l \notin turning THEN w.level[l][b]
                       ELSE IF b = Radix - 1 THEN {} ELSE w.level[l][b + 1]
  IN [ticks |-> ticks,
      level |-> [l \in Levels |-> [b \in Buckets |-> Shifted(l, b) \cup Relayed(l, b)]]]

\* The timers that some route still holds.
Held(w) == {k.timer : k \in UNION {w.level[l][b] : l \in Levels, b \in Buckets}}
Without(w, timers) ==
  [w EXCEPT !.level = [l \in Levels |-> [b \in Buckets |->
                         {k \in @[l][b] : k.timer \notin timers}]]]

-----------------------------------------------------------------------------
(* What the links mean: when a route will deliver its timer, worked out    *)
(* from where its link lies.                                               *)

Deliveries(w) ==
  UNION {{[timer |-> k.timer,
           at |-> NextRotation(w.ticks, l) + b * Period[l] + k.rest] :
            k \in w.level[l][b]} : l \in Levels, b \in Buckets}
=============================================================================
