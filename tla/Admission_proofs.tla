-------------------------- MODULE Admission_proofs --------------------------
(***************************************************************************)
(* A mutation takes effect once (EffectsAreOnce), its claim is known to the*)
(* actor and to the next start (ClaimsAreDurable), and a first flight is let*)
(* in once a window (FlightsAreNewForAWindow): for any flights, handlers,  *)
(* skew and capacity and any number of rotations, resets, compactions,     *)
(* failed writes and starts.                                               *)
(*                                                                         *)
(* The invariants are one a part.  The guard's: of a flight that was let in*)
(* less than a window ago, the filter has it, in its current window or in  *)
(* the one before, and the log tells the next start, unless the log is     *)
(* closed.  The actor's: a claim of a flight that could be claimed again is*)
(* in the queue, in the set and in the files.  The handlers': one at most  *)
(* has claimed a flight, and the flight has had no effect.                 *)
(***************************************************************************)
EXTENDS Admission, FiniteSetTheorems, WellFoundedInduction, SequenceTheorems,
        TLAPS

-----------------------------------------------------------------------------
(* Lemmas about the helpers *)

\* Every position of a queue that is kept has a rank of its own, and every rank
\* up to their number has one (VecDeque::retain, Iterator::filter).
LEMMA Ranks ==
    ASSUME NEW n \in Nat, NEW live \in SUBSET (1 .. n)
    PROVE  /\ Cardinality(live) \in Nat
           /\ \A k \in 1 .. Cardinality(live) :
                \E i \in live : Cardinality(live \cap 1 .. i) = k
           /\ \A i \in live : Cardinality(live \cap 1 .. i) \in 1 .. Cardinality(live)
           /\ \A i, j \in live : Cardinality(live \cap 1 .. i) = Cardinality(live \cap 1 .. j)
                                 => i = j
<1> DEFINE upTo(i) == live \cap 1 .. i
           rank == [i \in live |-> Cardinality(upTo(i))]
           last == Cardinality(live)
<1>1. IsFiniteSet(1 .. n)
  BY FS_Interval
<1>2. IsFiniteSet(live) /\ last \in Nat
  BY <1>1, FS_Subset, FS_CardinalityType
<1>3. ASSUME NEW i \in live
      PROVE  /\ IsFiniteSet(upTo(i)) /\ Cardinality(upTo(i)) \in 1 .. last
  <2>1. IsFiniteSet(upTo(i)) /\ Cardinality(upTo(i)) <= last
    BY <1>2, FS_Subset
  <2>2. Cardinality(upTo(i)) \in Nat
    BY <2>1, FS_CardinalityType
  <2>3. i \in upTo(i)
    OBVIOUS
  <2>4. Cardinality(upTo(i)) # 0
    BY <2>1, <2>3, FS_EmptySet
  <2> HIDE DEF upTo, last
  <2> QED
    BY <1>2, <2>1, <2>2, <2>4
<1>4. ASSUME NEW i \in live, NEW j \in live, i < j
      PROVE  Cardinality(upTo(i)) # Cardinality(upTo(j))
  <2>1. upTo(i) \in SUBSET upTo(j)
    BY <1>4
  <2>2. upTo(i) # upTo(j)
    <3>1. j \in upTo(j) /\ j \notin upTo(i)
      BY <1>4
    <3> QED
      BY <3>1
  <2> HIDE DEF upTo
  <2> QED
    BY <1>3, <2>1, <2>2, FS_Subset
<1>5. rank \in Injection(live, 1 .. last)
  <2>1. rank \in [live -> 1 .. last]
    BY <1>3
  <2>2. ASSUME NEW i \in live, NEW j \in live, rank[i] = rank[j]
        PROVE  i = j
    <3>1. ~(i < j) /\ ~(j < i)
      BY <1>4, <2>2
    <3> QED
      BY <3>1
  <2> QED
    BY <2>1, <2>2 DEF Injection, IsInjective
<1>6. IsFiniteSet(1 .. last) /\ Cardinality(1 .. last) = last
  BY <1>2, FS_Interval
<1>7. rank \in Surjection(live, 1 .. last)
  BY <1>2, <1>5, <1>6, FS_Injection
<1>8. \A k \in 1 .. last : \E i \in live : rank[i] = k
  BY <1>7 DEF Surjection
<1>9. \A i, j \in live : rank[i] = rank[j] => i = j
  BY <1>5 DEF Injection, IsInjective
<1> QED
  BY <1>2, <1>3, <1>8, <1>9

\* A pruned queue is a queue of the claims that are within the retention.
LEMMA KeptClaims ==
    ASSUME NEW q \in Seq(Claim)
    PROVE  /\ Kept(q) \in Seq(Claim)
           /\ ToSet(Kept(q)) = {c \in ToSet(q) : Within(c)}
<1> DEFINE live == {i \in DOMAIN q : Within(q[i])}
           rank(i) == Cardinality(live \cap 1 .. i)
           at(k) == CHOOSE i \in live : rank(i) = k
<1>1. Len(q) \in Nat /\ DOMAIN q = 1 .. Len(q) /\ \A i \in DOMAIN q : q[i] \in Claim
  OBVIOUS
<1>2. live \in SUBSET (1 .. Len(q))
  BY <1>1
<1>3. /\ Cardinality(live) \in Nat
      /\ \A k \in 1 .. Cardinality(live) : \E i \in live : rank(i) = k
      /\ \A i \in live : rank(i) \in 1 .. Cardinality(live)
      /\ \A i, j \in live : rank(i) = rank(j) => i = j
  BY <1>1, <1>2, Ranks
<1>4. Kept(q) = [k \in 1 .. Cardinality(live) |-> q[at(k)]]
  BY DEF Kept
<1>5. \A k \in 1 .. Cardinality(live) : at(k) \in live
  BY <1>3
<1>6. ASSUME NEW i \in live
      PROVE  \E k \in 1 .. Cardinality(live) : at(k) = i
  <2>1. rank(i) \in 1 .. Cardinality(live)
    BY <1>3
  <2>2. at(rank(i)) \in live /\ rank(at(rank(i))) = rank(i)
    <3>1. \E j \in live : rank(j) = rank(i)
      OBVIOUS
    <3> HIDE DEF live, rank
    <3> QED
      BY <3>1
  <2>3. at(rank(i)) = i
    BY <1>3, <2>2
  <2> QED
    BY <2>1, <2>3
<1>7. ToSet(q) = {q[i] : i \in DOMAIN q} /\ ToSet(Kept(q)) = {Kept(q)[k] : k \in DOMAIN Kept(q)}
  BY DEF ToSet
<1>8. \A i \in live : q[i] \in Claim /\ i \in DOMAIN q /\ Within(q[i])
  BY <1>1
<1>9. DOMAIN Kept(q) = 1 .. Cardinality(live)
      /\ \A k \in 1 .. Cardinality(live) : Kept(q)[k] = q[at(k)]
  BY <1>4
<1>10. Kept(q) \in Seq(Claim)
  <2> HIDE DEF at, live
  <2> QED
    BY <1>3, <1>4, <1>5, <1>8
<1>11. ToSet(Kept(q)) \subseteq {c \in ToSet(q) : Within(c)}
  <2> HIDE DEF at, live
  <2> QED
    BY <1>5, <1>7, <1>8, <1>9
<1>12. ASSUME NEW c \in ToSet(q), Within(c)
       PROVE  c \in ToSet(Kept(q))
  <2>1. PICK i \in DOMAIN q : c = q[i]
    BY <1>7
  <2>2. i \in live
    BY <1>12, <2>1
  <2> HIDE DEF at, live
  <2> QED
    BY <1>6, <1>7, <1>9, <2>1, <2>2
<1> QED
  BY <1>10, <1>11, <1>12

\* The window of a start holds claims that the store found (start_locked).
LEMMA LoadedClaims ==
    ASSUME NEW q \in Seq(Claim)
    PROVE  /\ Loaded(q) \in Seq(Claim)
           /\ ToSet(Loaded(q)) \subseteq ToSet(q)
<1> DEFINE live == Kept(q)
           m == Len(live) - Capacity + 1
           n == Len(live)
<1>1. live \in Seq(Claim) /\ ToSet(live) \subseteq ToSet(q)
  BY KeptClaims
<1>2. CASE n > Capacity
  <2>1. n \in Nat /\ m \in 1 .. n
    BY <1>1, <1>2, AdmissionAssumption DEF AdmissionAssumption
  <2>2. Loaded(q) = SubSeq(live, m, n)
    BY <1>2 DEF Loaded
  <2>3. \A i \in m .. n : live[i] \in Claim /\ live[i] \in ToSet(live)
    BY <1>1, <2>1 DEF ToSet
  <2> HIDE DEF live, m, n
  <2>4. SubSeq(live, m, n) \in Seq(Claim) /\ SubSeq(live, m, n) \in Seq(ToSet(live))
    BY <2>1, <2>3, SubSeqProperties
  <2>5. ToSet(SubSeq(live, m, n)) \subseteq ToSet(live)
    <3> DEFINE sub == SubSeq(live, m, n)
    <3>1. ToSet(sub) = {sub[i] : i \in DOMAIN sub}
      BY DEF ToSet
    <3> QED
      BY <2>4, <3>1
  <2> QED
    BY <1>1, <2>2, <2>4, <2>5
<1>3. CASE ~(n > Capacity)
  BY <1>1, <1>3 DEF Loaded
<1> QED
  BY <1>2, <1>3

\* What a queue holds after a claim was put to its end.
LEMMA Appended ==
    ASSUME NEW q \in Seq(Claim), NEW c \in Claim
    PROVE  Append(q, c) \in Seq(Claim) /\ ToSet(Append(q, c)) = ToSet(q) \cup {c}
<1>1. ToSet(Append(q, c)) = ToSet(q) \cup {c}
  <2> DEFINE a == Append(q, c)
  <2>1. /\ DOMAIN a = 1 .. Len(q) + 1 /\ DOMAIN q = 1 .. Len(q) /\ Len(q) \in Nat
        /\ \A i \in 1 .. Len(q) : a[i] = q[i]
        /\ a[Len(q) + 1] = c
    OBVIOUS
  <2> HIDE DEF a
  <2>2. ToSet(a) \subseteq ToSet(q) \cup {c}
    BY <2>1 DEF ToSet
  <2>3. ToSet(q) \cup {c} \subseteq ToSet(a)
    BY <2>1 DEF ToSet
  <2> QED
    BY <2>2, <2>3 DEF a
<1> QED
  BY <1>1

\* What two queues hold together.
LEMMA Joined ==
    ASSUME NEW p \in Seq(Claim), NEW q \in Seq(Claim)
    PROVE  p \o q \in Seq(Claim) /\ ToSet(p \o q) = ToSet(p) \cup ToSet(q)
<1>1. ToSet(p \o q) = ToSet(p) \cup ToSet(q)
  <2> DEFINE a == p \o q
  <2>1. /\ DOMAIN a = 1 .. Len(p) + Len(q)
        /\ DOMAIN p = 1 .. Len(p) /\ DOMAIN q = 1 .. Len(q)
        /\ Len(p) \in Nat /\ Len(q) \in Nat
        /\ \A i \in 1 .. Len(p) : a[i] = p[i]
        /\ \A i \in Len(p) + 1 .. Len(p) + Len(q) : a[i] = q[i - Len(p)]
    OBVIOUS
  <2> HIDE DEF a
  <2>2. ToSet(a) \subseteq ToSet(p) \cup ToSet(q)
    BY <2>1 DEF ToSet
  <2>3. ASSUME NEW j \in 1 .. Len(q)
        PROVE  q[j] \in ToSet(a)
    <3>1. Len(p) + j \in DOMAIN a /\ a[Len(p) + j] = q[j]
      BY <2>1
    <3> QED
      BY <3>1 DEF ToSet
  <2>4. ToSet(p) \subseteq ToSet(a)
    BY <2>1 DEF ToSet
  <2>5. ToSet(q) \subseteq ToSet(a)
    <3>1. ToSet(q) = {q[i] : i \in 1 .. Len(q)}
      BY <2>1 DEF ToSet
    <3> QED
      BY <2>3, <3>1
  <2> QED
    BY <2>2, <2>4, <2>5 DEF a
<1> QED
  BY <1>1

LEMMA EmptyQueue == <<>> \in Seq(Claim) /\ <<>> \in Seq(Handlers) /\ ToSet(<<>>) = {}
BY DEF ToSet

\* What a queue of one claim holds.
LEMMA OneClaim ==
    ASSUME NEW c \in Claim
    PROVE  <<c>> \in Seq(Claim) /\ ToSet(<<c>>) = {c}
BY DEF ToSet

\* A log that is not empty has an oldest record, with which the filter of a
\* start begins (ReplayGuard::load_persisted).
LEMMA OldestRecord ==
    ASSUME NEW T \in SUBSET Nat, T # {}
    PROVE  \E t \in T : \A u \in T : t <= u
<1>1. PICK t \in T : \A u \in T : ~ (<<u, t>> \in OpToRel(<, Nat))
  BY NatLessThanWellFounded, WFMin
<1>2. \A u \in T : ~ (u < t)
  BY <1>1 DEF OpToRel
<1> QED
  BY <1>2

\* What rotation, insertion and a start make of a filter is a filter.
LEMMA FilterType ==
    ASSUME NEW b \in Filter(Flights), NEW now \in Nat, NEW f \in Flights,
           NEW records \in SUBSET LogRecord(Flights)
    PROVE  /\ NewFilter(now) \in Filter(Flights)
           /\ Rotated(b, now) \in Filter(Flights)
           /\ Remembering(b, f) \in Filter(Flights)
           /\ Restored(records, now) \in Filter(Flights)
<1>1. NewFilter(now) \in Filter(Flights)
  BY DEF NewFilter, Filter
<1>2. Rotated(b, now) \in Filter(Flights)
  BY <1>1, WindowAssumption DEF WindowAssumption, Rotated, Filter
<1>3. Remembering(b, f) \in Filter(Flights)
  BY DEF Remembering, Filter
<1>4. Restored(records, now) \in Filter(Flights)
  <2> DEFINE live == Live(records, now)
             times == {r.at : r \in live}
             oldest == CHOOSE at \in times : \A r \in live : at <= r.at
  <2>1. live \subseteq records /\ times \in SUBSET Nat
    BY DEF Live, LogRecord
  <2>2. {r.flight : r \in live} \subseteq Flights
    BY <2>1 DEF LogRecord
  <2>3. live # {} => oldest \in Nat
    <3> SUFFICES ASSUME live # {} PROVE oldest \in Nat
      OBVIOUS
    <3>0. times # {}
      OBVIOUS
    <3>1. \E at \in times : \A u \in times : at <= u
      <4> HIDE DEF times
      <4> QED
        BY <2>1, <3>0, OldestRecord
    <3>2. \E at \in times : \A r \in live : at <= r.at
      BY <3>1
    <3> HIDE DEF live, times
    <3> QED
      BY <2>1, <3>2
  <2>4. Restored(records, now) = [current |-> {r.flight : r \in live}, previous |-> {},
                                  started |-> IF live = {} THEN now ELSE oldest]
    BY DEF Restored
  <2> HIDE DEF live, oldest, times
  <2> QED
    BY <2>2, <2>3, <2>4 DEF Filter
<1> QED
  BY <1>1, <1>2, <1>3, <1>4

-----------------------------------------------------------------------------
(* Types *)

\* A handler that is not free goes on with the flight and the root it has.
LEMMA GoesOn ==
    ASSUME handler \in [Handlers -> Task], NEW h \in Handlers,
           handler[h] # Free, NEW step \in Steps, Goes(h, step)
    PROVE  /\ handler' \in [Handlers -> Task]
           /\ handler'[h].step = step /\ handler'[h] # Free
           /\ handler'[h].flight = handler[h].flight /\ handler[h].flight \in Flights
           /\ handler'[h].root = handler[h].root /\ handler[h].root \in Nat
           /\ \A g \in Handlers \ {h} : handler'[g] = handler[g]
<1>1. handler[h] \in [step : Steps, flight : Flights, root : Nat]
  BY DEF Task
<1>2. handler' = [handler EXCEPT ![h] = [handler[h] EXCEPT !.step = step]]
  BY DEF Goes
<1>3. [handler[h] EXCEPT !.step = step] \in [step : Steps, flight : Flights, root : Nat]
  BY <1>1
<1>4. [handler[h] EXCEPT !.step = step] # Free
  <2>1. step # "free"
    BY DEF Steps
  <2> QED
    BY <1>1, <2>1 DEF Free
<1> QED
  BY <1>1, <1>2, <1>3, <1>4 DEF Task

\* One that is done is free.
LEMMA EndsFree ==
    ASSUME handler \in [Handlers -> Task], NEW h \in Handlers, Ends(h)
    PROVE  /\ handler' \in [Handlers -> Task] /\ handler'[h] = Free
           /\ \A g \in Handlers \ {h} : handler'[g] = handler[g]
BY DEF Ends, Task

\* The step of a handler tells whether it is free.
LEMMA StepIsTaken ==
    ASSUME handler \in [Handlers -> Task], NEW h \in Handlers,
           handler[h].step \in Steps
    PROVE  handler[h] # Free /\ handler[h].flight \in Flights /\ handler[h].root \in Nat
BY DEF Task, Steps, Free

\* The command at the head of the mailbox is of a handler that waits for it.
LEMMA HeadOfMailbox ==
    ASSUME mailbox \in Seq(Handlers), handler \in [Handlers -> Task],
           NEW step \in Steps, IsNext(step), Taken
    PROVE  /\ Head(mailbox) \in Handlers /\ mailbox' \in Seq(Handlers)
           /\ handler[Head(mailbox)] # Free /\ handler[Head(mailbox)].step = step
           /\ handler[Head(mailbox)].flight \in Flights
           /\ handler[Head(mailbox)].root \in Nat
<1>1. Head(mailbox) \in Handlers /\ mailbox' \in Seq(Handlers)
  BY HeadTailProperties DEF IsNext, Taken
<1> QED
  BY <1>1, StepIsTaken DEF IsNext

\* The types of the variables, by the part of the system they belong to.
GuardType ==
    /\ filter \in Filter(Flights) /\ log \subseteq LogRecord(Flights)
    /\ {torn, blocked} \subseteq BOOLEAN
StoreType ==
    /\ {safeMode, damaged} \subseteq BOOLEAN
    /\ snapshot \in Seq(Claim) /\ wal \in Seq(Claim)
WindowType == replays \subseteq Flights /\ order \in Seq(Claim)
PastType ==
    /\ admitted \in [Flights -> Nat \cup {Never}] /\ claimed \in [Flights -> Nat \cup {Never}]
    /\ effects \in [Flights -> Nat] /\ forgotten \subseteq Flights
TaskType == handler \in [Handlers -> Task] /\ mailbox \in Seq(Handlers)
LEMMA TypeParts ==
    AdmissionTypeOK <=> /\ time \in 0 .. MaxSecond /\ faults \in 0 .. MaxFaults /\ root \in Nat
               /\ GuardType /\ StoreType /\ WindowType /\ PastType /\ TaskType
BY DEF AdmissionTypeOK, GuardType, StoreType, WindowType, PastType, TaskType

\* The steps of the guard (ReplayGuard::reserve, load_persisted).
LEMMA GuardTypeSteps ==
    ASSUME AdmissionTypeOK, NEW f \in Flights
    PROVE  /\ Rewritten(Recorded(f)) =>
                log' \subseteq LogRecord(Flights) /\ {torn', blocked'} \subseteq BOOLEAN
                /\ faults' \in 0 .. MaxFaults
           /\ Reserved(f) => filter' \in Filter(Flights)
           /\ filter' = Rotated(filter, time) => filter' \in Filter(Flights)
           /\ NotReserved(f) => GuardType' /\ faults' \in 0 .. MaxFaults
<1>1. /\ GuardType /\ time \in Nat /\ faults \in 0 .. MaxFaults /\ MaxFaults \in Nat
      /\ Rotated(filter, time) \in Filter(Flights)
  BY FilterType, TypeParts, AdmissionAssumption DEF AdmissionAssumption, GuardType
<1>2. Recorded(f) \subseteq LogRecord(Flights) /\ Live(Recorded(f), time) \subseteq LogRecord(Flights)
  BY <1>1 DEF GuardType, Recorded, LogRecord, Live
<1>3. Fault => faults' \in 0 .. MaxFaults
  BY <1>1 DEF Fault
<1>4. Rewritten(Recorded(f)) =>
        log' \subseteq LogRecord(Flights) /\ {torn', blocked'} \subseteq BOOLEAN
        /\ faults' \in 0 .. MaxFaults
  BY <1>1, <1>2, <1>3 DEF Rewritten, GuardType
<1>5. Reserved(f) => filter' \in Filter(Flights)
  BY <1>1, FilterType DEF Reserved
<1>6. NotReserved(f) => GuardType' /\ faults' \in 0 .. MaxFaults
  BY <1>1, <1>2, <1>3 DEF NotReserved, GuardType
<1> QED
  BY <1>1, <1>4, <1>5, <1>6

\* A handler that reads and is admitted, or is not (evaluate_first_flight).
LEMMA FlightType ==
    ASSUME AdmissionTypeOK, NEW h \in Handlers, Read(h) \/ Admit(h) \/ Refuse(h) \/ TellRotated(h)
    PROVE  AdmissionTypeOK'
<1>0. /\ time \in 0 .. MaxSecond /\ faults \in 0 .. MaxFaults /\ root \in Nat
      /\ GuardType /\ StoreType /\ WindowType /\ PastType /\ TaskType /\ time \in Nat
  BY TypeParts, AdmissionAssumption DEF AdmissionAssumption
<1>1. CASE Read(h)
  <2>1. PICK f \in Flights :
          /\ handler' = [handler EXCEPT ![h] = [step |-> "reading", flight |-> f, root |-> root]]
          /\ UNCHANGED <<time, guard, root, safeMode, window, store, mailbox, faults, past>>
    BY <1>1 DEF Read
  <2>2. [step |-> "reading", flight |-> f, root |-> root] \in Task
    BY <1>0 DEF Task, Steps
  <2>3. TaskType'
    BY <1>0, <2>1, <2>2 DEF TaskType
  <2> QED
    BY <1>0, <2>1, <2>3
       DEF AdmissionTypeOK, GuardType, StoreType, WindowType, PastType, TaskType, guard, window, store, past
<1>2. ASSUME IsRead(h)
      PROVE  handler[h] # Free /\ handler[h].flight \in Flights
  BY <1>0, <1>2 DEF IsRead, TaskType, Task
<1>3. CASE Admit(h)
  <2> DEFINE f == handler[h].flight
  <2>1. handler[h] # Free /\ f \in Flights
    BY <1>2, <1>3 DEF Admit
  <2>2. TaskType'
    <3>1. mailbox' = mailbox /\ Goes(h, "admitted") /\ "admitted" \in Steps
      BY <1>3 DEF Admit, Steps
    <3> QED
      BY <1>0, <2>1, <3>1, GoesOn DEF TaskType
  <2>3. PastType'
    BY <1>0, <1>3, <2>1 DEF Admit, PastType
  <2>4. GuardType' /\ faults' \in 0 .. MaxFaults
    BY <1>3, <2>1, GuardTypeSteps DEF Admit, GuardType
  <2> QED
    BY <1>0, <1>3, <2>2, <2>3, <2>4
       DEF Admit, AdmissionTypeOK, GuardType, StoreType, WindowType, PastType, TaskType, window, store
<1>4. CASE Refuse(h) \/ TellRotated(h)
  <2> DEFINE f == handler[h].flight
  <2>1. IsRead(h) /\ Ends(h) /\ UNCHANGED <<time, root, safeMode, window, store, mailbox, past>>
    BY <1>4 DEF Refuse, TellRotated
  <2>2. f \in Flights
    BY <1>2, <2>1
  <2>3. TaskType'
    BY <1>0, <2>1, EndsFree DEF TaskType
  <2>4. GuardType' /\ faults' \in 0 .. MaxFaults
    <3>1. CASE NotReserved(f)
      BY <2>2, <3>1, GuardTypeSteps
    <3>2. CASE filter' = Rotated(filter, time) /\ UNCHANGED <<log, torn, blocked, faults>>
      BY <1>0, <2>2, <3>2, GuardTypeSteps DEF GuardType
    <3>3. CASE Reserved(f) /\ log' = Recorded(f) /\ UNCHANGED <<torn, blocked, faults>>
      <4>1. Recorded(f) \subseteq LogRecord(Flights)
        BY <1>0, <2>2 DEF GuardType, Recorded, LogRecord
      <4> QED
        BY <1>0, <2>2, <3>3, <4>1, GuardTypeSteps DEF GuardType
    <3>4. CASE UNCHANGED <<guard, faults>>
      BY <1>0, <3>4 DEF GuardType, guard
    <3> QED
      BY <1>4, <3>1, <3>2, <3>3, <3>4 DEF Refuse, TellRotated
  <2> QED
    BY <1>0, <2>1, <2>3, <2>4
       DEF AdmissionTypeOK, GuardType, StoreType, WindowType, PastType, TaskType, window, store, past
<1> QED
  BY <1>1, <1>3, <1>4

\* A handler that sends to the actor, or finds its authority gone.
LEMMA SendsType ==
    ASSUME AdmissionTypeOK, NEW h \in Handlers, SendClaim(h) \/ SendCommand(h)
    PROVE  AdmissionTypeOK'
<1>0. TaskType
  BY TypeParts
<1>1. PICK from \in Steps, to \in Steps : Sends(h, from, to)
  BY DEF SendClaim, SendCommand, Steps
<1>2. handler[h] # Free
  BY <1>0, <1>1, StepIsTaken DEF Sends, TaskType
<1>3. TaskType'
  <2>1. CASE Goes(h, to) /\ mailbox' = Append(mailbox, h)
    BY <1>0, <1>2, <2>1, GoesOn DEF TaskType
  <2>2. CASE Ends(h) /\ UNCHANGED mailbox
    BY <1>0, <2>2, EndsFree DEF TaskType
  <2> QED
    BY <1>1, <2>1, <2>2 DEF Sends
<1> QED
  BY <1>1, <1>3 DEF Sends, AdmissionTypeOK, TaskType, guard, window, store, past

\* What a prune leaves of the window (prune_expired_admin_replays).
LEMMA PrunedType ==
    ASSUME WindowType
    PROVE  /\ Pruned \in Seq(Claim) /\ ToSet(Pruned) = {c \in ToSet(order) : Within(c)}
           /\ PrunedReplays \subseteq replays /\ PrunedReplays \subseteq Flights
BY KeptClaims DEF WindowType, Pruned, PrunedReplays

\* A write that fails, or does not happen (fail_closed_on_uncertain_wal).
LEMMA WriteFailsType ==
    ASSUME AdmissionTypeOK, NEW record \in Seq(Claim), WriteFails(record), UNCHANGED snapshot
    PROVE  StoreType' /\ faults' \in 0 .. MaxFaults
<1>0. StoreType /\ faults \in 0 .. MaxFaults /\ MaxFaults \in Nat
  BY TypeParts, AdmissionAssumption DEF AdmissionAssumption
<1>1. wal \o record \in Seq(Claim)
  BY <1>0 DEF StoreType
<1>2. Fault => faults' \in 0 .. MaxFaults
  BY <1>0 DEF Fault
<1> QED
  BY <1>0, <1>1, <1>2 DEF WriteFails, StoreType

\* A claim, written or not (actor_claim_admin_mutation).
LEMMA ClaimType ==
    ASSUME AdmissionTypeOK, ClaimMutation \/ RefuseClaim
    PROVE  AdmissionTypeOK'
<1> DEFINE h == Head(mailbox)
           f == handler[h].flight
           c == [flight |-> f, at |-> time]
<1>0. /\ time \in 0 .. MaxSecond /\ faults \in 0 .. MaxFaults /\ root \in Nat
      /\ GuardType /\ StoreType /\ WindowType /\ PastType /\ TaskType /\ time \in Nat
  BY TypeParts, AdmissionAssumption DEF AdmissionAssumption
<1>1. h \in Handlers /\ mailbox' \in Seq(Handlers) /\ handler[h] # Free /\ f \in Flights
  <2>1. IsNext("claiming") /\ Taken /\ "claiming" \in Steps
    BY DEF ClaimMutation, RefuseClaim, Steps
  <2> QED
    BY <1>0, <2>1, HeadOfMailbox DEF TaskType
<1>2. c \in Claim /\ <<c>> \in Seq(Claim)
  BY <1>0, <1>1 DEF Claim
<1>3. Pruned \in Seq(Claim) /\ PrunedReplays \subseteq Flights
  BY <1>0, PrunedType
<1>4. CASE ClaimMutation
  <2>1. /\ wal' = Append(wal, c) /\ order' = Append(Pruned, c)
        /\ replays' = PrunedReplays \cup {f} /\ Goes(h, "claimed")
        /\ claimed' = [claimed EXCEPT ![f] = time]
        /\ UNCHANGED <<time, guard, root, safeMode, snapshot, damaged, faults, admitted, effects,
                      forgotten>>
    BY <1>4 DEF ClaimMutation
  <2> HIDE DEF h, f, c
  <2>2. WindowType'
    BY <1>1, <1>2, <1>3, <2>1 DEF WindowType
  <2>3. StoreType'
    BY <1>0, <1>2, <2>1 DEF StoreType
  <2>4. PastType'
    BY <1>0, <1>1, <2>1 DEF PastType
  <2>5. TaskType'
    <3>1. "claimed" \in Steps
      BY DEF Steps
    <3> QED
      BY <1>0, <1>1, <2>1, <3>1, GoesOn DEF TaskType
  <2> QED
    BY <1>0, <2>1, <2>2, <2>3, <2>4, <2>5
       DEF AdmissionTypeOK, GuardType, StoreType, WindowType, PastType, TaskType, guard
<1>5. CASE RefuseClaim
  <2>1. /\ Ends(h) /\ UNCHANGED <<time, guard, root, snapshot, past>>
        /\ \/ UNCHANGED <<wal, damaged, safeMode, faults>>
           \/ WriteFails(<<c>>)
        /\ (order' = Pruned /\ replays' = PrunedReplays) \/ UNCHANGED window
    BY <1>5 DEF RefuseClaim
  <2> HIDE DEF h, f, c
  <2>2. WindowType'
    BY <1>0, <1>3, <2>1 DEF WindowType, window
  <2>3. StoreType' /\ faults' \in 0 .. MaxFaults
    <3>1. CASE WriteFails(<<c>>)
      BY <1>2, <2>1, <3>1, WriteFailsType
    <3>2. CASE UNCHANGED <<wal, damaged, safeMode, faults>>
      BY <1>0, <2>1, <3>2 DEF StoreType
    <3> QED
      BY <2>1, <3>1, <3>2
  <2>5. TaskType'
    BY <1>0, <1>1, <2>1, EndsFree DEF TaskType
  <2> QED
    BY <1>0, <2>1, <2>2, <2>3, <2>5
       DEF AdmissionTypeOK, GuardType, StoreType, WindowType, PastType, TaskType, guard, past
<1> QED
  BY <1>4, <1>5

\* A command, executed or refused (run_auth_actor).
LEMMA CommandType ==
    ASSUME AdmissionTypeOK, Change \/ Refused \/ Reset \/ RotateRoot
    PROVE  AdmissionTypeOK'
<1> DEFINE h == Head(mailbox)
           f == handler[h].flight
<1>0. /\ time \in 0 .. MaxSecond /\ faults \in 0 .. MaxFaults /\ root \in Nat
      /\ GuardType /\ StoreType /\ WindowType /\ PastType /\ TaskType
  BY TypeParts
<1>1. h \in Handlers /\ mailbox' \in Seq(Handlers) /\ handler[h] # Free /\ f \in Flights
  <2>1. IsNext("executing") /\ Taken /\ "executing" \in Steps
    BY DEF Change, Refused, Reset, RotateRoot, Steps
  <2> QED
    BY <1>0, <2>1, HeadOfMailbox DEF TaskType
<1>2. Ends(h) /\ UNCHANGED <<time, guard, admitted, claimed, forgotten>>
  BY DEF Change, Refused, Reset, RotateRoot, past
<1>3. (effects' = effects /\ Refused) \/ effects' = [effects EXCEPT ![f] = @ + 1]
  BY DEF Change, Refused, Reset, RotateRoot, past, TakesEffect
<1> HIDE DEF h, f
<1>4. PastType'
  <2>1. effects' \in [Flights -> Nat]
    <3>1. effects \in [Flights -> Nat] /\ effects[f] + 1 \in Nat
      BY <1>0, <1>1 DEF PastType
    <3> QED
      BY <1>3, <3>1
  <2>2. UNCHANGED <<admitted, claimed, forgotten>>
    BY <1>2
  <2> QED
    BY <1>0, <2>1, <2>2 DEF PastType
<1>5. TaskType'
  BY <1>0, <1>1, <1>2, EndsFree DEF TaskType
<1>6. root' \in Nat /\ WindowType'
  <2>1. UNCHANGED <<root, window>> \/ (root' = root + 1 /\ replays' = {} /\ order' = <<>>)
    BY DEF Change, Refused, Reset, RotateRoot
  <2>2. CASE UNCHANGED <<root, window>>
    BY <1>0, <2>2 DEF WindowType, window
  <2>3. CASE root' = root + 1 /\ replays' = {} /\ order' = <<>>
    BY <1>0, <2>3, EmptyQueue DEF WindowType
  <2> QED
    BY <2>1, <2>2, <2>3
<1>7. StoreType' /\ faults' \in 0 .. MaxFaults
  <2>1. CASE Change \/ Reset \/ RotateRoot
    <3>1. UNCHANGED store \/ Snapshotted(order) \/ Snapshotted(<<>>)
      BY <2>1 DEF Change, Reset, RotateRoot
    <3>2. (safeMode' = safeMode \/ safeMode' = FALSE) /\ faults' = faults
      BY <2>1 DEF Change, Reset, RotateRoot
    <3>3. order \in Seq(Claim) /\ <<>> \in Seq(Claim)
      BY <1>0 DEF WindowType
    <3> QED
      BY <1>0, <3>1, <3>2, <3>3 DEF Snapshotted, StoreType, store
  <2>2. CASE Refused
    <3>1. UNCHANGED snapshot
      BY <2>2 DEF Refused
    <3>2. WriteFails(<<>>) \/ UNCHANGED <<wal, damaged, safeMode, faults>>
      BY <2>2 DEF Refused
    <3>3. WriteFails(<<>>) => StoreType' /\ faults' \in 0 .. MaxFaults
      <4>1. <<>> \in Seq(Claim)
        OBVIOUS
      <4> QED
        BY <3>1, <4>1, WriteFailsType
    <3> QED
      BY <1>0, <3>1, <3>2, <3>3 DEF StoreType
  <2> QED
    BY <2>1, <2>2
<1> QED
  BY <1>0, <1>2, <1>4, <1>5, <1>6, <1>7
     DEF AdmissionTypeOK, GuardType, StoreType, WindowType, PastType, TaskType, guard

\* The actor's tick and the clock's.
LEMMA TickType ==
    ASSUME AdmissionTypeOK, Prune \/ Compact \/ CompactFails \/ ClockTicks
    PROVE  AdmissionTypeOK'
<1>0. /\ time \in 0 .. MaxSecond /\ faults \in 0 .. MaxFaults /\ root \in Nat
      /\ GuardType /\ StoreType /\ WindowType /\ PastType /\ TaskType /\ time \in Nat
      /\ MaxSecond \in Nat /\ MaxFaults \in Nat
  BY TypeParts, AdmissionAssumption DEF AdmissionAssumption
<1>1. Pruned \in Seq(Claim) /\ PrunedReplays \subseteq Flights
  BY <1>0, PrunedType
<1>2. UNCHANGED <<guard, root, handler, mailbox, past>>
  BY DEF Prune, Compact, CompactFails, ClockTicks
<1>3. time' \in 0 .. MaxSecond
  <2>1. UNCHANGED time \/ (time < MaxSecond /\ time' = time + 1)
    BY DEF Prune, Compact, CompactFails, ClockTicks
  <2> QED
    BY <1>0, <2>1
<1>4. faults' \in 0 .. MaxFaults
  <2>1. UNCHANGED faults \/ Fault
    BY DEF Prune, Compact, CompactFails, ClockTicks
  <2> QED
    BY <1>0, <2>1 DEF Fault
<1>5. WindowType'
  BY <1>0, <1>1 DEF Prune, Compact, CompactFails, ClockTicks, IsPruned, WindowType, window
<1>6. StoreType'
  <2>1. \/ UNCHANGED store
        \/ snapshot' = Pruned /\ damaged' \in {damaged, TRUE} /\ UNCHANGED wal
        \/ Snapshotted(Pruned)
    BY DEF Prune, Compact, CompactFails, ClockTicks
  <2>2. UNCHANGED safeMode \/ safeMode' = TRUE
    BY DEF Prune, Compact, CompactFails, ClockTicks
  <2> QED
    BY <1>0, <1>1, <2>1, <2>2, EmptyQueue DEF Snapshotted, StoreType, store
<1> QED
  BY <1>0, <1>2, <1>3, <1>4, <1>5, <1>6
     DEF AdmissionTypeOK, GuardType, StoreType, WindowType, PastType, TaskType, guard, past

\* A start (start_locked, load_persisted).
LEMMA RestartType ==
    ASSUME AdmissionTypeOK, StartAgain
    PROVE  AdmissionTypeOK'
<1>0. /\ time \in 0 .. MaxSecond /\ faults \in 0 .. MaxFaults /\ root \in Nat
      /\ GuardType /\ StoreType /\ WindowType /\ PastType /\ TaskType /\ time \in Nat
      /\ MaxFaults \in Nat
  BY TypeParts, AdmissionAssumption DEF AdmissionAssumption
<1>1. /\ handler' = [h \in Handlers |-> Free] /\ mailbox' = <<>> /\ safeMode' = damaged
      /\ order' = (IF damaged THEN <<>> ELSE Loaded(snapshot \o wal))
      /\ replays' = {c.flight : c \in ToSet(order')}
      /\ UNCHANGED <<time, root, torn, store, admitted, claimed, effects>>
      /\ Fault /\ Reopened
  BY DEF StartAgain
<1>2. WindowType'
  <2>1. order' \in Seq(Claim)
    <3>1. snapshot \o wal \in Seq(Claim)
      BY <1>0 DEF StoreType
    <3> QED
      <4>1. Loaded(snapshot \o wal) \in Seq(Claim) /\ <<>> \in Seq(Claim)
        BY <3>1, LoadedClaims, EmptyQueue
      <4> QED
        BY <1>1, <4>1
  <2>2. \A c \in ToSet(order') : c \in Claim
    BY <2>1 DEF ToSet
  <2> QED
    BY <1>1, <2>1, <2>2 DEF WindowType, Claim
<1>3. TaskType'
  BY <1>1 DEF TaskType, Task
<1>4. PastType'
  <2>1. forgotten' \subseteq Flights
    <3>1. forgotten' \subseteq forgotten \cup Flights
      BY DEF StartAgain
    <3> QED
      BY <1>0, <3>1 DEF PastType
  <2> QED
    BY <1>0, <1>1, <2>1 DEF PastType
<1>5. GuardType'
  <2>1. NewFilter(time) \in Filter(Flights)
    BY <1>0 DEF NewFilter, Filter
  <2>2. Restored(log, time) \in Filter(Flights)
    <3>1. filter \in Filter(Flights) /\ log \in SUBSET LogRecord(Flights)
      BY <1>0 DEF GuardType
    <3>2. CASE Flights = {}
      <4>1. log = {}
        BY <3>1, <3>2 DEF LogRecord
      <4> QED
        BY <1>0, <4>1 DEF Restored, Live, Filter
    <3>3. ASSUME NEW f \in Flights
          PROVE  Restored(log, time) \in Filter(Flights)
      BY <1>0, <3>1, FilterType
    <3> QED
      BY <3>2, <3>3
  <2>3. Live(log, time) \subseteq log
    BY DEF Live
  <2> QED
    BY <1>0, <1>1, <2>1, <2>2, <2>3 DEF Reopened, GuardType
<1>6. StoreType' /\ faults' \in 0 .. MaxFaults
  BY <1>0, <1>1 DEF StoreType, store, Fault
<1> QED
  BY <1>0, <1>1, <1>2, <1>3, <1>4, <1>5, <1>6 DEF AdmissionTypeOK, GuardType, StoreType, WindowType, PastType, TaskType

\* Every reachable state is of its type, for any flights, handlers, skew,
\* capacity and bounds.
THEOREM AdmissionTypeCorrect == AdmissionSpec => []AdmissionTypeOK
<1>1. AdmissionInit => AdmissionTypeOK
  <2> SUFFICES ASSUME AdmissionInit PROVE AdmissionTypeOK
    OBVIOUS
  <2>1. NewFilter(0) \in Filter(Flights)
    BY DEF NewFilter, Filter
  <2>2. time \in 0 .. MaxSecond /\ faults \in 0 .. MaxFaults /\ root \in Nat
    BY AdmissionAssumption DEF AdmissionAssumption, AdmissionInit
  <2>3. GuardType /\ TaskType
    BY <2>1, EmptyQueue DEF AdmissionInit, GuardType, TaskType, Task
  <2>4. StoreType /\ WindowType
    BY EmptyQueue DEF AdmissionInit, StoreType, WindowType
  <2>5. PastType
    BY DEF AdmissionInit, PastType
  <2> QED
    BY <2>2, <2>3, <2>4, <2>5, TypeParts
<1>2. AdmissionTypeOK /\ [AdmissionNext]_admissionVars => AdmissionTypeOK'
  <2>1. AdmissionTypeOK /\ AdmissionNext => AdmissionTypeOK'
    BY FlightType, SendsType, ClaimType, CommandType, TickType, RestartType DEF AdmissionNext
  <2>2. AdmissionTypeOK /\ UNCHANGED admissionVars => AdmissionTypeOK'
    BY DEF admissionVars, guard, window, store, past, AdmissionTypeOK
  <2> QED
    BY <2>1, <2>2
<1> QED
  BY <1>1, <1>2, PTL DEF AdmissionSpec

-----------------------------------------------------------------------------
(* First flights *)

\* The filter refuses the flight as long as a window has not passed: it is in
\* the current window, or in the previous one, which began after it.
Known(b, f) ==
    \/ time - admitted[f] >= Window
    \/ f \in b.current /\ admitted[f] <= b.started + Window
    \/ f \in b.previous /\ admitted[f] <= b.started

\* The log tells a start of every flight it must refuse, unless it is closed.
Recalled(f) ==
    \/ torn \/ time - admitted[f] > Window
    \/ [flight |-> f, at |-> admitted[f]] \in log

GuardInv ==
    /\ filter.started <= time
    /\ \A r \in log : r.at <= time
    /\ torn => blocked
    /\ \A f \in Flights : admitted[f] # Never =>
         admitted[f] <= time /\ (blocked \/ Known(filter, f)) /\ Recalled(f)

\* A rotation of the filter loses no flight that it has to refuse.
LEMMA RotatedKnows ==
    ASSUME AdmissionTypeOK, GuardInv
    PROVE  LET b == Rotated(filter, time) IN
           /\ b \in Filter(Flights) /\ b.started <= time /\ time <= b.started + Window
           /\ \A f \in Flights : admitted[f] # Never /\ Known(filter, f) => Known(b, f)
<1> DEFINE b == Rotated(filter, time)
           age == Elapsed(filter.started, time)
<1>0. /\ filter \in Filter(Flights) /\ time \in Nat /\ filter.started <= time
      /\ Window \in Nat \ {0} /\ filter.started \in Nat
      /\ \A f \in Flights : admitted[f] # Never => admitted[f] \in Nat /\ admitted[f] <= time
  BY TypeParts, AdmissionAssumption, WindowAssumption
     DEF AdmissionAssumption, WindowAssumption, GuardType, GuardInv, Filter, PastType
<1>1. age \in Nat /\ age = time - filter.started
  BY <1>0 DEF Elapsed
<1>2. CASE age < Window
  <2>0. age \notin Window .. 2 * Window - 1
    BY <1>0, <1>1, <1>2
  <2>1. b = filter
    BY <1>2, <2>0 DEF Rotated
  <2>2. time <= filter.started + Window
    BY <1>0, <1>1, <1>2
  <2>3. b \in Filter(Flights) /\ b.started <= time /\ time <= b.started + Window
    <3> HIDE DEF b
    <3> QED
      BY <1>0, <2>1, <2>2
  <2>4. \A f \in Flights : Known(filter, f) => Known(b, f)
    <3> HIDE DEF b
    <3> QED
      BY <2>1
  <2> QED
    BY <2>3, <2>4
<1>3. CASE age \in Window .. 2 * Window - 1
  <2>1. ~(age < Window)
    BY <1>0, <1>1, <1>3
  <2>2. b = [current |-> {}, previous |-> filter.current, started |-> time]
    BY <1>3, <2>1 DEF Rotated
  <2>3. b \in Filter(Flights) /\ b.previous = filter.current /\ b.started = time
    BY <1>0, <2>2 DEF Filter
  <2>4. ASSUME NEW f \in Flights, admitted[f] # Never, Known(filter, f)
        PROVE  Known(b, f)
    <3> HIDE DEF b
    <3> QED
      BY <1>0, <1>1, <2>1, <2>3, <2>4 DEF Known
  <2> QED
    BY <1>0, <2>3, <2>4
<1>4. CASE ~(age < Window) /\ age \notin Window .. 2 * Window - 1
  <2>1. b = NewFilter(time)
    BY <1>4 DEF Rotated
  <2>2. b \in Filter(Flights) /\ b.started = time
    BY <1>0, <2>1 DEF NewFilter, Filter
  <2>3. age >= 2 * Window
    BY <1>0, <1>1, <1>4
  <2>4. ASSUME NEW f \in Flights, admitted[f] # Never, Known(filter, f)
        PROVE  Known(b, f)
    <3>1. time - admitted[f] >= Window
      BY <1>0, <1>1, <2>3, <2>4 DEF Known
    <3> QED
      BY <3>1 DEF Known
  <2> QED
    BY <1>0, <2>2, <2>4
<1> QED
  BY <1>2, <1>3, <1>4

\* A flight that was admitted less than a window ago is refused.
LEMMA FreshIsNew ==
    ASSUME AdmissionTypeOK, GuardInv, ~blocked, NEW f \in Flights, Fresh(f), admitted[f] # Never
    PROVE  time - admitted[f] >= Window
BY RotatedKnows DEF GuardInv, Fresh, Remembers, Known

\* A filter in the place of the rotated one.
LEMMA RotatedGuard ==
    ASSUME AdmissionTypeOK, GuardInv, UNCHANGED time,
           \/ filter' = Rotated(filter, time)
           \/ \E f \in Flights : filter' = Remembering(Rotated(filter, time), f)
    PROVE  /\ filter'.started <= time /\ time <= filter'.started + Window
           /\ \A g \in Flights : admitted[g] # Never /\ admitted'[g] = admitted[g]
                                /\ Known(filter, g) => Known(filter, g)'
<1> DEFINE b == Rotated(filter, time)
<1>1. /\ b \in Filter(Flights) /\ b.started <= time /\ time <= b.started + Window
      /\ \A f \in Flights : admitted[f] # Never /\ Known(filter, f) => Known(b, f)
  BY RotatedKnows
<1>2. b.current \subseteq filter'.current /\ b.previous = filter'.previous /\ b.started = filter'.started
  <2> HIDE DEF b
  <2> QED
    BY <1>1 DEF b, Remembering, Filter
<1> HIDE DEF b
<1> QED
  BY <1>1, <1>2 DEF Known

\* The log behind the filter: it grows by a flight, or keeps what is live.
LEMMA LogGuard ==
    ASSUME AdmissionTypeOK, GuardInv, NEW f \in Flights, UNCHANGED time,
           \/ log' \in {log, Recorded(f), Live(Recorded(f), time)} /\ torn' = torn
           \/ log' = log /\ torn' = TRUE
    PROVE  /\ \A r \in log' : r.at <= time
           /\ \A g \in Flights : admitted[g] # Never /\ admitted'[g] = admitted[g] => Recalled(g)'
<1>0. /\ log \subseteq LogRecord(Flights) /\ time \in Nat /\ Window \in Nat \ {0}
      /\ \A g \in Flights : admitted[g] # Never => admitted[g] \in Nat /\ admitted[g] <= time
      /\ \A r \in log : r.at <= time
  BY TypeParts, AdmissionAssumption, WindowAssumption
     DEF AdmissionAssumption, WindowAssumption, GuardType, GuardInv, PastType
<1>1. \A r \in Recorded(f) : r.at <= time
  BY <1>0 DEF Recorded
<1>2. \A r \in log' : r.at <= time
  BY <1>0, <1>1 DEF Live
<1>3. ASSUME NEW g \in Flights, admitted[g] # Never, admitted'[g] = admitted[g]
      PROVE  Recalled(g)'
  <2> DEFINE r == [flight |-> g, at |-> admitted[g]]
  <2>1. r \in log => r \in Recorded(f)
    BY DEF Recorded
  <2>2. ~(time - admitted[g] > Window) => Elapsed(r.at, time) <= Window
    BY <1>0, <1>3 DEF Elapsed
  <2>3. r \in log /\ ~(time - admitted[g] > Window) => r \in log' \/ torn'
    <3> HIDE DEF r
    <3> QED
      BY <2>1, <2>2 DEF Live
  <2>4. torn \/ time - admitted[g] > Window \/ r \in log
    BY <1>3 DEF GuardInv, Recalled
  <2>5. torn => torn'
    OBVIOUS
  <2> QED
    BY <1>3, <2>3, <2>4, <2>5 DEF Recalled
<1> QED
  BY <1>2, <1>3

\* An admission: the flight is in the filter and in the log.
LEMMA AdmitGuard ==
    ASSUME AdmissionTypeOK, GuardInv, NEW h \in Handlers, Admit(h)
    PROVE  GuardInv'
<1>a. PICK f \in Flights : f = handler[h].flight
  <2>1. handler[h] # Free /\ handler \in [Handlers -> Task]
    BY TypeParts DEF Admit, IsRead, TaskType
  <2> QED
    BY <2>1 DEF Task
<1> DEFINE r == [flight |-> f, at |-> time]
<1>0. /\ time \in Nat /\ Window \in Nat \ {0}
      /\ admitted \in [Flights -> Nat \cup {Never}]
  BY TypeParts, AdmissionAssumption, WindowAssumption
     DEF AdmissionAssumption, WindowAssumption, PastType
<1>1. /\ filter' = Remembering(Rotated(filter, time), f) /\ ~blocked
      /\ log' \in {Recorded(f), Live(Recorded(f), time)} /\ torn' = torn
      /\ admitted' = [admitted EXCEPT ![f] = time] /\ UNCHANGED time
      /\ blocked => blocked'
  BY <1>a DEF Admit, Reserved, Rewritten
<1>2. /\ filter'.started <= time /\ time <= filter'.started + Window
      /\ \A g \in Flights : admitted[g] # Never /\ admitted'[g] = admitted[g]
                           /\ Known(filter, g) => Known(filter, g)'
  BY <1>0, <1>1, RotatedGuard
<1>3. /\ \A q \in log' : q.at <= time
      /\ \A g \in Flights : admitted[g] # Never /\ admitted'[g] = admitted[g] => Recalled(g)'
  BY <1>0, <1>1, LogGuard
<1>4. Known(filter, f)' /\ Recalled(f)' /\ admitted'[f] = time
  <2>1. admitted'[f] = time /\ time' = time
    BY <1>0, <1>1
  <2>2. f \in filter'.current
    <3>1. Rotated(filter, time) \in Filter(Flights)
      BY RotatedKnows
    <3> QED
      BY <1>1, <3>1 DEF Remembering, Filter
  <2>3. r \in Recorded(f) /\ Elapsed(r.at, time) <= Window
    BY <1>0 DEF Recorded, Elapsed
  <2>4. r \in log'
    <3> HIDE DEF r
    <3> QED
      BY <1>1, <2>3 DEF Live
  <2>5. Known(filter, f)'
    BY <1>2, <2>1, <2>2 DEF Known
  <2>6. Recalled(f)'
    BY <2>1, <2>4 DEF Recalled
  <2> QED
    BY <2>1, <2>5, <2>6
<1>5. ASSUME NEW g \in Flights, admitted'[g] # Never
      PROVE  admitted'[g] <= time' /\ (blocked' \/ Known(filter, g)') /\ Recalled(g)'
  <2>1. CASE g = f
    BY <1>0, <1>1, <1>4, <2>1
  <2>2. CASE g # f
    <3>1. admitted'[g] = admitted[g] /\ admitted[g] # Never
      BY <1>1, <1>5, <2>2
    <3> QED
      BY <1>1, <1>2, <1>3, <3>1 DEF GuardInv
  <2> QED
    BY <2>1, <2>2
<1> QED
  BY <1>1, <1>2, <1>3, <1>5 DEF GuardInv

\* A refusal, or the news of a rotation: the filter may rotate or take the
\* flight, and a record that cannot be written closes the log.
LEMMA RefuseGuard ==
    ASSUME AdmissionTypeOK, GuardInv, NEW h \in Handlers, Refuse(h) \/ TellRotated(h)
    PROVE  GuardInv'
<1> DEFINE f == handler[h].flight
<1>0. f \in Flights
  <2>1. handler[h] # Free /\ handler \in [Handlers -> Task]
    BY TypeParts DEF Refuse, TellRotated, IsRead, TaskType
  <2> QED
    BY <2>1 DEF Task
<1>1. UNCHANGED <<time, admitted>>
  BY DEF Refuse, TellRotated, past
<1>2. \/ UNCHANGED guard
      \/ /\ \/ filter' = Rotated(filter, time)
            \/ filter' = Remembering(Rotated(filter, time), f)
         /\ \/ log' \in {log, Recorded(f)} /\ torn' = torn
            \/ log' = log /\ torn' = TRUE /\ blocked' = TRUE
         /\ blocked => blocked'
  BY DEF Refuse, TellRotated, Reserved, NotReserved
<1> HIDE DEF f
<1>3. CASE UNCHANGED guard
  BY <1>1, <1>3 DEF guard, GuardInv, Known, Recalled
<1>4. CASE ~UNCHANGED guard
  <2>1. /\ filter'.started <= time
        /\ \A g \in Flights : admitted[g] # Never /\ Known(filter, g) => Known(filter, g)'
    BY <1>0, <1>1, <1>2, <1>4, RotatedGuard
  <2>2. /\ \A q \in log' : q.at <= time
        /\ \A g \in Flights : admitted[g] # Never => Recalled(g)'
    BY <1>0, <1>1, <1>2, <1>4, LogGuard
  <2>3. torn' => blocked'
    BY <1>2, <1>4 DEF GuardInv
  <2> QED
    BY <1>1, <1>2, <1>4, <2>1, <2>2, <2>3 DEF GuardInv
<1> QED
  BY <1>3, <1>4

\* Time passes.
LEMMA TickGuard ==
    ASSUME AdmissionTypeOK, GuardInv, ClockTicks
    PROVE  GuardInv'
<1>1. /\ time' = time + 1 /\ UNCHANGED <<guard, admitted>> /\ time \in Nat
      /\ Window \in Nat \ {0} /\ admitted \in [Flights -> Nat \cup {Never}]
      /\ filter \in Filter(Flights) /\ log \subseteq LogRecord(Flights)
  BY TypeParts, AdmissionAssumption, WindowAssumption
     DEF AdmissionAssumption, WindowAssumption, PastType, GuardType, ClockTicks, past
<1>2. ASSUME NEW g \in Flights, admitted'[g] # Never
      PROVE  admitted'[g] <= time' /\ (blocked' \/ Known(filter, g)') /\ Recalled(g)'
  <2>1. admitted[g] <= time /\ (blocked \/ Known(filter, g)) /\ Recalled(g) /\ admitted[g] \in Nat
    BY <1>1, <1>2 DEF GuardInv, guard
  <2>2. Known(filter, g) => Known(filter, g)'
    BY <1>1, <2>1 DEF Known, guard
  <2>3. Recalled(g)'
    BY <1>1, <2>1 DEF Recalled, guard
  <2> QED
    BY <1>1, <2>1, <2>2, <2>3 DEF guard
<1>3. filter'.started <= time' /\ \A r \in log' : r.at <= time'
  BY <1>1 DEF GuardInv, guard, Filter, LogRecord
<1> QED
  BY <1>1, <1>2, <1>3 DEF GuardInv, guard

\* A start: the filter is as old as the oldest record that is live, and knows
\* every flight that has one; a log that was cut off is closed again.
LEMMA RestartGuard ==
    ASSUME AdmissionTypeOK, GuardInv, StartAgain
    PROVE  GuardInv'
<1>0. /\ time \in Nat /\ Window \in Nat \ {0} /\ admitted \in [Flights -> Nat \cup {Never}]
      /\ log \subseteq LogRecord(Flights) /\ \A r \in log : r.at <= time
  BY TypeParts, AdmissionAssumption, WindowAssumption
     DEF AdmissionAssumption, WindowAssumption, PastType, GuardType, GuardInv
<1>1. UNCHANGED <<time, torn, admitted>> /\ Reopened
  BY DEF StartAgain
<1> DEFINE live == Live(log, time)
           times == {r.at : r \in live}
           oldest == CHOOSE at \in times : \A r \in live : at <= r.at
<1>2. ASSUME NEW g \in Flights, admitted[g] # Never
      PROVE  Recalled(g)'
  <2> DEFINE r == [flight |-> g, at |-> admitted[g]]
  <2>1. log' \in {log, live}
    BY <1>1 DEF Reopened
  <2>2. torn \/ time - admitted[g] > Window \/ r \in log
    BY <1>2 DEF GuardInv, Recalled
  <2>3. ~(time - admitted[g] > Window) => Elapsed(r.at, time) <= Window
    BY <1>0, <1>2 DEF Elapsed
  <2>4. torn \/ time - admitted[g] > Window \/ r \in log'
    <3> HIDE DEF r
    <3> QED
      BY <2>1, <2>2, <2>3 DEF Live
  <2> QED
    BY <1>1, <2>4 DEF Recalled
<1>3. \A r \in log' : r.at <= time
  BY <1>0, <1>1 DEF Reopened, Live
<1>4. CASE torn
  <2>1. filter' = NewFilter(time) /\ blocked'
    BY <1>1, <1>4 DEF Reopened
  <2>2. filter'.started <= time
    BY <1>0, <2>1 DEF NewFilter
  <2> QED
    BY <1>0, <1>1, <1>2, <1>3, <2>1, <2>2 DEF GuardInv
<1>5. CASE ~torn
  <2>1. filter' = [current |-> {r.flight : r \in live}, previous |-> {},
                   started |-> IF live = {} THEN time ELSE oldest]
    BY <1>1, <1>5 DEF Reopened, Restored
  <2>2. /\ filter'.current = {r.flight : r \in live}
        /\ filter'.started = IF live = {} THEN time ELSE oldest
    BY <2>1
  <2>3. live \subseteq log /\ \A r \in live : r.at \in Nat /\ time - r.at <= Window
    BY <1>0 DEF Live, LogRecord, Elapsed
  <2>4. live # {} => oldest \in times /\ \A r \in live : oldest <= r.at
    <3> SUFFICES ASSUME live # {} PROVE oldest \in times /\ \A r \in live : oldest <= r.at
      OBVIOUS
    <3>1. times # {} /\ times \in SUBSET Nat
      BY <2>3
    <3>2. \E at \in times : \A u \in times : at <= u
      <4> HIDE DEF times
      <4> QED
        BY <3>1, OldestRecord
    <3>3. \E at \in times : \A r \in live : at <= r.at
      BY <3>2
    <3> HIDE DEF live, times
    <3> QED
      BY <3>3
  <2>5. live # {} => \E r \in live : oldest = r.at
    <3> HIDE DEF oldest
    <3> QED
      BY <2>4
  <2> HIDE DEF live, times, oldest
  <2>6. filter'.started \in Nat /\ filter'.started <= time /\ time <= filter'.started + Window
    BY <1>0, <2>2, <2>3, <2>5
  <2>7. ASSUME NEW g \in Flights, admitted[g] # Never
        PROVE  Known(filter, g)'
    <3> DEFINE r == [flight |-> g, at |-> admitted[g]]
    <3>1. CASE time - admitted[g] >= Window
      BY <1>1, <3>1 DEF Known
    <3>2. CASE ~(time - admitted[g] >= Window)
      <4>1. r \in log
        BY <1>0, <1>5, <2>7, <3>2 DEF GuardInv, Recalled
      <4>2. Elapsed(r.at, time) <= Window
        BY <1>0, <2>7, <3>2 DEF Elapsed
      <4>3. r \in live
        BY <4>1, <4>2 DEF live, Live
      <4>4. g \in filter'.current
        BY <2>2, <4>3
      <4>5. admitted[g] <= time /\ admitted[g] \in Nat
        BY <1>0, <2>7 DEF GuardInv
      <4>6. admitted[g] <= filter'.started + Window
        BY <1>0, <2>6, <4>5
      <4> QED
        BY <1>1, <4>4, <4>6 DEF Known
    <3> QED
      BY <3>1, <3>2
  <2>8. torn' => blocked'
    BY <1>1, <1>5
  <2> QED
    BY <1>1, <1>2, <1>3, <2>6, <2>7, <2>8 DEF GuardInv
<1> QED
  BY <1>4, <1>5

\* What the guard keeps is kept.
LEMMA GuardStep ==
    ASSUME AdmissionTypeOK, GuardInv, [AdmissionNext]_admissionVars
    PROVE  GuardInv'
<1>1. ASSUME UNCHANGED <<time, guard, admitted>> PROVE GuardInv'
  BY <1>1 DEF guard, GuardInv, Known, Recalled
<1>2. ASSUME NEW h \in Handlers,
             Read(h) \/ Admit(h) \/ Refuse(h) \/ TellRotated(h) \/ SendClaim(h) \/ SendCommand(h)
      PROVE  GuardInv'
  <2>1. CASE Read(h) \/ SendClaim(h) \/ SendCommand(h)
    BY <1>1, <2>1 DEF Read, SendClaim, SendCommand, Sends, past
  <2> QED
    BY <1>2, <2>1, AdmitGuard, RefuseGuard
<1>3. CASE ClaimMutation \/ RefuseClaim \/ Change \/ Refused \/ Reset \/ RotateRoot
  BY <1>1, <1>3 DEF ClaimMutation, RefuseClaim, Change, Refused, Reset, RotateRoot, past
<1>4. CASE Prune \/ Compact \/ CompactFails
  BY <1>1, <1>4 DEF Prune, Compact, CompactFails, past
<1>5. CASE UNCHANGED admissionVars
  BY <1>1, <1>5 DEF admissionVars, past
<1> QED
  BY <1>2, <1>3, <1>4, <1>5, TickGuard, RestartGuard DEF AdmissionNext

\* Only the admission of its flight makes a handler that reads one that is
\* admitted.
LEMMA OnlyAdmits ==
    ASSUME AdmissionTypeOK, [AdmissionNext]_admissionVars, NEW h \in Handlers, IsRead(h),
           handler'[h] # Free, handler'[h].step = "admitted"
    PROVE  Admit(h)
<1>0. handler \in [Handlers -> Task] /\ mailbox \in Seq(Handlers)
      /\ handler[h].step = "reading" /\ handler[h] # Free
  BY TypeParts DEF TaskType, IsRead
<1>1. handler'[h] # handler[h]
  BY <1>0
<1>2. ASSUME NEW g \in Handlers, Read(g) \/ Ends(g) PROVE FALSE
  BY <1>0, <1>1, <1>2, EndsFree DEF Read
<1>3. ASSUME NEW g \in Handlers, NEW to \in Steps \ {"admitted"}, handler[g] # Free, Goes(g, to)
      PROVE FALSE
  BY <1>0, <1>1, <1>3, GoesOn
<1>4. ASSUME NEW g \in Handlers, Sends(g, "admitted", "claiming") \/ Sends(g, "claimed", "executing")
      PROVE  FALSE
  <2>1. handler[g] # Free
    BY <1>0, <1>4, StepIsTaken DEF Sends, Steps
  <2>2. Ends(g) \/ Goes(g, "claiming") \/ Goes(g, "executing")
    BY <1>4 DEF Sends
  <2> QED
    BY <1>2, <1>3, <2>1, <2>2 DEF Steps
<1>5. ASSUME NEW g \in Handlers, Admit(g), g # h PROVE FALSE
  <2>1. handler[g] # Free /\ Goes(g, "admitted") /\ "admitted" \in Steps
    BY <1>5 DEF Admit, IsRead, Steps
  <2> QED
    BY <1>0, <1>1, <1>5, <2>1, GoesOn
<1>6. ASSUME ClaimMutation \/ RefuseClaim \/ Change \/ Refused \/ Reset \/ RotateRoot PROVE FALSE
  <2> DEFINE g == Head(mailbox)
  <2>1. g \in Handlers /\ handler[g] # Free
    <3>1. PICK step \in {"claiming", "executing"} : IsNext(step) /\ Taken
      BY <1>6 DEF ClaimMutation, RefuseClaim, Change, Refused, Reset, RotateRoot
    <3> QED
      BY <1>0, <3>1, HeadOfMailbox DEF Steps
  <2>2. Ends(g) \/ Goes(g, "claimed")
    BY <1>6 DEF ClaimMutation, RefuseClaim, Change, Refused, Reset, RotateRoot
  <2> QED
    BY <1>2, <1>3, <2>1, <2>2 DEF Steps
<1>7. ASSUME Prune \/ Compact \/ CompactFails \/ ClockTicks \/ UNCHANGED admissionVars PROVE FALSE
  BY <1>1, <1>7 DEF Prune, Compact, CompactFails, ClockTicks, admissionVars
<1>8. ASSUME StartAgain PROVE FALSE
  BY <1>8 DEF StartAgain
<1>9. ASSUME NEW g \in Handlers,
             Read(g) \/ Admit(g) \/ Refuse(g) \/ TellRotated(g) \/ SendClaim(g) \/ SendCommand(g)
      PROVE  Admit(h)
  BY <1>2, <1>4, <1>5, <1>9 DEF Refuse, TellRotated, SendClaim, SendCommand
<1> QED
  BY <1>6, <1>7, <1>8, <1>9 DEF AdmissionNext

\* Replays of a first flight are refused for a window (evaluate_first_flight):
\* whatever connections bring them, whenever the filter rotates, and whatever
\* of the log a write that fails or a start leaves.
THEOREM ReplaysAreRefused == AdmissionSpec => FlightsAreNewForAWindow
<1> DEFINE P == \A h \in Handlers :
                  IsRead(h) /\ handler'[h] # Free /\ handler'[h].step = "admitted" =>
                    LET f == handler[h].flight IN
                    admitted[f] # Never => time - admitted[f] >= Window
<1>1. AdmissionInit => GuardInv
  BY DEF AdmissionInit, GuardInv, NewFilter
<1>2. AdmissionTypeOK /\ GuardInv /\ [AdmissionNext]_admissionVars => GuardInv'
  BY GuardStep
<1>3. AdmissionTypeOK /\ GuardInv /\ [AdmissionNext]_admissionVars => [P]_admissionVars
  <2> SUFFICES ASSUME AdmissionTypeOK, GuardInv, [AdmissionNext]_admissionVars, NEW h \in Handlers, IsRead(h),
                      handler'[h] # Free, handler'[h].step = "admitted",
                      admitted[handler[h].flight] # Never
               PROVE  time - admitted[handler[h].flight] >= Window
    OBVIOUS
  <2>1. Admit(h)
    BY OnlyAdmits
  <2>2. handler[h].flight \in Flights
    <3>1. handler[h] \in Task /\ handler[h] # Free
      BY TypeParts DEF TaskType, IsRead
    <3> QED
      BY <3>1 DEF Task
  <2>3. ~blocked /\ Fresh(handler[h].flight)
    BY <2>1 DEF Admit, Reserved
  <2> QED
    BY <2>2, <2>3, FreshIsNew
<1> QED
  BY <1>1, <1>2, <1>3, AdmissionTypeCorrect, PTL DEF AdmissionSpec, FlightsAreNewForAWindow

-----------------------------------------------------------------------------
(* Claims *)

FlightsOf(claims) == {c.flight : c \in claims}
Stored == ToSet(snapshot) \cup ToSet(wal)

\* A claim is made while its flight is timely.
Possible(c) == c.flight.stamp <= c.at + Skew

\* A claim of the flight would be taken: its root is in force, and it is not
\* too old.
Due(f) == f.root = root /\ time <= f.stamp + Skew

ClaimInv ==
    /\ \A c \in ToSet(order) \cup Stored : Possible(c)
    /\ \A f \in Flights : claimed[f] # Never =>
         f.root <= root /\ claimed[f] <= time /\ f.stamp <= claimed[f] + Skew
    /\ \A f \in Flights \ forgotten : claimed[f] # Never /\ Due(f) =>
         f \in replays /\ f \in FlightsOf(ToSet(order)) /\ f \in FlightsOf(Stored)

\* A handler was let in under the root its flight was sealed with.
TaskInv ==
    \A h \in Handlers : handler[h] # Free =>
      /\ handler[h].root <= root
      /\ handler[h].step # "reading" => handler[h].flight.root = handler[h].root

\* A prune drops no flight that is due.
LEMMA DueIsKept ==
    ASSUME AdmissionTypeOK, ClaimInv, NEW f \in Flights, time <= f.stamp + Skew
    PROVE  /\ f \in FlightsOf(ToSet(order)) => f \in FlightsOf(ToSet(Pruned))
           /\ f \in replays => f \in PrunedReplays
<1>0. /\ time \in Nat /\ Skew \in Nat /\ f.stamp \in Nat
      /\ ToSet(Pruned) = {c \in ToSet(order) : Within(c)}
      /\ \A c \in ToSet(order) : c \in Claim
  BY TypeParts, PrunedType, AdmissionAssumption DEF AdmissionAssumption, WindowType, ToSet
<1>1. ASSUME NEW c \in ToSet(order), c.flight = f
      PROVE  Within(c)
  <2>1. c.at \in Nat /\ f.stamp <= c.at + Skew
    BY <1>0, <1>1 DEF ClaimInv, Possible, Claim
  <2> QED
    BY <1>0, <2>1 DEF Within, Elapsed
<1> QED
  BY <1>0, <1>1 DEF FlightsOf, PrunedReplays

\* A step that leaves the window or prunes it, and leaves the files, adds to
\* them or makes a snapshot of the window.
LEMMA WindowStep ==
    ASSUME AdmissionTypeOK, ClaimInv, UNCHANGED <<time, root, claimed, forgotten>>,
           UNCHANGED window \/ IsPruned,
           \A c \in Stored' : c \in ToSet(order) \cup Stored \/ Possible(c),
           Stored \subseteq Stored' \/ ToSet(Pruned) \subseteq Stored'
    PROVE  ClaimInv'
<1>0. WindowType
  BY TypeParts
<1>1. ToSet(Pruned) \subseteq ToSet(order) /\ PrunedReplays \subseteq replays
  BY <1>0, PrunedType
<1>2. ToSet(order') \subseteq ToSet(order)
  BY <1>1 DEF IsPruned, window
<1>3. \A c \in ToSet(order') \cup Stored' : Possible(c)
  BY <1>2 DEF ClaimInv
<1>4. ASSUME NEW f \in Flights \ forgotten, claimed[f] # Never, Due(f)
      PROVE  f \in replays' /\ f \in FlightsOf(ToSet(order')) /\ f \in FlightsOf(Stored')
  <2>1. f \in replays /\ f \in FlightsOf(ToSet(order)) /\ f \in FlightsOf(Stored)
    BY <1>4 DEF ClaimInv
  <2>2. f \in FlightsOf(ToSet(Pruned)) /\ f \in PrunedReplays
    BY <1>4, <2>1, DueIsKept DEF Due
  <2> QED
    BY <2>1, <2>2 DEF IsPruned, window, FlightsOf
<1> QED
  BY <1>3, <1>4 DEF ClaimInv, Possible, Due

\* The claims of a handler's steps, and of the clock's.
LEMMA HandlersKeepClaims ==
    ASSUME AdmissionTypeOK, ClaimInv, UNCHANGED <<root, window, store, past>> \/
                             UNCHANGED <<root, window, store, claimed, forgotten>>,
           UNCHANGED time \/ ClockTicks
    PROVE  ClaimInv'
<1>0. /\ UNCHANGED <<root, replays, order, snapshot, wal, claimed, forgotten>>
      /\ time \in Nat /\ time' \in Nat /\ time <= time'
      /\ claimed \in [Flights -> Nat \cup {Never}]
      /\ Skew \in Nat /\ \A f \in Flights : f.stamp \in Nat
  BY TypeParts, AdmissionAssumption DEF AdmissionAssumption, window, store, past, ClockTicks, PastType
<1>1. \A f \in Flights : Due(f)' => Due(f)
  BY <1>0 DEF Due
<1>2. Stored' = Stored
  BY <1>0 DEF Stored
<1>3. \A f \in Flights : claimed[f] # Never => claimed[f] <= time'
  BY <1>0 DEF ClaimInv
<1> QED
  BY <1>0, <1>1, <1>2, <1>3 DEF ClaimInv, Possible

\* A claim: it is on disk and in the window.
LEMMA ClaimKept ==
    ASSUME AdmissionTypeOK, ClaimInv, TaskInv, ClaimMutation
    PROVE  ClaimInv'
<1>0. PICK h \in Handlers, f \in Flights :
        /\ h = Head(mailbox) /\ f = handler[h].flight /\ Claimable(h)
        /\ f.root = root
  <2> DEFINE h == Head(mailbox)
  <2>1. /\ h \in Handlers /\ handler[h] # Free /\ handler[h].step = "claiming"
        /\ handler[h].flight \in Flights
    BY TypeParts, HeadOfMailbox DEF ClaimMutation, TaskType, Steps
  <2>2. Claimable(h) /\ handler[h].root = root
    BY DEF ClaimMutation, Claimable, Authorised
  <2> QED
    BY <2>1, <2>2 DEF TaskInv
<1> DEFINE c == [flight |-> f, at |-> time]
<1>1. /\ wal' = Append(wal, c) /\ snapshot' = snapshot
      /\ order' = Append(Pruned, c) /\ replays' = PrunedReplays \cup {f}
      /\ claimed' = [claimed EXCEPT ![f] = time]
      /\ UNCHANGED <<time, root, forgotten>>
  BY <1>0 DEF ClaimMutation
<1>2. /\ time \in Nat /\ Skew \in Nat /\ f.stamp \in Nat /\ root \in Nat
      /\ claimed \in [Flights -> Nat \cup {Never}]
      /\ order \in Seq(Claim) /\ wal \in Seq(Claim) /\ Pruned \in Seq(Claim)
      /\ ToSet(Pruned) \subseteq ToSet(order)
  BY TypeParts, PrunedType, AdmissionAssumption
     DEF AdmissionAssumption, PastType, StoreType, WindowType
<1>3. c \in Claim /\ Possible(c) /\ c.flight = f
  <2>1. f.stamp <= time + Skew
    BY <1>0, <1>2 DEF Claimable, Timely
  <2> QED
    BY <1>2, <2>1 DEF Claim, Possible
<1> HIDE DEF c
<1>4. ToSet(order') = ToSet(Pruned) \cup {c} /\ Stored' = Stored \cup {c}
  <2>1. ToSet(Append(wal, c)) = ToSet(wal) \cup {c}
    BY <1>2, <1>3, Appended
  <2>2. ToSet(Append(Pruned, c)) = ToSet(Pruned) \cup {c}
    BY <1>2, <1>3, Appended
  <2>3. Stored' = ToSet(snapshot) \cup ToSet(Append(wal, c))
    BY <1>1 DEF Stored
  <2> QED
    BY <1>1, <2>1, <2>2, <2>3 DEF Stored
<1>5. \A d \in ToSet(order') \cup Stored' : Possible(d)
  BY <1>2, <1>3, <1>4 DEF ClaimInv
<1>6. ASSUME NEW g \in Flights, claimed'[g] # Never
      PROVE  g.root <= root' /\ claimed'[g] <= time' /\ g.stamp <= claimed'[g] + Skew
  <2>1. CASE g = f
    <3>1. claimed'[g] = time
      BY <1>1, <1>2, <2>1
    <3>2. f.stamp <= time + Skew
      BY <1>0, <1>2 DEF Claimable, Timely
    <3> QED
      BY <1>0, <1>1, <1>2, <2>1, <3>1, <3>2
  <2>2. CASE g # f
    <3>1. claimed'[g] = claimed[g]
      BY <1>1, <1>2, <2>2
    <3> QED
      BY <1>1, <1>6, <3>1 DEF ClaimInv
  <2> QED
    BY <2>1, <2>2
<1>7. ASSUME NEW g \in Flights \ forgotten, claimed'[g] # Never, Due(g)
      PROVE  g \in replays' /\ g \in FlightsOf(ToSet(order')) /\ g \in FlightsOf(Stored')
  <2>1. CASE g = f
    BY <1>1, <1>3, <1>4, <2>1 DEF FlightsOf
  <2>2. CASE g # f
    <3>1. g \in replays /\ g \in FlightsOf(ToSet(order)) /\ g \in FlightsOf(Stored)
      BY <1>1, <1>2, <1>7, <2>2 DEF ClaimInv
    <3>2. g \in FlightsOf(ToSet(Pruned)) /\ g \in PrunedReplays
      BY <1>7, <3>1, DueIsKept DEF Due
    <3> QED
      BY <1>1, <1>4, <3>1, <3>2 DEF FlightsOf
  <2> QED
    BY <2>1, <2>2
<1> QED
  BY <1>1, <1>5, <1>6, <1>7 DEF ClaimInv, Possible, Due

\* A write that fails leaves the records that were there.
LEMMA WriteFailsStored ==
    ASSUME AdmissionTypeOK, NEW record \in Seq(Claim), WriteFails(record), UNCHANGED snapshot
    PROVE  Stored \subseteq Stored' /\ Stored' \subseteq Stored \cup ToSet(record)
<1>1. wal \in Seq(Claim)
  BY TypeParts DEF StoreType
<1>2. wal' = wal \/ wal' = wal \o record
  BY DEF WriteFails
<1>3. ToSet(wal \o record) = ToSet(wal) \cup ToSet(record)
  BY <1>1, Joined
<1> QED
  BY <1>2, <1>3 DEF Stored

\* A claim that is refused: the record may be in the log all the same.
LEMMA RefusedClaimKept ==
    ASSUME AdmissionTypeOK, ClaimInv, RefuseClaim
    PROVE  ClaimInv'
<1> DEFINE h == Head(mailbox)
           f == handler[h].flight
           c == [flight |-> f, at |-> time]
<1>0. /\ f \in Flights /\ time \in Nat /\ Skew \in Nat /\ f.stamp \in Nat
  <2>1. f \in Flights
    BY TypeParts, HeadOfMailbox DEF RefuseClaim, TaskType, Steps
  <2> QED
    BY <2>1, TypeParts, AdmissionAssumption DEF AdmissionAssumption
<1>1. /\ UNCHANGED <<time, root, claimed, forgotten>> /\ UNCHANGED snapshot
      /\ UNCHANGED window \/ IsPruned
      /\ \/ UNCHANGED wal
         \/ Claimable(h) /\ WriteFails(<<c>>)
  BY DEF RefuseClaim, IsPruned, past
<1>2. CASE UNCHANGED wal
  <2>1. Stored' = Stored
    BY <1>1, <1>2 DEF Stored
  <2> QED
    BY <1>1, <2>1, WindowStep
<1>3. CASE Claimable(h) /\ WriteFails(<<c>>)
  <2>1. c \in Claim
    BY <1>0 DEF Claim
  <2>2. Possible(c)
    <3>1. f.stamp <= time + Skew
      BY <1>0, <1>3 DEF Claimable, Timely
    <3> QED
      BY <3>1 DEF Possible
  <2> HIDE DEF c, h
  <2>3. Stored \subseteq Stored' /\ Stored' \subseteq Stored \cup {c}
    BY <1>1, <1>3, <2>1, OneClaim, WriteFailsStored
  <2>4. \A d \in Stored' : d \in ToSet(order) \cup Stored \/ Possible(d)
    BY <2>2, <2>3
  <2> QED
    BY <1>1, <2>3, <2>4, WindowStep
<1> QED
  BY <1>1, <1>2, <1>3

\* A snapshot of the window, with the log truncated or not.
LEMMA SnapshotStored ==
    ASSUME AdmissionTypeOK, NEW claims \in {order, Pruned},
           snapshot' = claims, wal' = <<>> \/ wal' = wal
    PROVE  /\ ToSet(Pruned) \subseteq Stored'
           /\ Stored' \subseteq ToSet(order) \cup Stored
<1>1. ToSet(Pruned) \subseteq ToSet(order)
  BY TypeParts, PrunedType
<1> QED
  BY <1>1, EmptyQueue DEF Stored

\* A command: the snapshot it makes has the window, or the root is another.
LEMMA CommandKept ==
    ASSUME AdmissionTypeOK, ClaimInv, Change \/ Refused \/ Reset \/ RotateRoot
    PROVE  ClaimInv'
<1>1. CASE Change \/ Reset
  <2>1. /\ UNCHANGED <<time, root, claimed, forgotten>> /\ UNCHANGED window
        /\ UNCHANGED store \/ Snapshotted(order)
    BY <1>1 DEF Change, Reset
  <2>2. CASE UNCHANGED store
    <3>1. Stored' = Stored
      BY <2>2 DEF store, Stored
    <3> QED
      BY <2>1, <3>1, WindowStep
  <2>3. CASE Snapshotted(order)
    <3>1. ToSet(Pruned) \subseteq Stored' /\ Stored' \subseteq ToSet(order) \cup Stored
      BY <2>3, SnapshotStored DEF Snapshotted
    <3> QED
      BY <2>1, <3>1, WindowStep
  <2> QED
    BY <2>1, <2>2, <2>3
<1>2. CASE Refused
  <2>1. /\ UNCHANGED <<time, root, claimed, forgotten>> /\ UNCHANGED window
        /\ UNCHANGED snapshot /\ (WriteFails(<<>>) \/ UNCHANGED wal)
    BY <1>2 DEF Refused, past
  <2>2. Stored' = Stored
    <3>1. CASE WriteFails(<<>>)
      BY <2>1, <3>1, EmptyQueue, WriteFailsStored
    <3>2. CASE UNCHANGED wal
      BY <2>1, <3>2 DEF Stored
    <3> QED
      BY <2>1, <3>1, <3>2
  <2> QED
    BY <2>1, <2>2, WindowStep
<1>3. CASE RotateRoot
  <2>1. /\ UNCHANGED <<time, claimed, forgotten>> /\ root' = root + 1
        /\ order' = <<>> /\ snapshot' = <<>> /\ wal' = <<>>
    BY <1>3 DEF RotateRoot, Snapshotted
  <2>2. ToSet(order') \cup Stored' = {}
    BY <2>1, EmptyQueue DEF Stored
  <2>3. root \in Nat /\ \A f \in Flights : f.root \in Nat
    BY TypeParts, AdmissionAssumption DEF AdmissionAssumption
  <2>4. ASSUME NEW f \in Flights, claimed[f] # Never
        PROVE  f.root <= root' /\ ~(f.root = root')
    <3>1. f.root <= root
      BY <2>4 DEF ClaimInv
    <3> QED
      BY <2>1, <2>3, <3>1
  <2> QED
    BY <2>1, <2>2, <2>4 DEF ClaimInv, Possible, Due
<1> QED
  BY <1>1, <1>2, <1>3

\* The actor's tick.
LEMMA CompactionKept ==
    ASSUME AdmissionTypeOK, ClaimInv, Prune \/ Compact \/ CompactFails
    PROVE  ClaimInv'
<1>1. /\ UNCHANGED <<time, root, claimed, forgotten>> /\ IsPruned
      /\ \/ UNCHANGED store
         \/ snapshot' = Pruned /\ (wal' = <<>> \/ wal' = wal)
  BY DEF Prune, Compact, CompactFails, Snapshotted, past
<1>2. CASE UNCHANGED store
  <2>1. Stored' = Stored
    BY <1>2 DEF store, Stored
  <2> QED
    BY <1>1, <2>1, WindowStep
<1>3. CASE snapshot' = Pruned /\ (wal' = <<>> \/ wal' = wal)
  <2>1. ToSet(Pruned) \subseteq Stored' /\ Stored' \subseteq ToSet(order) \cup Stored
    BY <1>3, SnapshotStored
  <2> QED
    BY <1>1, <2>1, WindowStep
<1> QED
  BY <1>1, <1>2, <1>3

\* A start: what it finds, or it has lost the claim.
LEMMA RestartKept ==
    ASSUME AdmissionTypeOK, ClaimInv, StartAgain
    PROVE  ClaimInv'
<1>0. /\ snapshot \in Seq(Claim) /\ wal \in Seq(Claim) /\ time \in Nat /\ Skew \in Nat
      /\ claimed \in [Flights -> Nat \cup {Never}] /\ \A f \in Flights : f.stamp \in Nat
  BY TypeParts, AdmissionAssumption DEF AdmissionAssumption, StoreType, PastType
<1>1. /\ order' = (IF damaged THEN <<>> ELSE Loaded(snapshot \o wal))
      /\ replays' = {c.flight : c \in ToSet(order')}
      /\ forgotten' = forgotten \cup
           ({f \in Flights : claimed[f] # Never /\ f.root = root
                               /\ Elapsed(claimed[f], time) <= 2 * Skew} \ replays')
      /\ UNCHANGED <<time, root, store, claimed>>
  BY DEF StartAgain
<1>2. Stored' = Stored
  BY <1>1 DEF store, Stored
<1>3. ToSet(order') \subseteq Stored
  <2>1. snapshot \o wal \in Seq(Claim) /\ ToSet(snapshot \o wal) = Stored
    BY <1>0, Joined DEF Stored
  <2>2. ToSet(Loaded(snapshot \o wal)) \subseteq Stored
    BY <2>1, LoadedClaims
  <2> QED
    BY <1>1, <2>2, EmptyQueue
<1>4. \A c \in ToSet(order') \cup Stored' : Possible(c)
  BY <1>2, <1>3 DEF ClaimInv
<1>5. ASSUME NEW f \in Flights \ forgotten', claimed[f] # Never, Due(f)
      PROVE  f \in replays' /\ f \in FlightsOf(ToSet(order')) /\ f \in FlightsOf(Stored')
  <2>1. f.stamp <= claimed[f] + Skew /\ claimed[f] \in Nat
    BY <1>0, <1>5 DEF ClaimInv
  <2>2. Elapsed(claimed[f], time) <= 2 * Skew
    BY <1>0, <1>5, <2>1 DEF Due, Elapsed
  <2>3. f \in replays'
    BY <1>1, <1>5, <2>2 DEF Due
  <2>4. f \notin forgotten
    BY <1>1, <1>5
  <2> QED
    BY <1>1, <1>2, <1>5, <2>3, <2>4 DEF FlightsOf, ClaimInv
<1> QED
  BY <1>1, <1>4, <1>5 DEF ClaimInv, Possible, Due

\* The handlers' part.
LEMMA TaskStep ==
    ASSUME AdmissionTypeOK, TaskInv, AdmissionNext
    PROVE  TaskInv'
<1>0. /\ handler \in [Handlers -> Task] /\ mailbox \in Seq(Handlers) /\ root \in Nat
      /\ \A h \in Handlers : handler[h] # Free => handler[h].root \in Nat
  BY TypeParts DEF TaskType, Task
<1>1. ASSUME NEW h \in Handlers, Ends(h), root' \in {root, root + 1}
      PROVE  TaskInv'
  <2>1. \A g \in Handlers : handler'[g] # Free => handler'[g] = handler[g]
    BY <1>0, <1>1, EndsFree
  <2> QED
    BY <1>0, <1>1, <2>1 DEF TaskInv
<1>2. ASSUME NEW h \in Handlers, NEW to \in Steps, handler[h] # Free, Goes(h, to),
             handler[h].flight.root = handler[h].root, UNCHANGED root
      PROVE  TaskInv'
  BY <1>0, <1>2, GoesOn DEF TaskInv
<1>3. ASSUME NEW h \in Handlers, Read(h) PROVE TaskInv'
  <2>1. PICK f \in Flights :
          /\ handler' = [handler EXCEPT ![h] = [step |-> "reading", flight |-> f, root |-> root]]
          /\ UNCHANGED root
    BY <1>3 DEF Read
  <2> QED
    BY <1>0, <2>1 DEF TaskInv
<1>4. ASSUME NEW h \in Handlers, Admit(h) PROVE TaskInv'
  BY <1>2, <1>4 DEF Admit, IsRead, Authentic, Steps
<1>5. ASSUME NEW h \in Handlers, Refuse(h) \/ TellRotated(h) PROVE TaskInv'
  BY <1>1, <1>5 DEF Refuse, TellRotated
<1>6. ASSUME NEW h \in Handlers, NEW from \in Steps \ {"reading"}, NEW to \in Steps,
             Sends(h, from, to)
      PROVE  TaskInv'
  <2>1. handler[h] # Free /\ handler[h].flight.root = handler[h].root
    BY <1>0, <1>6, StepIsTaken DEF Sends, TaskInv
  <2> QED
    BY <1>1, <1>2, <1>6, <2>1 DEF Sends
<1>7. ASSUME NEW h \in Handlers, SendClaim(h) \/ SendCommand(h) PROVE TaskInv'
  BY <1>6, <1>7 DEF SendClaim, SendCommand, Steps
<1>8. CASE ClaimMutation
  <2> DEFINE h == Head(mailbox)
  <2>1. h \in Handlers /\ handler[h] # Free /\ handler[h].step = "claiming"
    BY <1>0, <1>8, HeadOfMailbox DEF ClaimMutation, Steps
  <2>2. Goes(h, "claimed") /\ UNCHANGED root /\ "claimed" \in Steps
    BY <1>8 DEF ClaimMutation, Steps
  <2> QED
    BY <1>2, <2>1, <2>2 DEF TaskInv
<1>9. CASE RefuseClaim \/ Change \/ Refused \/ Reset \/ RotateRoot
  <2>1. Head(mailbox) \in Handlers
    BY <1>0, <1>9, HeadOfMailbox DEF RefuseClaim, Change, Refused, Reset, RotateRoot, Steps
  <2>2. Ends(Head(mailbox)) /\ root' \in {root, root + 1}
    BY <1>9 DEF RefuseClaim, Change, Refused, Reset, RotateRoot
  <2> QED
    BY <1>1, <2>1, <2>2
<1>10. CASE Prune \/ Compact \/ CompactFails \/ ClockTicks
  BY <1>10 DEF Prune, Compact, CompactFails, ClockTicks, TaskInv
<1>11. CASE StartAgain
  BY <1>11 DEF StartAgain, TaskInv
<1> QED
  BY <1>3, <1>4, <1>5, <1>7, <1>8, <1>9, <1>10, <1>11 DEF AdmissionNext

LEMMA ClaimStep ==
    ASSUME AdmissionTypeOK, ClaimInv, TaskInv, AdmissionNext
    PROVE  ClaimInv'
<1>1. ASSUME NEW h \in Handlers,
             Read(h) \/ Admit(h) \/ Refuse(h) \/ TellRotated(h) \/ SendClaim(h) \/ SendCommand(h)
      PROVE  ClaimInv'
  BY <1>1, HandlersKeepClaims
     DEF Read, Admit, Refuse, TellRotated, SendClaim, SendCommand, Sends, past
<1>2. CASE ClockTicks
  BY <1>2, HandlersKeepClaims DEF ClockTicks
<1> QED
  BY <1>1, <1>2, ClaimKept, RefusedClaimKept, CommandKept, CompactionKept, RestartKept DEF AdmissionNext

\* What was claimed is in the window of the actor, and in the files the next
\* start reads, as long as its flight could be claimed again
\* (actor_claim_admin_mutation): over prunes, compactions that fail half way,
\* resets, refused records and starts.
THEOREM ClaimsStay == AdmissionSpec => []ClaimsAreDurable
<1>1. AdmissionInit => ClaimInv /\ TaskInv
  BY EmptyQueue DEF AdmissionInit, ClaimInv, TaskInv, Stored
<1>2. AdmissionTypeOK /\ ClaimInv /\ TaskInv /\ [AdmissionNext]_admissionVars => ClaimInv' /\ TaskInv'
  <2>1. AdmissionTypeOK /\ ClaimInv /\ TaskInv /\ UNCHANGED admissionVars => ClaimInv' /\ TaskInv'
    BY DEF admissionVars, window, store, past, ClaimInv, TaskInv, Stored, Possible, Due
  <2> QED
    BY <2>1, ClaimStep, TaskStep
<1>3. AdmissionTypeOK /\ ClaimInv => ClaimsAreDurable
  <2> SUFFICES ASSUME AdmissionTypeOK, ClaimInv, NEW f \in Flights \ forgotten,
                      claimed[f] # Never, f.root = root, Timely(f)
               PROVE  f \in replays /\ f \in {c.flight : c \in ToSet(snapshot \o wal)}
    BY DEF ClaimsAreDurable
  <2>1. Due(f)
    <3>1. time \in Nat /\ Skew \in Nat /\ f.stamp \in Nat
      BY TypeParts, AdmissionAssumption DEF AdmissionAssumption
    <3> QED
      BY <3>1 DEF Due, Timely
  <2>2. ToSet(snapshot \o wal) = Stored
    BY TypeParts, Joined DEF StoreType, Stored
  <2> QED
    BY <2>1, <2>2 DEF ClaimInv, FlightsOf
<1> QED
  BY <1>1, <1>2, <1>3, AdmissionTypeCorrect, PTL DEF AdmissionSpec

-----------------------------------------------------------------------------
(* Effects *)

\* The handler may still let the flight take effect.
Pending(h, f) ==
    /\ handler[h] # Free /\ handler[h].step \in {"claimed", "executing"}
    /\ handler[h].flight = f /\ handler[h].root = root

\* One handler at most has claimed the flight, and it has had no effect before.
Once(f) ==
    /\ effects[f] > 0 => effects[f] = 1 /\ claimed[f] # Never
    /\ \A h \in Handlers : Pending(h, f) =>
         /\ effects[f] = 0 /\ claimed[f] # Never
         /\ \A g \in Handlers : Pending(g, f) => g = h

OnceInv == \A f \in Flights \ forgotten : Once(f)

\* A flight is as it was when no handler gets to execute it.
LEMMA OnceStays ==
    ASSUME NEW f \in Flights, Once(f), effects'[f] = effects[f], claimed'[f] = claimed[f],
           \A h \in Handlers : Pending(h, f)' => Pending(h, f)
    PROVE  Once(f)'
BY DEF Once

\* A claim is of a flight that was not claimed before, or is lost.
LEMMA ClaimIsFirst ==
    ASSUME AdmissionTypeOK, ClaimInv, TaskInv, NEW h \in Handlers, handler[h] # Free,
           handler[h].step = "claiming", Claimable(h),
           handler[h].flight \notin forgotten
    PROVE  claimed[handler[h].flight] = Never
<1> DEFINE f == handler[h].flight
<1>1. f \in Flights /\ f.root = root /\ f \notin PrunedReplays /\ Timely(f)
  <2>1. handler[h] \in Task
    BY TypeParts DEF TaskType
  <2> QED
    BY <2>1 DEF Task, TaskInv, Claimable, Authorised
<1>2. time <= f.stamp + Skew
  <2>1. time \in Nat /\ Skew \in Nat /\ f.stamp \in Nat
    BY <1>1, TypeParts, AdmissionAssumption DEF AdmissionAssumption
  <2> QED
    BY <1>1, <2>1 DEF Timely
<1>3. f \notin replays
  BY <1>1, <1>2, DueIsKept
<1> QED
  BY <1>1, <1>2, <1>3 DEF ClaimInv, Due

LEMMA OnceStep ==
    ASSUME AdmissionTypeOK, ClaimInv, TaskInv, OnceInv, AdmissionNext
    PROVE  OnceInv'
<1>0. /\ handler \in [Handlers -> Task] /\ mailbox \in Seq(Handlers) /\ root \in Nat
      /\ \A h \in Handlers : handler[h] # Free => handler[h].root \in Nat
      /\ claimed \in [Flights -> Nat \cup {Never}] /\ effects \in [Flights -> Nat]
      /\ time \in Nat
  BY TypeParts, AdmissionAssumption DEF AdmissionAssumption, TaskType, Task, PastType
<1>1. ASSUME UNCHANGED <<claimed, effects, forgotten>>,
             \A h \in Handlers, f \in Flights : Pending(h, f)' => Pending(h, f)
      PROVE  OnceInv'
  <2> SUFFICES ASSUME NEW f \in Flights \ forgotten PROVE Once(f)'
    BY <1>1 DEF OnceInv
  <2> QED
    BY <1>1, OnceStays DEF OnceInv
<1>2. ASSUME NEW h \in Handlers, Ends(h), UNCHANGED root
      PROVE  \A g \in Handlers, f \in Flights : Pending(g, f)' => Pending(g, f) /\ g # h
  <2>1. \A g \in Handlers : handler'[g] # Free => handler'[g] = handler[g] /\ g # h
    BY <1>0, <1>2, EndsFree
  <2> QED
    BY <1>2, <2>1 DEF Pending
<1>3. ASSUME NEW h \in Handlers, NEW to \in Steps, handler[h] # Free, Goes(h, to), UNCHANGED root,
             to \in {"claimed", "executing"} => handler[h].step \in {"claimed", "executing"}
      PROVE  \A g \in Handlers, f \in Flights : Pending(g, f)' => Pending(g, f)
  <2> SUFFICES ASSUME NEW g \in Handlers, NEW f \in Flights, Pending(g, f)'
               PROVE  Pending(g, f)
    OBVIOUS
  <2>1. CASE g = h
    <3>1. /\ handler'[h].step = to /\ handler'[h].flight = handler[h].flight
          /\ handler'[h].root = handler[h].root
      BY <1>0, <1>3, GoesOn
    <3> QED
      BY <1>3, <2>1, <3>1 DEF Pending
  <2>2. CASE g # h
    <3>1. handler'[g] = handler[g]
      BY <1>0, <1>3, <2>2, GoesOn
    <3> QED
      BY <1>3, <3>1 DEF Pending
  <2> QED
    BY <2>1, <2>2
<1>4. ASSUME NEW h \in Handlers, Read(h) PROVE OnceInv'
  <2>1. PICK f \in Flights :
          /\ handler' = [handler EXCEPT ![h] = [step |-> "reading", flight |-> f, root |-> root]]
          /\ UNCHANGED <<root, claimed, effects, forgotten>>
    BY <1>4 DEF Read, past
  <2>2. handler'[h].step = "reading" /\ \A g \in Handlers \ {h} : handler'[g] = handler[g]
    BY <1>0, <2>1
  <2>3. \A g \in Handlers, e \in Flights : Pending(g, e)' => Pending(g, e)
    BY <2>1, <2>2 DEF Pending
  <2> QED
    BY <1>1, <2>1, <2>3
<1>5. ASSUME NEW h \in Handlers, Admit(h) PROVE OnceInv'
  <2>1. /\ handler[h] # Free /\ Goes(h, "admitted") /\ "admitted" \in Steps
        /\ UNCHANGED <<root, claimed, effects, forgotten>>
    BY <1>5 DEF Admit, IsRead, Steps
  <2> QED
    BY <1>1, <1>3, <2>1
<1>6. ASSUME NEW h \in Handlers, Refuse(h) \/ TellRotated(h) PROVE OnceInv'
  <2>1. Ends(h) /\ UNCHANGED <<root, claimed, effects, forgotten>>
    BY <1>6 DEF Refuse, TellRotated, past
  <2> QED
    BY <1>1, <1>2, <2>1
<1>7. ASSUME NEW h \in Handlers, SendClaim(h) \/ SendCommand(h) PROVE OnceInv'
  <2>1. UNCHANGED <<root, claimed, effects, forgotten>>
    BY <1>7 DEF SendClaim, SendCommand, Sends, past
  <2>2. \/ Ends(h)
        \/ handler[h].step = "admitted" /\ Goes(h, "claiming")
        \/ handler[h].step = "claimed" /\ Goes(h, "executing")
    BY <1>7 DEF SendClaim, SendCommand, Sends
  <2>3. handler[h].step \in {"admitted", "claimed"} => handler[h] # Free
    BY <1>0, StepIsTaken DEF Steps
  <2>4. \A g \in Handlers, f \in Flights : Pending(g, f)' => Pending(g, f)
    BY <1>2, <1>3, <2>1, <2>2, <2>3 DEF Steps
  <2> QED
    BY <1>1, <2>1, <2>4
<1>8. CASE ClaimMutation
  <2> DEFINE h == Head(mailbox)
  <2>1. PICK k \in Handlers, e \in Flights :
          /\ k = h /\ e = handler[k].flight /\ handler[k] # Free /\ handler[k].step = "claiming"
          /\ Claimable(k) /\ Goes(k, "claimed") /\ claimed' = [claimed EXCEPT ![e] = time]
          /\ UNCHANGED <<root, effects, forgotten>>
    <3>1. h \in Handlers /\ handler[h] # Free /\ handler[h].step = "claiming"
          /\ handler[h].flight \in Flights
      BY <1>0, <1>8, HeadOfMailbox DEF ClaimMutation, Steps
    <3> QED
      BY <1>8, <3>1 DEF ClaimMutation
  <2>2. /\ handler'[k].flight = e
        /\ \A g \in Handlers \ {k} : handler'[g] = handler[g]
    BY <1>0, <2>1, GoesOn DEF Steps
  <2>3. \A g \in Handlers, f \in Flights : Pending(g, f)' => Pending(g, f) \/ (g = k /\ f = e)
    BY <2>1, <2>2 DEF Pending
  <2>4. ASSUME NEW f \in Flights \ forgotten
        PROVE  Once(f)'
    <3>1. CASE f # e
      BY <1>0, <2>1, <2>3, <2>4, <3>1, OnceStays DEF OnceInv
    <3>2. CASE f = e
      <4>1. claimed[e] = Never
        BY <2>1, <2>4, <3>2, ClaimIsFirst
      <4>2. effects[e] = 0 /\ \A g \in Handlers : ~Pending(g, e)
        BY <1>0, <2>4, <3>2, <4>1 DEF OnceInv, Once
      <4>3. effects'[e] = 0 /\ claimed'[e] # Never
        <5>1. claimed'[e] = time
          BY <1>0, <2>1
        <5> QED
          BY <1>0, <2>1, <4>2, <5>1 DEF Never
      <4>4. \A g \in Handlers : Pending(g, e)' => g = k
        BY <2>3, <4>2
      <4> QED
        BY <3>2, <4>3, <4>4 DEF Once
    <3> QED
      BY <3>1, <3>2
  <2> QED
    BY <2>1, <2>4 DEF OnceInv
<1>9. CASE RefuseClaim \/ Refused
  <2>1. Head(mailbox) \in Handlers
    BY <1>0, <1>9, HeadOfMailbox DEF RefuseClaim, Refused, Steps
  <2>2. Ends(Head(mailbox)) /\ UNCHANGED <<root, claimed, effects, forgotten>>
    BY <1>9 DEF RefuseClaim, Refused, past
  <2> QED
    BY <1>1, <1>2, <2>1, <2>2
<1>10. CASE Change \/ Reset \/ RotateRoot
  <2>1. PICK k \in Handlers, e \in Flights :
          /\ k = Head(mailbox) /\ e = handler[k].flight /\ handler[k] # Free
          /\ handler[k].step = "executing" /\ Authorised(k) /\ Ends(k) /\ TakesEffect(e)
          /\ UNCHANGED <<claimed, forgotten>> /\ root' \in {root, root + 1}
    <3> DEFINE h == Head(mailbox)
    <3>1. h \in Handlers /\ handler[h] # Free /\ handler[h].step = "executing"
          /\ handler[h].flight \in Flights
      BY <1>0, <1>10, HeadOfMailbox DEF Change, Reset, RotateRoot, Steps
    <3> QED
      BY <1>10, <3>1 DEF Change, Reset, RotateRoot
  <2>2. \A g \in Handlers : handler'[g] # Free => handler'[g] = handler[g] /\ g # k
    BY <1>0, <2>1, EndsFree
  <2>3. ASSUME NEW g \in Handlers, NEW f \in Flights, Pending(g, f)'
        PROVE  Pending(g, f) /\ g # k
    <3>1. handler'[g] = handler[g] /\ g # k /\ handler[g] # Free
      BY <2>2, <2>3 DEF Pending
    <3>2. handler[g].root = root' /\ handler[g].root <= root
      BY <2>3, <3>1 DEF Pending, TaskInv
    <3>3. root' = root
      BY <1>0, <2>1, <3>1, <3>2
    <3> QED
      BY <2>3, <3>1, <3>3 DEF Pending
  <2>4. Pending(k, e)
    BY <2>1 DEF Pending, Authorised
  <2>5. ASSUME NEW f \in Flights \ forgotten
        PROVE  Once(f)'
    <3>1. CASE f # e
      BY <1>0, <2>1, <2>3, <2>5, <3>1, OnceStays DEF OnceInv, TakesEffect
    <3>2. CASE f = e
      <4>1. /\ effects[e] = 0 /\ claimed[e] # Never
            /\ \A g \in Handlers : Pending(g, e) => g = k
        BY <2>4, <2>5, <3>2 DEF OnceInv, Once
      <4>2. effects'[e] = 1 /\ claimed'[e] # Never
        BY <1>0, <2>1, <4>1 DEF TakesEffect
      <4>3. \A g \in Handlers : ~Pending(g, e)'
        BY <2>3, <4>1
      <4> QED
        BY <3>2, <4>2, <4>3 DEF Once
    <3> QED
      BY <3>1, <3>2
  <2> QED
    BY <2>1, <2>5 DEF OnceInv
<1>11. CASE Prune \/ Compact \/ CompactFails \/ ClockTicks
  <2>1. UNCHANGED <<handler, root, claimed, effects, forgotten>>
    BY <1>11 DEF Prune, Compact, CompactFails, ClockTicks, past
  <2> QED
    BY <1>1, <2>1 DEF Pending
<1>12. CASE StartAgain
  <2>1. handler' = [h \in Handlers |-> Free] /\ forgotten \subseteq forgotten'
        /\ UNCHANGED <<claimed, effects>>
    BY <1>12 DEF StartAgain
  <2>2. \A h \in Handlers, f \in Flights : ~Pending(h, f)'
    BY <2>1 DEF Pending
  <2>3. ASSUME NEW f \in Flights \ forgotten'
        PROVE  Once(f)'
    BY <2>1, <2>2, <2>3, OnceStays DEF OnceInv
  <2> QED
    BY <2>3 DEF OnceInv
<1> QED
  BY <1>4, <1>5, <1>6, <1>7, <1>8, <1>9, <1>10, <1>11, <1>12 DEF AdmissionNext

\* A mutation takes effect once (actor_claim_admin_mutation, run_auth_actor):
\* however often and whenever its flight is delivered, whichever handlers race
\* with it, over rotations, resets, compactions, failed writes and starts.
THEOREM MutationsTakeEffectOnce == AdmissionSpec => []EffectsAreOnce
<1>1. AdmissionInit => ClaimInv /\ TaskInv /\ OnceInv
  BY EmptyQueue DEF AdmissionInit, ClaimInv, TaskInv, Stored, OnceInv, Once, Pending
<1>2. AdmissionTypeOK /\ ClaimInv /\ TaskInv /\ OnceInv /\ [AdmissionNext]_admissionVars
        => ClaimInv' /\ TaskInv' /\ OnceInv'
  <2>1. AdmissionTypeOK /\ ClaimInv /\ TaskInv /\ UNCHANGED admissionVars => ClaimInv' /\ TaskInv'
    BY DEF admissionVars, window, store, past, ClaimInv, TaskInv, Stored, Possible, Due
  <2>2. OnceInv /\ UNCHANGED admissionVars => OnceInv'
    BY DEF admissionVars, past, OnceInv, Once, Pending
  <2> QED
    BY <2>1, <2>2, ClaimStep, TaskStep, OnceStep
<1>3. AdmissionTypeOK /\ OnceInv => EffectsAreOnce
  BY TypeParts DEF PastType, OnceInv, Once, EffectsAreOnce
<1> QED
  BY <1>1, <1>2, <1>3, AdmissionTypeCorrect, PTL DEF AdmissionSpec
=============================================================================
