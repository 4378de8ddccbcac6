----------------------------- MODULE Admission -----------------------------
(***************************************************************************)
(* A change an administrator asks for, from its first flight to its effect *)
(* in the authentication actor.  Whoever carries a flight may deliver it   *)
(* again, at any time: it shall take effect once.  Two guards stand before *)
(* it, the filter of first flights (ReplayGuard), which any connection     *)
(* passes, and the exact window of admitted mutations, which the actor     *)
(* claims in its log before it executes one; and a rotation of the root    *)
(* comes between any two steps of a handler.                               *)
(*                                                                         *)
(* Abstracted: what a mutation asks for is chosen when it is executed, and *)
(* what it does to the keys is AuthStore's and KeyTimers'; the store's     *)
(* files are the claims in them.  A reset and a rotation, which a start    *)
(* completes or undoes as a whole (AuthStore), are one step.  The clock    *)
(* does not step back.  Requests that only read, legacy framing, temporary *)
(* keys and the wording of refusals are left out.                          *)
(***************************************************************************)
EXTENDS ReplayGuard, FiniteSets, SequencesExt

CONSTANTS
  Flights,      \* first flights: [stamp, root], the time and the root they
                \*   were sealed with
  Handlers,     \* tasks that may handle a delivery at a time
  Skew,         \* MAX_CONNECTION_CLOCK_SKEW_SECONDS, ADMIN_REPLAY_RETENTION / 2
  Capacity,     \* ADMIN_REPLAY_CAPACITY
  MaxSecond,    \* bound on the clock
  MaxFaults     \* bound on the failed writes and the starts, together

ASSUME AdmissionAssumption ==
  /\ \A f \in Flights : f.stamp \in Nat /\ f.root \in Nat
  /\ Skew \in Nat /\ Window = 2 * Skew
  /\ Capacity \in Nat \ {0} /\ MaxSecond \in Nat /\ MaxFaults \in Nat

VARIABLES
  time,
  filter, log, torn, blocked,   \* the guard: filter, log on disk, log's last record is
                                \*   cut short, log_failed
  root,                         \* the root in force; its lease is the authority of a request
  safeMode,                     \* safe_mode
  replays, order,               \* the window: admin_replays, admin_replay_order
  snapshot, wal, damaged,       \* claims in auth.snapshot and auth.wal; the latter does not load
  handler,                      \* handler -> what it does
  mailbox,                      \* handlers whose command is before the actor
  faults,
  admitted, claimed,            \* history: when a flight was last let in, last claimed
  effects,                      \* history: how often a flight took effect
  forgotten                     \* history: flights whose live claim a start lost

guard  == <<filter, log, torn, blocked>>
store  == <<snapshot, wal, damaged>>
window == <<replays, order>>
past   == <<admitted, claimed, effects, forgotten>>
admissionVars == <<time, guard, root, safeMode, window, store, handler, mailbox, faults, past>>

Never == -1
Claim == [flight : Flights, at : Nat]
Free == [step |-> "free"]
Steps == {"reading", "admitted", "claiming", "claimed", "executing"}
Task == {Free} \cup [step : Steps, flight : Flights, root : Nat]

AdmissionTypeOK ==
  /\ time \in 0 .. MaxSecond /\ faults \in 0 .. MaxFaults /\ root \in Nat
  /\ filter \in Filter(Flights) /\ log \subseteq LogRecord(Flights)
  /\ {torn, blocked, safeMode, damaged} \subseteq BOOLEAN
  /\ replays \subseteq Flights /\ \A q \in {order, snapshot, wal} : q \in Seq(Claim)
  /\ handler \in [Handlers -> Task] /\ mailbox \in Seq(Handlers)
  /\ \A t \in {admitted, claimed} : t \in [Flights -> Nat \cup {Never}]
  /\ effects \in [Flights -> Nat] /\ forgotten \subseteq Flights

AdmissionInit ==
  /\ time = 0 /\ faults = 0 /\ root = 0
  /\ filter = NewFilter(0) /\ log = {} /\ torn = FALSE /\ blocked = FALSE
  /\ safeMode = FALSE /\ damaged = FALSE
  /\ replays = {} /\ order = <<>> /\ snapshot = <<>> /\ wal = <<>>
  /\ handler = [h \in Handlers |-> Free] /\ mailbox = <<>>
  /\ admitted = [f \in Flights |-> Never] /\ claimed = [f \in Flights |-> Never]
  /\ effects = [f \in Flights |-> 0] /\ forgotten = {}

Timely(f) == time - f.stamp \in -Skew .. Skew
Fault == faults < MaxFaults /\ faults' = faults + 1

-----------------------------------------------------------------------------
(* The first flight *)

\* read_v2_initial up to the body, which may take its time.  The key is derived
\* from the root in force.
Read(h) ==
  \E f \in Flights :
    /\ handler[h] = Free /\ f.root <= root /\ Timely(f)
    /\ handler' = [handler EXCEPT ![h] = [step |-> "reading", flight |-> f, root |-> root]]
    /\ UNCHANGED <<time, guard, root, safeMode, window, store, mailbox, faults, past>>

Ends(h) == handler' = [handler EXCEPT ![h] = Free]
Goes(h, step) == handler' = [handler EXCEPT ![h].step = step]

\* What the log becomes when an admission has been recorded: rewritten, when
\* that was last done a minute ago, or closed when the rewriting fails,
\* whichever file is there.
Rewritten(records) ==
  \/ log' = records /\ UNCHANGED <<torn, blocked, faults>>
  \/ log' = Live(records, time) /\ UNCHANGED <<torn, blocked, faults>>
  \/ log' \in {records, Live(records, time)} /\ blocked' = TRUE /\ Fault /\ UNCHANGED torn

\* reserve: recorded first, and only then inserted.
Recorded(f) == log \cup {[flight |-> f, at |-> time]}
Reserved(f) == ~blocked /\ filter' = Remembering(Rotated(filter, time), f)

\* The record cannot be written: it is taken back, or the log is closed with
\* all of it, a part or nothing.
NotReserved(f) ==
  /\ filter' = Rotated(filter, time)
  /\ \/ UNCHANGED <<log, torn, blocked, faults>>
     \/ /\ ~blocked /\ Fault /\ blocked' = TRUE
        /\ \/ UNCHANGED <<log, torn>>
           \/ torn' = TRUE /\ UNCHANGED log
           \/ log' = Recorded(f) /\ UNCHANGED torn

\* evaluate_first_flight, under one lock.  A flight opens with the root it was
\* sealed with, and is authenticated by the one now in force.
IsRead(h) == handler[h] # Free /\ handler[h].step = "reading"
Authentic(h) == handler[h].flight.root = handler[h].root /\ handler[h].root = root
Fresh(f) == ~Remembers(Rotated(filter, time), f)

Admit(h) ==
  LET f == handler[h].flight IN
  /\ IsRead(h) /\ Authentic(h) /\ Fresh(f)
  /\ Reserved(f) /\ Rewritten(Recorded(f)) /\ Goes(h, "admitted")
  /\ admitted' = [admitted EXCEPT ![f] = time]
  /\ UNCHANGED <<time, root, safeMode, window, store, mailbox, claimed, effects, forgotten>>

\* It is known, not to be recorded, or over its budget, as any flight may be.
Refuse(h) ==
  LET f == handler[h].flight IN
  /\ IsRead(h) /\ Authentic(h)
  /\ \/ Fresh(f) /\ NotReserved(f)
     \/ filter' = Rotated(filter, time) /\ UNCHANGED <<log, torn, blocked, faults>>
  /\ Ends(h)
  /\ UNCHANGED <<time, root, safeMode, window, store, mailbox, past>>

\* The root was rotated since the flight was sealed: its sender is told so,
\* once, which takes the flight as well.  A root before the previous one is
\* not recognised.
TellRotated(h) ==
  LET f == handler[h].flight IN
  /\ IsRead(h) /\ f.root < root
  /\ \/ /\ f.root \in {handler[h].root, root - 1} /\ Fresh(f)
        /\ \/ Reserved(f) /\ log' = Recorded(f) /\ UNCHANGED <<torn, blocked, faults>>
           \/ NotReserved(f)
     \/ UNCHANGED <<guard, faults>>
  /\ Ends(h)
  /\ UNCHANGED <<time, root, safeMode, window, store, mailbox, past>>

-----------------------------------------------------------------------------
(* The handler: claim, then command.  Its authority is the lease of the root  *)
(* it was admitted under.                                                     *)

Authorised(h) == handler[h].root = root
Sends(h, from, to) ==
  /\ handler[h].step = from
  /\ IF Authorised(h)
     THEN Goes(h, to) /\ mailbox' = Append(mailbox, h)
     ELSE Ends(h) /\ UNCHANGED mailbox
  /\ UNCHANGED <<time, guard, root, safeMode, window, store, faults, past>>
SendClaim(h) == Sends(h, "admitted", "claiming")
SendCommand(h) == Sends(h, "claimed", "executing")

-----------------------------------------------------------------------------
(* The actor *)

Within(c) == Elapsed(c.at, time) <= 2 * Skew

\* The claims within the retention, in their order: the k-th is the one with k
\* of them up to it.
Kept(claims) ==
  LET live == {i \in DOMAIN claims : Within(claims[i])}
  IN [k \in 1 .. Cardinality(live) |->
        claims[CHOOSE i \in live : Cardinality(live \cap 1 .. i) = k]]

Pruned == Kept(order)
\* The claims a prune drops leave the set with the queue.
PrunedReplays == replays \ {c.flight : c \in {d \in ToSet(order) : ~Within(d)}}

IsNext(step) == mailbox # <<>> /\ handler[Head(mailbox)].step = step
Taken == mailbox' = Tail(mailbox)

\* Mutant: the time of the flight is left to the check of its first bytes.
Claimable_AnyTime(h) ==
  /\ Authorised(h)
  /\ handler[h].flight \notin PrunedReplays
  /\ Cardinality(PrunedReplays) < Capacity
Claimable(h) ==
  /\ Authorised(h)
  /\ handler[h].flight \notin PrunedReplays
  /\ Cardinality(PrunedReplays) < Capacity
  /\ Timely(handler[h].flight)

\* actor_claim_admin_mutation: the record is on disk before the window has it.
ClaimMutation ==
  LET h == Head(mailbox)  f == handler[h].flight
      c == [flight |-> f, at |-> time] IN
  /\ IsNext("claiming") /\ Taken /\ Claimable(h)
  /\ wal' = Append(wal, c)
  /\ order' = Append(Pruned, c) /\ replays' = PrunedReplays \cup {f}
  /\ Goes(h, "claimed") /\ claimed' = [claimed EXCEPT ![f] = time]
  /\ UNCHANGED <<time, guard, root, safeMode, snapshot, damaged, faults,
                 admitted, effects, forgotten>>

\* A write that fails is rolled back, or closes the store with a log that has
\* the record, does not have it, or cannot be read.
WriteFails(record) ==
  \/ UNCHANGED <<wal, damaged, safeMode, faults>>
  \/ /\ Fault /\ safeMode' = TRUE
     /\ \/ wal' = wal \o record /\ UNCHANGED damaged
        \/ damaged' = TRUE /\ UNCHANGED wal
        \/ UNCHANGED <<wal, damaged>>

RefuseClaim ==
  LET h == Head(mailbox) IN
  /\ IsNext("claiming") /\ Taken /\ Ends(h)
  /\ \/ ~Claimable(h) /\ UNCHANGED <<wal, damaged, safeMode, faults>>
     \/ Claimable(h) /\ WriteFails(<<[flight |-> handler[h].flight, at |-> time]>>)
  /\ IF Authorised(h) THEN order' = Pruned /\ replays' = PrunedReplays ELSE UNCHANGED window
  /\ UNCHANGED <<time, guard, root, snapshot, past>>

\* write_snapshot_and_truncate_wal
Snapshotted(claims) == snapshot' = claims /\ wal' = <<>> /\ damaged' = FALSE

TakesEffect(f) == effects' = [effects EXCEPT ![f] = @ + 1]

\* Issue, renew, revoke and the like; a collection compacts.
Change ==
  LET h == Head(mailbox)  f == handler[h].flight IN
  /\ IsNext("executing") /\ Taken /\ Authorised(h) /\ ~safeMode
  /\ UNCHANGED store \/ Snapshotted(order)
  /\ TakesEffect(f) /\ Ends(h)
  /\ UNCHANGED <<time, guard, root, safeMode, window, faults, admitted, claimed, forgotten>>

\* Refused in safe mode, by what the keys are, or because its write failed.
Refused ==
  LET h == Head(mailbox) IN
  /\ IsNext("executing") /\ Taken /\ Ends(h)
  /\ IF Authorised(h) THEN WriteFails(<<>>) ELSE UNCHANGED <<wal, damaged, safeMode, faults>>
  /\ UNCHANGED <<time, guard, root, window, snapshot, past>>

\* actor_reset keeps the window, in memory and in its snapshot.
Reset ==
  LET h == Head(mailbox)  f == handler[h].flight IN
  /\ IsNext("executing") /\ Taken /\ Authorised(h)
  /\ Snapshotted(order) /\ safeMode' = FALSE
  /\ TakesEffect(f) /\ Ends(h)
  /\ UNCHANGED <<time, guard, root, window, faults, admitted, claimed, forgotten>>

\* actor_rotate_root: what the old root admitted is refused with it.
RotateRoot ==
  LET h == Head(mailbox)  f == handler[h].flight IN
  /\ IsNext("executing") /\ Taken /\ Authorised(h)
  /\ Snapshotted(<<>>) /\ safeMode' = FALSE
  /\ root' = root + 1 /\ replays' = {} /\ order' = <<>>
  /\ TakesEffect(f) /\ Ends(h)
  /\ UNCHANGED <<time, guard, faults, admitted, claimed, forgotten>>

\* The actor's tick: prune, and compact when it is time.
IsPruned == order' = Pruned /\ replays' = PrunedReplays
Prune ==
  /\ order # Pruned /\ IsPruned
  /\ UNCHANGED <<time, guard, root, safeMode, store, handler, mailbox, faults, past>>
\* Mutant: a compaction does not take the claims along.
Compact_NoClaims ==
  /\ ~safeMode /\ <<snapshot, wal>> # <<Pruned, <<>>>> /\ IsPruned /\ Snapshotted(<<>>)
  /\ UNCHANGED <<time, guard, root, safeMode, handler, mailbox, faults, past>>
Compact ==
  /\ ~safeMode /\ <<snapshot, wal>> # <<Pruned, <<>>>> /\ IsPruned /\ Snapshotted(Pruned)
  /\ UNCHANGED <<time, guard, root, safeMode, handler, mailbox, faults, past>>
\* It fails before or after the snapshot is replaced, or the log truncated; so
\* does one that the process dies in.  Records that the log has and the snapshot
\* has taken over may not load again (AuthStore).
CompactFails ==
  /\ ~safeMode /\ Fault /\ safeMode' = TRUE /\ IsPruned
  /\ \/ UNCHANGED store
     \/ snapshot' = Pruned /\ damaged' \in {damaged, TRUE} /\ UNCHANGED wal
     \/ Snapshotted(Pruned)
  /\ UNCHANGED <<time, guard, root, handler, mailbox, past>>

-----------------------------------------------------------------------------
ClockTicks ==
  /\ time < MaxSecond /\ time' = time + 1
  /\ UNCHANGED <<guard, root, safeMode, window, store, handler, mailbox, faults, past>>

\* The window of a start: the claims it finds that are within the retention,
\* the oldest dropped where they are too many.
Loaded(claims) ==
  LET live == Kept(claims)
  IN IF Len(live) > Capacity THEN SubSeq(live, Len(live) - Capacity + 1, Len(live)) ELSE live

\* The filter of a start.  A log that cannot be read, or not be rewritten, is closed.
Reopened ==
  \/ torn /\ filter' = NewFilter(time) /\ blocked' = TRUE /\ UNCHANGED log
  \/ ~torn /\ filter' = Restored(log, time)
       /\ \/ blocked' = FALSE /\ log' = Live(log, time)
          \/ blocked' = TRUE /\ UNCHANGED log

\* The process dies and starts again, with a store that loads or does not.
StartAgain ==
  LET queue == IF damaged THEN <<>> ELSE Loaded(snapshot \o wal)
      live  == {f \in Flights : claimed[f] # Never /\ f.root = root
                                  /\ Elapsed(claimed[f], time) <= 2 * Skew} IN
  /\ Fault /\ Reopened
  /\ handler' = [h \in Handlers |-> Free] /\ mailbox' = <<>>
  /\ order' = queue /\ replays' = {c.flight : c \in ToSet(queue)} /\ safeMode' = damaged
  /\ forgotten' = forgotten \cup (live \ replays')
  /\ UNCHANGED <<time, root, torn, store, admitted, claimed, effects>>

AdmissionNext ==
  \/ \E h \in Handlers : Read(h) \/ Admit(h) \/ Refuse(h) \/ TellRotated(h)
                           \/ SendClaim(h) \/ SendCommand(h)
  \/ ClaimMutation \/ RefuseClaim \/ Change \/ Refused \/ Reset \/ RotateRoot
  \/ Prune \/ Compact \/ CompactFails \/ ClockTicks \/ StartAgain

AdmissionSpec == AdmissionInit /\ [][AdmissionNext]_admissionVars

-----------------------------------------------------------------------------
(* Properties *)

\* A mutation takes effect once, however often its flight is delivered: over
\* rotations, resets, compactions, failed writes and starts.
EffectsAreOnce == \A f \in Flights : effects[f] <= 1 \/ f \in forgotten

\* What was claimed is known to the actor and to the next start, for as long as
\* its flight could be timely.
ClaimsAreDurable ==
  /\ AdmissionTypeOK
  /\ \A f \in Flights \ forgotten :
       claimed[f] # Never /\ f.root = root /\ Timely(f) =>
         f \in replays /\ f \in {c.flight : c \in ToSet(snapshot \o wal)}

\* No first flight is let in twice within a window, at whatever times its
\* copies come, whatever windows begin and end between them, and over starts.
FlightsAreNewForAWindow ==
  [][\A h \in Handlers :
       IsRead(h) /\ handler'[h] # Free /\ handler'[h].step = "admitted" =>
         LET f == handler[h].flight IN
         admitted[f] # Never => time - admitted[f] >= Window]_admissionVars
=============================================================================
