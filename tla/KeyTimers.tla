----------------------------- MODULE KeyTimers -----------------------------
(***************************************************************************)
(* How a temporary key ends: the slot table in memory, the leases that     *)
(* requests hold weakly, and the timers on the wheel that own the leases   *)
(* and run the two stages of a key's teardown, retirement and reaping.     *)
(* The authentication actor runs one command or one tick at a time;        *)
(* lookups by other tasks come between any two of its steps, also between  *)
(* the two halves of a renewal, whose log record is written in the middle. *)
(*                                                                         *)
(* Time is in seconds, which are the wheel's ticks.  The clock may run     *)
(* ahead of the wheel or step back behind it by MaxSkew; a greater jump is *)
(* seen by the tick before any command.                                    *)
(*                                                                         *)
(* Abstracted: the log and the snapshots, which are AuthStore's, with the  *)
(* slots above the capacity; labels; the proof of the administrator's      *)
(* authority, which every command here has passed.                         *)
(***************************************************************************)
EXTENDS TimingWheel, FiniteSets

CONSTANTS
  Slots,          \* indexes of the slot table
  Ttls,           \* lifetimes an issue or a renewal may ask for
  Retention,      \* TOMBSTONE_RETENTION
  MaxGeneration,  \* u32::MAX: a row of this generation is never reissued
  MaxLeases,      \* bound on the leases of a key, one more per late renewal
  MaxSkew,        \* bound on the distance of clock and wheel
  MaxUpsets,      \* bound on the restarts and on the clock's steps back, together
  MaxTime         \* bound on the clock

ASSUME TimersAssumption ==
  /\ Slots \subseteq Nat
  /\ Ttls \subseteq Nat
  /\ Retention \in Nat \ {0}
  /\ MaxGeneration \in Nat
  /\ MaxLeases \in Nat \ {0}
  /\ MaxSkew \in Nat /\ MaxUpsets \in Nat
  /\ MaxTime \in Nat
  /\ \A ttl \in Ttls : ttl + Retention <= MaxDelay
  \* The wheel spans a whole power of its radix, decades more than a lifetime
  \* and its retention: enough for a clock ahead of the wheel, or stepped back.
  /\ \A ttl \in Ttls : /\ ttl + Retention + MaxSkew <= Span
                      /\ ttl + Retention + MaxUpsets <= Span

VARIABLES
  rows,      \* the slot table; lease is the number of the lease a row refers to
  leases,    \* the leases some timer still owns
  wheel,     \* TimingWheel
  now,       \* Leases::now, the second the wheel has reached
  target,    \* the second the tick in progress is to reach
  handles,   \* Leases::stages: timers that can be reached by their key
  renewing,  \* the renewal between its check and its effect
  safe,      \* safe_mode
  clock,     \* unix_seconds
  upsets,    \* restarts and steps back so far
  longest    \* history: the latest expiry a row's lease was given

vars == <<rows, leases, wheel, now, target, handles, renewing, safe, clock, upsets, longest>>

KeyId == [slot : Slots, gen : 0..MaxGeneration]
\* A timer is one stage of a lease; the reap of a row found dead at the start
\* owns no lease.
Timer == [key : KeyId, lease : 0..MaxLeases, stage : {"retire", "reap"}]
Row == [gen : 0..MaxGeneration, state : {"free", "active", "expired", "revoked"},
        expires : Nat, lease : 0..MaxLeases, tombstone : Nat]
Lease == [key : KeyId, number : 1..MaxLeases, expires : Nat,
          reason : {"none", "expired", "revoked", "rotated"}]
Idle == [slot |-> -1, expires |-> 0]

TypeOK ==
  /\ rows \in [Slots -> Row]
  /\ leases \subseteq Lease
  /\ handles \subseteq Timer
  /\ Held(wheel) \subseteq Timer
  /\ now \in Nat /\ clock \in 0..MaxTime /\ target \in Nat
  /\ renewing \in [slot : Slots \cup {-1}, expires : Nat]
  /\ safe \in BOOLEAN /\ upsets \in 0..MaxUpsets
  /\ longest \in [Slots -> Nat]

FreeRow(g) == [gen |-> g, state |-> "free", expires |-> 0, lease |-> 0, tombstone |-> 0]

Init ==
  /\ rows = [s \in Slots |-> FreeRow(0)]
  /\ leases = {} /\ handles = {}
  /\ wheel = NewWheel
  /\ now = 0 /\ target = 0 /\ clock = 0 /\ upsets = 0
  /\ renewing = Idle /\ safe = FALSE
  /\ longest = [s \in Slots |-> 0]

-----------------------------------------------------------------------------
(* Leases and timers *)

KeyOf(s) == [slot |-> s, gen |-> rows[s].gen]
Stage(key, number, stage) == [key |-> key, lease |-> number, stage |-> stage]
Stages(key, number) == {Stage(key, number, "retire"), Stage(key, number, "reap")}
HandlesOf(key) == {t \in handles : t.key = key}
LeaseOf(s) == {l \in leases : l.key = KeyOf(s) /\ l.number = rows[s].lease}
NewLease(key, number, expires) ==
  [key |-> key, number |-> number, expires |-> expires, reason |-> "none"]

\* Mutant: the last reason counts.
Cancelled_LastReason(l, reason) == [l EXCEPT !.reason = reason]
\* record_cancel keeps the first reason.
Cancelled(l, reason) == IF l.reason = "none" THEN [l EXCEPT !.reason = reason] ELSE l
CancelAll(ls, which, reason) == {IF l \in which THEN Cancelled(l, reason) ELSE l : l \in ls}

\* slot.holds
Holds(row, s, key) == key = [slot |-> s, gen |-> row.gen] /\ row.state # "free"
Dead(row) == row.state \in {"expired", "revoked"}
Collectable(row) == Dead(row) \/ (row.state = "active" /\ row.expires <= clock)

\* Mutant: the reap looks at the slot of its key only.
RowAfter_AnyTenant(row, s, fired) ==
  IF \E t \in fired : t.stage = "reap" /\ t.key.slot = s THEN FreeRow(row.gen)
  ELSE IF row.state = "active" /\ \E t \in fired : t.stage = "retire" /\ Holds(row, s, t.key)
    THEN [row EXCEPT !.state = "expired", !.tombstone = row.expires]
    ELSE row
\* A row after the callbacks of the fired timers: reaped, or retired, in which
\* case its retention is counted from its expiry.  The order of the callbacks
\* makes no difference to a row.
RowAfter(row, s, fired) ==
  IF \E t \in fired : t.stage = "reap" /\ Holds(row, s, t.key) THEN FreeRow(row.gen)
  ELSE IF row.state = "active" /\ \E t \in fired : t.stage = "retire" /\ Holds(row, s, t.key)
    THEN [row EXCEPT !.state = "expired", !.tombstone = row.expires]
    ELSE row

\* Mutant: a retirement marks the row only.
Retired_RowOnly(ls, fired) == ls
\* The leases after the callbacks of the fired timers.
Retired(ls, fired) ==
  CancelAll(ls, {l \in ls : Stage(l.key, l.number, "retire") \in fired}, "expired")

\* The end of every step that touches the schedule: from the rows and leases it
\* left, the wheel, the timers there are and those it fired early.  A timer that
\* no route holds any more runs; a callback owns its lease until it has run.
\* Fired early, a timer is inert, and its routes are taken off the wheel.
Settle(rs, ls, w, timers, early, reachable) ==
  LET left  == Held(w) \ early
      fired == timers \ left
  IN /\ rows' = [s \in Slots |-> RowAfter(rs[s], s, fired)]
     /\ leases' = {l \in Retired(ls, fired) : Stages(l.key, l.number) \cap left # {}}
     /\ wheel' = Without(w, early)
     /\ handles' = reachable \cap left

\* The expiries given out; those of rows that are not live are forgotten.
Given(longer) ==
  longest' = [s \in Slots |-> IF rows'[s].state = "active" THEN longer[s] ELSE 0]

DelayTo(deadline) == IF deadline > now THEN deadline - now ELSE 0
Request(t, deadline) == [timer |-> t, delay |-> DelayTo(deadline)]

\* Both stages of a key: watch, and the second routes of a renewal.
Placements(key, number, expires) ==
  {Request(Stage(key, number, "retire"), expires),
   Request(Stage(key, number, "reap"), expires + Retention)}

\* Mutant: the timers of a key that has some are kept.
ReachedBy_First(key, number) ==
  handles \cup (IF HandlesOf(key) = {} THEN Stages(key, number) ELSE {})
\* The handles once watch has filed those of a lease.
ReachedBy(key, number) == (handles \ HandlesOf(key)) \cup Stages(key, number)

\* The actor is between two messages.
Ready == target = now /\ renewing = Idle

-----------------------------------------------------------------------------
(* Commands of the actor *)

\* actor_issue: the lowest free row whose generation can advance.
Issuable == {s \in Slots : rows[s].state = "free" /\ rows[s].gen < MaxGeneration}

Issue ==
  \E ttl \in Ttls :
    /\ Ready /\ ~safe /\ Issuable # {}
    /\ LET s   == CHOOSE t \in Issuable : \A u \in Issuable : t <= u
           key == [slot |-> s, gen |-> rows[s].gen + 1]
           expires == clock + ttl
       IN /\ Settle([rows EXCEPT ![s] = [gen |-> key.gen, state |-> "active",
                                         expires |-> expires, lease |-> 1, tombstone |-> 0]],
                    leases \cup {NewLease(key, 1, expires)},
                    Scheduled(wheel, Placements(key, 1, expires)),
                    Held(wheel) \cup Stages(key, 1),
                    {},
                    ReachedBy(key, 1))
          /\ Given([longest EXCEPT ![s] = expires])
    /\ UNCHANGED <<now, target, renewing, safe, clock, upsets>>

\* actor_renew up to its log record.
RenewBegin ==
  \E s \in Slots, ttl \in Ttls :
    /\ Ready /\ ~safe
    /\ rows[s].state = "active" /\ rows[s].expires > clock
    /\ rows[s].lease < MaxLeases
    /\ renewing' = [slot |-> s, expires |-> clock + ttl]
    /\ UNCHANGED <<rows, leases, wheel, now, target, handles, safe, clock, upsets, longest>>

\* An append of any command, or the compaction of a tick, fails in a way that
\* closes the store; a renewal in progress ends with it.
FailClosed ==
  /\ target = now /\ ~safe
  /\ safe' = TRUE
  /\ leases' = CancelAll(leases, UNION {LeaseOf(s) : s \in Slots}, "rotated")
  /\ renewing' = Idle
  /\ UNCHANGED <<rows, wheel, now, target, handles, clock, upsets, longest>>

\* The lease is not cancelled: it gets the new expiry, and its timers second
\* routes (Leases::renew, which needs both).
RenewLease ==
  /\ renewing # Idle
  /\ LET s   == renewing.slot
         key == KeyOf(s)
         both == Stages(key, rows[s].lease) \subseteq HandlesOf(key)
     IN /\ \E l \in LeaseOf(s) : l.reason = "none"
        /\ Settle([rows EXCEPT ![s].expires = renewing.expires],
                  {IF l \in LeaseOf(s) THEN [l EXCEPT !.expires = renewing.expires] ELSE l :
                     l \in leases},
                  IF both THEN Scheduled(wheel, Placements(key, rows[s].lease, renewing.expires))
                          ELSE wheel,
                  Held(wheel), {}, handles)
        /\ Given([longest EXCEPT ![s] = IF renewing.expires > @ THEN renewing.expires ELSE @])
  /\ renewing' = Idle
  /\ UNCHANGED <<now, target, safe, clock, upsets>>

\* It was cancelled since: the row gets another one, and the key timers of its
\* own for it (adopt).  Those of the lease before stay on the wheel.
RenewReplaces ==
  /\ renewing # Idle
  /\ LET s   == renewing.slot
         key == KeyOf(s)
         number == rows[s].lease + 1
     IN /\ ~ \E l \in LeaseOf(s) : l.reason = "none"
        /\ Settle([rows EXCEPT ![s].expires = renewing.expires, ![s].lease = number],
                  leases \cup {NewLease(key, number, renewing.expires)},
                  Scheduled(wheel, Placements(key, number, renewing.expires)),
                  Held(wheel) \cup Stages(key, number),
                  {},
                  ReachedBy(key, number))
        /\ Given([longest EXCEPT ![s] = renewing.expires])
  /\ renewing' = Idle
  /\ UNCHANGED <<now, target, safe, clock, upsets>>

\* actor_revoke, which retires and leaves the reap on schedule.
Revoke ==
  \E s \in Slots :
    /\ Ready /\ ~safe
    /\ rows[s].state = "active"
    /\ Settle([rows EXCEPT ![s].state = "revoked", ![s].tombstone = clock],
              CancelAll(leases, LeaseOf(s), "revoked"),
              wheel, Held(wheel),
              {t \in HandlesOf(KeyOf(s)) : t.stage = "retire"},
              handles)
    /\ Given(longest)
    /\ UNCHANGED <<now, target, renewing, safe, clock, upsets>>

\* actor_gc: both stages of every key that is dead or past its expiry.
Collect ==
  /\ Ready /\ ~safe
  /\ LET due == {KeyOf(s) : s \in {t \in Slots : Collectable(rows[t])}}
     IN Settle(rows, leases, wheel, Held(wheel), {t \in handles : t.key \in due},
               {t \in handles : t.key \notin due})
  /\ Given(longest)
  /\ UNCHANGED <<now, target, renewing, safe, clock, upsets>>

\* Leases::wipe, for a rotation of the root or a reset of the state.
Wipe ==
  /\ Ready
  /\ Settle(rows, CancelAll(leases, UNION {LeaseOf(s) : s \in Slots}, "rotated"),
            NewWheel, Held(wheel), {}, {})
  /\ now' = clock /\ target' = clock /\ safe' = FALSE
  /\ Given(longest)
  /\ UNCHANGED <<renewing, clock, upsets>>

-----------------------------------------------------------------------------
(* Time *)

Advance ==
  /\ clock < MaxTime /\ clock < now + MaxSkew
  /\ clock' = clock + 1
  /\ UNCHANGED <<upsets, rows, leases, wheel, now, target, handles, renewing, safe, longest>>

StepBack ==
  /\ clock > 0 /\ clock + MaxSkew > now /\ upsets < MaxUpsets
  /\ clock' = clock - 1 /\ upsets' = upsets + 1
  /\ UNCHANGED <<rows, leases, wheel, now, target, handles, renewing, safe, longest>>

\* Leases::tick reads the clock.  One that has stepped back is ignored.
Wake ==
  /\ Ready /\ clock > now
  /\ target' = clock
  /\ UNCHANGED <<rows, leases, wheel, now, handles, renewing, safe, clock, upsets, longest>>

\* One turn of its loop.
WheelTick ==
  /\ now < target
  /\ now' = now + 1
  /\ Settle(rows, leases, Ticked(wheel), Held(wheel), {}, handles)
  /\ Given(longest)
  /\ UNCHANGED <<target, renewing, safe, clock, upsets>>

\* The clock jumps further than the wheel reaches: drop_schedule.  Nothing is
\* left then that refers to a time, which is counted anew.
Jump ==
  /\ Ready
  /\ Settle(rows, leases, NewWheel, Held(wheel), {}, {})
  /\ clock' = 0 /\ now' = 0 /\ target' = 0
  /\ Given(longest)
  /\ UNCHANGED <<renewing, safe, upsets>>

\* authenticate_presented and ensure_active, by any task: a lease found past
\* its expiry is cancelled at once, whatever the schedule says.
FindExpired ==
  \E l \in leases :
    /\ l.reason = "none" /\ l.expires <= clock
    /\ leases' = CancelAll(leases, {l}, "expired")
    /\ UNCHANGED <<rows, wheel, now, target, handles, renewing, safe, clock, upsets, longest>>

\* The process stops and starts again.  Leases are gone with it; the table
\* comes back from the store, which has seen an expiry only if it was
\* compacted since; Leases::restored builds a new schedule.
Restart ==
  \E compacted \in BOOLEAN :
    LET Loaded(row) ==
          IF row.state = "active" \/ (row.state = "expired" /\ ~compacted)
          THEN IF row.expires <= clock
               THEN [row EXCEPT !.state = "expired", !.lease = 0, !.tombstone = row.expires]
               ELSE [row EXCEPT !.state = "active", !.lease = 1, !.tombstone = 0]
          ELSE [row EXCEPT !.lease = 0]
        rs == [s \in Slots |-> Loaded(rows[s])]
        live == {s \in Slots : rs[s].state = "active"}
        dead == {s \in Slots : Dead(rs[s])}
        Owing(deadline) == IF deadline > clock THEN deadline - clock ELSE 0
        timers == (UNION {Stages(KeyOf(s), 1) : s \in live})
                    \cup {Stage(KeyOf(s), 0, "reap") : s \in dead}
        requests ==
          {[timer |-> Stage(KeyOf(s), 1, "retire"), delay |-> Owing(rs[s].expires)] : s \in live}
          \cup {[timer |-> Stage(KeyOf(s), 1, "reap"),
                 delay |-> Owing(rs[s].expires + Retention)] : s \in live}
          \cup {[timer |-> Stage(KeyOf(s), 0, "reap"),
                 delay |-> Owing(rs[s].tombstone + Retention)] : s \in dead}
    IN /\ Ready /\ ~safe /\ upsets < MaxUpsets
       /\ Settle(rs, {NewLease(KeyOf(s), 1, rs[s].expires) : s \in live},
                 Scheduled(NewWheel, requests), timers, {}, timers)
       /\ Given([s \in Slots |-> rs[s].expires])
       /\ now' = clock /\ target' = clock
       /\ upsets' = upsets + 1
       /\ UNCHANGED <<renewing, safe, clock>>

Next ==
  \/ Issue \/ RenewBegin \/ RenewLease \/ RenewReplaces
  \/ Revoke \/ Collect \/ Wipe \/ FailClosed
  \/ Advance \/ StepBack \/ Wake \/ WheelTick \/ Jump
  \/ FindExpired \/ Restart

Spec == Init /\ [][Next]_vars

-----------------------------------------------------------------------------
(* Properties *)

\* A row whose lease replaced another: timers of the one before may be armed.
Replaced(row) == row.lease > 1
LastDelivery(t) ==
  LET at == {d.at : d \in {e \in Deliveries(wheel) : e.timer = t}}
  IN CHOOSE x \in at : \A y \in at : y <= x
\* The tick of the wheel at which the second t is reached.
TickOf(t) == wheel.ticks + t - now

\* No row is forgotten.  Nothing sweeps the table: a live row is retired and
\* reaped, and a dead one reaped, only because a timer for it that has not run
\* is on the wheel, with a handle by which a revocation or a collection finds it.
EveryRowIsScheduled ==
  /\ TypeOK
  /\ \A s \in Slots :
       LET key == KeyOf(s) IN
       /\ rows[s].state = "active" => Stages(key, rows[s].lease) \subseteq Held(wheel) \cap handles
       /\ Dead(rows[s]) => Stage(key, rows[s].lease, "reap") \in Held(wheel) \cap handles

\* The timers of a live row run when its credential says, not a tick earlier or
\* later: at its expiry, and Retention after that, through renewals, restarts
\* and every descent of the wheel.  Excepted is a lease that was renewed to an
\* earlier expiry than it had been given, see timers_early_renewal.
DeadlinesAreExact ==
  \A s \in Slots :
    LET row == rows[s] IN
    /\ row.state = "active" /\ row.expires = longest[s]
    /\ Stages(KeyOf(s), row.lease) \subseteq Held(wheel)
    =>
      /\ LastDelivery(Stage(KeyOf(s), row.lease, "retire")) = TickOf(row.expires)
      /\ LastDelivery(Stage(KeyOf(s), row.lease, "reap")) = TickOf(row.expires + Retention)

\* Who holds a lease that is not cancelled works under a live credential: the
\* row of its key is live, and refers to this lease.  A late renewal's lease
\* is excepted: its row may be retired by a timer of the lease before.
LiveLeaseIsOfALiveRow ==
  \A l \in leases :
    l.reason = "none" /\ l.number = 1 =>
      /\ rows[l.key.slot].gen = l.key.gen
      /\ rows[l.key.slot].state = "active"
      /\ rows[l.key.slot].lease = 1

\* A revoked key reports that it was revoked for as long as its row is kept,
\* though its retirement runs after the revocation.  The lease may only have
\* been found expired before, by a clock that was at its expiry.
RevokedTellsWhy ==
  \A s \in Slots :
    rows[s].state = "revoked" /\ rows[s].lease # 0 =>
      \E l \in LeaseOf(s) :
        \/ l.reason = "revoked"
        \/ l.reason = "expired" /\ l.expires <= rows[s].tombstone + upsets

\* How far ahead of the wheel the end of a row may be stamped: a revocation is
\* by the clock, at a time when the wheel has not reached the expiry.
Lead(row) == IF row.state = "revoked" /\ MaxSkew > 0 THEN MaxSkew - 1 ELSE 0

\* The wheel takes no key's life early: a tick ends a live row no earlier than
\* its expiry, renewals included, and frees the row of a dead one, whose holder
\* is told why until then, no earlier than Retention after its end.  Excepted
\* is a row that was renewed while its lease was being cancelled, which the
\* timers of that lease end, see timers_late_renewal.
NothingEndsEarly ==
  [][wheel'.ticks = wheel.ticks + 1 =>
       \A s \in Slots :
         ~Replaced(rows[s]) =>
           /\ rows[s].state = "active" /\ rows'[s].state # "active" => rows[s].expires <= now'
           /\ Dead(rows[s]) /\ rows'[s].state = "free" =>
                rows[s].tombstone + Retention <= now' + Lead(rows[s])]_vars

\* docs/user-guide.md:145-146, "Revocation or expiry immediately closes its active
\* control and data connections", and docs/authentication-v2.md:143-145, a renewal
\* "updates its absolute expiry": once the wheel has reached the expiry of a lease,
\* the lease is cancelled.  It is not, when the renewal brought the expiry
\* forward: Leases::renew leaves the later placement of the timer as its last.
RenewedExpiryEndsLease ==
  Ready => \A l \in leases : l.reason = "none" => now < l.expires

\* docs/authentication-v2.md:144-145, a renewal "inserts a new versioned timing-wheel
\* entry.  Stale wheel entries are ignored": a tick ends no live row before its
\* expiry, whatever its lease was before.  It does, when the renewal found that
\* lease cancelled: retire looks at the key and the state of the row only.
StaleEntriesAreIgnored ==
  [][wheel'.ticks = wheel.ticks + 1 =>
       \A s \in Slots :
         rows[s].state = "active" /\ rows'[s].state # "active" => rows[s].expires <= now']_vars
=============================================================================
