----------------------------- MODULE AuthStore -----------------------------
(***************************************************************************)
(* The durable state of temporary keys: the actor's slot table in memory,  *)
(* the encrypted snapshot and write-ahead log, and the two files (with     *)
(* their staged successors) that hold the administrator key and the        *)
(* instance id.  The process may stop between any two writes, and any      *)
(* write may fail.                                                         *)
(*                                                                         *)
(* A credential is derived from the administrator key (`root'), the        *)
(* instance id and the key id, which is a slot and a generation.  The pair *)
(* of root and instance id is an epoch: a rotation changes the one, a      *)
(* reset the other.                                                        *)
(*                                                                         *)
(* Abstracted: labels, audit records, replay claims and the protocol       *)
(* policy, which appear only as `note' records of the log; the interval of *)
(* compaction and the retention of dead rows, which may end at any time; a *)
(* write that fails without a trace, which is no step at all.              *)
(***************************************************************************)
EXTENDS Integers, Sequences

CONSTANTS
  Slots,          \* slot indexes ever used, the lowest free one is taken
  Capacities,     \* values of max_temporary_keys a start may be given
  Roots,          \* administrator keys
  Ttls,           \* lifetimes an issue or a renewal may ask for
  MaxGeneration,  \* u32::MAX: a row of this generation is never reissued
  MaxTime,        \* bound on the clock
  MaxWal,         \* bound on the records between two compactions
  MaxChanges,     \* bound on resets and rotations attempted
  Missing         \* a file that does not exist

ASSUME StoreAssumption ==
  /\ Slots \subseteq Nat
  /\ Capacities \subseteq Nat
  /\ Ttls \subseteq Nat
  /\ MaxGeneration \in Nat
  /\ MaxTime \in Nat
  /\ MaxWal \in Nat
  /\ MaxChanges \in Nat
  /\ Missing \notin Roots
  /\ Missing \notin Nat

VARIABLES
  disk,       \* the files of the state directory
  phase,      \* "down", "recovering", "loading" or "up"
  capacity,   \* max_temporary_keys of the running process
  epoch,      \* root and instance id of the running process
  rows,       \* slot table; slots at or above capacity are the high slots
  safe,       \* safe_mode
  position,   \* records of the log already replayed
  overtaken,  \* slots whose row was given a new lease, while the wheel still
              \* has the retire timer of the lease before
  now,
  changes,    \* resets and rotations attempted; a new instance id is numbered
              \* by the reset that drew it
  granted,    \* history: keys whose credential was handed out, by instance id
  revoked,    \* history: keys whose revocation was confirmed, by instance id
  promised,   \* history: keys confirmed and not ended, with their deadline
  lost,       \* history: instance ids under which a load failed
  closed,     \* history: epochs whose load failed, no other being served since
  unsettled   \* history: snapshot, log and table do not fit together, in a
              \* way the recovery of the next start does not cover

store  == <<disk, changes>>
memory == <<phase, capacity, epoch, rows, safe, position, overtaken>>
past   == <<granted, revoked, promised, lost, closed, unsettled>>
vars   == <<store, memory, now, past>>

Epoch == [root : Roots, instance : 0..MaxChanges]
KeyId == [instance : 0..MaxChanges, slot : Slots, gen : 0..MaxGeneration]
Promise == [slot : Slots, gen : 0..MaxGeneration, expires : Nat]
\* SlotHot.  `recent' marks a row revoked since this process started, whose
\* time of revocation is not recorded with it (a slot of the table) or which
\* has no timer (a high slot).
Row == [gen : 0..MaxGeneration, state : {"free", "active", "expired", "revoked"},
        expires : Nat, recent : BOOLEAN]
Snapshot == [epoch : Epoch, rows : [Slots -> Row]]
ASSUME MissingAssumption == Missing \notin Snapshot
\* A record of the log, sealed with the root it was written under.
Record == [kind : {"issue", "renew", "revoke", "note", "torn"}, root : Roots,
           slot : Slots \cup {Missing}, gen : 0..MaxGeneration, expires : Nat]
Disk == [adminKey : Roots, adminKeyNext : Roots \cup {Missing},
         instanceId : 0..MaxChanges,
         instanceIdNext : (0..MaxChanges) \cup {Missing},
         snapshot : Snapshot \cup {Missing}, wal : Seq(Record)]

FreeRow(g) == [gen |-> g, state |-> "free", expires |-> 0, recent |-> FALSE]
NoRows == [s \in Slots |-> FreeRow(0)]

Init ==
  /\ \E r \in Roots :
       /\ disk = [adminKey |-> r, adminKeyNext |-> Missing, instanceId |-> 0,
                  instanceIdNext |-> Missing, snapshot |-> Missing, wal |-> <<>>]
       /\ epoch = [root |-> r, instance |-> 0]
  /\ phase = "down" /\ capacity = 0 /\ rows = NoRows /\ safe = FALSE /\ position = 0
  /\ overtaken = {}
  /\ now = 0 /\ changes = 0
  /\ granted = {} /\ revoked = {} /\ promised = {}
  /\ lost = {} /\ closed = {} /\ unsettled = FALSE

-----------------------------------------------------------------------------
(* Rows *)

\* Mutant: the generation advances when the slot is freed, too.
Freed_Advances(row) == FreeRow(row.gen + 1)
\* SlotHot::retire
Freed(row) == FreeRow(row.gen)
Dead(row) == row.state \in {"expired", "revoked"}
\* slot.is_collectable
Collectable(row) == Dead(row) \/ (row.state = "active" /\ row.expires <= now)
InTable(s) == s < capacity

IdOf(s, g) == [instance |-> epoch.instance, slot |-> s, gen |-> g]

\* Mutant: the deadline is left to the timer.
Accepts_UntilRetired(s, g) ==
  /\ phase = "up" /\ ~safe
  /\ InTable(s)
  /\ rows[s].gen = g
  /\ rows[s].state = "active"
\* authenticate_presented, for a credential derived in the running epoch from
\* generation g of slot s.  One of another epoch has other key material.
Accepts(s, g) ==
  /\ phase = "up" /\ ~safe
  /\ InTable(s)
  /\ rows[s].gen = g
  /\ rows[s].state = "active"
  /\ rows[s].expires > now

\* The process ends, by shutdown or crash, and its memory with it.
PowerOff ==
  /\ phase' = "down" /\ capacity' = 0 /\ rows' = NoRows /\ safe' = FALSE /\ position' = 0
  /\ overtaken' = {}
  /\ UNCHANGED epoch

Stop ==
  /\ phase # "down"
  /\ PowerOff
  /\ UNCHANGED <<store, now, past>>

-----------------------------------------------------------------------------
(* The log.  An append is acknowledged after it was synced.  One that fails *)
(* and cannot be rolled back leaves any prefix of its bytes behind and      *)
(* closes the store; so does one the process does not live to see.          *)

NewRecord(kind, s, g, t) ==
  [kind |-> kind, root |-> epoch.root, slot |-> s, gen |-> g, expires |-> t]
Torn == NewRecord("torn", Missing, 0, 0)
Logged(r) == [disk EXCEPT !.wal = Append(@, r)]

\* append_wal succeeded
AppendOk(r) ==
  /\ disk' = Logged(r)
  /\ UNCHANGED changes

\* append_wal failed, fail_closed_on_uncertain_wal; or the process stopped in it.
\* The promise that was to change may hold or not.
AppendLost(r, doubted) ==
  /\ disk' \in {disk, Logged(r), Logged(Torn)}
  /\ \/ safe' = TRUE /\ UNCHANGED <<phase, capacity, epoch, rows, position, overtaken>>
     \/ PowerOff
  /\ promised' = promised \ doubted
  /\ UNCHANGED <<changes, now, granted, revoked, lost, closed, unsettled>>

MayAppend == phase = "up" /\ Len(disk.wal) < MaxWal
PromisesOf(s) == {p \in promised : p.slot = s /\ p.gen = rows[s].gen}

-----------------------------------------------------------------------------
(* Operations of the actor *)

Issuable(s) == InTable(s) /\ rows[s].state = "free" /\ rows[s].gen < MaxGeneration

\* actor_issue
Issue(s, ttl) ==
  LET g == rows[s].gen + 1
      t == now + ttl
      r == NewRecord("issue", s, g, t)
  IN
  /\ MayAppend /\ ~safe
  /\ Issuable(s) /\ \A u \in Slots : Issuable(u) => s <= u
  /\ \/ /\ AppendOk(r)
        /\ rows' = [rows EXCEPT ![s] = [gen |-> g, state |-> "active", expires |-> t,
                                        recent |-> FALSE]]
        /\ overtaken' = overtaken \ {s}
        /\ granted' = granted \cup {IdOf(s, g)}
        /\ promised' = promised \cup {[slot |-> s, gen |-> g, expires |-> t]}
        /\ UNCHANGED <<phase, capacity, epoch, safe, position, now, revoked, lost, closed,
                       unsettled>>
     \/ AppendLost(r, {})

\* Mutant: any key that is still known can be renewed.
Renewable_AnyState(s) == rows[s].state # "free" /\ rows[s].expires > now
Renewable(s) == rows[s].state = "active" /\ rows[s].expires > now

\* actor_renew, which answers with the credential
Renew(s, ttl) ==
  LET t == now + ttl
      r == NewRecord("renew", s, rows[s].gen, t)
  IN
  /\ MayAppend /\ ~safe
  /\ Renewable(s)
  /\ \/ /\ AppendOk(r)
        /\ rows' = [rows EXCEPT ![s].expires = t]
        /\ granted' = granted \cup {IdOf(s, rows[s].gen)}
        /\ promised' = (promised \ PromisesOf(s))
                          \cup {[slot |-> s, gen |-> rows[s].gen, expires |-> t]}
        /\ UNCHANGED <<phase, capacity, epoch, safe, position, overtaken, now, revoked, lost,
                       closed, unsettled>>
     \/ AppendLost(r, PromisesOf(s))

\* A renewal that comes late: it was checked in the last second of the key, and
\* a lookup cancelled the lease before its record was written (adopt).  A lease
\* of its own is installed with timers of its own, beside those of the lease
\* before.  Without that lookup it is a renewal like any other.
RenewLate(s, ttl) ==
  LET t == now + ttl
  IN
  /\ MayAppend /\ ~safe /\ InTable(s)
  /\ Renewable(s) /\ rows[s].expires = now + 1
  /\ AppendOk(NewRecord("renew", s, rows[s].gen, t))
  /\ now < MaxTime /\ now' = now + 1
  /\ rows' = [rows EXCEPT ![s].expires = t]
  /\ overtaken' = overtaken \cup {s}
  /\ granted' = granted \cup {IdOf(s, rows[s].gen)}
  /\ promised' = {p \in (promised \ PromisesOf(s))
                           \cup {[slot |-> s, gen |-> rows[s].gen, expires |-> t]} :
                     p.expires > now'}
  /\ UNCHANGED <<phase, capacity, epoch, safe, position, revoked, lost, closed, unsettled>>

\* actor_revoke
Revoke(s) ==
  LET r == NewRecord("revoke", s, rows[s].gen, 0)
  IN
  /\ MayAppend /\ ~safe
  /\ rows[s].state = "active"
  /\ \/ /\ AppendOk(r)
        /\ rows' = [rows EXCEPT ![s].state = "revoked", ![s].recent = TRUE]
        /\ revoked' = revoked \cup {IdOf(s, rows[s].gen)}
        /\ promised' = promised \ PromisesOf(s)
        /\ UNCHANGED <<phase, capacity, epoch, safe, position, overtaken, now, granted, lost,
                       closed, unsettled>>
     \/ AppendLost(r, PromisesOf(s))

\* actor_show with reveal.  It appends an audit record, in safe mode too; so do
\* the other commands that are recorded and change no key.
Show(s) ==
  LET r == NewRecord("note", Missing, 0, 0)
  IN
  /\ MayAppend
  /\ rows[s].state # "free"
  /\ \/ /\ AppendOk(r)
        /\ granted' = granted \cup {IdOf(s, rows[s].gen)}
        /\ UNCHANGED <<memory, now, revoked, promised, lost, closed, unsettled>>
     \/ AppendLost(r, {})

\* append_audit, actor_claim_admin_mutation, actor_set_legacy_protocol
Note ==
  LET r == NewRecord("note", Missing, 0, 0)
  IN
  /\ MayAppend
  /\ \/ AppendOk(r) /\ UNCHANGED <<memory, now, past>>
     \/ AppendLost(r, {})

\* A retire timer fires (retire): the row's own at its expiry, or that of the
\* lease before, at once.  It ends the row of its key, whatever the expiry.
Retire(s) ==
  /\ phase = "up" /\ InTable(s)
  /\ rows[s].state = "active"
  /\ rows[s].expires <= now \/ s \in overtaken
  /\ rows' = [rows EXCEPT ![s].state = "expired"]
  /\ promised' = promised \ PromisesOf(s)
  /\ UNCHANGED <<store, phase, capacity, epoch, safe, position, overtaken, now, granted,
                 revoked, lost, closed, unsettled>>

\* A dead key has a reap timer, except in a high slot that was live at the start.
HasReaper(s) == Dead(rows[s]) /\ (InTable(s) \/ ~rows[s].recent)

\* The reap timer of a dead key fires.
Reap(s) ==
  /\ phase = "up" /\ HasReaper(s)
  /\ rows' = [rows EXCEPT ![s] = Freed(@)]
  /\ UNCHANGED <<store, phase, capacity, epoch, safe, position, overtaken, now, past>>

\* A start reads the clock once.
Tick ==
  /\ now < MaxTime /\ phase \in {"down", "up"}
  /\ now' = now + 1
  /\ promised' = {p \in promised : p.expires > now'}
  /\ UNCHANGED <<store, memory, granted, revoked, lost, closed, unsettled>>

-----------------------------------------------------------------------------
(* Snapshots and epoch changes.  Each replaces several files in order; n is *)
(* the number of files replaced when the operation ends, fails or is cut.   *)

\* build_snapshot.  The table's rows carry no time of a revocation since the start.
BuiltSnapshot(table) ==
  [epoch |-> epoch, rows |-> [s \in Slots |-> [table[s] EXCEPT !.recent = @ /\ InTable(s)]]]
\* Mutant: a snapshot of a new epoch starts over.
EmptySnapshot_FirstGenerations(e) == [epoch |-> e, rows |-> NoRows]
\* empty_snapshot: the generations alone.
EmptySnapshot(e) == [epoch |-> e, rows |-> [s \in Slots |-> Freed(rows[s])]]

\* Mutant: the log is truncated before the snapshot is replaced.
Compacted_TruncatesFirst(snapshot, n) ==
  [disk EXCEPT !.wal      = IF n >= 1 THEN <<>> ELSE @,
               !.snapshot = IF n >= 2 THEN snapshot ELSE @]
\* write_snapshot_and_truncate_wal
Compacted(snapshot, n) ==
  [disk EXCEPT !.snapshot = IF n >= 1 THEN snapshot ELSE @,
               !.wal      = IF n >= 2 THEN <<>> ELSE @]

\* Files replaced by actor_reset
ResetFiles(e, n) ==
  [disk EXCEPT !.instanceIdNext = IF n >= 1 THEN e.instance ELSE @,
               !.snapshot       = IF n >= 2 THEN EmptySnapshot(e) ELSE @,
               !.wal            = IF n >= 3 THEN <<>> ELSE @,
               !.instanceId     = IF n >= 4 THEN e.instance ELSE @]

\* Files replaced by actor_rotate_root
RotationFiles(e, n) ==
  [disk EXCEPT !.adminKeyNext = IF n >= 1 THEN e.root ELSE @,
               !.snapshot     = IF n >= 2 THEN EmptySnapshot(e) ELSE @,
               !.wal          = IF n >= 3 THEN <<>> ELSE @,
               !.adminKey     = IF n >= 4 THEN e.root ELSE @]

\* Removing a staged file is attempted once and its failure ignored.
KeyUnstaged(d) == {d, [d EXCEPT !.adminKeyNext = Missing]}
InstanceUnstaged(d) == {d, [d EXCEPT !.instanceIdNext = Missing]}

\* Mutant: the table of a failed load may be written out.
CompactionIsAllowed_Always == TRUE
\* compaction_is_allowed
CompactionIsAllowed == ~safe

\* A compaction of `table': done, failed (and the store closed) or cut short.
CompactionOf(table) ==
  /\ UNCHANGED <<changes, now, granted, revoked, promised, lost, closed>>
  /\ \E n \in 0..2 :
       /\ disk' = Compacted(BuiltSnapshot(table), n)
       /\ unsettled' = (n = 1 \/ (n = 0 /\ unsettled))
       /\ \/ /\ n = 2
             /\ rows' = table
             /\ UNCHANGED <<phase, capacity, epoch, safe, position, overtaken>>
          \/ /\ rows' = table /\ safe' = TRUE
             /\ UNCHANGED <<phase, capacity, epoch, position, overtaken>>
          \/ PowerOff

\* The periodic compaction of run_auth_actor
Compact ==
  /\ phase = "up" /\ CompactionIsAllowed
  /\ CompactionOf(rows)

\* Leases::collect_garbage
Collected(s) ==
  IF (InTable(s) /\ Collectable(rows[s])) \/ HasReaper(s) THEN Freed(rows[s]) ELSE rows[s]

\* actor_gc
Gc ==
  /\ phase = "up" /\ ~safe
  /\ CompactionOf([s \in Slots |-> Collected(s)])

\* Leases::wipe ends the keys that have a timer.
Wiped(s) == IF InTable(s) \/ HasReaper(s) THEN Freed(rows[s]) ELSE rows[s]

\* The end of actor_reset and actor_rotate_root: all files are replaced, or
\* reset_already_installed, rotation_already_installed.
Installed(e) ==
  /\ epoch' = e
  /\ rows' = [s \in Slots |-> Wiped(s)]
  /\ safe' = FALSE /\ overtaken' = {}
  /\ closed' = {}
  /\ unsettled' = \E s \in Slots : rows'[s].state # "free"
  /\ UNCHANGED <<phase, capacity, position>>

\* An epoch change fails or is cut short after n files.
NotInstalled(n) ==
  /\ \/ /\ n < 4
        /\ safe' = TRUE
        /\ unsettled' = (unsettled \/ n \in {2, 3})
        /\ UNCHANGED <<phase, capacity, epoch, rows, position, overtaken>>
     \/ PowerOff /\ UNCHANGED unsettled
  /\ UNCHANGED closed

\* actor_reset, allowed in safe mode
Reset ==
  LET e == [epoch EXCEPT !.instance = changes + 1]
  IN
  /\ phase = "up" /\ changes < MaxChanges
  /\ changes' = changes + 1
  /\ promised' = {}
  /\ \/ disk' \in InstanceUnstaged(ResetFiles(e, 4)) /\ Installed(e)
     \/ \E n \in 0..4 : disk' = ResetFiles(e, n) /\ NotInstalled(n)
  /\ UNCHANGED <<now, granted, revoked, lost>>

\* actor_rotate_root, allowed in safe mode
Rotate(k) ==
  LET e == [epoch EXCEPT !.root = k]
  IN
  /\ phase = "up" /\ k # epoch.root
  /\ changes < MaxChanges
  /\ changes' = changes + 1
  /\ promised' = {}
  /\ \/ disk' \in KeyUnstaged(RotationFiles(e, 4)) /\ Installed(e)
     \/ \E n \in 0..4 : disk' = RotationFiles(e, n) /\ NotInstalled(n)
  /\ UNCHANGED <<now, granted, revoked, lost>>

-----------------------------------------------------------------------------
(* A start: recover the administrator key, recover the instance id, read    *)
(* the snapshot, replay the log, date the revocations, serve.  A start that *)
(* fails or is cut short leaves the process down.                           *)

Opens(root) == disk.snapshot # Missing /\ disk.snapshot.epoch.root = root

\* recover_admin_key_after_rotation
KeyIsStaged ==
  /\ disk.snapshot # Missing
  /\ ~Opens(disk.adminKey)
  /\ disk.adminKeyNext # Missing
  /\ Opens(disk.adminKeyNext)
\* Mutant: the log of the previous key is left in place.
PromotedKey_KeepsLog(n) ==
  [disk EXCEPT !.adminKey = IF n >= 2 THEN disk.adminKeyNext ELSE @]
PromotedKey(n) ==
  [disk EXCEPT !.wal      = IF n >= 1 THEN <<>> ELSE @,
               !.adminKey = IF n >= 2 THEN disk.adminKeyNext ELSE @]

RecoverAdminKey ==
  /\ phase = "down"
  /\ \/ /\ KeyIsStaged
        /\ disk' \in KeyUnstaged(PromotedKey(2))
        /\ phase' = "recovering"
     \/ /\ KeyIsStaged
        /\ disk' = PromotedKey(1)
        /\ UNCHANGED phase
     \/ /\ ~KeyIsStaged
        /\ phase' = "recovering"
        /\ UNCHANGED disk
  /\ UNCHANGED <<changes, capacity, epoch, rows, safe, position, overtaken, now, past>>

\* recover_instance_id_after_reset
InstanceIsStaged ==
  /\ disk.instanceIdNext # Missing
  /\ Opens(disk.adminKey)
  /\ disk.snapshot.epoch.instance = disk.instanceIdNext
  /\ disk.snapshot.epoch.instance # disk.instanceId
InstanceIsStale ==
  /\ disk.instanceIdNext # Missing
  /\ \/ disk.snapshot = Missing
     \/ Opens(disk.adminKey) /\ disk.snapshot.epoch.instance = disk.instanceId
PromotedInstance(n) ==
  [disk EXCEPT !.wal        = IF n >= 1 THEN <<>> ELSE @,
               !.instanceId = IF n >= 2 THEN disk.instanceIdNext ELSE @]

StartLoading ==
  /\ phase' = "loading"
  /\ epoch' = [root |-> disk'.adminKey, instance |-> disk'.instanceId]
  /\ position' = 0
  /\ rows' = IF disk'.snapshot = Missing THEN NoRows ELSE disk'.snapshot.rows
  /\ UNCHANGED <<capacity, safe, overtaken>>

RecoverInstanceId ==
  /\ phase = "recovering"
  /\ \/ /\ InstanceIsStaged
        /\ disk' \in InstanceUnstaged(PromotedInstance(2))
        /\ StartLoading
     \/ /\ InstanceIsStaged
        /\ disk' = PromotedInstance(1)
        /\ PowerOff
     \/ /\ InstanceIsStale
        /\ disk' \in InstanceUnstaged(disk)
        /\ StartLoading
     \/ /\ ~InstanceIsStaged /\ ~InstanceIsStale
        /\ UNCHANGED disk /\ StartLoading
  /\ UNCHANGED <<changes, now, past>>

SnapshotMatches == disk.snapshot # Missing => disk.snapshot.epoch = epoch
NextRecord == disk.wal[position + 1]
Readable(r) == r.kind # "torn" /\ r.root = epoch.root
\* snapshot_entry_mut: renew and revoke need the entry of their key.
Known(r) == r.kind \in {"renew", "revoke"} =>
              /\ rows[r.slot].gen = r.gen
              /\ rows[r.slot].state # "free"

\* apply_persisted_mutation
Applied(r) ==
  CASE r.kind = "issue"  -> [rows EXCEPT ![r.slot] = [gen |-> r.gen, state |-> "active",
                                          expires |-> r.expires, recent |-> FALSE]]
    [] r.kind = "renew"  -> [rows EXCEPT ![r.slot].state = "active",
                                         ![r.slot].expires = r.expires,
                                         ![r.slot].recent = FALSE]
    [] r.kind = "revoke" -> [rows EXCEPT ![r.slot].state = "revoked",
                                         ![r.slot].recent = FALSE]
    [] OTHER             -> rows

Replay ==
  /\ phase = "loading" /\ SnapshotMatches
  /\ position < Len(disk.wal)
  /\ Readable(NextRecord) /\ Known(NextRecord)
  /\ rows' = Applied(NextRecord)
  /\ position' = position + 1
  /\ UNCHANGED <<store, phase, capacity, epoch, safe, overtaken, now, past>>

\* load_persisted_state fails: safe mode, with an empty table.
LoadFails ==
  /\ phase = "loading"
  /\ \/ ~SnapshotMatches
     \/ /\ position < Len(disk.wal)
        /\ ~Readable(NextRecord) \/ ~Known(NextRecord)
  /\ phase' = "up" /\ capacity' \in Capacities
  /\ safe' = TRUE /\ rows' = NoRows /\ position' = 0
  /\ lost' = lost \cup {epoch.instance} /\ closed' = closed \cup {epoch}
  /\ UNCHANGED <<store, epoch, overtaken, now, granted, revoked, promised, unsettled>>

\* normalize_tombstone_times
Dated(s) == [rows[s] EXCEPT !.recent = FALSE]
DatedSnapshot == [epoch |-> epoch, rows |-> [s \in Slots |-> Dated(s)]]
\* start_locked: a live key past its deadline is restored as expired.
Restored(s) ==
  IF rows[s].state = "active" /\ rows[s].expires <= now
  THEN [Dated(s) EXCEPT !.state = "expired"]
  ELSE Dated(s)

Serve ==
  LET undated == \E s \in Slots : rows[s].recent
  IN
  /\ phase = "loading" /\ SnapshotMatches
  /\ position = Len(disk.wal)
  /\ \/ /\ disk' = IF undated THEN Compacted(DatedSnapshot, 2) ELSE disk
        /\ unsettled' = (unsettled /\ ~undated)
        /\ rows' = [s \in Slots |-> Restored(s)]
        /\ phase' = "up" /\ capacity' \in Capacities /\ position' = 0
        /\ overtaken' = {}
        /\ closed' = closed \cap {epoch}
        /\ UNCHANGED <<epoch, safe>>
     \/ /\ undated
        /\ \E n \in 1..2 :
             /\ disk' = Compacted(DatedSnapshot, n)
             /\ unsettled' = (n = 1)
        /\ PowerOff /\ UNCHANGED closed
  /\ UNCHANGED <<changes, now, granted, revoked, promised, lost>>

Start == RecoverAdminKey \/ RecoverInstanceId \/ Replay \/ LoadFails \/ Serve

KeyOperation ==
  \/ \E s \in Slots, ttl \in Ttls : Issue(s, ttl) \/ Renew(s, ttl) \/ RenewLate(s, ttl)
  \/ \E s \in Slots : Revoke(s) \/ Show(s) \/ Retire(s) \/ Reap(s)

Next ==
  \/ Tick
  \/ KeyOperation
  \/ Note
  \/ Compact
  \/ Gc
  \/ Reset
  \/ \E k \in Roots : Rotate(k)
  \/ Start
  \/ Stop

Spec == Init /\ [][Next]_vars

-----------------------------------------------------------------------------
(* Properties *)

\* Types of everything the store keeps (the structures of pb-mapper-auth's
\* lib.rs and persistence/mod.rs).
TypeOK ==
  /\ disk \in Disk
  /\ phase \in {"down", "recovering", "loading", "up"}
  /\ capacity \in Capacities \cup {0}
  /\ epoch \in Epoch
  /\ rows \in [Slots -> Row]
  /\ safe \in BOOLEAN
  /\ position \in Nat
  /\ overtaken \subseteq Slots
  /\ now \in Nat
  /\ changes \in 0..MaxChanges
  /\ granted \subseteq KeyId
  /\ revoked \subseteq KeyId
  /\ promised \subseteq Promise
  /\ lost \subseteq 0..MaxChanges
  /\ closed \subseteq Epoch
  /\ unsettled \in BOOLEAN

\* What a load found stands: no load failed since this instance id was drawn.
NothingLost == epoch.instance \notin lost

\* No credential is handed out twice (SlotHot::retire keeps the generation):
\* whatever was handed out under the running instance id, under this or an
\* earlier root, has a generation the slot has reached.  The next issue goes
\* beyond it, through reaping, collection, rotation, shrinking and growing of
\* the table, and crashes between any two writes.
KeyIdsAreNew ==
  phase = "up" /\ NothingLost =>
    \A k \in granted : k.instance = epoch.instance => k.gen <= rows[k.slot].gen

\* A revocation that was confirmed (actor_revoke answered) is never undone.
RevokedIsRefused ==
  NothingLost =>
    \A k \in revoked : k.instance = epoch.instance => ~Accepts(k.slot, k.gen)

\* A key that was confirmed (actor_issue, actor_renew answered) and has not
\* ended authenticates whenever the store is open and its slot in the table.
\* It has ended at its deadline, by revocation or a change of epoch, and where
\* the renewal came late, whenever the timer of the lease before fires, which
\* contradicts docs/authentication-v2.md:144-145 (run timers_late_renewal).
ConfirmedIsAccepted ==
  phase = "up" /\ ~safe =>
    \A p \in promised : InTable(p.slot) /\ p.expires > now =>
      Accepts(p.slot, p.gen)

\* After a failed load temporary keys stay refused until a reset or rotation,
\* however often the process restarts (compaction_is_allowed).
FailedLoadStaysClosed ==
  phase = "up" /\ epoch \in closed => safe

\* A load fails because of a record that was cut off, or of a failure the
\* recovery does not cover: not because a reset or rotation was interrupted.
InterruptedEpochChangeLoads ==
  [][lost' # lost =>
       unsettled \/ \E i \in 1..Len(disk.wal) : disk.wal[i].kind = "torn"]_vars

\* To those who use keys the store is as good as one without files: every step
\* of the actor, every failure of a write and every start is one of KeyStore or
\* cannot be told from the outside.
IsOpen == phase = "up" /\ ~safe
ServedSlots == IF IsOpen THEN {s \in Slots : InTable(s)} ELSE {}
KeyOf(s) == [slot |-> s, gen |-> rows[s].gen, expires |-> rows[s].expires]
Accepted == {KeyOf(s) : s \in {u \in Slots : Accepts(u, rows[u].gen)}}
Fleeting == {s \in overtaken : Accepts(s, rows[s].gen)}
Outstanding == {p \in promised : p.expires > now}

Service == INSTANCE KeyStore WITH
  Generations <- 0..MaxGeneration, open <- IsOpen, table <- ServedSlots,
  valid <- Accepted, fleeting <- Fleeting, promised <- Outstanding, failed <- closed

ImplementsKeyStore == Service!Spec

\* docs/authentication-v2.md:236-237, "an atomic snapshot replacement and WAL
\* truncation": a crash in the middle of a compaction does not make the next
\* load fail.  It does, see auth_compaction_crash.
CompactionIsAtomic ==
  [][lost' # lost =>
       \E i \in 1..Len(disk.wal) : disk.wal[i].kind = "torn"]_vars

\* leases.rs:174-176, on the wipe of a rotation or reset: "no row, lease, or
\* metadata entry survives it".  Rows of high slots do, see auth_reset_high_slots.
NoRowSurvivesWipe ==
  [][phase = "up" /\ phase' = "up" /\ epoch' # epoch =>
       \A s \in Slots : rows'[s].state = "free"]_vars
=============================================================================
