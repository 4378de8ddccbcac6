------------------------ MODULE AuthRecovery_proofs ------------------------
(***************************************************************************)
(* What the store promises of its keys and of its loads, for any slots,    *)
(* capacities, roots and lifetimes and any number of operations, failures  *)
(* and starts: a key that was confirmed authenticates until it ends, one   *)
(* whose revocation was confirmed never does again, a load that failed     *)
(* leaves every key refused, and an epoch change that was interrupted      *)
(* loads.  In sum, the store with its files implements KeyStore, the store *)
(* without.                                                                *)
(*                                                                         *)
(* The first two speak of the table of a running process, which the next   *)
(* start reads back, so their invariants speak of snapshot and log: the    *)
(* last record that touches a confirmed key gives it its promised deadline,*)
(* and each record that would reopen a revoked key is followed by one that *)
(* ends it.  The next two rest on what every start finds: files that replay*)
(* to the table of the process that wrote them.  The refinement rests on   *)
(* all of these.                                                           *)
(***************************************************************************)
EXTENDS AuthStore_proofs

DiskEpoch == [root |-> disk.adminKey, instance |-> disk.instanceId]

\* The snapshot was written in the epoch of the files.
Settled == disk.snapshot # Missing => disk.snapshot.epoch = DiskEpoch

StoredRow(s) == IF disk.snapshot = Missing THEN FreeRow(0) ELSE disk.snapshot.rows[s]

-----------------------------------------------------------------------------
(* Confirmed keys *)

Touches(r, s) == r.kind \in {"issue", "renew", "revoke"} /\ r.slot = s
Gives(r, p) == r.kind \in {"issue", "renew"} /\ r.slot = p.slot /\ r.gen = p.gen
                 /\ r.expires = p.expires
Meets(row, p) == row.gen = p.gen /\ row.state = "active" /\ row.expires = p.expires

\* Replaying the records after the first n over the row makes it meet the promise.
Keeps(wal, row, p, n) ==
    /\ Meets(row, p) \/ \E j \in n + 1 .. Len(wal) : Gives(wal[j], p)
    /\ \A i \in n + 1 .. Len(wal) : Touches(wal[i], p.slot) =>
         \E j \in i .. Len(wal) : Gives(wal[j], p)

FilesKeep(p) == Settled /\ Keeps(disk.wal, StoredRow(p.slot), p, 0)

Kept(p) ==
    /\ FilesKeep(p)
    /\ phase = "loading" => Keeps(disk.wal, rows[p.slot], p, position)
    /\ phase = "up" /\ ~safe => Meets(rows[p.slot], p)

PromiseInv == \A p \in promised : p.expires > now => Kept(p)

-----------------------------------------------------------------------------
(* Lemmas about the log *)

\* A record that does not touch the key's slot changes nothing (append_wal).
LEMMA KeepsAppend ==
    ASSUME NEW w \in Seq(Record), NEW r \in Record, NEW row, NEW p,
           Keeps(w, row, p, 0), ~Touches(r, p.slot)
    PROVE  Keeps(Append(w, r), row, p, 0)
<1> DEFINE v == Append(w, r)
<1>1. Len(v) = Len(w) + 1 /\ Len(w) \in Nat
  OBVIOUS
<1>2. \A i \in 1 .. Len(w) : v[i] = w[i]
  OBVIOUS
<1>3. v[Len(w) + 1] = r
  OBVIOUS
<1> HIDE DEF v
<1>4. Meets(row, p) \/ \E j \in 0 + 1 .. Len(v) : Gives(v[j], p)
  BY <1>1, <1>2 DEF Keeps
<1>5. ASSUME NEW i \in 0 + 1 .. Len(v), Touches(v[i], p.slot)
      PROVE  \E j \in i .. Len(v) : Gives(v[j], p)
  <2>1. i \in 1 .. Len(w) /\ Touches(w[i], p.slot)
    BY <1>1, <1>2, <1>3, <1>5
  <2>2. PICK j \in i .. Len(w) : Gives(w[j], p)
    BY <2>1 DEF Keeps
  <2>3. j \in i .. Len(v) /\ v[j] = w[j]
    BY <1>1, <1>2, <2>1, <2>2
  <2> QED
    BY <2>2, <2>3
<1> QED
  BY <1>4, <1>5 DEF Keeps, v

\* A record that gives the key its deadline keeps the promise by itself.
LEMMA KeepsGiven ==
    ASSUME NEW w \in Seq(Record), NEW r \in Record, NEW row, NEW p, Gives(r, p)
    PROVE  Keeps(Append(w, r), row, p, 0)
<1> DEFINE v == Append(w, r)
<1>1. Len(v) \in Nat /\ Len(v) >= 1 /\ v[Len(v)] = r
  OBVIOUS
<1> HIDE DEF v
<1>2. \A i \in 0 + 1 .. Len(v) : Len(v) \in i .. Len(v)
  BY <1>1
<1>3. Len(v) \in 0 + 1 .. Len(v) /\ Gives(v[Len(v)], p)
  BY <1>1
<1> QED
  BY <1>2, <1>3 DEF Keeps, v

\* One record is replayed.
LEMMA KeepsStep ==
    ASSUME NEW w \in Seq(Record), NEW n \in 0 .. Len(w) - 1, NEW before, NEW after, NEW p,
           Keeps(w, before, p, n),
           Gives(w[n + 1], p) => Meets(after, p),
           ~Touches(w[n + 1], p.slot) /\ Meets(before, p) => Meets(after, p)
    PROVE  Keeps(w, after, p, n + 1)
<1>0. n \in Nat /\ Len(w) \in Nat /\ n + 1 \in n + 1 .. Len(w)
  OBVIOUS
<1>1. Meets(after, p) \/ \E j \in (n + 1) + 1 .. Len(w) : Gives(w[j], p)
  <2>1. CASE Gives(w[n + 1], p)
    BY <2>1
  <2>2. CASE ~Gives(w[n + 1], p) /\ \E j \in n + 1 .. Len(w) : Gives(w[j], p)
    BY <1>0, <2>2
  <2>3. CASE \A j \in n + 1 .. Len(w) : ~Gives(w[j], p)
    <3>1. Meets(before, p)
      BY <2>3 DEF Keeps
    <3>2. ~Touches(w[n + 1], p.slot)
      BY <1>0, <2>3 DEF Keeps
    <3> QED
      BY <3>1, <3>2
  <2> QED
    BY <2>1, <2>2, <2>3
<1>2. \A i \in (n + 1) + 1 .. Len(w) : i \in n + 1 .. Len(w)
  BY <1>0
<1> QED
  BY <1>1, <1>2 DEF Keeps

\* A row that meets the promise needs no record; at the end of the log it does.
LEMMA KeepsRow ==
    ASSUME NEW w \in Seq(Record), NEW n, NEW row, NEW other, NEW p, Keeps(w, row, p, n)
    PROVE  /\ Meets(other, p) => Keeps(w, other, p, n)
           /\ n = Len(w) => Meets(row, p)
<1>1. n = Len(w) => n + 1 .. Len(w) = {}
  OBVIOUS
<1> QED
  BY <1>1 DEF Keeps

\* A truncated log.
LEMMA KeepsNothing ==
    ASSUME NEW row, NEW p, Meets(row, p)
    PROVE  Keeps(<<>>, row, p, 0)
<1>1. 0 + 1 .. Len(<<>>) = {}
  OBVIOUS
<1> QED
  BY <1>1 DEF Keeps

-----------------------------------------------------------------------------
(* What the files keep *)

\* Nothing is written that a load reads.
LEMMA FilesKeepSame ==
    ASSUME NEW p, FilesKeep(p), disk'.wal = disk.wal, disk'.snapshot = disk.snapshot,
           disk'.adminKey = disk.adminKey, disk'.instanceId = disk.instanceId
    PROVE  FilesKeep(p)'
BY DEF FilesKeep, Settled, StoredRow, DiskEpoch

\* A record is appended.
LEMMA FilesKeepLogged ==
    ASSUME TypeOK, NEW r \in Record, NEW p, disk' = Logged(r),
           \/ FilesKeep(p) /\ ~Touches(r, p.slot)
           \/ Settled /\ Gives(r, p)
    PROVE  FilesKeep(p)'
<1>1. /\ disk'.wal = Append(disk.wal, r) /\ disk'.snapshot = disk.snapshot
      /\ disk'.adminKey = disk.adminKey /\ disk'.instanceId = disk.instanceId
  BY LoggedFields
<1>2. disk.wal \in Seq(Record)
  BY DEF TypeOK, Disk
<1>3. Keeps(disk'.wal, StoredRow(p.slot), p, 0)
  BY <1>1, <1>2, KeepsAppend, KeepsGiven DEF FilesKeep
<1>4. Settled'
  BY <1>1 DEF FilesKeep, Settled, DiskEpoch
<1> QED
  BY <1>1, <1>3, <1>4 DEF FilesKeep, StoredRow

\* A snapshot that meets the promise replaces the old one, and the log may go.
LEMMA FilesKeepCompacted ==
    ASSUME TypeOK, NEW p, FilesKeep(p), NEW x, x.epoch = DiskEpoch, x # Missing,
           Meets(x.rows[p.slot], p), NEW n \in 0 .. 2, disk' = Compacted(x, n)
    PROVE  FilesKeep(p)'
<1>1. /\ disk'.snapshot = IF n >= 1 THEN x ELSE disk.snapshot
      /\ disk'.wal = IF n >= 2 THEN <<>> ELSE disk.wal
      /\ disk'.adminKey = disk.adminKey /\ disk'.instanceId = disk.instanceId
  BY CompactedFields
<1>2. disk.wal \in Seq(Record) /\ Keeps(disk.wal, StoredRow(p.slot), p, 0)
  BY DEF TypeOK, Disk, FilesKeep
<1>3. CASE n = 0
  BY <1>1, <1>3, FilesKeepSame
<1>4. CASE n >= 1
  <2>1. Keeps(disk'.wal, x.rows[p.slot], p, 0)
    BY <1>1, <1>2, KeepsRow, KeepsNothing
  <2>2. disk'.snapshot = x /\ Settled'
    BY <1>1, <1>4 DEF Settled, DiskEpoch
  <2> QED
    BY <2>1, <2>2 DEF FilesKeep, StoredRow
<1> QED
  BY <1>3, <1>4

-----------------------------------------------------------------------------
(* Steps of a running process *)

\* A promise that stands was made before, or is made by this step.
LEMMA StillPromised ==
    ASSUME TypeOK, TypeOK', PromiseInv, now' >= now,
           NEW p \in promised', p \in promised, p.expires > now'
    PROVE  Kept(p) /\ p.expires > now /\ p.slot \in Slots
<1>1. p.expires \in Nat /\ p.slot \in Slots /\ now \in Nat /\ now' \in Nat
  BY DEF TypeOK, Promise
<1>2. p.expires > now
  BY <1>1
<1> QED
  BY <1>1, <1>2 DEF PromiseInv

\* A process that serves and is not closed agrees with its files.
LEMMA OpenIsSettled ==
    ASSUME KeyInv, phase = "up", ~safe
    PROVE  Settled /\ epoch = DiskEpoch
BY DEF KeyInv, Aligned, SnapshotMatches, Settled, DiskEpoch

\* An append that is in doubt, of a record that touches no promise but those that
\* are given up.
LEMMA AppendLostPromises ==
    ASSUME KeyInv, TypeOK', PromiseInv, phase = "up", NEW r \in Record, NEW doubted,
           AppendLost(r, doubted),
           \A p \in promised \ doubted : p.expires > now => ~Touches(r, p.slot)
    PROVE  PromiseInv'
<1>0. /\ TypeOK /\ UNCHANGED now /\ promised' = promised \ doubted /\ now \in Nat
      /\ 0 \in 0 .. MaxGeneration /\ 0 \in Nat
  BY StoreAssumption DEF KeyInv, TypeOK, AppendLost, StoreAssumption
<1>1. Torn \in Record /\ Torn.kind = "torn"
  <2>1. Torn \in Record
    BY <1>0, StoreAssumption, NewRecordType DEF Torn, StoreAssumption
  <2> QED
    BY <2>1 DEF Torn, NewRecord
<1>2. phase' # "loading" /\ (phase' = "up" => safe')
  BY DEF AppendLost, PowerOff
<1>3. ASSUME NEW p \in promised', p.expires > now'
      PROVE  Kept(p)'
  <2>1. Kept(p) /\ ~Touches(r, p.slot) /\ ~Touches(Torn, p.slot)
    BY <1>0, <1>1, <1>3, StillPromised DEF Touches
  <2>2. FilesKeep(p)'
    <3>1. CASE disk' = disk
      BY <2>1, <3>1, FilesKeepSame DEF Kept
    <3>2. CASE disk' = Logged(r)
      BY <1>0, <2>1, <3>2, FilesKeepLogged DEF Kept
    <3>3. CASE disk' = Logged(Torn)
      BY <1>0, <1>1, <2>1, <3>3, FilesKeepLogged DEF Kept
    <3> QED
      BY <3>1, <3>2, <3>3 DEF AppendLost
  <2> QED
    BY <1>2, <2>2 DEF Kept
<1> QED
  BY <1>3 DEF PromiseInv

\* actor_issue: the slot is free, so nothing was promised of it.
LEMMA IssuePromises ==
    ASSUME KeyInv, TypeOK', PromiseInv, NEW s \in Slots, NEW ttl \in Ttls, Issue(s, ttl)
    PROVE  PromiseInv'
<1> DEFINE g == rows[s].gen + 1
           t == now + ttl
           r == NewRecord("issue", s, g, t)
           new == [slot |-> s, gen |-> g, expires |-> t]
<1>0. TypeOK /\ phase = "up" /\ ~safe /\ UNCHANGED now /\ now \in Nat
  BY DEF KeyInv, TypeOK, Issue, MayAppend, AppendLost
<1>1. g \in 0 .. MaxGeneration /\ t \in Nat
  BY <1>0, StoreAssumption DEF TypeOK, Row, Issue, Issuable, StoreAssumption
<1>2. r \in Record
  BY <1>0, <1>1, NewRecordType, StoreAssumption
<1>3. r.kind = "issue" /\ r.slot = s /\ r.gen = g /\ r.expires = t
  BY DEF NewRecord
<1>4. \A p \in promised : p.expires > now => p.slot # s
  <2>1. rows[s].state = "free"
    BY DEF Issue, Issuable
  <2> QED
    BY <1>0, <2>1 DEF PromiseInv, Kept, Meets
<1>5. CASE AppendLost(r, {})
  BY <1>0, <1>2, <1>3, <1>4, <1>5, AppendLostPromises DEF Touches
<1>6. CASE ~AppendLost(r, {})
  <2>1. /\ disk' = Logged(r)
        /\ rows' = [rows EXCEPT ![s] = [gen |-> g, state |-> "active", expires |-> t,
                                        recent |-> FALSE]]
        /\ promised' = promised \cup {new} /\ UNCHANGED <<phase, safe>>
    BY <1>6 DEF Issue, AppendOk
  <2>2. ASSUME NEW p \in promised', p.expires > now', p = new
        PROVE  Kept(p)'
    <3>1. Gives(r, p) /\ p.slot = s /\ p.gen = g /\ p.expires = t
      BY <1>3, <2>2 DEF Gives
    <3> HIDE DEF r, new, g, t
    <3>2. FilesKeep(p)'
      BY <1>0, <1>2, <2>1, <3>1, FilesKeepLogged, OpenIsSettled
    <3>3. Meets(rows'[p.slot], p)
      BY <1>0, <2>1, <3>1 DEF Meets, TypeOK
    <3> QED
      BY <1>0, <2>1, <3>2, <3>3 DEF Kept
  <2>3. ASSUME NEW p \in promised', p.expires > now', p # new
        PROVE  Kept(p)'
    <3>1. p \in promised
      BY <2>1, <2>3
    <3> HIDE DEF r, new, g, t
    <3>2. Kept(p) /\ p.slot # s /\ p.slot \in Slots
      BY <1>0, <1>4, <2>3, <3>1, StillPromised
    <3>3. FilesKeep(p)'
      BY <1>0, <1>2, <1>3, <2>1, <3>2, FilesKeepLogged DEF Kept, Touches
    <3>4. rows'[p.slot] = rows[p.slot]
      BY <1>0, <2>1, <3>2 DEF TypeOK
    <3> QED
      BY <1>0, <2>1, <3>2, <3>3, <3>4 DEF Kept
  <2> QED
    BY <2>2, <2>3 DEF PromiseInv
<1> QED
  BY <1>5, <1>6

\* actor_renew, in time or late: the promise of the row is replaced; no other is
\* of its slot.
LEMMA RenewPromises ==
    ASSUME KeyInv, TypeOK', PromiseInv, NEW s \in Slots, NEW ttl \in Ttls,
           Renew(s, ttl) \/ RenewLate(s, ttl)
    PROVE  PromiseInv'
<1> DEFINE g == rows[s].gen
           t == now + ttl
           r == NewRecord("renew", s, g, t)
           new == [slot |-> s, gen |-> g, expires |-> t]
<1>0. TypeOK /\ phase = "up" /\ ~safe /\ now \in Nat /\ now' \in {now, now + 1}
  BY DEF KeyInv, TypeOK, Renew, RenewLate, MayAppend, AppendLost
<1>1. g \in 0 .. MaxGeneration /\ t \in Nat
  BY <1>0, StoreAssumption DEF TypeOK, Row, StoreAssumption
<1>2. r \in Record
  BY <1>0, <1>1, NewRecordType, StoreAssumption
<1>3. r.kind = "renew" /\ r.slot = s /\ r.gen = g /\ r.expires = t
  BY DEF NewRecord
<1>4. \A p \in promised \ PromisesOf(s) : p.expires > now => p.slot # s
  BY <1>0 DEF PromiseInv, Kept, Meets, PromisesOf
<1>5. CASE AppendLost(r, PromisesOf(s))
  BY <1>0, <1>2, <1>3, <1>4, <1>5, AppendLostPromises DEF Touches
<1>6. CASE ~AppendLost(r, PromisesOf(s))
  <2>1. /\ disk' = Logged(r) /\ rows' = [rows EXCEPT ![s].expires = t]
        /\ promised' \subseteq (promised \ PromisesOf(s)) \cup {new} /\ UNCHANGED <<phase, safe>>
        /\ rows[s].state = "active"
    BY <1>6 DEF Renew, RenewLate, AppendOk, Renewable
  <2>2. ASSUME NEW p \in promised', p.expires > now', p = new
        PROVE  Kept(p)'
    <3>1. Gives(r, p) /\ p.slot = s /\ p.gen = rows[s].gen /\ p.expires = t
      BY <1>3, <2>2 DEF Gives
    <3> HIDE DEF r, new, g, t
    <3>2. FilesKeep(p)'
      BY <1>0, <1>2, <2>1, <3>1, FilesKeepLogged, OpenIsSettled
    <3>3. Meets(rows'[p.slot], p)
      BY <1>0, <2>1, <3>1 DEF Meets, TypeOK, Row
    <3> QED
      BY <1>0, <2>1, <3>2, <3>3 DEF Kept
  <2>3. ASSUME NEW p \in promised', p.expires > now', p # new
        PROVE  Kept(p)'
    <3>1. p \in promised \ PromisesOf(s)
      BY <2>1, <2>3
    <3> HIDE DEF r, new, g, t
    <3>2. Kept(p) /\ p.slot # s /\ p.slot \in Slots
      BY <1>0, <1>4, <2>3, <3>1, StillPromised
    <3>3. FilesKeep(p)'
      BY <1>0, <1>2, <1>3, <2>1, <3>2, FilesKeepLogged DEF Kept, Touches
    <3>4. rows'[p.slot] = rows[p.slot]
      BY <1>0, <2>1, <3>2 DEF TypeOK
    <3> QED
      BY <1>0, <2>1, <3>2, <3>3, <3>4 DEF Kept
  <2> QED
    BY <2>2, <2>3 DEF PromiseInv
<1> QED
  BY <1>5, <1>6

\* A record is appended, and the rows of the promises that stand stay as they are.
LEMMA AppendOkPromises ==
    ASSUME KeyInv, TypeOK', PromiseInv, phase = "up", NEW r \in Record, AppendOk(r),
           UNCHANGED <<phase, safe, now>>, promised' \subseteq promised,
           \A p \in promised' : p.expires > now =>
             ~Touches(r, p.slot) /\ (~safe => rows'[p.slot] = rows[p.slot])
    PROVE  PromiseInv'
<1>0. TypeOK /\ now \in Nat /\ disk' = Logged(r)
  BY DEF KeyInv, TypeOK, AppendOk
<1>1. ASSUME NEW p \in promised', p.expires > now'
      PROVE  Kept(p)'
  <2>1. Kept(p)
    BY <1>0, <1>1, StillPromised
  <2>2. FilesKeep(p)'
    BY <1>0, <1>1, <2>1, FilesKeepLogged DEF Kept
  <2> QED
    BY <1>1, <2>1, <2>2 DEF Kept
<1> QED
  BY <1>1 DEF PromiseInv

\* actor_revoke ends the promise of its row.
LEMMA RevokePromises ==
    ASSUME KeyInv, TypeOK', PromiseInv, NEW s \in Slots, Revoke(s)
    PROVE  PromiseInv'
<1> DEFINE r == NewRecord("revoke", s, rows[s].gen, 0)
<1>0. /\ TypeOK /\ phase = "up" /\ ~safe /\ rows[s].gen \in 0 .. MaxGeneration
      /\ promised \subseteq Promise
  BY DEF KeyInv, TypeOK, Row, Revoke, MayAppend
<1>1. r \in Record
  BY <1>0, NewRecordType, StoreAssumption DEF StoreAssumption
<1>2. r.kind = "revoke" /\ r.slot = s
  BY DEF NewRecord
<1>3. \A p \in promised \ PromisesOf(s) : p.expires > now => p.slot # s /\ p.slot \in Slots
  BY <1>0 DEF PromiseInv, Kept, Meets, PromisesOf, Promise
<1>4. \/ AppendLost(r, PromisesOf(s))
      \/ /\ AppendOk(r)
         /\ rows' = [rows EXCEPT ![s].state = "revoked", ![s].recent = TRUE]
         /\ promised' = promised \ PromisesOf(s)
         /\ UNCHANGED <<phase, safe, now>>
  BY DEF Revoke
<1> HIDE DEF r
<1>5. CASE AppendLost(r, PromisesOf(s))
  BY <1>0, <1>1, <1>2, <1>3, <1>5, AppendLostPromises DEF Touches
<1>6. CASE ~AppendLost(r, PromisesOf(s))
  <2>1. \A p \in promised' : p.expires > now =>
          ~Touches(r, p.slot) /\ rows'[p.slot] = rows[p.slot]
    BY <1>0, <1>2, <1>3, <1>4, <1>6 DEF Touches, TypeOK
  <2> QED
    BY <1>0, <1>1, <1>4, <1>6, <2>1, AppendOkPromises
<1> QED
  BY <1>5, <1>6

\* actor_show and the commands that only leave a record.
LEMMA NotePromises ==
    ASSUME KeyInv, TypeOK', PromiseInv, Note \/ \E s \in Slots : Show(s)
    PROVE  PromiseInv'
<1> DEFINE r == NewRecord("note", Missing, 0, 0)
<1>0. TypeOK /\ phase = "up" /\ 0 \in 0 .. MaxGeneration /\ 0 \in Nat
  BY StoreAssumption DEF KeyInv, Note, Show, MayAppend, StoreAssumption
<1>1. r \in Record
  BY <1>0, NewRecordType, StoreAssumption
<1>2. r.kind = "note"
  BY DEF NewRecord
<1>3. \/ AppendLost(r, {})
      \/ AppendOk(r) /\ UNCHANGED <<memory, now, promised>>
  BY DEF Note, Show, past
<1> HIDE DEF r
<1> QED
  BY <1>0, <1>1, <1>2, <1>3, AppendLostPromises, AppendOkPromises DEF Touches, memory

\* The timers, the clock and a stop write nothing, and break no promise that stands.
LEMMA TimerPromises ==
    ASSUME KeyInv, TypeOK', PromiseInv, phase = "up",
           Tick \/ Stop \/ \E s \in Slots : Retire(s) \/ Reap(s)
    PROVE  PromiseInv'
<1>0. TypeOK /\ now \in Nat
  BY DEF KeyInv, TypeOK
<1>1. UNCHANGED disk /\ promised' \subseteq promised /\ now' >= now
  BY <1>0 DEF Tick, Stop, Retire, Reap, store, past
<1>2. ASSUME NEW p \in promised', p.expires > now'
      PROVE  Kept(p)'
  <2>1. Kept(p) /\ p.expires > now /\ p.slot \in Slots /\ p.expires \in Nat
    BY <1>0, <1>1, <1>2, StillPromised DEF TypeOK, Promise
  <2>2. FilesKeep(p)'
    BY <1>1, <2>1, FilesKeepSame DEF Kept
  <2>3. CASE Tick \/ Stop
    BY <2>1, <2>2, <2>3 DEF Kept, Tick, Stop, PowerOff, memory
  <2>4. ASSUME NEW s \in Slots, Retire(s) \/ Reap(s)
        PROVE  Kept(p)'
    <3>1. ~safe => p.slot # s
      BY <1>0, <1>2, <2>1, <2>4 DEF Kept, Meets, PromisesOf, Retire, Reap, HasReaper, Dead
    <3>2. \A u \in Slots \ {s} : rows'[u] = rows[u]
      BY <1>0, <2>4 DEF TypeOK, Retire, Reap
    <3> QED
      BY <2>1, <2>2, <2>4, <3>1, <3>2 DEF Kept, Retire, Reap
  <2> QED
    BY <2>3, <2>4
<1> QED
  BY <1>2 DEF PromiseInv

\* The periodic compaction, and actor_gc, of a table that meets every promise.
LEMMA CompactionPromises ==
    ASSUME KeyInv, TypeOK', PromiseInv, phase = "up", ~safe, NEW table \in [Slots -> Row],
           \A p \in promised : p.expires > now => Meets(table[p.slot], p),
           CompactionOf(table)
    PROVE  PromiseInv'
<1> DEFINE x == BuiltSnapshot(table)
<1>0. TypeOK /\ now \in Nat /\ UNCHANGED <<now, promised>>
  BY DEF KeyInv, TypeOK, CompactionOf
<1>1. x # Missing /\ x.epoch = DiskEpoch
  BY <1>0, SnapshotFields, SnapshotType, MissingAssumption, OpenIsSettled
<1>2. \A p : Meets(table[p.slot], p) /\ p.slot \in Slots => Meets(x.rows[p.slot], p)
  BY DEF BuiltSnapshot, Meets, Row
<1>3. PICK n \in 0 .. 2 :
        /\ disk' = Compacted(x, n)
        /\ \/ rows' = table /\ UNCHANGED phase
           \/ PowerOff
  BY DEF CompactionOf
<1> HIDE DEF x
<1>4. ASSUME NEW p \in promised', p.expires > now'
      PROVE  Kept(p)'
  <2>1. Kept(p) /\ p.slot \in Slots /\ Meets(table[p.slot], p)
    BY <1>0, <1>4, StillPromised
  <2>2. FilesKeep(p)'
    BY <1>0, <1>1, <1>2, <1>3, <2>1, FilesKeepCompacted DEF Kept
  <2> QED
    BY <1>3, <2>1, <2>2 DEF Kept, PowerOff
<1> QED
  BY <1>4 DEF PromiseInv

\* A reset or rotation gives every promise up.
LEMMA EpochChangePromises ==
    ASSUME Reset \/ \E k \in Roots : Rotate(k)
    PROVE  PromiseInv'
BY DEF Reset, Rotate, PromiseInv

-----------------------------------------------------------------------------
(* Steps of a start *)

\* The clock and a stop, of a process that does not serve yet.
LEMMA IdlePromises ==
    ASSUME KeyInv, TypeOK', PromiseInv, phase # "up", Tick \/ Stop
    PROVE  PromiseInv'
<1>0. TypeOK /\ now \in Nat /\ UNCHANGED disk /\ promised' \subseteq promised /\ now' >= now
      /\ phase' = "down"
  BY DEF KeyInv, TypeOK, Tick, Stop, PowerOff, store, memory, past
<1>1. ASSUME NEW p \in promised', p.expires > now'
      PROVE  Kept(p)'
  <2>1. Kept(p)
    BY <1>0, <1>1, StillPromised
  <2> QED
    BY <1>0, <2>1, FilesKeepSame DEF Kept
<1> QED
  BY <1>1 DEF PromiseInv

\* Nothing is staged while a promise stands, so a start leaves the log alone.
LEMMA RecoverPromises ==
    ASSUME KeyInv, TypeOK', PromiseInv, RecoverAdminKey \/ RecoverInstanceId
    PROVE  PromiseInv'
<1>0. TypeOK /\ now \in Nat /\ UNCHANGED <<now, promised>>
  BY DEF KeyInv, TypeOK, RecoverAdminKey, RecoverInstanceId, past
<1>1. ASSUME NEW p \in promised', p.expires > now'
      PROVE  Kept(p)'
  <2>1. Kept(p) /\ p.slot \in Slots
    BY <1>0, <1>1, StillPromised
  <2>2. ~KeyIsStaged /\ ~InstanceIsStaged
    BY <2>1 DEF Kept, FilesKeep, Settled, DiskEpoch, KeyIsStaged, InstanceIsStaged, Opens
  <2>3. disk' \in InstanceUnstaged(disk)
    BY <2>2 DEF RecoverAdminKey, RecoverInstanceId, InstanceUnstaged
  <2>4. /\ disk'.snapshot = disk.snapshot /\ disk'.wal = disk.wal
        /\ disk'.adminKey = disk.adminKey /\ disk'.instanceId = disk.instanceId
    BY <1>0, <2>3 DEF TypeOK, Disk, InstanceUnstaged
  <2>5. FilesKeep(p)'
    BY <2>1, <2>4, FilesKeepSame DEF Kept
  <2>6. CASE RecoverAdminKey
    BY <2>2, <2>5, <2>6 DEF RecoverAdminKey, Kept
  <2>7. CASE RecoverInstanceId
    <3>1. StartLoading
      BY <2>2, <2>7 DEF RecoverInstanceId
    <3>2. /\ phase' = "loading" /\ position' = 0
          /\ rows' = IF disk'.snapshot = Missing THEN NoRows ELSE disk'.snapshot.rows
      BY <3>1 DEF StartLoading
    <3>3. rows'[p.slot] = StoredRow(p.slot)'
      BY <2>1, <3>2 DEF StoredRow, NoRows
    <3>4. Keeps(disk'.wal, StoredRow(p.slot)', p, 0)
      BY <2>5 DEF FilesKeep
    <3> QED
      BY <2>5, <3>2, <3>3, <3>4 DEF Kept
  <2> QED
    BY <2>6, <2>7
<1> QED
  BY <1>1 DEF PromiseInv

\* What one record makes of the row of a promise.
LEMMA AppliedMeets ==
    ASSUME TypeOK, NEW r \in Record, Known(r), NEW p, p.slot \in Slots
    PROVE  /\ Gives(r, p) => Meets(Applied(r)[p.slot], p)
           /\ ~Touches(r, p.slot) /\ Meets(rows[p.slot], p) => Meets(Applied(r)[p.slot], p)
<1>0. rows \in [Slots -> Row]
  BY DEF TypeOK
<1>1. CASE r.kind = "issue"
  BY <1>0, <1>1 DEF Applied, Gives, Touches, Meets
<1>2. CASE r.kind = "renew"
  BY <1>0, <1>2 DEF Applied, Gives, Touches, Meets, Known, Row
<1>3. CASE r.kind = "revoke"
  BY <1>0, <1>3 DEF Applied, Gives, Touches, Meets
<1>4. CASE r.kind \notin {"issue", "renew", "revoke"}
  BY <1>4 DEF Applied, Gives
<1> QED
  BY <1>1, <1>2, <1>3, <1>4

\* One record is replayed.
LEMMA ReplayPromises ==
    ASSUME KeyInv, TypeOK', PromiseInv, Replay
    PROVE  PromiseInv'
<1> DEFINE r == NextRecord
<1>0. /\ TypeOK /\ now \in Nat /\ UNCHANGED <<disk, now, promised>> /\ phase = "loading"
      /\ phase' = "loading" /\ rows' = Applied(r) /\ position' = position + 1 /\ Known(r)
      /\ disk.wal \in Seq(Record) /\ position \in 0 .. Len(disk.wal) - 1
  BY DEF KeyInv, TypeOK, Disk, Replay, store, past
<1>1. r \in Record /\ r = disk.wal[position + 1]
  BY <1>0 DEF NextRecord
<1> HIDE DEF r
<1>2. ASSUME NEW p \in promised', p.expires > now'
      PROVE  Kept(p)'
  <2>1. Kept(p) /\ p.slot \in Slots
    BY <1>0, <1>2, StillPromised
  <2>2. Keeps(disk.wal, rows[p.slot], p, position)
    BY <1>0, <2>1 DEF Kept
  <2>3. Keeps(disk.wal, Applied(r)[p.slot], p, position + 1)
    BY <1>0, <1>1, <2>1, <2>2, AppliedMeets, KeepsStep
  <2>4. FilesKeep(p)'
    BY <1>0, <2>1, FilesKeepSame DEF Kept
  <2> QED
    BY <1>0, <2>3, <2>4 DEF Kept
<1> QED
  BY <1>2 DEF PromiseInv

\* The whole log was replayed, or the load failed.  A row that is live and not due
\* is restored as it is, and dating it changes no promise.
LEMMA ServePromises ==
    ASSUME KeyInv, TypeOK', PromiseInv, Serve \/ LoadFails
    PROVE  PromiseInv'
<1>0. /\ TypeOK /\ now \in Nat /\ UNCHANGED <<now, promised>> /\ phase = "loading"
      /\ phase' # "loading" /\ epoch = DiskEpoch /\ rows \in [Slots -> Row]
  BY DEF KeyInv, TypeOK, Aligned, Serve, LoadFails, PowerOff, DiskEpoch
<1>1. ASSUME NEW p \in promised', p.expires > now'
      PROVE  Kept(p)'
  <2>1. Kept(p) /\ p.slot \in Slots /\ p.expires > now /\ p.expires \in Nat
    BY <1>0, <1>1, StillPromised DEF TypeOK, Promise
  <2>2. CASE LoadFails
    BY <1>0, <2>1, <2>2, FilesKeepSame DEF Kept, LoadFails, store
  <2>3. CASE Serve
    <3>1. Meets(rows[p.slot], p)
      <4>1. disk.wal \in Seq(Record) /\ position = Len(disk.wal)
        BY <1>0, <2>3 DEF TypeOK, Disk, Serve
      <4> QED
        BY <1>0, <2>1, <4>1, KeepsRow DEF Kept
    <3>2. /\ Meets(Restored(p.slot), p) /\ Meets(DatedSnapshot.rows[p.slot], p)
          /\ DatedSnapshot.epoch = DiskEpoch
      BY <1>0, <2>1, <3>1 DEF Meets, Restored, Dated, DatedSnapshot, Row
    <3>3. DatedSnapshot # Missing
      BY <1>0, SnapshotType, MissingAssumption
    <3>4. disk' = disk \/ \E n \in 0 .. 2 : disk' = Compacted(DatedSnapshot, n)
      BY <2>3 DEF Serve
    <3>5. FilesKeep(p)'
      BY <1>0, <2>1, <3>2, <3>3, <3>4, FilesKeepSame, FilesKeepCompacted DEF Kept
    <3>6. phase' = "up" => rows' = [s \in Slots |-> Restored(s)]
      BY <2>3 DEF Serve, PowerOff
    <3> QED
      BY <1>0, <2>1, <3>2, <3>5, <3>6 DEF Kept
  <2> QED
    BY <2>2, <2>3
<1> QED
  BY <1>1 DEF PromiseInv

-----------------------------------------------------------------------------

LEMMA NextPromises ==
    ASSUME KeyInv, TypeOK', PromiseInv, Next
    PROVE  PromiseInv'
<1>0. rows \in [Slots -> Row] /\ now \in Nat
  BY DEF KeyInv, TypeOK
<1>1. CASE Tick \/ Stop
  BY <1>1, TimerPromises, IdlePromises
<1>2. CASE KeyOperation
  <2>1. ASSUME NEW s \in Slots, NEW ttl \in Ttls,
                Issue(s, ttl) \/ Renew(s, ttl) \/ RenewLate(s, ttl)
        PROVE  PromiseInv'
    BY <2>1, IssuePromises, RenewPromises
  <2>2. ASSUME NEW s \in Slots, Revoke(s) \/ Show(s) \/ Retire(s) \/ Reap(s)
        PROVE  PromiseInv'
    <3>1. Retire(s) \/ Reap(s) => phase = "up"
      BY DEF Retire, Reap
    <3> QED
      BY <2>2, <3>1, RevokePromises, NotePromises, TimerPromises
  <2> QED
    BY <1>2, <2>1, <2>2 DEF KeyOperation
<1>3. CASE Note
  BY <1>3, NotePromises
<1>4. CASE Compact
  <2>1. /\ phase = "up" /\ ~safe /\ CompactionOf(rows)
        /\ \A p \in promised : p.expires > now => Meets(rows[p.slot], p)
    BY <1>4 DEF Compact, CompactionIsAllowed, PromiseInv, Kept
  <2> QED
    BY <1>0, <2>1, CompactionPromises
<1>5. CASE Gc
  <2> DEFINE table == [s \in Slots |-> Collected(s)]
  <2>1. phase = "up" /\ ~safe /\ CompactionOf(table) /\ promised \subseteq Promise
    BY <1>5 DEF Gc, KeyInv, TypeOK
  <2>2. table \in [Slots -> Row]
    BY <1>0, RowType DEF KeyInv, Collected
  <2>3. ASSUME NEW p \in promised, p.expires > now
        PROVE  Meets(table[p.slot], p)
    <3>1. Meets(rows[p.slot], p) /\ p.slot \in Slots /\ p.expires \in Nat
      BY <2>1, <2>3 DEF PromiseInv, Kept, Promise
    <3> QED
      BY <1>0, <2>3, <3>1 DEF Meets, Collected, Collectable, HasReaper, Dead
  <2> HIDE DEF table
  <2> QED
    BY <2>1, <2>2, <2>3, CompactionPromises
<1>6. CASE Reset \/ \E k \in Roots : Rotate(k)
  BY <1>6, EpochChangePromises
<1>7. CASE Start
  BY <1>7, RecoverPromises, ReplayPromises, ServePromises DEF Start
<1> QED
  BY <1>1, <1>2, <1>3, <1>4, <1>5, <1>6, <1>7 DEF Next

LEMMA StutterPromises ==
    ASSUME PromiseInv, UNCHANGED vars
    PROVE  PromiseInv'
BY DEF PromiseInv, Kept, FilesKeep, Settled, DiskEpoch, StoredRow, vars, store, memory, past

LEMMA PromisesAreKept == Spec => []PromiseInv
<1>1. Init => PromiseInv
  BY DEF Init, PromiseInv
<1>2. KeyInv /\ KeyInv' /\ PromiseInv /\ [Next]_vars => PromiseInv'
  BY NextPromises, StutterPromises DEF KeyInv
<1> QED
  BY <1>1, <1>2, FilesReachEveryKey, PTL DEF Spec

\* A key that was confirmed authenticates whenever the store is open, its slot is
\* in the table and its deadline has not passed: through renewals of other keys,
\* collections, compactions that are cut short and starts.
THEOREM ConfirmedKeysStay == Spec => []ConfirmedIsAccepted
<1>1. PromiseInv => ConfirmedIsAccepted
  BY DEF PromiseInv, Kept, Meets, ConfirmedIsAccepted, Accepts
<1> QED
  BY <1>1, PromisesAreKept, PTL

-----------------------------------------------------------------------------
(* Revoked keys *)

Live(row, k) == row.gen = k.gen /\ row.state = "active"
Reopens(r, k) == r.kind \in {"issue", "renew"} /\ r.slot = k.slot /\ r.gen = k.gen
Ends(r, k) ==
    /\ r.slot = k.slot
    /\ \/ r.kind = "revoke" /\ r.gen = k.gen
       \/ r.kind = "issue" /\ r.gen # k.gen

\* Replaying the records after the first n over the row leaves the key ended.
Ended(wal, row, k, n) ==
    /\ Live(row, k) => \E j \in n + 1 .. Len(wal) : Ends(wal[j], k)
    /\ \A i \in n + 1 .. Len(wal) : Reopens(wal[i], k) =>
         \E j \in i + 1 .. Len(wal) : Ends(wal[j], k)

\* The files speak of the key's instance id.
SpokenOf(k) == disk.snapshot = Missing \/ disk.snapshot.epoch.instance = k.instance

FilesRefuse(k) ==
    SpokenOf(k) =>
      IF RootIsAhead THEN ~Live(StoredRow(k.slot), k)
      ELSE Ended(disk.wal, StoredRow(k.slot), k, 0)

Refused(k) ==
    /\ FilesRefuse(k)
    /\ phase = "loading" /\ SnapshotMatches /\ k.instance = epoch.instance =>
         Ended(disk.wal, rows[k.slot], k, position)
    /\ phase = "up" /\ k.instance = epoch.instance => ~Live(rows[k.slot], k)

RevokedInv == \A k \in revoked : k.instance \notin lost => Refused(k)

-----------------------------------------------------------------------------
(* Lemmas about the log *)

\* A record that does not reopen the key, or ends it, leaves it ended (append_wal).
LEMMA EndedAppend ==
    ASSUME NEW w \in Seq(Record), NEW r \in Record, NEW row, NEW k,
           \/ Ended(w, row, k, 0) /\ ~Reopens(r, k)
           \/ Ends(r, k)
    PROVE  Ended(Append(w, r), row, k, 0)
<1> DEFINE v == Append(w, r)
<1>1. Len(v) = Len(w) + 1 /\ Len(w) \in Nat
  OBVIOUS
<1>2. \A i \in 1 .. Len(w) : v[i] = w[i]
  OBVIOUS
<1>3. v[Len(w) + 1] = r
  OBVIOUS
<1> HIDE DEF v
<1>4. ~Reopens(r, k)
  BY DEF Ends, Reopens
<1>5. ASSUME NEW i \in 0 .. Len(w), Live(row, k) \/ i > 0, i > 0 => Reopens(v[i], k)
      PROVE  \E j \in i + 1 .. Len(v) : Ends(v[j], k)
  <2>1. CASE Ends(r, k)
    BY <1>1, <1>3, <2>1
  <2>2. CASE Ended(w, row, k, 0)
    <3>1. i > 0 => Reopens(w[i], k)
      BY <1>2, <1>5
    <3>2. PICK j \in i + 1 .. Len(w) : Ends(w[j], k)
      BY <1>1, <1>5, <2>2, <3>1 DEF Ended
    <3>3. j \in i + 1 .. Len(v) /\ v[j] = w[j]
      BY <1>1, <1>2, <3>2
    <3> QED
      BY <3>2, <3>3
  <2> QED
    BY <2>1, <2>2
<1>6. Live(row, k) => \E j \in 0 + 1 .. Len(v) : Ends(v[j], k)
  BY <1>1, <1>5
<1>7. ASSUME NEW i \in 0 + 1 .. Len(v), Reopens(v[i], k)
      PROVE  \E j \in i + 1 .. Len(v) : Ends(v[j], k)
  <2>1. i \in 0 .. Len(w) /\ i > 0
    BY <1>1, <1>3, <1>4, <1>7
  <2> QED
    BY <1>5, <1>7, <2>1
<1> QED
  BY <1>6, <1>7 DEF Ended, v

\* One record is replayed.
LEMMA EndedStep ==
    ASSUME NEW w \in Seq(Record), NEW n \in 0 .. Len(w) - 1, NEW before, NEW after, NEW k,
           Ended(w, before, k, n),
           Live(after, k) => \/ Reopens(w[n + 1], k)
                             \/ Live(before, k) /\ ~Ends(w[n + 1], k)
    PROVE  Ended(w, after, k, n + 1)
<1>0. n \in Nat /\ Len(w) \in Nat /\ n + 1 \in n + 1 .. Len(w)
  OBVIOUS
<1>1. ASSUME Live(after, k)
      PROVE  \E j \in (n + 1) + 1 .. Len(w) : Ends(w[j], k)
  <2>1. CASE Reopens(w[n + 1], k)
    BY <1>0, <2>1 DEF Ended
  <2>2. CASE Live(before, k) /\ ~Ends(w[n + 1], k)
    <3>1. PICK j \in n + 1 .. Len(w) : Ends(w[j], k)
      BY <2>2 DEF Ended
    <3>2. j \in (n + 1) + 1 .. Len(w)
      BY <1>0, <2>2, <3>1
    <3> QED
      BY <3>1, <3>2
  <2> QED
    BY <1>1, <2>1, <2>2
<1>2. \A i \in (n + 1) + 1 .. Len(w) : i \in n + 1 .. Len(w)
  BY <1>0
<1> QED
  BY <1>1, <1>2 DEF Ended

\* A row without the key needs no record; at the end of the log it has none.
LEMMA EndedRow ==
    ASSUME NEW w \in Seq(Record), NEW n, NEW row, NEW other, NEW k, Ended(w, row, k, n)
    PROVE  /\ ~Live(other, k) => Ended(w, other, k, n)
           /\ n = Len(w) => ~Live(row, k)
<1>1. n = Len(w) => n + 1 .. Len(w) = {}
  OBVIOUS
<1> QED
  BY <1>1 DEF Ended

\* A truncated log.
LEMMA EndedNothing ==
    ASSUME NEW row, NEW k, ~Live(row, k)
    PROVE  Ended(<<>>, row, k, 0)
<1>1. 0 + 1 .. Len(<<>>) = {}
  OBVIOUS
<1> QED
  BY <1>1 DEF Ended

-----------------------------------------------------------------------------
(* What the files refuse *)

\* Nothing is written that a load reads.
LEMMA FilesRefuseSame ==
    ASSUME NEW k, FilesRefuse(k), disk'.wal = disk.wal, disk'.snapshot = disk.snapshot,
           disk'.adminKey = disk.adminKey
    PROVE  FilesRefuse(k)'
BY DEF FilesRefuse, SpokenOf, RootIsAhead, StoredRow

\* A record is appended.
LEMMA FilesRefuseLogged ==
    ASSUME TypeOK, NEW r \in Record, NEW k, disk' = Logged(r),
           \/ FilesRefuse(k) /\ (SpokenOf(k) => ~Reopens(r, k))
           \/ ~RootIsAhead /\ Ends(r, k)
    PROVE  FilesRefuse(k)'
<1>1. /\ disk'.wal = Append(disk.wal, r) /\ disk'.snapshot = disk.snapshot
      /\ disk'.adminKey = disk.adminKey
  BY LoggedFields
<1>2. disk.wal \in Seq(Record)
  BY DEF TypeOK, Disk
<1>3. SpokenOf(k) =>
        IF RootIsAhead THEN ~Live(StoredRow(k.slot), k)
        ELSE Ended(disk'.wal, StoredRow(k.slot), k, 0)
  BY <1>1, <1>2, EndedAppend DEF FilesRefuse
<1> QED
  BY <1>1, <1>3 DEF FilesRefuse, SpokenOf, RootIsAhead, StoredRow

\* A snapshot without the key replaces the old one, and the log may go.
LEMMA FilesRefuseCompacted ==
    ASSUME TypeOK, Settled, NEW k, FilesRefuse(k), NEW x, x.epoch = DiskEpoch, x # Missing,
           k.instance = disk.instanceId => ~Live(x.rows[k.slot], k),
           NEW n \in 0 .. 2, disk' = Compacted(x, n)
    PROVE  FilesRefuse(k)'
<1>1. /\ disk'.snapshot = IF n >= 1 THEN x ELSE disk.snapshot
      /\ disk'.wal = IF n >= 2 THEN <<>> ELSE disk.wal
      /\ disk'.adminKey = disk.adminKey
  BY CompactedFields
<1>2. disk.wal \in Seq(Record)
  BY DEF TypeOK, Disk
<1>3. CASE n = 0
  BY <1>1, <1>3, FilesRefuseSame
<1>4. CASE n >= 1
  <2>1. disk'.snapshot = x /\ ~RootIsAhead' /\ StoredRow(k.slot)' = x.rows[k.slot]
        /\ (SpokenOf(k)' => k.instance = disk.instanceId)
    BY <1>1, <1>4 DEF RootIsAhead, StoredRow, SpokenOf, DiskEpoch
  <2>2. ASSUME k.instance = disk.instanceId
        PROVE  Ended(disk'.wal, x.rows[k.slot], k, 0)
    <3>1. SpokenOf(k) /\ ~RootIsAhead
      BY <2>2 DEF Settled, DiskEpoch, SpokenOf, RootIsAhead
    <3>2. Ended(disk.wal, StoredRow(k.slot), k, 0)
      BY <3>1 DEF FilesRefuse
    <3> QED
      BY <1>1, <1>2, <2>2, <3>2, EndedRow, EndedNothing
  <2> QED
    BY <2>1, <2>2 DEF FilesRefuse
<1> QED
  BY <1>3, <1>4

-----------------------------------------------------------------------------
(* Steps of a running process *)

\* What the invariants say of a revoked key: it was handed out or shown.
LEMMA RevokedFacts ==
    ASSUME KeyInv, RevokedInv, NEW k \in revoked, k.instance \notin lost
    PROVE  /\ Refused(k) /\ Handed(k) /\ k \in Named /\ k \in KeyId /\ k.slot \in Slots
           /\ phase = "up" /\ ~safe /\ SpokenOf(k) =>
                k.instance = epoch.instance /\ ~RootIsAhead
<1>1. Refused(k) /\ k \in Named /\ Handed(k) /\ k \in KeyId
  BY DEF RevokedInv, Named, Handed, KeyInv, TypeOK
<1> QED
  BY <1>1, Current DEF KeyId, SpokenOf

\* A process that serves keeps its table free of revoked keys, or ends.
LEMMA RefusedRunning ==
    ASSUME NEW k, FilesRefuse(k)', phase' # "loading",
           phase' = "up" /\ k.instance = epoch'.instance => ~Live(rows'[k.slot], k)
    PROVE  Refused(k)'
BY DEF Refused

\* An append that is in doubt, of a record that reopens no revoked key.
LEMMA AppendLostRevoked ==
    ASSUME KeyInv, TypeOK', RevokedInv, phase = "up", NEW r \in Record, NEW doubted,
           AppendLost(r, doubted),
           \A k \in revoked : k.instance \notin lost /\ SpokenOf(k) => ~Reopens(r, k)
    PROVE  RevokedInv'
<1>0. /\ TypeOK /\ UNCHANGED <<revoked, lost>>
      /\ 0 \in 0 .. MaxGeneration /\ 0 \in Nat
  BY StoreAssumption DEF KeyInv, AppendLost, StoreAssumption
<1>1. Torn \in Record /\ Torn.kind = "torn"
  <2>1. Torn \in Record
    BY <1>0, StoreAssumption, NewRecordType DEF Torn, StoreAssumption
  <2> QED
    BY <2>1 DEF Torn, NewRecord
<1>2. phase' # "loading" /\ (phase' = "up" => UNCHANGED <<epoch, rows>>)
  BY DEF AppendLost, PowerOff
<1>3. ASSUME NEW k \in revoked', k.instance \notin lost'
      PROVE  Refused(k)'
  <2>1. Refused(k) /\ (SpokenOf(k) => ~Reopens(r, k)) /\ ~Reopens(Torn, k)
    BY <1>0, <1>1, <1>3, RevokedFacts DEF Reopens
  <2>2. FilesRefuse(k)'
    <3>1. CASE disk' = disk
      BY <2>1, <3>1, FilesRefuseSame DEF Refused
    <3>2. CASE disk' = Logged(r)
      BY <1>0, <2>1, <3>2, FilesRefuseLogged DEF Refused
    <3>3. CASE disk' = Logged(Torn)
      BY <1>0, <1>1, <2>1, <3>3, FilesRefuseLogged DEF Refused
    <3> QED
      BY <3>1, <3>2, <3>3 DEF AppendLost
  <2> QED
    BY <1>2, <2>1, <2>2 DEF Refused
<1> QED
  BY <1>3 DEF RevokedInv

\* A record that reopens no revoked key is appended, and no such key comes alive.
LEMMA AppendOkRevoked ==
    ASSUME KeyInv, TypeOK', RevokedInv, phase = "up", NEW r \in Record, AppendOk(r),
           UNCHANGED <<phase, epoch, lost, revoked>>,
           \A k \in revoked : k.instance \notin lost =>
             /\ SpokenOf(k) => ~Reopens(r, k)
             /\ k.instance = epoch.instance /\ Live(rows'[k.slot], k) => Live(rows[k.slot], k)
    PROVE  RevokedInv'
<1>0. TypeOK /\ disk' = Logged(r)
  BY DEF KeyInv, AppendOk
<1>1. ASSUME NEW k \in revoked', k.instance \notin lost'
      PROVE  Refused(k)'
  <2>1. Refused(k) /\ k \in revoked /\ k.instance \notin lost
    BY <1>1, RevokedFacts
  <2>2. FilesRefuse(k)'
    BY <1>0, <2>1, FilesRefuseLogged DEF Refused
  <2>3. k.instance = epoch.instance => ~Live(rows'[k.slot], k)
    BY <2>1 DEF Refused
  <2> QED
    BY <2>2, <2>3 DEF Refused
<1> QED
  BY <1>1 DEF RevokedInv

\* actor_issue goes beyond every key of the slot that was revoked.
LEMMA IssueRevoked ==
    ASSUME KeyInv, TypeOK', RevokedInv, NEW s \in Slots, NEW ttl \in Ttls, Issue(s, ttl)
    PROVE  RevokedInv'
<1> DEFINE g == rows[s].gen + 1
           t == now + ttl
           r == NewRecord("issue", s, g, t)
<1>0. TypeOK /\ phase = "up" /\ ~safe
  BY DEF KeyInv, Issue, MayAppend
<1>1. g \in 0 .. MaxGeneration /\ t \in Nat /\ rows[s].gen \in Nat
  BY <1>0, StoreAssumption DEF TypeOK, Row, Issue, Issuable, StoreAssumption
<1>2. r \in Record
  BY <1>0, <1>1, NewRecordType, StoreAssumption
<1>3. r.kind = "issue" /\ r.slot = s /\ r.gen = g
  BY DEF NewRecord
<1>4. ASSUME NEW k \in revoked, k.instance \notin lost, k.instance = epoch.instance, k.slot = s
      PROVE  k.gen # g
  <2>1. k \in KeyId /\ k.gen <= rows[s].gen
    BY <1>0, <1>4, RevokedFacts, Reached
  <2> QED
    BY <1>1, <2>1, StoreAssumption DEF KeyId, StoreAssumption
<1>5. \A k \in revoked : k.instance \notin lost /\ SpokenOf(k) => ~Reopens(r, k)
  BY <1>0, <1>3, <1>4, RevokedFacts DEF Reopens
<1>6. CASE AppendLost(r, {})
  BY <1>0, <1>2, <1>5, <1>6, AppendLostRevoked
<1>7. CASE ~AppendLost(r, {})
  <2>1. /\ AppendOk(r) /\ UNCHANGED <<phase, epoch, lost, revoked>>
        /\ rows' = [rows EXCEPT ![s] = [gen |-> g, state |-> "active", expires |-> t,
                                        recent |-> FALSE]]
    BY <1>7 DEF Issue
  <2>2. ASSUME NEW k \in revoked, k.instance \notin lost, k.instance = epoch.instance,
               Live(rows'[k.slot], k)
        PROVE  Live(rows[k.slot], k)
    <3>1. k.slot \in Slots
      BY <2>2, RevokedFacts
    <3> HIDE DEF g, t, r
    <3> QED
      BY <1>0, <1>4, <2>1, <2>2, <3>1 DEF Live, TypeOK
  <2> QED
    BY <1>0, <1>2, <1>5, <2>1, <2>2, AppendOkRevoked
<1> QED
  BY <1>6, <1>7

\* actor_renew takes a row that is active, which no revoked key is.
LEMMA RenewRevoked ==
    ASSUME KeyInv, TypeOK', RevokedInv, NEW s \in Slots, NEW ttl \in Ttls,
           Renew(s, ttl) \/ RenewLate(s, ttl)
    PROVE  RevokedInv'
<1> DEFINE g == rows[s].gen
           t == now + ttl
           r == NewRecord("renew", s, g, t)
<1>0. TypeOK /\ phase = "up" /\ ~safe /\ rows[s].state = "active"
  BY DEF KeyInv, Renew, RenewLate, MayAppend, Renewable
<1>1. g \in 0 .. MaxGeneration /\ t \in Nat
  BY <1>0, StoreAssumption DEF TypeOK, Row, StoreAssumption
<1>2. r \in Record
  BY <1>0, <1>1, NewRecordType, StoreAssumption
<1>3. r.kind = "renew" /\ r.slot = s /\ r.gen = g
  BY DEF NewRecord
<1>4. \A k \in revoked : k.instance \notin lost /\ SpokenOf(k) => ~Reopens(r, k)
  BY <1>0, <1>3, RevokedFacts DEF Reopens, Refused, Live
<1>5. CASE AppendLost(r, PromisesOf(s))
  BY <1>0, <1>2, <1>4, <1>5, AppendLostRevoked
<1>6. CASE ~AppendLost(r, PromisesOf(s))
  <2>1. /\ AppendOk(r) /\ UNCHANGED <<phase, epoch, lost, revoked>>
        /\ rows' = [rows EXCEPT ![s].expires = t]
    BY <1>6 DEF Renew, RenewLate
  <2> HIDE DEF g, t, r
  <2>2. \A k \in revoked : k.instance \notin lost /\ Live(rows'[k.slot], k) =>
          Live(rows[k.slot], k)
    BY <1>0, <2>1, RevokedFacts DEF Live, TypeOK, Row
  <2> QED
    BY <1>0, <1>2, <1>4, <2>1, <2>2, AppendOkRevoked
<1> QED
  BY <1>5, <1>6

\* actor_revoke: the record ends the key in the log, and the table ends it too.
LEMMA RevokeRevoked ==
    ASSUME KeyInv, TypeOK', RevokedInv, NEW s \in Slots, Revoke(s)
    PROVE  RevokedInv'
<1> DEFINE g == rows[s].gen
           r == NewRecord("revoke", s, g, 0)
           new == IdOf(s, g)
<1>0. /\ TypeOK /\ phase = "up" /\ ~safe /\ g \in 0 .. MaxGeneration
      /\ rows \in [Slots -> Row]
  BY DEF KeyInv, TypeOK, Row, Revoke, MayAppend
<1>1. r \in Record
  BY <1>0, NewRecordType, StoreAssumption DEF StoreAssumption
<1>2. r.kind = "revoke" /\ r.slot = s /\ r.gen = g
  BY DEF NewRecord
<1>3. new.instance = epoch.instance /\ new.slot = s /\ new.gen = g
  BY DEF IdOf
<1>4. \/ AppendLost(r, PromisesOf(s))
      \/ /\ AppendOk(r)
         /\ rows' = [rows EXCEPT ![s].state = "revoked", ![s].recent = TRUE]
         /\ revoked' = revoked \cup {new}
         /\ UNCHANGED <<phase, epoch, safe, lost>>
  BY DEF Revoke
<1> HIDE DEF r, new
<1>5. \A k : ~Reopens(r, k)
  BY <1>2 DEF Reopens
<1>6. CASE AppendLost(r, PromisesOf(s))
  BY <1>0, <1>1, <1>5, <1>6, AppendLostRevoked
<1>7. CASE ~AppendLost(r, PromisesOf(s))
  <2>1. disk' = Logged(r) /\ rows'[s].state = "revoked"
        /\ \A u \in Slots \ {s} : rows'[u] = rows[u]
    <3>1. rows' = [rows EXCEPT ![s].state = "revoked", ![s].recent = TRUE] /\ disk' = Logged(r)
      BY <1>4, <1>7 DEF AppendOk
    <3> QED
      BY <1>0, <3>1 DEF Row
  <2>2. ASSUME NEW k \in revoked', k.instance \notin lost', k = new
        PROVE  Refused(k)'
    <3>1. Ends(r, k) /\ ~Live(rows'[k.slot], k)
      BY <1>2, <1>3, <2>1, <2>2 DEF Ends, Live
    <3>2. ~RootIsAhead
      BY <1>0, OpenIsSettled DEF Settled, RootIsAhead, DiskEpoch
    <3>3. FilesRefuse(k)'
      BY <1>0, <1>1, <2>1, <3>1, <3>2, FilesRefuseLogged
    <3> QED
      BY <1>0, <1>4, <1>7, <3>1, <3>3 DEF Refused
  <2>3. ASSUME NEW k \in revoked', k.instance \notin lost', k # new
        PROVE  Refused(k)'
    <3>1. k \in revoked /\ k.instance \notin lost
      BY <1>4, <1>7, <2>3
    <3>2. Refused(k) /\ k.slot \in Slots
      BY <3>1, RevokedFacts
    <3>3. FilesRefuse(k)'
      BY <1>0, <1>1, <1>5, <2>1, <3>2, FilesRefuseLogged DEF Refused
    <3>4. Live(rows'[k.slot], k) => Live(rows[k.slot], k)
      BY <2>1, <3>2 DEF Live
    <3> QED
      BY <1>0, <1>4, <1>7, <3>2, <3>3, <3>4 DEF Refused
  <2> QED
    BY <2>2, <2>3 DEF RevokedInv
<1> QED
  BY <1>4, <1>6, <1>7

\* actor_show and the commands that only leave a record, in safe mode too.
LEMMA NoteRevoked ==
    ASSUME KeyInv, TypeOK', RevokedInv, Note \/ \E s \in Slots : Show(s)
    PROVE  RevokedInv'
<1> DEFINE r == NewRecord("note", Missing, 0, 0)
<1>0. TypeOK /\ phase = "up" /\ 0 \in 0 .. MaxGeneration /\ 0 \in Nat
  BY StoreAssumption DEF KeyInv, Note, Show, MayAppend, StoreAssumption
<1>1. r \in Record
  BY <1>0, NewRecordType, StoreAssumption
<1>2. r.kind = "note"
  BY DEF NewRecord
<1>3. \/ AppendLost(r, {})
      \/ AppendOk(r) /\ UNCHANGED <<memory, lost, revoked>>
  BY DEF Note, Show, past
<1> HIDE DEF r
<1>4. \A k : ~Reopens(r, k)
  BY <1>2 DEF Reopens
<1> QED
  BY <1>0, <1>1, <1>3, <1>4, AppendLostRevoked, AppendOkRevoked DEF memory

\* The timers, the clock and a stop write nothing and bring no key to life.
LEMMA TimerRevoked ==
    ASSUME KeyInv, TypeOK', RevokedInv, phase = "up",
           Tick \/ Stop \/ \E s \in Slots : Retire(s) \/ Reap(s)
    PROVE  RevokedInv'
<1>0. TypeOK /\ UNCHANGED <<disk, revoked, lost>> /\ phase' # "loading"
  BY DEF KeyInv, Tick, Stop, PowerOff, Retire, Reap, store, memory, past
<1>1. ASSUME NEW k \in revoked', k.instance \notin lost'
      PROVE  Refused(k)'
  <2>1. Refused(k) /\ k.slot \in Slots
    BY <1>0, <1>1, RevokedFacts
  <2>2. FilesRefuse(k)'
    BY <1>0, <2>1, FilesRefuseSame DEF Refused
  <2>3. CASE Tick \/ Stop
    BY <2>1, <2>2, <2>3 DEF Refused, Tick, Stop, PowerOff, memory
  <2>4. ASSUME NEW s \in Slots, Retire(s) \/ Reap(s)
        PROVE  Refused(k)'
    <3>1. Live(rows'[k.slot], k) => Live(rows[k.slot], k)
      BY <1>0, <2>1, <2>4 DEF Live, Retire, Reap, Freed, FreeRow, TypeOK, Row
    <3> QED
      BY <1>0, <2>1, <2>2, <2>4, <3>1 DEF Refused, Retire, Reap
  <2> QED
    BY <2>3, <2>4
<1> QED
  BY <1>1 DEF RevokedInv

\* The periodic compaction and actor_gc, of a table that brings no key to life.
LEMMA CompactionRevoked ==
    ASSUME KeyInv, TypeOK', RevokedInv, phase = "up", ~safe, NEW table \in [Slots -> Row],
           \A s \in Slots : \A k : Live(table[s], k) => Live(rows[s], k),
           CompactionOf(table)
    PROVE  RevokedInv'
<1> DEFINE x == BuiltSnapshot(table)
<1>0. /\ TypeOK /\ UNCHANGED <<revoked, lost>> /\ Settled /\ epoch = DiskEpoch
  BY OpenIsSettled DEF KeyInv, CompactionOf
<1>1. x # Missing /\ x.epoch = DiskEpoch
  BY <1>0, SnapshotFields, SnapshotType, MissingAssumption
<1>2. \A s \in Slots : \A k : Live(x.rows[s], k) => Live(table[s], k)
  BY DEF BuiltSnapshot, Live, Row
<1>3. PICK n \in 0 .. 2 :
        /\ disk' = Compacted(x, n)
        /\ \/ rows' = table /\ UNCHANGED <<phase, epoch>>
           \/ PowerOff
  BY DEF CompactionOf
<1> HIDE DEF x
<1>4. ASSUME NEW k \in revoked', k.instance \notin lost'
      PROVE  Refused(k)'
  <2>1. Refused(k) /\ k.slot \in Slots
    BY <1>0, <1>4, RevokedFacts
  <2>2. k.instance = disk.instanceId => ~Live(table[k.slot], k) /\ ~Live(x.rows[k.slot], k)
    BY <1>0, <1>2, <2>1 DEF Refused, DiskEpoch
  <2>3. FilesRefuse(k)'
    BY <1>0, <1>1, <1>3, <2>1, <2>2, FilesRefuseCompacted DEF Refused
  <2> QED
    BY <1>0, <1>3, <2>2, <2>3 DEF Refused, PowerOff, DiskEpoch
<1> QED
  BY <1>4 DEF RevokedInv

\* What the end or the failure of a reset or rotation leaves of the table.
LEMMA EpochChangeRows ==
    ASSUME TypeOK, NEW e, NEW n, Installed(e) \/ NotInstalled(n), phase = "up"
    PROVE  /\ phase' # "loading"
           /\ phase' = "up" => epoch' \in {epoch, e}
           /\ phase' = "up" => \A s \in Slots : \A k : Live(rows'[s], k) => Live(rows[s], k)
<1>1. CASE Installed(e)
  BY <1>1 DEF Installed, Wiped, Freed, FreeRow, Live
<1>2. CASE NotInstalled(n)
  BY <1>2 DEF NotInstalled, PowerOff
<1> QED
  BY <1>1, <1>2

\* actor_reset: nothing was revoked under the new instance id.
LEMMA ResetRevoked ==
    ASSUME KeyInv, TypeOK', RevokedInv, Reset
    PROVE  RevokedInv'
<1> DEFINE e == [epoch EXCEPT !.instance = changes + 1]
<1>0. /\ TypeOK /\ phase = "up" /\ UNCHANGED <<revoked, lost>> /\ changes \in Nat
      /\ changes + 1 \in 0 .. MaxChanges
  BY StoreAssumption DEF KeyInv, TypeOK, Reset, StoreAssumption
<1>1. e.instance = changes + 1 /\ e \in Epoch
  BY <1>0 DEF TypeOK, Epoch
<1>2. PICK n \in 0 .. 4 :
        /\ disk' \in InstanceUnstaged(ResetFiles(e, n))
        /\ Installed(e) \/ NotInstalled(n)
  <2>1. \A n : ResetFiles(e, n) \in InstanceUnstaged(ResetFiles(e, n))
    BY DEF InstanceUnstaged
  <2>2. 4 \in 0 .. 4
    OBVIOUS
  <2> QED
    BY <2>1, <2>2 DEF Reset
<1> HIDE DEF e
<1>3. /\ disk'.snapshot = IF n >= 2 THEN EmptySnapshot(e) ELSE disk.snapshot
      /\ disk'.wal = IF n >= 3 THEN <<>> ELSE disk.wal
      /\ disk'.adminKey = disk.adminKey
  BY <1>0, <1>2, ResetFields
<1>4. EmptySnapshot(e) # Missing /\ EmptySnapshot(e).epoch = e
  BY <1>0, <1>1, SnapshotFields, SnapshotType, MissingAssumption
<1>5. ASSUME NEW k \in revoked', k.instance \notin lost'
      PROVE  Refused(k)'
  <2>1. Refused(k) /\ k.slot \in Slots /\ k.instance # e.instance
    <3>1. /\ Refused(k) /\ Handed(k) /\ k \in KeyId /\ k.slot \in Slots
      BY <1>0, <1>5, RevokedFacts
    <3>2. k.instance <= changes /\ k.instance \in Nat
      BY <1>0, <3>1, Drawn, StoreAssumption DEF KeyId, StoreAssumption
    <3> QED
      BY <1>0, <1>1, <3>1, <3>2
  <2>2. FilesRefuse(k)'
    <3>1. CASE n >= 2
      BY <1>3, <1>4, <2>1, <3>1 DEF FilesRefuse, SpokenOf
    <3>2. CASE ~(n >= 2)
      <4>1. disk'.snapshot = disk.snapshot /\ disk'.wal = disk.wal
        BY <1>3, <3>2
      <4> QED
        BY <1>3, <2>1, <4>1, FilesRefuseSame DEF Refused
    <3> QED
      BY <3>1, <3>2
  <2>3. phase' = "up" /\ k.instance = epoch'.instance => ~Live(rows'[k.slot], k)
    BY <1>0, <1>2, <2>1, EpochChangeRows DEF Refused
  <2> QED
    BY <1>0, <1>2, <2>2, <2>3, EpochChangeRows, RefusedRunning
<1> QED
  BY <1>5 DEF RevokedInv

\* actor_rotate_root: the new snapshot has no key, and the log goes before the new
\* root comes.
LEMMA RotateRevoked ==
    ASSUME KeyInv, TypeOK', RevokedInv, NEW root \in Roots, Rotate(root)
    PROVE  RevokedInv'
<1> DEFINE e == [epoch EXCEPT !.root = root]
<1>0. /\ TypeOK /\ phase = "up" /\ UNCHANGED <<revoked, lost>> /\ root # epoch.root
      /\ epoch.root = disk.adminKey
  BY DEF KeyInv, Aligned, Rotate
<1>1. e.instance = epoch.instance /\ e.root = root /\ e \in Epoch
  BY <1>0 DEF TypeOK, Epoch
<1>2. PICK n \in 0 .. 4 :
        /\ disk' \in KeyUnstaged(RotationFiles(e, n))
        /\ Installed(e) \/ NotInstalled(n)
  <2>1. \A n : RotationFiles(e, n) \in KeyUnstaged(RotationFiles(e, n))
    BY DEF KeyUnstaged
  <2>2. 4 \in 0 .. 4
    OBVIOUS
  <2> QED
    BY <2>1, <2>2 DEF Rotate
<1> HIDE DEF e
<1>3. /\ disk'.snapshot = IF n >= 2 THEN EmptySnapshot(e) ELSE disk.snapshot
      /\ disk'.wal = IF n >= 3 THEN <<>> ELSE disk.wal
      /\ disk'.adminKey = IF n >= 4 THEN e.root ELSE disk.adminKey
  BY <1>0, <1>2, RotationFields
<1>4. /\ EmptySnapshot(e) # Missing /\ EmptySnapshot(e).epoch = e
      /\ \A s \in Slots : EmptySnapshot(e).rows[s].state = "free"
  <2>1. EmptySnapshot(e) # Missing /\ EmptySnapshot(e).epoch = e
    BY <1>0, <1>1, SnapshotFields, SnapshotType, MissingAssumption
  <2> QED
    BY <2>1 DEF EmptySnapshot, Freed, FreeRow
<1>5. ASSUME NEW k \in revoked', k.instance \notin lost'
      PROVE  Refused(k)'
  <2>1. Refused(k) /\ k.slot \in Slots
    BY <1>0, <1>5, RevokedFacts
  <2>2. FilesRefuse(k)'
    <3>1. CASE n >= 2
      <4>1. ~Live(StoredRow(k.slot)', k)
        BY <1>3, <1>4, <2>1, <3>1 DEF StoredRow, Live
      <4>2. CASE n = 4
        <5>1. disk'.wal = <<>>
          BY <1>3, <4>2
        <5> QED
          BY <4>1, <5>1, EndedNothing DEF FilesRefuse
      <4>3. CASE n # 4
        <5>1. RootIsAhead'
          BY <1>0, <1>1, <1>3, <1>4, <3>1, <4>3 DEF RootIsAhead
        <5> QED
          BY <4>1, <5>1 DEF FilesRefuse
      <4> QED
        BY <4>2, <4>3
    <3>2. CASE ~(n >= 2)
      <4>1. /\ disk'.snapshot = disk.snapshot /\ disk'.wal = disk.wal
            /\ disk'.adminKey = disk.adminKey
        BY <1>3, <3>2
      <4> QED
        BY <2>1, <4>1, FilesRefuseSame DEF Refused
    <3> QED
      BY <3>1, <3>2
  <2>3. phase' = "up" /\ k.instance = epoch'.instance => ~Live(rows'[k.slot], k)
    BY <1>0, <1>1, <1>2, <2>1, EpochChangeRows DEF Refused
  <2> QED
    BY <1>0, <1>2, <2>2, <2>3, EpochChangeRows, RefusedRunning
<1> QED
  BY <1>5 DEF RevokedInv

-----------------------------------------------------------------------------
(* Steps of a start *)

\* The clock and a stop, of a process that does not serve yet.
LEMMA IdleRevoked ==
    ASSUME KeyInv, TypeOK', RevokedInv, phase # "up", Tick \/ Stop
    PROVE  RevokedInv'
<1>0. UNCHANGED <<disk, revoked, lost>> /\ phase' = "down"
  BY DEF Tick, Stop, PowerOff, store, memory, past
<1>1. ASSUME NEW k \in revoked', k.instance \notin lost'
      PROVE  Refused(k)'
  BY <1>0, <1>1, RevokedFacts, FilesRefuseSame DEF Refused
<1> QED
  BY <1>1 DEF RevokedInv

\* recover_admin_key_after_rotation
LEMMA RecoverAdminKeyRevoked ==
    ASSUME KeyInv, TypeOK', RevokedInv, RecoverAdminKey
    PROVE  RevokedInv'
<1>0. /\ TypeOK /\ phase' \in {"down", "recovering"} /\ UNCHANGED <<revoked, lost>>
  BY DEF KeyInv, RecoverAdminKey, past
<1>1. \/ disk' = disk
      \/ KeyIsStaged /\ \E n \in 1 .. 2 : disk' \in KeyUnstaged(PromotedKey(n))
  BY DEF RecoverAdminKey, KeyUnstaged
<1>2. ASSUME NEW k \in revoked', k.instance \notin lost'
      PROVE  Refused(k)'
  <2>1. Refused(k)
    BY <1>0, <1>2, RevokedFacts
  <2>2. ASSUME NEW n \in 1 .. 2, KeyIsStaged, disk' \in KeyUnstaged(PromotedKey(n))
        PROVE  FilesRefuse(k)'
    <3>1. disk'.snapshot = disk.snapshot /\ disk'.wal = <<>>
      BY <1>0, <2>2, PromotedKeyFields
    <3>2. RootIsAhead
      BY <2>2 DEF KeyIsStaged, Opens, RootIsAhead
    <3>3. SpokenOf(k) => ~Live(StoredRow(k.slot), k)
      BY <2>1, <3>2 DEF Refused, FilesRefuse
    <3>4. SpokenOf(k)' => ~Live(StoredRow(k.slot)', k)
      BY <3>1, <3>3 DEF SpokenOf, StoredRow
    <3> QED
      BY <3>1, <3>4, EndedNothing DEF FilesRefuse
  <2>3. disk' = disk => FilesRefuse(k)'
    BY <2>1, FilesRefuseSame DEF Refused
  <2> QED
    BY <1>0, <1>1, <2>2, <2>3 DEF Refused
<1> QED
  BY <1>2 DEF RevokedInv

\* recover_instance_id_after_reset: no key was revoked under the id that is
\* promoted.  The snapshot becomes the table.
LEMMA RecoverInstanceIdRevoked ==
    ASSUME KeyInv, TypeOK', RevokedInv, RecoverInstanceId
    PROVE  RevokedInv'
<1>0. TypeOK /\ UNCHANGED <<revoked, lost>>
  BY DEF KeyInv, RecoverInstanceId, past
<1>1. \/ disk' \in InstanceUnstaged(disk)
      \/ InstanceIsStaged /\ \E n \in 1 .. 2 : disk' \in InstanceUnstaged(PromotedInstance(n))
  BY DEF RecoverInstanceId, InstanceUnstaged
<1>2. ASSUME NEW k \in revoked', k.instance \notin lost'
      PROVE  Refused(k)'
  <2>1. Refused(k) /\ k \in Named /\ k.slot \in Slots
    BY <1>0, <1>2, RevokedFacts
  <2>2. FilesRefuse(k)'
    <3>1. CASE disk' \in InstanceUnstaged(disk)
      <4>1. /\ disk'.snapshot = disk.snapshot /\ disk'.wal = disk.wal
            /\ disk'.adminKey = disk.adminKey
        BY <1>0, <3>1 DEF TypeOK, Disk, InstanceUnstaged
      <4> QED
        BY <2>1, <4>1, FilesRefuseSame DEF Refused
    <3>2. ASSUME NEW n \in 1 .. 2, InstanceIsStaged,
                 disk' \in InstanceUnstaged(PromotedInstance(n))
          PROVE  FilesRefuse(k)'
      <4>1. disk'.snapshot = disk.snapshot
        BY <1>0, <3>2, PromotedInstanceFields
      <4>2. disk.snapshot # Missing /\ disk.snapshot.epoch.instance # disk.instanceId
        BY <3>2 DEF InstanceIsStaged, Opens
      <4>3. k.instance # disk.snapshot.epoch.instance
        BY <2>1, <4>2 DEF KeyInv, Numbered
      <4> QED
        BY <4>1, <4>2, <4>3 DEF FilesRefuse, SpokenOf
    <3> QED
      BY <1>1, <3>1, <3>2
  <2>3. CASE PowerOff
    BY <2>2, <2>3 DEF PowerOff, Refused
  <2>4. CASE StartLoading
    <3>1. /\ phase' = "loading" /\ position' = 0
          /\ epoch' = [root |-> disk'.adminKey, instance |-> disk'.instanceId]
          /\ rows' = IF disk'.snapshot = Missing THEN NoRows ELSE disk'.snapshot.rows
      BY <2>4 DEF StartLoading
    <3>2. rows'[k.slot] = StoredRow(k.slot)'
      BY <2>1, <3>1 DEF StoredRow, NoRows
    <3>3. ASSUME SnapshotMatches', k.instance = epoch'.instance
          PROVE  Ended(disk'.wal, StoredRow(k.slot)', k, 0)
      <4>1. SpokenOf(k)' /\ ~RootIsAhead'
        BY <3>1, <3>3 DEF SnapshotMatches, SpokenOf, RootIsAhead
      <4> QED
        BY <2>2, <4>1 DEF FilesRefuse
    <3> QED
      BY <2>2, <3>1, <3>2, <3>3 DEF Refused
  <2> QED
    BY <2>3, <2>4 DEF RecoverInstanceId
<1> QED
  BY <1>2 DEF RevokedInv

\* What one record makes of the row of a key.
LEMMA AppliedLive ==
    ASSUME TypeOK, NEW r \in Record, Known(r), NEW k, k.slot \in Slots,
           Live(Applied(r)[k.slot], k)
    PROVE  Reopens(r, k) \/ (Live(rows[k.slot], k) /\ ~Ends(r, k))
<1>0. rows \in [Slots -> Row]
  BY DEF TypeOK
<1>1. CASE r.kind = "issue"
  BY <1>0, <1>1 DEF Applied, Live, Reopens, Ends
<1>2. CASE r.kind = "renew"
  BY <1>0, <1>2 DEF Applied, Live, Reopens, Ends, Known, Row
<1>3. CASE r.kind = "revoke"
  <2>1. Applied(r) = [rows EXCEPT ![r.slot].state = "revoked", ![r.slot].recent = FALSE]
    BY <1>3 DEF Applied
  <2>2. k.slot # r.slot
    BY <1>0, <2>1 DEF Live, Row
  <2> QED
    BY <1>0, <2>1, <2>2 DEF Live, Ends
<1>4. CASE r.kind \notin {"issue", "renew", "revoke"}
  BY <1>4 DEF Applied, Ends
<1> QED
  BY <1>1, <1>2, <1>3, <1>4

\* One record is replayed.
LEMMA ReplayRevoked ==
    ASSUME KeyInv, TypeOK', RevokedInv, Replay
    PROVE  RevokedInv'
<1> DEFINE r == NextRecord
<1>0. /\ TypeOK /\ UNCHANGED <<disk, epoch, revoked, lost>> /\ phase = "loading"
      /\ phase' = "loading" /\ rows' = Applied(r) /\ position' = position + 1 /\ Known(r)
      /\ disk.wal \in Seq(Record) /\ position \in 0 .. Len(disk.wal) - 1
      /\ SnapshotMatches
  BY DEF KeyInv, TypeOK, Disk, Replay, store, past
<1>1. r \in Record /\ r = disk.wal[position + 1]
  BY <1>0 DEF NextRecord
<1> HIDE DEF r
<1>2. ASSUME NEW k \in revoked', k.instance \notin lost'
      PROVE  Refused(k)'
  <2>1. Refused(k) /\ k.slot \in Slots
    BY <1>0, <1>2, RevokedFacts
  <2>2. ASSUME k.instance = epoch.instance
        PROVE  Ended(disk.wal, Applied(r)[k.slot], k, position + 1)
    <3>1. Ended(disk.wal, rows[k.slot], k, position)
      BY <1>0, <2>1, <2>2 DEF Refused
    <3> QED
      BY <1>0, <1>1, <2>1, <3>1, AppliedLive, EndedStep
  <2>3. FilesRefuse(k)'
    BY <1>0, <2>1, FilesRefuseSame DEF Refused
  <2> QED
    BY <1>0, <2>2, <2>3 DEF Refused
<1> QED
  BY <1>2 DEF RevokedInv

\* The whole log was replayed, or the load failed.
LEMMA ServeRevoked ==
    ASSUME KeyInv, TypeOK', RevokedInv, Serve \/ LoadFails
    PROVE  RevokedInv'
<1>0. /\ TypeOK /\ UNCHANGED revoked /\ lost \subseteq lost' /\ phase = "loading"
      /\ phase' # "loading" /\ epoch = DiskEpoch /\ rows \in [Slots -> Row]
  BY DEF KeyInv, TypeOK, Aligned, Serve, LoadFails, PowerOff, DiskEpoch
<1>1. ASSUME NEW k \in revoked', k.instance \notin lost'
      PROVE  Refused(k)'
  <2>1. Refused(k) /\ k.slot \in Slots
    BY <1>0, <1>1, RevokedFacts
  <2>2. CASE LoadFails
    <3>1. UNCHANGED <<disk, epoch>> /\ k.instance # epoch.instance
      BY <1>1, <2>2 DEF LoadFails, store
    <3> QED
      BY <1>0, <2>1, <3>1, FilesRefuseSame DEF Refused
  <2>3. CASE Serve
    <3>1. SnapshotMatches /\ Settled /\ position = Len(disk.wal) /\ disk.wal \in Seq(Record)
      BY <1>0, <2>3 DEF Serve, SnapshotMatches, Settled, TypeOK, Disk
    <3>2. k.instance = epoch.instance => ~Live(rows[k.slot], k)
      BY <1>0, <2>1, <3>1, EndedRow DEF Refused
    <3>3. /\ Live(Restored(k.slot), k) => Live(rows[k.slot], k)
          /\ Live(DatedSnapshot.rows[k.slot], k) => Live(rows[k.slot], k)
          /\ DatedSnapshot.epoch = DiskEpoch
      BY <1>0, <2>1 DEF Live, Restored, Dated, DatedSnapshot, Row
    <3>4. DatedSnapshot # Missing
      BY <1>0, SnapshotType, MissingAssumption
    <3>5. disk' = disk \/ \E n \in 0 .. 2 : disk' = Compacted(DatedSnapshot, n)
      BY <2>3 DEF Serve
    <3>6. k.instance = disk.instanceId => ~Live(DatedSnapshot.rows[k.slot], k)
      BY <1>0, <3>2, <3>3 DEF DiskEpoch
    <3>7. FilesRefuse(k)'
      BY <1>0, <2>1, <3>1, <3>3, <3>4, <3>5, <3>6, FilesRefuseSame, FilesRefuseCompacted
         DEF Refused
    <3>8. phase' = "up" => rows' = [s \in Slots |-> Restored(s)] /\ epoch' = epoch
      BY <2>3 DEF Serve, PowerOff
    <3> QED
      BY <1>0, <2>1, <3>2, <3>3, <3>7, <3>8, RefusedRunning
  <2> QED
    BY <2>2, <2>3
<1> QED
  BY <1>1 DEF RevokedInv

-----------------------------------------------------------------------------

LEMMA NextRevoked ==
    ASSUME KeyInv, TypeOK', RevokedInv, Next
    PROVE  RevokedInv'
<1>0. rows \in [Slots -> Row]
  BY DEF KeyInv, TypeOK
<1>1. CASE Tick \/ Stop
  BY <1>1, TimerRevoked, IdleRevoked
<1>2. CASE KeyOperation
  <2>1. ASSUME NEW s \in Slots, NEW ttl \in Ttls,
                Issue(s, ttl) \/ Renew(s, ttl) \/ RenewLate(s, ttl)
        PROVE  RevokedInv'
    BY <2>1, IssueRevoked, RenewRevoked
  <2>2. ASSUME NEW s \in Slots, Revoke(s) \/ Show(s) \/ Retire(s) \/ Reap(s)
        PROVE  RevokedInv'
    <3>1. Retire(s) \/ Reap(s) => phase = "up"
      BY DEF Retire, Reap
    <3> QED
      BY <2>2, <3>1, RevokeRevoked, NoteRevoked, TimerRevoked
  <2> QED
    BY <1>2, <2>1, <2>2 DEF KeyOperation
<1>3. CASE Note
  BY <1>3, NoteRevoked
<1>4. CASE Compact
  BY <1>0, <1>4, CompactionRevoked DEF Compact, CompactionIsAllowed
<1>5. CASE Gc
  <2> DEFINE table == [s \in Slots |-> Collected(s)]
  <2>1. phase = "up" /\ ~safe /\ CompactionOf(table)
    BY <1>5 DEF Gc
  <2>2. table \in [Slots -> Row]
    BY <1>0, RowType DEF KeyInv
  <2>3. \A s \in Slots : \A k : Live(table[s], k) => Live(rows[s], k)
    BY <1>0 DEF Live, Collected, Freed, FreeRow
  <2> HIDE DEF table
  <2> QED
    BY <2>1, <2>2, <2>3, CompactionRevoked
<1>6. CASE Reset \/ \E k \in Roots : Rotate(k)
  BY <1>6, ResetRevoked, RotateRevoked
<1>7. CASE Start
  BY <1>7, RecoverAdminKeyRevoked, RecoverInstanceIdRevoked, ReplayRevoked, ServeRevoked
     DEF Start
<1> QED
  BY <1>1, <1>2, <1>3, <1>4, <1>5, <1>6, <1>7 DEF Next

LEMMA StutterRevoked ==
    ASSUME RevokedInv, UNCHANGED vars
    PROVE  RevokedInv'
<1>1. ASSUME NEW k, Refused(k)
      PROVE  Refused(k)'
  <2>1. UNCHANGED <<disk, phase, epoch, rows, position>>
    BY DEF vars, store, memory
  <2>2. SnapshotMatches' = SnapshotMatches /\ FilesRefuse(k)'
    BY <1>1, <2>1, FilesRefuseSame DEF Refused, SnapshotMatches
  <2> QED
    BY <1>1, <2>1, <2>2 DEF Refused
<1> QED
  BY <1>1 DEF RevokedInv, vars, past

LEMMA RevocationsAreKept == Spec => []RevokedInv
<1>1. Init => RevokedInv
  BY DEF Init, RevokedInv
<1>2. KeyInv /\ KeyInv' /\ RevokedInv /\ [Next]_vars => RevokedInv'
  BY NextRevoked, StutterRevoked DEF KeyInv
<1> QED
  BY <1>1, <1>2, FilesReachEveryKey, PTL DEF Spec

\* A revocation that was confirmed is never undone: by a renewal in doubt, a
\* compaction that is cut short, a rotation or reset, or the starts after them.
THEOREM RevokedKeysStayRefused == Spec => []RevokedIsRefused
<1>1. RevokedInv => RevokedIsRefused
  BY DEF RevokedInv, Refused, Live, RevokedIsRefused, Accepts, NothingLost
<1> QED
  BY <1>1, RevocationsAreKept, PTL

-----------------------------------------------------------------------------
(* Loads *)

\* Replaying the first n records over the row leaves a key of generation g.
Issues(r, s) == r.kind = "issue" /\ r.slot = s
Occupied(row, g) == row.gen = g /\ row.state # "free"
Entry(wal, row, s, g, n) ==
    \/ Occupied(row, g) /\ \A i \in 1 .. n : ~Issues(wal[i], s)
    \/ \E j \in 1 .. n : /\ Issues(wal[j], s) /\ wal[j].gen = g
                         /\ \A i \in j + 1 .. n : ~Issues(wal[i], s)

\* A load over the table `base' gets past record i.
Keyed(r) == r.kind \in {"renew", "revoke"} => r.slot \in Slots
Fits(r, wal, base, root, n) ==
    /\ r.kind # "torn" /\ r.root = root /\ Keyed(r)
    /\ r.kind \in {"renew", "revoke"} => Entry(wal, base[r.slot], r.slot, r.gen, n)
Replays(wal, base, root) == \A i \in 1 .. Len(wal) : Fits(wal[i], wal, base, root, i - 1)

Base == [s \in Slots |-> StoredRow(s)]
Loads == Replays(disk.wal, Base, disk.adminKey)
Whole == \A i \in 1 .. Len(disk.wal) : disk.wal[i].kind # "torn"
Table(s, g, n) == Entry(disk.wal, Base[s], s, g, n)

\* Of files that do not agree, the next start makes files that do, unless the
\* failure is one it does not cover; of those that do, the log loads if nothing
\* in it was cut off, and does not if it did not before.
FilesRecover ==
    /\ \A i \in 1 .. Len(disk.wal) : Keyed(disk.wal[i])
    /\ RootIsAhead => disk.snapshot.epoch.instance = disk.instanceId
    /\ ~Settled => /\ closed \subseteq {DiskEpoch}
                   /\ KeyIsStaged \/ InstanceIsStaged \/ unsettled
    /\ Settled => /\ DiskEpoch \in closed => ~Loads
                  /\ closed \subseteq {DiskEpoch} \/ disk.wal = <<>>
                  /\ ~unsettled /\ Whole => Loads

\* The records replayed so far fit, and made the table.
LoadRecovers ==
    /\ phase = "recovering" => ~KeyIsStaged
    /\ phase = "loading" /\ ~Settled => unsettled
    /\ phase = "loading" /\ Settled =>
         /\ \A i \in 1 .. position :
              Fits(disk.wal[i], disk.wal, Base, disk.adminKey, i - 1)
         /\ \A s \in Slots, g \in 0 .. MaxGeneration :
              Occupied(rows[s], g) <=> Table(s, g, position)

\* The next start finds each key of the table in the files.
TableRecovers ==
    phase = "up" =>
      /\ closed \subseteq {epoch}
      /\ epoch \in closed => safe
      /\ ~Settled => unsettled
      /\ ~safe /\ ~unsettled =>
           \A s \in Slots : rows[s].state # "free" => Table(s, rows[s].gen, Len(disk.wal))

RecoveryInv == FilesRecover /\ LoadRecovers /\ TableRecovers

-----------------------------------------------------------------------------
(* Lemmas about the log *)

\* Only the first n records count.
LEMMA EntryPrefix ==
    ASSUME NEW w, NEW v, NEW n \in Nat, \A i \in 1 .. n : w[i] = v[i],
           NEW row, NEW s, NEW g, Entry(w, row, s, g, n)
    PROVE  Entry(v, row, s, g, n)
<1>1. CASE Occupied(row, g) /\ \A i \in 1 .. n : ~Issues(w[i], s)
  BY <1>1 DEF Entry
<1>2. ASSUME NEW j \in 1 .. n, Issues(w[j], s), w[j].gen = g,
             \A i \in j + 1 .. n : ~Issues(w[i], s)
      PROVE  Entry(v, row, s, g, n)
  <2>1. \A i \in j + 1 .. n : i \in 1 .. n
    OBVIOUS
  <2>2. Issues(v[j], s) /\ v[j].gen = g /\ \A i \in j + 1 .. n : ~Issues(v[i], s)
    BY <1>2, <2>1
  <2> QED
    BY <2>2 DEF Entry
<1> QED
  BY <1>1, <1>2 DEF Entry

\* One more record: it issues the slot's key, or changes nothing.
LEMMA EntryStep ==
    ASSUME NEW w, NEW n \in Nat, NEW row, NEW s, NEW g
    PROVE  /\ Issues(w[n + 1], s) => /\ Entry(w, row, s, g, n + 1) => w[n + 1].gen = g
                                     /\ w[n + 1].gen = g => Entry(w, row, s, g, n + 1)
           /\ ~Issues(w[n + 1], s) => (Entry(w, row, s, g, n + 1) <=> Entry(w, row, s, g, n))
<1>0. /\ n + 1 \in 1 .. n + 1 /\ (n + 1) + 1 .. n + 1 = {}
      /\ \A i \in 1 .. n + 1 : i \in 1 .. n \/ i = n + 1
      /\ \A j \in 1 .. n : /\ j \in 1 .. n + 1 /\ n + 1 \in j + 1 .. n + 1
                           /\ \A i \in j + 1 .. n + 1 : i \in j + 1 .. n \/ i = n + 1
                           /\ \A i \in j + 1 .. n : i \in j + 1 .. n + 1
  OBVIOUS
<1>1. ASSUME Issues(w[n + 1], s)
      PROVE  /\ Entry(w, row, s, g, n + 1) => w[n + 1].gen = g
             /\ w[n + 1].gen = g => Entry(w, row, s, g, n + 1)
  BY <1>0, <1>1 DEF Entry
<1>2. ASSUME ~Issues(w[n + 1], s)
      PROVE  Entry(w, row, s, g, n + 1) <=> Entry(w, row, s, g, n)
  BY <1>0, <1>2 DEF Entry
<1> QED
  BY <1>1, <1>2

\* append_wal: what replayed still does, what did not still does not.
LEMMA ReplaysAppend ==
    ASSUME NEW w \in Seq(Record), NEW r \in Record, NEW base, NEW root
    PROVE  /\ Replays(w, base, root) /\ Fits(r, w, base, root, Len(w)) =>
                Replays(Append(w, r), base, root)
           /\ Replays(Append(w, r), base, root) => Replays(w, base, root)
<1> DEFINE v == Append(w, r)
<1>1. Len(v) = Len(w) + 1 /\ Len(w) \in Nat
  OBVIOUS
<1>2. \A i \in 1 .. Len(w) : v[i] = w[i]
  OBVIOUS
<1>3. v[Len(w) + 1] = r
  OBVIOUS
<1> HIDE DEF v
<1>4. ASSUME NEW i \in 1 .. Len(w) + 1, NEW x
      PROVE  Fits(x, v, base, root, i - 1) <=> Fits(x, w, base, root, i - 1)
  <2>1. i - 1 \in Nat /\ \A j \in 1 .. i - 1 : v[j] = w[j] /\ w[j] = v[j]
    BY <1>1, <1>2
  <2> QED
    BY <2>1, EntryPrefix DEF Fits
<1>5. ASSUME Replays(w, base, root), Fits(r, w, base, root, Len(w))
      PROVE  Replays(v, base, root)
  <2>1. ASSUME NEW i \in 1 .. Len(v)
        PROVE  Fits(v[i], v, base, root, i - 1)
    <3>1. CASE i \in 1 .. Len(w)
      BY <1>1, <1>2, <1>4, <1>5, <3>1 DEF Replays
    <3>2. CASE i = Len(w) + 1
      <4>1. i - 1 = Len(w) /\ i \in 1 .. Len(w) + 1
        BY <1>1, <3>2
      <4> QED
        BY <1>3, <1>4, <1>5, <3>2, <4>1
    <3> QED
      BY <1>1, <3>1, <3>2
  <2> QED
    BY <2>1 DEF Replays
<1>6. ASSUME Replays(v, base, root)
      PROVE  Replays(w, base, root)
  <2>1. ASSUME NEW i \in 1 .. Len(w)
        PROVE  Fits(w[i], w, base, root, i - 1)
    <3>1. i \in 1 .. Len(v) /\ i \in 1 .. Len(w) + 1
      BY <1>1
    <3> QED
      BY <1>2, <1>4, <1>6, <3>1 DEF Replays
  <2> QED
    BY <2>1 DEF Replays
<1> QED
  BY <1>5, <1>6 DEF v

-----------------------------------------------------------------------------
(* What the files recover *)

\* Nothing changes that a start depends on.
LEMMA FilesRecoverSame ==
    ASSUME FilesRecover, UNCHANGED <<disk, closed, unsettled>>
    PROVE  FilesRecover'
BY DEF FilesRecover, RootIsAhead, Settled, DiskEpoch, Loads, Whole, Base, StoredRow,
       KeyIsStaged, InstanceIsStaged, Opens

\* Files that agree, with no log, in an epoch that is not closed.
LEMMA EmptyLogRecovers ==
    ASSUME disk'.wal = <<>>, Settled', DiskEpoch' \notin closed'
    PROVE  FilesRecover'
<1>1. 1 .. Len(disk'.wal) = {}
  OBVIOUS
<1>2. ~RootIsAhead'
  BY DEF Settled, DiskEpoch, RootIsAhead
<1>3. Loads'
  BY <1>1 DEF Loads, Replays
<1> QED
  BY <1>1, <1>2, <1>3 DEF FilesRecover

\* Files that do not agree, of the epoch that is closed.
LEMMA StagedRecovers ==
    ASSUME ~Settled', closed' \subseteq {DiskEpoch'},
           (KeyIsStaged \/ InstanceIsStaged)' \/ unsettled',
           RootIsAhead' => disk'.snapshot.epoch.instance = disk'.instanceId,
           \A i \in 1 .. Len(disk'.wal) : Keyed(disk'.wal[i])
    PROVE  FilesRecover'
BY DEF FilesRecover

\* A process that serves: its epoch is that of the files, and not closed.
LEMMA OpenRecovers ==
    ASSUME KeyInv, RecoveryInv, phase = "up"
    PROVE  /\ TypeOK /\ epoch = DiskEpoch /\ closed \subseteq {DiskEpoch}
           /\ ~Settled => unsettled
           /\ ~safe => Settled /\ closed = {}
           /\ FilesRecover
           /\ disk.wal \in Seq(Record) /\ Len(disk.wal) \in Nat
<1>1. TypeOK /\ epoch = DiskEpoch
  BY DEF KeyInv, Aligned, DiskEpoch
<1> QED
  BY <1>1, OpenIsSettled DEF RecoveryInv, TableRecovers, TypeOK, Disk

\* A record that fits is appended.
LEMMA FilesRecoverLogged ==
    ASSUME KeyInv, RecoveryInv, phase = "up", NEW r \in Record, disk' = Logged(r),
           UNCHANGED <<closed, unsettled>>, Keyed(r),
           r.kind # "torn" /\ Settled /\ ~unsettled =>
             Fits(r, disk.wal, Base, disk.adminKey, Len(disk.wal))
    PROVE  FilesRecover'
<1>0. /\ TypeOK /\ closed \subseteq {DiskEpoch} /\ FilesRecover /\ (~Settled => unsettled)
      /\ disk.wal \in Seq(Record) /\ Len(disk.wal) \in Nat
  BY OpenRecovers
<1>1. /\ disk'.wal = Append(disk.wal, r) /\ disk'.snapshot = disk.snapshot
      /\ disk'.adminKey = disk.adminKey /\ disk'.instanceId = disk.instanceId
  BY <1>0, LoggedFields
<1>2. /\ Len(disk'.wal) = Len(disk.wal) + 1 /\ disk'.wal[Len(disk.wal) + 1] = r
      /\ \A i \in 1 .. Len(disk.wal) : disk'.wal[i] = disk.wal[i]
  BY <1>0, <1>1
<1>3. /\ DiskEpoch' = DiskEpoch /\ Settled' = Settled /\ RootIsAhead' = RootIsAhead
      /\ Base' = Base
  BY <1>1 DEF DiskEpoch, Settled, RootIsAhead, Base, StoredRow
<1>4. /\ Loads' => Loads
      /\ Loads /\ Fits(r, disk.wal, Base, disk.adminKey, Len(disk.wal)) => Loads'
  BY <1>0, <1>1, <1>3, ReplaysAppend DEF Loads
<1>5. Whole' => Whole /\ r.kind # "torn"
  BY <1>0, <1>2 DEF Whole
<1>6. \A i \in 1 .. Len(disk'.wal) : Keyed(disk'.wal[i])
  BY <1>0, <1>2 DEF FilesRecover
<1>7. RootIsAhead' => disk'.snapshot.epoch.instance = disk'.instanceId
  BY <1>0, <1>1, <1>3 DEF FilesRecover
<1>8. CASE ~Settled
  BY <1>0, <1>3, <1>6, <1>7, <1>8, StagedRecovers
<1>9. CASE Settled
  <2>1. DiskEpoch' \in closed' => ~Loads'
    BY <1>0, <1>3, <1>4, <1>9 DEF FilesRecover
  <2>2. ~unsettled' /\ Whole' => Loads'
    BY <1>0, <1>4, <1>5, <1>9 DEF FilesRecover
  <2> QED
    BY <1>0, <1>3, <1>6, <1>7, <1>9, <2>1, <2>2 DEF FilesRecover
<1> QED
  BY <1>8, <1>9

\* A process that goes on, or ends.
LEMMA RunsOn ==
    ASSUME FilesRecover', phase' \in {"up", "down"}, phase' = "up" => TableRecovers'
    PROVE  RecoveryInv'
BY DEF RecoveryInv, LoadRecovers, TableRecovers

-----------------------------------------------------------------------------
(* Steps of a running process *)

\* An append that is in doubt.
LEMMA AppendLostRecovers ==
    ASSUME KeyInv, RecoveryInv, phase = "up", NEW r \in Record, Keyed(r), NEW doubted,
           AppendLost(r, doubted),
           Settled /\ ~unsettled => Fits(r, disk.wal, Base, disk.adminKey, Len(disk.wal))
    PROVE  RecoveryInv'
<1>0. /\ TypeOK /\ FilesRecover /\ UNCHANGED <<closed, unsettled>>
      /\ (~Settled => unsettled) /\ closed \subseteq {epoch}
      /\ 0 \in 0 .. MaxGeneration /\ 0 \in Nat
  BY OpenRecovers, StoreAssumption DEF AppendLost, StoreAssumption
<1>1. Torn \in Record /\ Torn.kind = "torn"
  <2>1. Torn \in Record
    BY <1>0, StoreAssumption, NewRecordType DEF Torn, StoreAssumption
  <2> QED
    BY <2>1 DEF Torn, NewRecord
<1>2. Keyed(Torn)
  BY <1>1 DEF Keyed
<1>3. FilesRecover'
  <2>1. CASE disk' = disk
    BY <1>0, <2>1, FilesRecoverSame
  <2>2. CASE disk' = Logged(r)
    BY <1>0, <2>2, FilesRecoverLogged
  <2>3. CASE disk' = Logged(Torn)
    BY <1>0, <1>1, <1>2, <2>3, FilesRecoverLogged
  <2> QED
    BY <2>1, <2>2, <2>3 DEF AppendLost
<1>4. Settled' = Settled
  <2>1. \A x : Logged(x).snapshot = disk.snapshot /\ Logged(x).adminKey = disk.adminKey
                 /\ Logged(x).instanceId = disk.instanceId
    BY <1>0, LoggedFields
  <2> QED
    BY <2>1 DEF AppendLost, Settled, DiskEpoch
<1>5. CASE PowerOff
  BY <1>3, <1>5, RunsOn DEF PowerOff
<1>6. CASE safe' = TRUE /\ UNCHANGED <<phase, epoch>>
  <2>1. TableRecovers'
    BY <1>0, <1>4, <1>6 DEF TableRecovers
  <2> QED
    BY <1>3, <1>6, <2>1, RunsOn
<1> QED
  BY <1>5, <1>6 DEF AppendLost

\* An append that is acknowledged: it issues the keys of the table, or leaves
\* them as they are.
LEMMA AppendOkRecovers ==
    ASSUME KeyInv, RecoveryInv, phase = "up", NEW r \in Record, Keyed(r), AppendOk(r),
           UNCHANGED <<phase, epoch, safe, closed, unsettled>>,
           Settled /\ ~unsettled => Fits(r, disk.wal, Base, disk.adminKey, Len(disk.wal)),
           ~safe => \A s \in Slots : rows'[s].state # "free" =>
             IF Issues(r, s)
             THEN r.gen = rows'[s].gen
             ELSE rows[s].state # "free" /\ rows[s].gen = rows'[s].gen
    PROVE  RecoveryInv'
<1>0. /\ TypeOK /\ FilesRecover /\ (~Settled => unsettled) /\ closed \subseteq {epoch}
      /\ (epoch \in closed => safe) /\ disk' = Logged(r)
      /\ disk.wal \in Seq(Record) /\ Len(disk.wal) \in Nat
  BY OpenRecovers DEF AppendOk, RecoveryInv, TableRecovers
<1>1. FilesRecover'
  BY <1>0, FilesRecoverLogged
<1>2. /\ disk'.wal = Append(disk.wal, r) /\ disk'.snapshot = disk.snapshot
      /\ disk'.adminKey = disk.adminKey /\ disk'.instanceId = disk.instanceId
  BY <1>0, LoggedFields
<1>3. Settled' = Settled /\ Base' = Base
  BY <1>2 DEF Settled, DiskEpoch, Base, StoredRow
<1>4. /\ Len(disk'.wal) = Len(disk.wal) + 1 /\ disk'.wal[Len(disk.wal) + 1] = r
      /\ \A i \in 1 .. Len(disk.wal) : disk.wal[i] = disk'.wal[i]
  BY <1>0, <1>2
<1>5. ASSUME ~safe, ~unsettled, NEW s \in Slots, rows'[s].state # "free"
      PROVE  Entry(disk'.wal, Base[s], s, rows'[s].gen, Len(disk'.wal))
  <2> DEFINE g == rows'[s].gen
             v == disk'.wal
  <2>1. CASE Issues(r, s)
    <3>1. Issues(v[Len(disk.wal) + 1], s) /\ v[Len(disk.wal) + 1].gen = g
      BY <1>4, <1>5, <2>1
    <3> HIDE DEF g, v
    <3>2. Entry(v, Base[s], s, g, Len(disk.wal) + 1)
      BY <1>0, <3>1, EntryStep
    <3> QED
      BY <1>4, <3>2 DEF g, v
  <2>2. CASE ~Issues(r, s)
    <3>1. Entry(disk.wal, Base[s], s, g, Len(disk.wal))
      BY <1>5, <2>2 DEF RecoveryInv, TableRecovers, Table
    <3>2. Entry(v, Base[s], s, g, Len(disk.wal))
      BY <1>0, <1>4, <3>1, EntryPrefix
    <3>3. ~Issues(v[Len(disk.wal) + 1], s)
      BY <1>4, <2>2
    <3> HIDE DEF g, v
    <3>4. Entry(v, Base[s], s, g, Len(disk.wal) + 1)
      BY <1>0, <3>2, <3>3, EntryStep
    <3> QED
      BY <1>4, <3>4 DEF g, v
  <2> QED
    BY <2>1, <2>2
<1>6. TableRecovers'
  BY <1>0, <1>3, <1>5 DEF TableRecovers, Table
<1> QED
  BY <1>1, <1>6, RunsOn

\* actor_issue: the record needs nothing of the log.
LEMMA IssueRecovers ==
    ASSUME KeyInv, RecoveryInv, NEW s \in Slots, NEW ttl \in Ttls, Issue(s, ttl)
    PROVE  RecoveryInv'
<1> DEFINE g == rows[s].gen + 1
           t == now + ttl
           r == NewRecord("issue", s, g, t)
<1>0. TypeOK /\ phase = "up" /\ ~safe /\ epoch = DiskEpoch /\ rows \in [Slots -> Row]
  BY OpenRecovers DEF Issue, MayAppend, TypeOK
<1>1. g \in 0 .. MaxGeneration /\ t \in Nat
  BY <1>0, StoreAssumption DEF TypeOK, Row, Issue, Issuable, StoreAssumption
<1>2. r \in Record
  BY <1>0, <1>1, NewRecordType, StoreAssumption
<1>3. r.kind = "issue" /\ r.slot = s /\ r.gen = g /\ r.root = disk.adminKey
  BY <1>0 DEF NewRecord, DiskEpoch
<1>4. Keyed(r) /\ Fits(r, disk.wal, Base, disk.adminKey, Len(disk.wal))
  BY <1>3 DEF Keyed, Fits
<1>5. CASE AppendLost(r, {})
  BY <1>0, <1>2, <1>4, <1>5, AppendLostRecovers
<1>6. CASE ~AppendLost(r, {})
  <2>1. /\ AppendOk(r) /\ UNCHANGED <<phase, epoch, safe, closed, unsettled>>
        /\ rows' = [rows EXCEPT ![s] = [gen |-> g, state |-> "active", expires |-> t,
                                        recent |-> FALSE]]
    BY <1>6 DEF Issue
  <2>2. /\ rows'[s].gen = g /\ \A u \in Slots \ {s} : rows'[u] = rows[u]
        /\ \A u : Issues(r, u) <=> u = s
    BY <1>0, <1>3, <2>1 DEF Issues
  <2> HIDE DEF g, t, r
  <2>3. ASSUME NEW u \in Slots, rows'[u].state # "free"
        PROVE  IF Issues(r, u) THEN r.gen = rows'[u].gen
               ELSE rows[u].state # "free" /\ rows[u].gen = rows'[u].gen
    BY <1>3, <2>2, <2>3
  <2> QED
    BY <1>0, <1>2, <1>4, <2>1, <2>3, AppendOkRecovers
<1> QED
  BY <1>5, <1>6

\* actor_renew and actor_revoke take a key of the table, which the log has.
LEMMA RenewRevokeRecovers ==
    ASSUME KeyInv, RecoveryInv, NEW s \in Slots,
           Revoke(s) \/ \E ttl \in Ttls : Renew(s, ttl) \/ RenewLate(s, ttl)
    PROVE  RecoveryInv'
<1>0. /\ TypeOK /\ phase = "up" /\ ~safe /\ epoch = DiskEpoch /\ Settled
      /\ rows \in [Slots -> Row] /\ rows[s].state = "active"
      /\ 0 \in Nat /\ rows[s].gen \in 0 .. MaxGeneration
  BY OpenRecovers DEF Renew, RenewLate, Revoke, MayAppend, Renewable, TypeOK, Row
<1>1. PICK kind \in {"renew", "revoke"}, t \in Nat :
        LET r == NewRecord(kind, s, rows[s].gen, t) IN
        \/ AppendLost(r, PromisesOf(s))
        \/ /\ AppendOk(r) /\ UNCHANGED <<phase, epoch, safe, closed, unsettled>>
           /\ \/ rows' = [rows EXCEPT ![s].expires = t]
              \/ rows' = [rows EXCEPT ![s].state = "revoked", ![s].recent = TRUE]
  <2>1. CASE Revoke(s)
    BY <1>0, <2>1 DEF Revoke
  <2>2. ASSUME NEW ttl \in Ttls, Renew(s, ttl) \/ RenewLate(s, ttl)
        PROVE  /\ now + ttl \in Nat
               /\ LET r == NewRecord("renew", s, rows[s].gen, now + ttl) IN
                  \/ AppendLost(r, PromisesOf(s))
                  \/ /\ AppendOk(r) /\ UNCHANGED <<phase, epoch, safe, closed, unsettled>>
                     /\ rows' = [rows EXCEPT ![s].expires = now + ttl]
    BY <1>0, <2>2, StoreAssumption DEF Renew, RenewLate, TypeOK, StoreAssumption
  <2> QED
    BY <2>1, <2>2
<1> DEFINE r == NewRecord(kind, s, rows[s].gen, t)
<1>2. r \in Record
  <2>1. kind \in {"issue", "renew", "revoke", "note", "torn"} /\ s \in Slots \cup {Missing}
    OBVIOUS
  <2> QED
    BY <1>0, <2>1, NewRecordType, StoreAssumption
<1>3. r.kind = kind /\ r.slot = s /\ r.gen = rows[s].gen /\ r.root = disk.adminKey
  BY <1>0 DEF NewRecord, DiskEpoch
<1>4. \/ AppendLost(r, PromisesOf(s))
      \/ /\ AppendOk(r) /\ UNCHANGED <<phase, epoch, safe, closed, unsettled>>
         /\ \/ rows' = [rows EXCEPT ![s].expires = t]
            \/ rows' = [rows EXCEPT ![s].state = "revoked", ![s].recent = TRUE]
  BY <1>1
<1> HIDE DEF r
<1>5. Keyed(r) /\ \A u : ~Issues(r, u)
  BY <1>3 DEF Keyed, Issues
<1>6. ~unsettled => Fits(r, disk.wal, Base, disk.adminKey, Len(disk.wal))
  BY <1>0, <1>3, <1>5 DEF Fits, RecoveryInv, TableRecovers, Table
<1>7. CASE AppendLost(r, PromisesOf(s))
  BY <1>0, <1>2, <1>5, <1>6, <1>7, AppendLostRecovers
<1>8. CASE ~AppendLost(r, PromisesOf(s))
  <2>1. \A u \in Slots : rows'[u].gen = rows[u].gen
                          /\ (rows'[u].state # "free" => rows[u].state # "free")
    <3>1. \/ rows' = [rows EXCEPT ![s].expires = t]
          \/ rows' = [rows EXCEPT ![s].state = "revoked", ![s].recent = TRUE]
      BY <1>4, <1>8
    <3> QED
      BY <1>0, <3>1 DEF Row
  <2> QED
    BY <1>0, <1>2, <1>4, <1>5, <1>6, <1>8, <2>1, AppendOkRecovers
<1> QED
  BY <1>7, <1>8

\* actor_show and the commands that only leave a record, in safe mode too.
LEMMA NoteRecovers ==
    ASSUME KeyInv, RecoveryInv, Note \/ \E s \in Slots : Show(s)
    PROVE  RecoveryInv'
<1> DEFINE r == NewRecord("note", Missing, 0, 0)
<1>0. TypeOK /\ phase = "up" /\ epoch = DiskEpoch /\ 0 \in 0 .. MaxGeneration /\ 0 \in Nat
  BY OpenRecovers, StoreAssumption DEF Note, Show, MayAppend, StoreAssumption
<1>1. r \in Record
  BY <1>0, NewRecordType, StoreAssumption
<1>2. r.kind = "note" /\ r.root = disk.adminKey
  BY <1>0 DEF NewRecord, DiskEpoch
<1>3. \/ AppendLost(r, {})
      \/ AppendOk(r) /\ UNCHANGED <<memory, closed, unsettled>>
  BY DEF Note, Show, past
<1> HIDE DEF r
<1>4. Keyed(r) /\ Fits(r, disk.wal, Base, disk.adminKey, Len(disk.wal)) /\ \A u : ~Issues(r, u)
  BY <1>2 DEF Keyed, Fits, Issues
<1>5. CASE AppendLost(r, {})
  BY <1>0, <1>1, <1>4, <1>5, AppendLostRecovers
<1>6. CASE ~AppendLost(r, {})
  BY <1>0, <1>1, <1>3, <1>4, <1>6, AppendOkRecovers DEF memory
<1> QED
  BY <1>5, <1>6

\* The timers, the clock and a stop write nothing, and bring no key back.
LEMMA TimerRecovers ==
    ASSUME KeyInv, RecoveryInv, Tick \/ Stop \/ \E s \in Slots : Retire(s) \/ Reap(s)
    PROVE  RecoveryInv'
<1>0. TypeOK /\ rows \in [Slots -> Row] /\ UNCHANGED <<disk, closed, unsettled>>
      /\ phase' \in {"up", "down"} /\ FilesRecover
  BY DEF KeyInv, TypeOK, Tick, Stop, PowerOff, Retire, Reap, store, memory, past, RecoveryInv
<1>1. FilesRecover'
  BY <1>0, FilesRecoverSame
<1>2. phase' = "up" => /\ UNCHANGED <<phase, epoch, safe>>
                       /\ \A s \in Slots : rows'[s].gen = rows[s].gen
                            /\ (rows'[s].state # "free" => rows[s].state # "free")
  BY <1>0 DEF Tick, Stop, PowerOff, Retire, Reap, memory, Freed, FreeRow, Row
<1>3. Settled' = Settled /\ \A s, g, n : Table(s, g, n)' = Table(s, g, n)
  BY <1>0 DEF Settled, DiskEpoch, Table, Base, StoredRow
<1>4. ASSUME phase' = "up"
      PROVE  TableRecovers'
  <2>1. ASSUME NEW s \in Slots, ~safe, ~unsettled, rows'[s].state # "free"
        PROVE  Table(s, rows'[s].gen, Len(disk.wal))
    BY <1>2, <1>4, <2>1 DEF RecoveryInv, TableRecovers
  <2> QED
    BY <1>0, <1>2, <1>3, <1>4, <2>1 DEF RecoveryInv, TableRecovers, Table, Base, StoredRow
<1> QED
  BY <1>0, <1>1, <1>4, RunsOn

\* A snapshot replaces the old one in the epoch of the files, or nothing does; the
\* log is left behind in the middle.
LEMMA FilesRecoverCompacted ==
    ASSUME TypeOK, FilesRecover, Settled, DiskEpoch \notin closed, DiskEpoch \notin closed',
           closed' \subseteq closed, NEW x, x.epoch = DiskEpoch, NEW n \in 0 .. 2,
           disk' = Compacted(x, n), n = 1 => unsettled', n = 0 => unsettled' = unsettled
    PROVE  FilesRecover' /\ Settled'
<1>1. /\ disk'.snapshot = IF n >= 1 THEN x ELSE disk.snapshot
      /\ disk'.wal = IF n >= 2 THEN <<>> ELSE disk.wal
      /\ disk'.adminKey = disk.adminKey /\ disk'.instanceId = disk.instanceId
  BY CompactedFields
<1>2. DiskEpoch' = DiskEpoch /\ Settled'
  BY <1>1 DEF Settled, DiskEpoch
<1>3. ~RootIsAhead'
  BY <1>2 DEF Settled, DiskEpoch, RootIsAhead
<1>4. CASE n = 2
  BY <1>1, <1>2, <1>4, EmptyLogRecovers
<1>5. CASE n = 1
  <2>1. disk'.wal = disk.wal
    BY <1>1, <1>5
  <2> QED
    BY <1>2, <1>3, <1>5, <2>1 DEF FilesRecover
<1>6. CASE n = 0
  <2>1. disk'.wal = disk.wal /\ disk'.snapshot = disk.snapshot
    BY <1>1, <1>6
  <2>2. Loads' = Loads /\ Whole' = Whole
    BY <1>1, <2>1 DEF Loads, Base, StoredRow, Whole
  <2> QED
    BY <1>2, <1>3, <1>6, <2>1, <2>2 DEF FilesRecover
<1> QED
  BY <1>4, <1>5, <1>6

\* The table of a snapshot that was just written, with no log, is in the files.
LEMMA TableStored ==
    ASSUME NEW s \in Slots, NEW g, disk'.wal = <<>>, disk'.snapshot # Missing,
           Occupied(disk'.snapshot.rows[s], g)
    PROVE  Entry(disk'.wal, Base'[s], s, g, Len(disk'.wal))
<1>1. Base'[s] = disk'.snapshot.rows[s] /\ 1 .. Len(disk'.wal) = {}
  BY DEF Base, StoredRow
<1> QED
  BY <1>1 DEF Entry

\* The periodic compaction and actor_gc.
LEMMA CompactionRecovers ==
    ASSUME KeyInv, RecoveryInv, phase = "up", ~safe, NEW table \in [Slots -> Row],
           CompactionOf(table)
    PROVE  RecoveryInv'
<1> DEFINE x == BuiltSnapshot(table)
<1>0. /\ TypeOK /\ Settled /\ epoch = DiskEpoch /\ closed = {} /\ FilesRecover
      /\ UNCHANGED closed
  BY OpenRecovers DEF CompactionOf
<1>1. x # Missing /\ x.epoch = DiskEpoch
  BY <1>0, SnapshotFields, SnapshotType, MissingAssumption
<1>2. \A s \in Slots : x.rows[s].gen = table[s].gen /\ x.rows[s].state = table[s].state
  BY DEF BuiltSnapshot, Row
<1>3. PICK n \in 0 .. 2 :
        /\ disk' = Compacted(x, n)
        /\ unsettled' = (n = 1 \/ (n = 0 /\ unsettled))
        /\ \/ n = 2 /\ rows' = table /\ UNCHANGED <<phase, epoch, safe>>
           \/ safe' = TRUE /\ UNCHANGED <<phase, epoch>>
           \/ PowerOff
  BY DEF CompactionOf
<1> HIDE DEF x
<1>4. FilesRecover' /\ Settled'
  <2>1. (n = 1 => unsettled') /\ (n = 0 => unsettled' = unsettled)
    <3>1. unsettled \in BOOLEAN /\ unsettled' = (n = 1 \/ (n = 0 /\ unsettled))
      BY <1>0, <1>3 DEF TypeOK
    <3>2. n = 1 => unsettled'
      BY <3>1
    <3>3. n = 0 => unsettled' = unsettled
      <4> SUFFICES ASSUME n = 0
                   PROVE  unsettled' = unsettled
        OBVIOUS
      <4>1. unsettled' = (FALSE \/ (TRUE /\ unsettled))
        BY <3>1
      <4> QED
        BY <3>1, <4>1
    <3> QED
      BY <3>2, <3>3
  <2>2. DiskEpoch \notin closed /\ DiskEpoch \notin closed' /\ closed' \subseteq closed
    BY <1>0
  <2> QED
    BY <1>0, <1>1, <1>3, <2>1, <2>2, FilesRecoverCompacted
<1>5. CASE n = 2 /\ rows' = table /\ UNCHANGED <<phase, epoch, safe>>
  <2>1. disk'.snapshot = x /\ disk'.wal = <<>>
    BY <1>0, <1>3, <1>5, CompactedFields
  <2>2. ASSUME NEW s \in Slots, rows'[s].state # "free"
        PROVE  Entry(disk'.wal, Base'[s], s, rows'[s].gen, Len(disk'.wal))
    <3>1. Occupied(disk'.snapshot.rows[s], rows'[s].gen)
      BY <1>2, <1>5, <2>1, <2>2 DEF Occupied
    <3> QED
      BY <1>1, <2>1, <3>1, TableStored
  <2>3. TableRecovers'
    BY <1>0, <1>4, <1>5, <2>2 DEF TableRecovers, Table
  <2> QED
    BY <1>4, <1>5, <2>3, RunsOn
<1>6. CASE safe' = TRUE /\ UNCHANGED <<phase, epoch>>
  <2>1. TableRecovers'
    BY <1>0, <1>4, <1>6 DEF TableRecovers
  <2> QED
    BY <1>4, <1>6, <2>1, RunsOn
<1>7. CASE PowerOff
  BY <1>4, <1>7, RunsOn DEF PowerOff
<1> QED
  BY <1>3, <1>5, <1>6, <1>7

\* A reset or rotation that fails opens no epoch.
LEMMA NotInstalledLeaves ==
    ASSUME NEW n, NotInstalled(n)
    PROVE  UNCHANGED closed /\ (unsettled => unsettled')
<1>1. CASE unsettled' = (unsettled \/ n \in {2, 3})
  BY <1>1 DEF NotInstalled
<1>2. CASE UNCHANGED unsettled
  BY <1>2 DEF NotInstalled
<1> QED
  BY <1>1, <1>2 DEF NotInstalled

\* The end or the failure of a reset or rotation, by what it left of the files.
LEMMA EpochChangeRecovers ==
    ASSUME KeyInv, RecoveryInv, phase = "up", NEW e, NEW n \in 0 .. 4, FilesRecover',
           \/ n = 4 /\ Settled' /\ Installed(e)
           \/ /\ NotInstalled(n)
              /\ n \in {0, 1} => Settled' = Settled
    PROVE  RecoveryInv'
<1>0. (~Settled => unsettled) /\ closed \subseteq {epoch}
  BY OpenRecovers
<1>1. CASE Settled' /\ Installed(e)
  <2>1. TableRecovers'
    BY <1>1 DEF Installed, TableRecovers
  <2> QED
    BY <1>1, <2>1, RunsOn DEF Installed
<1>2. CASE NotInstalled(n) /\ (n \in {0, 1} => Settled' = Settled)
  <2>1. CASE PowerOff
    BY <2>1, RunsOn DEF PowerOff
  <2>2. CASE ~PowerOff
    <3>1. n < 4 /\ safe' = TRUE /\ unsettled' = (unsettled \/ n \in {2, 3})
          /\ UNCHANGED <<phase, epoch, closed>>
      BY <1>2, <2>2 DEF NotInstalled
    <3>2. ~Settled' => unsettled'
      <4>1. CASE n \in {0, 1}
        <5>1. ~Settled' => unsettled
          BY <1>0, <1>2, <4>1
        <5> QED
          BY <3>1, <5>1
      <4>2. CASE n \in {2, 3}
        BY <3>1, <4>2
      <4> QED
        BY <3>1, <4>1, <4>2
    <3>3. TableRecovers'
      BY <1>0, <3>1, <3>2 DEF TableRecovers
    <3> QED
      BY <3>1, <3>3, RunsOn
  <2> QED
    BY <2>1, <2>2
<1> QED
  BY <1>1, <1>2

\* A reset or rotation that did not come to the snapshot, in an epoch that the
\* files agree with or that cannot be recovered.
LEMMA FilesRecoverBegun ==
    ASSUME FilesRecover, ~Settled => unsettled, UNCHANGED closed, unsettled => unsettled',
           disk'.snapshot = disk.snapshot, disk'.wal = disk.wal,
           disk'.adminKey = disk.adminKey, disk'.instanceId = disk.instanceId
    PROVE  FilesRecover' /\ Settled' = Settled
<1>1. DiskEpoch' = DiskEpoch /\ Settled' = Settled /\ RootIsAhead' = RootIsAhead
      /\ Loads' = Loads /\ Whole' = Whole
  BY DEF DiskEpoch, Settled, RootIsAhead, Loads, Whole, Base, StoredRow
<1> QED
  BY <1>1 DEF FilesRecover

\* actor_reset: the new id is staged before the snapshot says it, and installed
\* after the log is gone.
LEMMA ResetRecovers ==
    ASSUME KeyInv, RecoveryInv, Reset
    PROVE  RecoveryInv'
<1> DEFINE e == [epoch EXCEPT !.instance = changes + 1]
<1>0. /\ phase = "up" /\ TypeOK /\ epoch = DiskEpoch /\ closed \subseteq {DiskEpoch}
      /\ (~Settled => unsettled) /\ FilesRecover /\ changes \in 0 .. MaxChanges
      /\ changes + 1 \in 0 .. MaxChanges /\ disk.instanceId <= changes
      /\ disk.instanceId \in 0 .. MaxChanges
  <2>1. /\ phase = "up" /\ changes < MaxChanges /\ changes \in 0 .. MaxChanges
        /\ disk.instanceId <= changes /\ disk.instanceId \in 0 .. MaxChanges
    BY DEF Reset, KeyInv, Numbered, TypeOK, Disk
  <2> QED
    BY <2>1, OpenRecovers, StoreAssumption DEF StoreAssumption
<1>1. /\ e.instance = changes + 1 /\ e.root = disk.adminKey /\ e \in Epoch
      /\ e = [root |-> disk.adminKey, instance |-> changes + 1]
      /\ changes + 1 # disk.instanceId /\ changes + 1 # Missing
  <2>1. e = [root |-> disk.adminKey, instance |-> changes + 1]
    BY <1>0 DEF DiskEpoch
  <2>2. changes + 1 # disk.instanceId /\ changes + 1 \in Nat
    BY <1>0, StoreAssumption DEF StoreAssumption
  <2>3. disk.adminKey \in Roots
    BY <1>0 DEF TypeOK, Disk
  <2> QED
    BY <1>0, <2>1, <2>2, <2>3, StoreAssumption DEF Epoch, StoreAssumption
<1>2. PICK n \in 0 .. 4 :
        /\ disk' \in InstanceUnstaged(ResetFiles(e, n))
        /\ \/ n = 4 /\ Installed(e)
           \/ disk' = ResetFiles(e, n) /\ NotInstalled(n)
  <2>1. \A n : ResetFiles(e, n) \in InstanceUnstaged(ResetFiles(e, n))
    BY DEF InstanceUnstaged
  <2>2. 4 \in 0 .. 4
    OBVIOUS
  <2> QED
    BY <2>1, <2>2 DEF Reset
<1> HIDE DEF e
<1>3. /\ disk'.snapshot = IF n >= 2 THEN EmptySnapshot(e) ELSE disk.snapshot
      /\ disk'.wal = IF n >= 3 THEN <<>> ELSE disk.wal
      /\ disk'.adminKey = disk.adminKey
      /\ disk'.instanceId = IF n >= 4 THEN e.instance ELSE disk.instanceId
  BY <1>0, <1>2, ResetFields
<1>4. EmptySnapshot(e) # Missing /\ EmptySnapshot(e).epoch = e
  BY <1>0, <1>1, SnapshotFields, SnapshotType, MissingAssumption
<1>5. n < 4 => /\ disk' = ResetFiles(e, n) /\ UNCHANGED closed
               /\ unsettled => unsettled'
  BY <1>2, NotInstalledLeaves
<1>6. FilesRecover' /\ (n \in {0, 1} => Settled' = Settled) /\ (n = 4 => Settled')
  <2>1. CASE n \in {0, 1}
    <3>1. disk'.snapshot = disk.snapshot /\ disk'.wal = disk.wal
          /\ disk'.instanceId = disk.instanceId
      BY <1>3, <2>1
    <3>2. FilesRecover' /\ Settled' = Settled
      BY <1>0, <1>3, <1>5, <2>1, <3>1, FilesRecoverBegun
    <3> QED
      BY <2>1, <3>2
  <2>2. CASE n \in {2, 3}
    <3>1. disk'.instanceIdNext = changes + 1
      <4>1. disk' = ResetFiles(e, n) /\ n >= 1
        BY <1>5, <2>2
      <4>2. ResetFiles(e, n).instanceIdNext = IF n >= 1 THEN e.instance ELSE disk.instanceIdNext
        BY <1>0 DEF ResetFiles, TypeOK, Disk
      <4> QED
        BY <1>1, <4>1, <4>2
    <3>2. disk'.snapshot = EmptySnapshot(e) /\ disk'.instanceId = disk.instanceId
          /\ disk'.wal \in {<<>>, disk.wal} /\ UNCHANGED closed
      BY <1>3, <1>5, <2>2
    <3>3. InstanceIsStaged'
      BY <1>1, <1>3, <1>4, <3>1, <3>2 DEF InstanceIsStaged, Opens
    <3>4. ~Settled' /\ ~RootIsAhead' /\ DiskEpoch' = DiskEpoch
      BY <1>1, <1>3, <1>4, <3>2 DEF Settled, RootIsAhead, DiskEpoch
    <3>5. \A i \in 1 .. Len(disk'.wal) : Keyed(disk'.wal[i])
      BY <1>0, <3>2 DEF FilesRecover
    <3>6. FilesRecover'
      BY <1>0, <3>2, <3>3, <3>4, <3>5, StagedRecovers
    <3> QED
      BY <2>2, <3>6
  <2>3. CASE n = 4
    <3>1. disk'.snapshot = EmptySnapshot(e) /\ disk'.instanceId = changes + 1
          /\ disk'.wal = <<>> /\ closed' \subseteq closed
      <4>1. closed' \subseteq closed
        BY <1>2, NotInstalledLeaves DEF Installed
      <4> QED
        BY <1>1, <1>3, <2>3, <4>1
    <3>2. DiskEpoch' = e /\ Settled'
      BY <1>1, <1>3, <1>4, <3>1 DEF DiskEpoch, Settled
    <3>3. e # DiskEpoch
      BY <1>1 DEF DiskEpoch
    <3> QED
      BY <1>0, <2>3, <3>1, <3>2, <3>3, EmptyLogRecovers
  <2> QED
    BY <2>1, <2>2, <2>3
<1> QED
  BY <1>0, <1>2, <1>6, EpochChangeRecovers

\* actor_rotate_root, with the new root in the place of the id.
LEMMA RotateRecovers ==
    ASSUME KeyInv, RecoveryInv, NEW k \in Roots, Rotate(k)
    PROVE  RecoveryInv'
<1> DEFINE e == [epoch EXCEPT !.root = k]
<1>0. /\ phase = "up" /\ TypeOK /\ epoch = DiskEpoch /\ closed \subseteq {DiskEpoch}
      /\ (~Settled => unsettled) /\ FilesRecover /\ k # disk.adminKey
      /\ disk.instanceId \in 0 .. MaxChanges
  <2>1. phase = "up" /\ k # epoch.root
    BY DEF Rotate
  <2> QED
    BY <2>1, OpenRecovers DEF DiskEpoch, TypeOK, Disk
<1>1. /\ e.root = k /\ e \in Epoch /\ e = [root |-> k, instance |-> disk.instanceId]
      /\ k # Missing
  BY <1>0, StoreAssumption DEF DiskEpoch, Epoch, StoreAssumption
<1>2. PICK n \in 0 .. 4 :
        /\ disk' \in KeyUnstaged(RotationFiles(e, n))
        /\ \/ n = 4 /\ Installed(e)
           \/ disk' = RotationFiles(e, n) /\ NotInstalled(n)
  <2>1. \A n : RotationFiles(e, n) \in KeyUnstaged(RotationFiles(e, n))
    BY DEF KeyUnstaged
  <2>2. 4 \in 0 .. 4
    OBVIOUS
  <2> QED
    BY <2>1, <2>2 DEF Rotate
<1> HIDE DEF e
<1>3. /\ disk'.snapshot = IF n >= 2 THEN EmptySnapshot(e) ELSE disk.snapshot
      /\ disk'.wal = IF n >= 3 THEN <<>> ELSE disk.wal
      /\ disk'.adminKey = IF n >= 4 THEN k ELSE disk.adminKey
      /\ disk'.instanceId = disk.instanceId
  BY <1>0, <1>1, <1>2, RotationFields
<1>4. EmptySnapshot(e) # Missing /\ EmptySnapshot(e).epoch = e
  BY <1>0, <1>1, SnapshotFields, SnapshotType, MissingAssumption
<1>5. n < 4 => /\ disk' = RotationFiles(e, n) /\ UNCHANGED closed
               /\ unsettled => unsettled'
  BY <1>2, NotInstalledLeaves
<1>6. FilesRecover' /\ (n \in {0, 1} => Settled' = Settled) /\ (n = 4 => Settled')
  <2>1. CASE n \in {0, 1}
    <3>1. disk'.snapshot = disk.snapshot /\ disk'.wal = disk.wal
          /\ disk'.adminKey = disk.adminKey
      BY <1>3, <2>1
    <3>2. FilesRecover' /\ Settled' = Settled
      BY <1>0, <1>3, <1>5, <2>1, <3>1, FilesRecoverBegun
    <3> QED
      BY <2>1, <3>2
  <2>2. CASE n \in {2, 3}
    <3>1. disk'.adminKeyNext = k
      <4>1. disk' = RotationFiles(e, n) /\ n >= 1
        BY <1>5, <2>2
      <4>2. RotationFiles(e, n).adminKeyNext = IF n >= 1 THEN e.root ELSE disk.adminKeyNext
        BY <1>0 DEF RotationFiles, TypeOK, Disk
      <4> QED
        BY <1>1, <4>1, <4>2
    <3>2. disk'.snapshot = EmptySnapshot(e) /\ disk'.adminKey = disk.adminKey
          /\ disk'.wal \in {<<>>, disk.wal} /\ UNCHANGED closed
      BY <1>3, <1>5, <2>2
    <3>3. KeyIsStaged'
      BY <1>0, <1>1, <1>4, <3>1, <3>2 DEF KeyIsStaged, Opens
    <3>4. ~Settled' /\ DiskEpoch' = DiskEpoch
          /\ disk'.snapshot.epoch.instance = disk'.instanceId
      BY <1>0, <1>1, <1>3, <1>4, <3>2 DEF Settled, DiskEpoch
    <3>5. \A i \in 1 .. Len(disk'.wal) : Keyed(disk'.wal[i])
      BY <1>0, <3>2 DEF FilesRecover
    <3>6. FilesRecover'
      BY <1>0, <3>2, <3>3, <3>4, <3>5, StagedRecovers
    <3> QED
      BY <2>2, <3>6
  <2>3. CASE n = 4
    <3>1. disk'.snapshot = EmptySnapshot(e) /\ disk'.adminKey = k
          /\ disk'.wal = <<>> /\ closed' \subseteq closed
      <4>1. closed' \subseteq closed
        BY <1>2, NotInstalledLeaves DEF Installed
      <4> QED
        BY <1>1, <1>3, <2>3, <4>1
    <3>2. DiskEpoch' = e /\ Settled'
      BY <1>1, <1>3, <1>4, <3>1 DEF DiskEpoch, Settled
    <3>3. e # DiskEpoch
      BY <1>0, <1>1 DEF DiskEpoch
    <3> QED
      BY <1>0, <2>3, <3>1, <3>2, <3>3, EmptyLogRecovers
  <2> QED
    BY <2>1, <2>2, <2>3
<1> QED
  BY <1>0, <1>2, <1>6, EpochChangeRecovers

-----------------------------------------------------------------------------
(* Steps of a start *)

\* recover_admin_key_after_rotation: the staged root opens the snapshot, which was
\* written for the instance id of the files.
LEMMA RecoverAdminKeyRecovers ==
    ASSUME KeyInv, RecoveryInv, RecoverAdminKey
    PROVE  RecoveryInv'
<1>0. /\ TypeOK /\ FilesRecover /\ UNCHANGED <<closed, unsettled>>
      /\ phase' \in {"down", "recovering"}
  BY DEF KeyInv, RecoveryInv, RecoverAdminKey, past
<1>1. FilesRecover' /\ (phase' = "recovering" => ~KeyIsStaged')
  <2>1. CASE ~KeyIsStaged
    <3>1. UNCHANGED disk
      BY <2>1 DEF RecoverAdminKey
    <3> QED
      BY <1>0, <2>1, <3>1, FilesRecoverSame DEF KeyIsStaged, Opens
  <2>2. CASE KeyIsStaged /\ disk' \in KeyUnstaged(PromotedKey(2))
    <3>1. /\ disk'.snapshot = disk.snapshot /\ disk'.wal = <<>>
          /\ disk'.adminKey = disk.adminKeyNext /\ disk'.instanceId = disk.instanceId
      BY <1>0, <2>2, PromotedKeyFields
    <3>2. /\ disk.snapshot # Missing /\ disk.snapshot.epoch.root # disk.adminKey
          /\ disk.snapshot.epoch.root = disk.adminKeyNext
      BY <2>2 DEF KeyIsStaged, Opens
    <3>3. ~Settled /\ disk.snapshot.epoch.instance = disk.instanceId
      BY <1>0, <3>2 DEF Settled, DiskEpoch, RootIsAhead, FilesRecover
    <3>4. disk.snapshot.epoch \in Epoch
      BY <1>0, <3>2 DEF TypeOK, Disk, Snapshot
    <3>5. Settled' /\ DiskEpoch' # DiskEpoch
      BY <3>1, <3>2, <3>3, <3>4 DEF Settled, DiskEpoch, Epoch
    <3>6. DiskEpoch' \notin closed'
      BY <1>0, <3>3, <3>5 DEF FilesRecover
    <3>7. ~KeyIsStaged'
      BY <3>1, <3>2 DEF KeyIsStaged, Opens
    <3> QED
      BY <3>1, <3>5, <3>6, <3>7, EmptyLogRecovers
  <2>3. CASE KeyIsStaged /\ disk' = PromotedKey(1) /\ UNCHANGED phase
    <3>1. disk' \in KeyUnstaged(PromotedKey(1)) /\ phase' = "down"
      BY <2>3 DEF KeyUnstaged, RecoverAdminKey
    <3>2. /\ disk'.snapshot = disk.snapshot /\ disk'.wal = <<>>
          /\ disk'.adminKey = disk.adminKey /\ disk'.instanceId = disk.instanceId
      BY <1>0, <3>1, PromotedKeyFields
    <3>3. disk'.adminKeyNext = disk.adminKeyNext
      BY <1>0, <2>3 DEF PromotedKey, TypeOK, Disk
    <3>4. ~Settled /\ Settled' = Settled /\ KeyIsStaged' /\ DiskEpoch' = DiskEpoch
          /\ RootIsAhead' = RootIsAhead
      BY <2>3, <3>2, <3>3 DEF Settled, DiskEpoch, KeyIsStaged, Opens, RootIsAhead
    <3>5. \A i \in 1 .. Len(disk'.wal) : Keyed(disk'.wal[i])
      BY <3>2
    <3>6. RootIsAhead' => disk'.snapshot.epoch.instance = disk'.instanceId
      BY <1>0, <3>2, <3>4 DEF FilesRecover
    <3>7. closed' \subseteq {DiskEpoch'}
      BY <1>0, <3>4 DEF FilesRecover
    <3> QED
      BY <3>1, <3>4, <3>5, <3>6, <3>7, StagedRecovers
  <2> QED
    BY <2>1, <2>2, <2>3 DEF RecoverAdminKey
<1> QED
  BY <1>0, <1>1 DEF RecoveryInv, LoadRecovers, TableRecovers

\* The snapshot is read.
LEMMA StartLoadingRecovers ==
    ASSUME TypeOK', FilesRecover', StartLoading, ~Settled' => unsettled'
    PROVE  RecoveryInv'
<1>0. /\ phase' = "loading" /\ position' = 0
      /\ rows' = IF disk'.snapshot = Missing THEN NoRows ELSE disk'.snapshot.rows
  BY DEF StartLoading
<1>1. 1 .. position' = {}
  BY <1>0
<1>2. \A s \in Slots : rows'[s] = Base'[s]
  BY <1>0 DEF Base, StoredRow, NoRows
<1>3. ASSUME NEW s \in Slots, NEW g \in 0 .. MaxGeneration
      PROVE  Occupied(rows'[s], g) <=> Entry(disk'.wal, Base'[s], s, g, position')
  BY <1>1, <1>2 DEF Entry
<1>4. LoadRecovers'
  BY <1>0, <1>1, <1>3 DEF LoadRecovers, Table
<1> QED
  BY <1>0, <1>4 DEF RecoveryInv, TableRecovers

\* recover_instance_id_after_reset
LEMMA RecoverInstanceIdRecovers ==
    ASSUME KeyInv, TypeOK', RecoveryInv, RecoverInstanceId
    PROVE  RecoveryInv'
<1>0. /\ TypeOK /\ FilesRecover /\ ~KeyIsStaged /\ UNCHANGED <<closed, unsettled>>
  BY DEF KeyInv, RecoveryInv, LoadRecovers, RecoverInstanceId, past
<1>1. CASE InstanceIsStaged
  <2>1. /\ disk.snapshot # Missing /\ disk.snapshot.epoch.root = disk.adminKey
        /\ disk.snapshot.epoch.instance = disk.instanceIdNext
        /\ disk.snapshot.epoch.instance # disk.instanceId
    BY <1>1 DEF InstanceIsStaged, Opens
  <2>2. ~Settled
    BY <2>1 DEF Settled, DiskEpoch
  <2>3. CASE disk' \in InstanceUnstaged(PromotedInstance(2)) /\ StartLoading
    <3>1. /\ disk'.snapshot = disk.snapshot /\ disk'.wal = <<>>
          /\ disk'.adminKey = disk.adminKey /\ disk'.instanceId = disk.instanceIdNext
      BY <1>0, <2>3, PromotedInstanceFields
    <3>2. disk.snapshot.epoch \in Epoch
      BY <1>0, <2>1 DEF TypeOK, Disk, Snapshot
    <3>3. Settled' /\ DiskEpoch' # DiskEpoch
      BY <2>1, <3>1, <3>2 DEF Settled, DiskEpoch, Epoch
    <3>4. DiskEpoch' \notin closed'
      BY <1>0, <2>2, <3>3 DEF FilesRecover
    <3>5. FilesRecover'
      BY <3>1, <3>3, <3>4, EmptyLogRecovers
    <3> QED
      BY <2>3, <3>3, <3>5, StartLoadingRecovers
  <2>4. CASE disk' = PromotedInstance(1) /\ PowerOff
    <3>1. disk' \in InstanceUnstaged(PromotedInstance(1))
      BY <2>4 DEF InstanceUnstaged
    <3>2. /\ disk'.snapshot = disk.snapshot /\ disk'.wal = <<>>
          /\ disk'.adminKey = disk.adminKey /\ disk'.instanceId = disk.instanceId
      BY <1>0, <3>1, PromotedInstanceFields
    <3>3. disk'.instanceIdNext = disk.instanceIdNext
      BY <1>0, <2>4 DEF PromotedInstance, TypeOK, Disk
    <3>4. ~Settled' /\ InstanceIsStaged' /\ DiskEpoch' = DiskEpoch /\ ~RootIsAhead'
      BY <1>1, <2>1, <2>2, <3>2, <3>3
         DEF Settled, DiskEpoch, InstanceIsStaged, Opens, RootIsAhead
    <3>5. \A i \in 1 .. Len(disk'.wal) : Keyed(disk'.wal[i])
      BY <3>2
    <3>6. closed' \subseteq {DiskEpoch'}
      BY <1>0, <2>2, <3>4 DEF FilesRecover
    <3>7. FilesRecover'
      BY <3>4, <3>5, <3>6, StagedRecovers
    <3> QED
      BY <2>4, <3>7, RunsOn DEF PowerOff
  <2>5. ~InstanceIsStale
    BY <2>1 DEF InstanceIsStale
  <2> QED
    BY <1>1, <2>3, <2>4, <2>5 DEF RecoverInstanceId
<1>2. CASE ~InstanceIsStaged
  <2>1. disk' \in InstanceUnstaged(disk) /\ StartLoading
    BY <1>2 DEF RecoverInstanceId, InstanceUnstaged
  <2>2. /\ disk'.snapshot = disk.snapshot /\ disk'.wal = disk.wal
        /\ disk'.adminKey = disk.adminKey /\ disk'.instanceId = disk.instanceId
    BY <1>0, <2>1 DEF TypeOK, Disk, InstanceUnstaged
  <2>3. ~Settled => unsettled
    BY <1>0, <1>2 DEF FilesRecover
  <2>4. FilesRecover' /\ Settled' = Settled
    BY <1>0, <2>2, <2>3, FilesRecoverBegun
  <2> QED
    BY <1>0, <2>1, <2>3, <2>4, StartLoadingRecovers
<1> QED
  BY <1>1, <1>2

\* A load over files that agree.
LEMMA LoadFacts ==
    ASSUME KeyInv, RecoveryInv, phase = "loading"
    PROVE  /\ TypeOK /\ FilesRecover /\ epoch = DiskEpoch /\ SnapshotMatches = Settled
           /\ disk.wal \in Seq(Record) /\ Len(disk.wal) \in Nat
           /\ position \in Nat /\ position <= Len(disk.wal)
           /\ ~Settled => unsettled
           /\ Settled =>
                /\ \A i \in 1 .. position :
                     Fits(disk.wal[i], disk.wal, Base, disk.adminKey, i - 1)
                /\ \A s \in Slots, g \in 0 .. MaxGeneration :
                     Occupied(rows[s], g) <=> Table(s, g, position)
<1>1. /\ TypeOK /\ epoch = DiskEpoch /\ position <= Len(disk.wal)
  BY DEF KeyInv, Aligned, DiskEpoch
<1>2. SnapshotMatches = Settled
  BY <1>1 DEF SnapshotMatches, Settled
<1> QED
  BY <1>1, <1>2 DEF RecoveryInv, LoadRecovers, TypeOK, Disk

\* The next record can be applied if and only if it fits.
LEMMA NextFits ==
    ASSUME KeyInv, RecoveryInv, phase = "loading", Settled, position < Len(disk.wal)
    PROVE  Readable(NextRecord) /\ Known(NextRecord) <=>
             Fits(NextRecord, disk.wal, Base, disk.adminKey, position)
<1> DEFINE r == NextRecord
<1>0. /\ epoch = DiskEpoch /\ disk.wal \in Seq(Record) /\ Len(disk.wal) \in Nat
      /\ position \in Nat /\ FilesRecover
      /\ \A s \in Slots, g \in 0 .. MaxGeneration :
           Occupied(rows[s], g) <=> Table(s, g, position)
  BY LoadFacts
<1>1. r \in Record /\ Keyed(r)
  <2>1. position + 1 \in 1 .. Len(disk.wal)
    BY <1>0
  <2> QED
    BY <1>0, <2>1 DEF NextRecord, FilesRecover
<1>2. r.gen \in 0 .. MaxGeneration /\ epoch.root = disk.adminKey
  BY <1>0, <1>1 DEF Record, DiskEpoch
<1> HIDE DEF r
<1>3. ASSUME r.kind \in {"renew", "revoke"}
      PROVE  Known(r) <=> Entry(disk.wal, Base[r.slot], r.slot, r.gen, position)
  <2>1. r.slot \in Slots
    BY <1>1, <1>3 DEF Keyed
  <2> QED
    BY <1>0, <1>2, <1>3, <2>1 DEF Known, Occupied, Table
<1>4. Readable(r) /\ Known(r) <=> Fits(r, disk.wal, Base, disk.adminKey, position)
  BY <1>1, <1>2, <1>3 DEF Readable, Known, Fits
<1> QED
  BY <1>4 DEF r

\* One record is replayed.
LEMMA ReplayRecovers ==
    ASSUME KeyInv, RecoveryInv, Replay
    PROVE  RecoveryInv'
<1> DEFINE r == NextRecord
<1>0. /\ UNCHANGED <<disk, closed, unsettled, phase>> /\ phase = "loading" /\ Settled
      /\ position < Len(disk.wal) /\ position' = position + 1 /\ rows' = Applied(r)
      /\ Readable(r) /\ Known(r)
  BY LoadFacts DEF Replay, store, past
<1>1. /\ disk.wal \in Seq(Record) /\ Len(disk.wal) \in Nat /\ position \in Nat
      /\ FilesRecover /\ rows \in [Slots -> Row]
      /\ \A i \in 1 .. position : Fits(disk.wal[i], disk.wal, Base, disk.adminKey, i - 1)
      /\ \A s \in Slots, g \in 0 .. MaxGeneration :
           Occupied(rows[s], g) <=> Table(s, g, position)
  BY <1>0, LoadFacts DEF TypeOK
<1>2. r = disk.wal[position + 1] /\ Fits(r, disk.wal, Base, disk.adminKey, position)
  BY <1>0, <1>1, NextFits DEF NextRecord
<1> HIDE DEF r
<1>3. FilesRecover' /\ Settled' /\ Base' = Base
  BY <1>0, <1>1, FilesRecoverSame DEF Settled, DiskEpoch, Base, StoredRow
<1>4. ASSUME NEW i \in 1 .. position + 1
      PROVE  Fits(disk.wal[i], disk.wal, Base, disk.adminKey, i - 1)
  <2>1. CASE i \in 1 .. position
    BY <1>1, <2>1
  <2>2. CASE i = position + 1
    <3>1. i - 1 = position
      BY <1>1, <2>2
    <3> QED
      BY <1>2, <2>2, <3>1
  <2> QED
    BY <1>1, <2>1, <2>2
<1>5. ASSUME NEW s \in Slots, NEW g \in 0 .. MaxGeneration
      PROVE  Occupied(Applied(r)[s], g) <=> Table(s, g, position + 1)
  <2>1. CASE Issues(r, s)
    <3>1. Occupied(Applied(r)[s], g) <=> r.gen = g
      BY <1>1, <2>1 DEF Issues, Applied, Occupied
    <3> QED
      BY <1>1, <1>2, <2>1, <3>1, EntryStep DEF Table
  <2>2. CASE ~Issues(r, s)
    <3>1. Occupied(Applied(r)[s], g) <=> Occupied(rows[s], g)
      <4>1. CASE r.kind = "issue"
        BY <1>1, <2>2, <4>1 DEF Issues, Applied
      <4>2. CASE r.kind = "renew"
        BY <1>0, <1>1, <4>2 DEF Applied, Known, Occupied, Row
      <4>3. CASE r.kind = "revoke"
        <5>1. Applied(r) = [rows EXCEPT ![r.slot].state = "revoked", ![r.slot].recent = FALSE]
          BY <4>3 DEF Applied
        <5>2. s = r.slot => rows[s].state # "free"
          BY <1>0, <4>3 DEF Known
        <5> QED
          BY <1>1, <5>1, <5>2 DEF Occupied, Row
      <4>4. CASE r.kind \notin {"issue", "renew", "revoke"}
        BY <4>4 DEF Applied
      <4> QED
        BY <4>1, <4>2, <4>3, <4>4
    <3>2. Table(s, g, position + 1) <=> Table(s, g, position)
      BY <1>1, <1>2, <2>2, EntryStep DEF Table
    <3> QED
      BY <1>1, <3>1, <3>2
  <2> QED
    BY <2>1, <2>2
<1>6. LoadRecovers'
  <2>1. phase' = "loading" /\ position' = position + 1 /\ rows' = Applied(r) /\ disk' = disk
    BY <1>0
  <2>2. \A s \in Slots, g \in 0 .. MaxGeneration :
          Occupied(rows'[s], g) <=> Entry(disk'.wal, Base'[s], s, g, position')
    BY <1>3, <1>5, <2>1 DEF Table
  <2>3. \A i \in 1 .. position' : Fits(disk'.wal[i], disk'.wal, Base', disk'.adminKey, i - 1)
    BY <1>3, <1>4, <2>1
  <2> QED
    BY <1>3, <2>1, <2>2, <2>3 DEF LoadRecovers, Table
<1> QED
  BY <1>0, <1>3, <1>6 DEF RecoveryInv, TableRecovers

\* What a failed load says of the files.
LEMMA FailedLoad ==
    ASSUME KeyInv, RecoveryInv, LoadFails
    PROVE  Settled => position < Len(disk.wal) /\ ~Loads
<1>a. phase = "loading"
  BY DEF LoadFails
<1>0. SnapshotMatches = Settled /\ position \in Nat /\ Len(disk.wal) \in Nat
  BY <1>a, LoadFacts
<1>1. ASSUME Settled
      PROVE  position < Len(disk.wal) /\ ~Loads
  <2>1. position < Len(disk.wal) /\ ~(Readable(NextRecord) /\ Known(NextRecord))
    BY <1>0, <1>1 DEF LoadFails
  <2>2. ~Fits(disk.wal[position + 1], disk.wal, Base, disk.adminKey, position)
    BY <1>a, <1>1, <2>1, NextFits DEF NextRecord
  <2>3. position + 1 \in 1 .. Len(disk.wal) /\ (position + 1) - 1 = position
    BY <1>0, <2>1
  <2>4. ~Fits(disk.wal[position + 1], disk.wal, Base, disk.adminKey, (position + 1) - 1)
    BY <2>2, <2>3
  <2> QED
    BY <2>1, <2>3, <2>4 DEF Loads, Replays
<1> QED
  BY <1>1

\* load_persisted_state fails: the epoch of the files is closed.
LEMMA LoadFailsRecovers ==
    ASSUME KeyInv, RecoveryInv, LoadFails
    PROVE  RecoveryInv'
<1>0. /\ phase = "loading" /\ phase' = "up" /\ safe' = TRUE
      /\ UNCHANGED <<disk, epoch, unsettled>> /\ closed' = closed \cup {epoch}
  BY DEF LoadFails, store
<1>1. /\ epoch = DiskEpoch /\ FilesRecover /\ (~Settled => unsettled)
      /\ disk.wal \in Seq(Record) /\ position \in Nat
  BY <1>0, LoadFacts
<1>2. Settled => ~Loads /\ disk.wal # <<>>
  BY <1>1, FailedLoad
<1>3. closed \subseteq {DiskEpoch}
  BY <1>1, <1>2 DEF FilesRecover
<1>4. /\ DiskEpoch' = DiskEpoch /\ Settled' = Settled /\ Loads' = Loads /\ Whole' = Whole
      /\ RootIsAhead' = RootIsAhead
  BY <1>0 DEF DiskEpoch, Settled, Loads, Whole, Base, StoredRow, RootIsAhead
<1>5. FilesRecover'
  BY <1>0, <1>1, <1>2, <1>3, <1>4 DEF FilesRecover
<1>6. TableRecovers'
  BY <1>0, <1>1, <1>3, <1>4 DEF TableRecovers
<1> QED
  BY <1>0, <1>5, <1>6, RunsOn

\* The whole log was replayed, so the epoch is not one whose load failed.
LEMMA ServeRecovers ==
    ASSUME KeyInv, TypeOK', RecoveryInv, Serve
    PROVE  RecoveryInv'
<1> DEFINE x == DatedSnapshot
<1>0. phase = "loading" /\ SnapshotMatches /\ position = Len(disk.wal)
  BY DEF Serve
<1>1. /\ TypeOK /\ FilesRecover /\ Settled /\ epoch = DiskEpoch /\ rows \in [Slots -> Row]
      /\ disk.wal \in Seq(Record)
      /\ \A i \in 1 .. position : Fits(disk.wal[i], disk.wal, Base, disk.adminKey, i - 1)
      /\ \A s \in Slots, g \in 0 .. MaxGeneration :
           Occupied(rows[s], g) <=> Table(s, g, position)
  BY <1>0, LoadFacts DEF TypeOK
<1>2. Loads /\ DiskEpoch \notin closed
  BY <1>0, <1>1 DEF Loads, Replays, FilesRecover
<1>3. x # Missing /\ x.epoch = DiskEpoch
  BY <1>1, SnapshotFields, SnapshotType, MissingAssumption
<1>4. \A s \in Slots : /\ x.rows[s].gen = rows[s].gen /\ x.rows[s].state = rows[s].state
                       /\ Restored(s).gen = rows[s].gen /\ rows[s].gen \in 0 .. MaxGeneration
                       /\ Restored(s).state # "free" => rows[s].state # "free"
  <2>1. \A s \in Slots : /\ x.rows[s] = Dated(s) /\ Dated(s).gen = rows[s].gen
                         /\ Dated(s).state = rows[s].state /\ rows[s].gen \in 0 .. MaxGeneration
    BY <1>1 DEF DatedSnapshot, Dated, Row
  <2>2. \A s \in Slots : /\ Restored(s).gen = rows[s].gen
                         /\ Restored(s).state # "free" => rows[s].state # "free"
    BY <1>1 DEF Restored, Dated, Row
  <2> QED
    BY <2>1, <2>2
<1> HIDE DEF x
<1>5. ASSUME NEW n \in 1 .. 2, disk' = Compacted(x, n), unsettled' = (n = 1), PowerOff,
             UNCHANGED closed
      PROVE  RecoveryInv'
  <2>1. n \in 0 .. 2 /\ n # 0
    BY <1>5
  <2>2. FilesRecover'
    BY <1>1, <1>2, <1>3, <1>5, <2>1, FilesRecoverCompacted
  <2> QED
    BY <1>5, <2>2, RunsOn DEF PowerOff
<1>6. ASSUME NEW undated \in BOOLEAN, disk' = IF undated THEN Compacted(x, 2) ELSE disk,
             unsettled' = (unsettled /\ ~undated), rows' = [s \in Slots |-> Restored(s)],
             phase' = "up", closed' = closed \cap {epoch}, UNCHANGED epoch
      PROVE  RecoveryInv'
  <2>0. closed' = {} /\ \A s \in Slots : rows'[s] = Restored(s)
    BY <1>1, <1>2, <1>6
  <2>1. CASE undated
    <3>1. disk' = Compacted(x, 2) /\ 2 \in 0 .. 2 /\ disk'.snapshot = x /\ disk'.wal = <<>>
      BY <1>1, <1>6, <2>1, CompactedFields
    <3>2. FilesRecover' /\ Settled'
      BY <1>1, <1>2, <1>3, <2>0, <3>1, FilesRecoverCompacted
    <3>3. ASSUME NEW s \in Slots, rows'[s].state # "free"
          PROVE  Entry(disk'.wal, Base'[s], s, rows'[s].gen, Len(disk'.wal))
      <4>1. Occupied(disk'.snapshot.rows[s], rows'[s].gen)
        BY <1>4, <2>0, <3>1, <3>3 DEF Occupied
      <4> QED
        BY <1>3, <3>1, <4>1, TableStored
    <3>4. TableRecovers'
      BY <2>0, <3>2, <3>3 DEF TableRecovers, Table
    <3> QED
      BY <1>6, <3>2, <3>4, RunsOn
  <2>2. CASE ~undated
    <3>1. disk' = disk /\ unsettled' = unsettled
      <4>1. disk' = disk /\ unsettled' = (unsettled /\ TRUE) /\ unsettled \in BOOLEAN
        BY <1>1, <1>6, <2>2 DEF TypeOK
      <4> QED
        BY <4>1
    <3>2. /\ Settled' /\ Loads' /\ Base' = Base /\ RootIsAhead' = RootIsAhead
      BY <1>1, <1>2, <3>1 DEF Settled, DiskEpoch, Loads, Base, StoredRow, RootIsAhead
    <3>3. FilesRecover'
      BY <1>1, <2>0, <3>1, <3>2 DEF FilesRecover
    <3>4. ASSUME NEW s \in Slots, rows'[s].state # "free"
          PROVE  Entry(disk'.wal, Base'[s], s, rows'[s].gen, Len(disk'.wal))
      <4>1. Occupied(rows[s], rows'[s].gen) /\ rows'[s].gen \in 0 .. MaxGeneration
        BY <1>4, <2>0, <3>4 DEF Occupied
      <4> QED
        BY <1>0, <1>1, <3>1, <3>2, <4>1 DEF Table
    <3>5. TableRecovers'
      BY <2>0, <3>2, <3>4 DEF TableRecovers, Table
    <3> QED
      BY <1>6, <3>3, <3>5, RunsOn
  <2> QED
    BY <1>6, <2>1, <2>2
<1> QED
  BY <1>5, <1>6 DEF Serve, x

-----------------------------------------------------------------------------

LEMMA NextRecovers ==
    ASSUME KeyInv, TypeOK', RecoveryInv, Next
    PROVE  RecoveryInv'
<1>0. rows \in [Slots -> Row]
  BY DEF KeyInv, TypeOK
<1>1. CASE Tick \/ Stop
  BY <1>1, TimerRecovers
<1>2. CASE KeyOperation
  BY <1>2, IssueRecovers, RenewRevokeRecovers, NoteRecovers, TimerRecovers DEF KeyOperation
<1>3. CASE Note
  BY <1>3, NoteRecovers
<1>4. CASE Compact
  BY <1>0, <1>4, CompactionRecovers DEF Compact, CompactionIsAllowed
<1>5. CASE Gc
  <2> DEFINE table == [s \in Slots |-> Collected(s)]
  <2>1. phase = "up" /\ ~safe /\ CompactionOf(table)
    BY <1>5 DEF Gc
  <2>2. table \in [Slots -> Row]
    BY <1>0, RowType DEF KeyInv
  <2> HIDE DEF table
  <2> QED
    BY <2>1, <2>2, CompactionRecovers
<1>6. CASE Reset \/ \E k \in Roots : Rotate(k)
  BY <1>6, ResetRecovers, RotateRecovers
<1>7. CASE Start
  BY <1>7, RecoverAdminKeyRecovers, RecoverInstanceIdRecovers, ReplayRecovers,
     LoadFailsRecovers, ServeRecovers DEF Start
<1> QED
  BY <1>1, <1>2, <1>3, <1>4, <1>5, <1>6, <1>7 DEF Next

LEMMA StutterRecovers ==
    ASSUME RecoveryInv, UNCHANGED vars
    PROVE  RecoveryInv'
<1>1. UNCHANGED <<disk, phase, epoch, rows, safe, position, closed, unsettled>>
  BY DEF vars, store, memory, past
<1>2. FilesRecover'
  BY <1>1, FilesRecoverSame DEF RecoveryInv
<1>3. Base' = Base /\ Settled' = Settled /\ KeyIsStaged' = KeyIsStaged
  BY <1>1 DEF Base, StoredRow, Settled, DiskEpoch, KeyIsStaged, Opens
<1>4. LoadRecovers'
  BY <1>1, <1>3 DEF RecoveryInv, LoadRecovers, Table
<1>5. TableRecovers'
  BY <1>1, <1>3 DEF RecoveryInv, TableRecovers, Table
<1> QED
  BY <1>2, <1>4, <1>5 DEF RecoveryInv

LEMMA InitRecovers ==
    ASSUME Init
    PROVE  RecoveryInv
<1>1. disk.wal = <<>> /\ disk.snapshot = Missing /\ closed = {} /\ phase = "down"
  BY DEF Init
<1>2. 1 .. Len(disk.wal) = {}
  BY <1>1
<1>3. Settled /\ ~RootIsAhead /\ Loads
  BY <1>1, <1>2 DEF Settled, RootIsAhead, Loads, Replays
<1> QED
  BY <1>1, <1>2, <1>3 DEF RecoveryInv, FilesRecover, LoadRecovers, TableRecovers

THEOREM StartsRecover == Spec => []RecoveryInv
<1>1. Init => RecoveryInv
  BY InitRecovers
<1>2. KeyInv /\ KeyInv' /\ RecoveryInv /\ [Next]_vars => RecoveryInv'
  BY NextRecovers, StutterRecovers DEF KeyInv
<1> QED
  BY <1>1, <1>2, FilesReachEveryKey, PTL DEF Spec

\* After a failed load temporary keys stay refused, however often the process
\* restarts and whatever is appended, until a reset or rotation: what could not be
\* replayed cannot be replayed later, and is not written over
\* (compaction_is_allowed).
THEOREM FailedLoadsStayClosed == Spec => []FailedLoadStaysClosed
<1>1. RecoveryInv => FailedLoadStaysClosed
  BY DEF RecoveryInv, TableRecovers, FailedLoadStaysClosed
<1> QED
  BY <1>1, StartsRecover, PTL

\* A reset or rotation that is cut short between any two of its writes does not
\* make a load fail, even if its recovery is cut short as well
\* (recover_admin_key_after_rotation, recover_instance_id_after_reset).
THEOREM EpochChangesLoad == Spec => InterruptedEpochChangeLoads
<1>1. KeyInv /\ RecoveryInv /\ [Next]_vars =>
        [lost' # lost =>
           unsettled \/ \E i \in 1 .. Len(disk.wal) : disk.wal[i].kind = "torn"]_vars
  <2> SUFFICES ASSUME KeyInv, RecoveryInv, Next, lost' # lost
               PROVE  unsettled \/ ~Whole
    BY DEF Whole, vars, past
  <2>1. LoadFails
    BY DEF Next, Tick, KeyOperation, Issue, Renew, RenewLate, Revoke, Show, Retire, Reap, Note, AppendLost,
           Compact, Gc, CompactionOf, Reset, Rotate, Start, RecoverAdminKey,
           RecoverInstanceId, Replay, Serve, Stop, past
  <2>2. FilesRecover /\ (~Settled => unsettled)
    BY <2>1, LoadFacts DEF LoadFails
  <2> QED
    BY <2>1, <2>2, FailedLoad DEF FilesRecover
<1> QED
  BY <1>1, FilesReachEveryKey, StartsRecover, PTL DEF Spec, InterruptedEpochChangeLoads

-----------------------------------------------------------------------------
(* The store as its users see it *)

\* Nothing is promised of an epoch other than that of the files, and no load
\* failed of one that was not drawn.
EpochInv ==
    /\ \A i \in lost : i <= changes
    /\ Outstanding # {} => epoch = DiskEpoch

\* The invariants the refinement rests on.
ServiceInv == KeyInv /\ PromiseInv /\ RevokedInv /\ RecoveryInv /\ EpochInv

SameEpochs == UNCHANGED <<changes, epoch>> /\ DiskEpoch' = DiskEpoch

\* An append leaves the epochs alone.
LEMMA AppendEpochs ==
    ASSUME TypeOK, NEW r, NEW doubted,
           (AppendOk(r) /\ UNCHANGED epoch) \/ AppendLost(r, doubted)
    PROVE  SameEpochs
<1>1. \A x : /\ Logged(x).adminKey = disk.adminKey
             /\ Logged(x).instanceId = disk.instanceId
  BY DEF TypeOK, Disk, Logged
<1>2. disk' = disk \/ \E x : disk' = Logged(x)
  BY DEF AppendOk, AppendLost
<1>3. DiskEpoch' = DiskEpoch
  BY <1>1, <1>2 DEF DiskEpoch
<1> QED
  BY <1>3 DEF SameEpochs, AppendOk, AppendLost, PowerOff

\* So does a compaction.
LEMMA CompactionEpochs ==
    ASSUME TypeOK, NEW x, NEW n, disk' = Compacted(x, n)
    PROVE  DiskEpoch' = DiskEpoch
BY DEF TypeOK, Disk, Compacted, DiskEpoch

\* The operations of the actor that do not change the epoch.
LEMMA OperationEpochs ==
    ASSUME TypeOK, Next, ~Start, ~Reset, ~\E k \in Roots : Rotate(k)
    PROVE  SameEpochs /\ UNCHANGED lost
<1>1. CASE Tick \/ Stop
  BY <1>1 DEF Tick, Stop, PowerOff, store, memory, past, SameEpochs, DiskEpoch
<1>2. CASE KeyOperation
  <2>1. ASSUME NEW s \in Slots, NEW ttl \in Ttls, Issue(s, ttl)
        PROVE  SameEpochs /\ UNCHANGED lost
    BY <2>1, AppendEpochs DEF Issue, AppendLost
  <2>2. ASSUME NEW s \in Slots, NEW ttl \in Ttls, Renew(s, ttl)
        PROVE  SameEpochs /\ UNCHANGED lost
    BY <2>2, AppendEpochs DEF Renew, AppendLost
  <2>6. ASSUME NEW s \in Slots, NEW ttl \in Ttls, RenewLate(s, ttl)
        PROVE  SameEpochs /\ UNCHANGED lost
    BY <2>6, AppendEpochs DEF RenewLate
  <2>3. ASSUME NEW s \in Slots, Revoke(s)
        PROVE  SameEpochs /\ UNCHANGED lost
    BY <2>3, AppendEpochs DEF Revoke, AppendLost
  <2>4. ASSUME NEW s \in Slots, Show(s)
        PROVE  SameEpochs /\ UNCHANGED lost
    BY <2>4, AppendEpochs DEF Show, AppendLost, memory
  <2>5. ASSUME NEW s \in Slots, Retire(s) \/ Reap(s)
        PROVE  SameEpochs /\ UNCHANGED lost
    BY <2>5 DEF Retire, Reap, store, past, SameEpochs, DiskEpoch
  <2> QED
    BY <1>2, <2>1, <2>2, <2>3, <2>4, <2>5, <2>6 DEF KeyOperation
<1>3. CASE Note
  BY <1>3, AppendEpochs DEF Note, AppendLost, memory, past
<1>4. ASSUME NEW table, CompactionOf(table)
      PROVE  SameEpochs /\ UNCHANGED lost
  <2>1. UNCHANGED <<changes, epoch, lost>>
    BY <1>4 DEF CompactionOf, PowerOff
  <2>2. \E n \in 0 .. 2 : disk' = Compacted(BuiltSnapshot(table), n)
    BY <1>4 DEF CompactionOf
  <2> QED
    BY <2>1, <2>2, CompactionEpochs DEF SameEpochs
<1> QED
  BY <1>1, <1>2, <1>3, <1>4 DEF Next, Compact, Gc

\* What is promised was promised before, or is by a process that agrees with its
\* files.
LEMMA OperationPromises ==
    ASSUME KeyInv, Next, ~Start, ~Reset, ~\E k \in Roots : Rotate(k)
    PROVE  \/ Outstanding' \subseteq Outstanding
           \/ phase = "up" /\ ~safe
<1>0. promised \subseteq Promise /\ now \in Nat /\ \A p \in Promise : p.expires \in Nat
  BY DEF KeyInv, TypeOK, Promise
<1>1. CASE Tick
  BY <1>0, <1>1 DEF Tick, Outstanding
<1>2. CASE Stop \/ Note \/ \E s \in Slots : Show(s) \/ Retire(s) \/ Reap(s)
  BY <1>2 DEF Stop, Note, Show, Retire, Reap, AppendLost, past, Outstanding
<1>3. CASE \/ \E s \in Slots, ttl \in Ttls :
                Issue(s, ttl) \/ Renew(s, ttl) \/ RenewLate(s, ttl)
           \/ \E s \in Slots : Revoke(s)
  BY <1>3 DEF Issue, Renew, RenewLate, Revoke, MayAppend
<1>4. CASE Compact \/ Gc
  BY <1>4 DEF Compact, Gc, CompactionIsAllowed
<1> QED
  BY <1>1, <1>2, <1>3, <1>4 DEF Next, KeyOperation

\* While anything is promised, a start promotes nothing.
LEMMA StartEpochs ==
    ASSUME KeyInv, PromiseInv, EpochInv, Outstanding # {},
           RecoverAdminKey \/ RecoverInstanceId
    PROVE  epoch' = epoch /\ DiskEpoch' = DiskEpoch
<1>0. disk \in Disk /\ epoch = DiskEpoch
  BY DEF KeyInv, TypeOK, EpochInv
<1>1. Settled
  BY DEF Outstanding, PromiseInv, Kept, FilesKeep
<1>2. ~KeyIsStaged /\ ~InstanceIsStaged
  BY <1>1 DEF Settled, DiskEpoch, KeyIsStaged, InstanceIsStaged, Opens
<1>3. disk' \in InstanceUnstaged(disk)
  BY <1>2 DEF RecoverAdminKey, RecoverInstanceId, InstanceUnstaged
<1>4. DiskEpoch' = DiskEpoch
  BY <1>0, <1>3 DEF Disk, InstanceUnstaged, DiskEpoch
<1> QED
  BY <1>0, <1>2, <1>4 DEF RecoverAdminKey, RecoverInstanceId, StartLoading, DiskEpoch

LEMMA NextEpochs ==
    ASSUME KeyInv, PromiseInv, EpochInv, Next
    PROVE  EpochInv'
<1>0. TypeOK /\ changes \in Nat /\ now \in Nat
  BY StoreAssumption DEF KeyInv, TypeOK, StoreAssumption
<1>1. CASE ~Start /\ ~Reset /\ ~\E k \in Roots : Rotate(k)
  <2>1. SameEpochs /\ UNCHANGED lost
    BY <1>0, <1>1, OperationEpochs
  <2>2. Outstanding' # {} => epoch = DiskEpoch
    BY <1>1, OperationPromises, OpenIsSettled DEF EpochInv
  <2> QED
    BY <2>1, <2>2 DEF EpochInv, SameEpochs
<1>2. CASE Reset \/ \E k \in Roots : Rotate(k)
  <2>1. changes' = changes + 1 /\ lost' = lost /\ promised' = {}
    BY <1>2 DEF Reset, Rotate
  <2>2. Outstanding' = {}
    BY <2>1 DEF Outstanding
  <2>3. \A i \in lost : i \in Nat
    BY <1>0, StoreAssumption DEF TypeOK, StoreAssumption
  <2> QED
    BY <1>0, <2>1, <2>2, <2>3 DEF EpochInv
<1>3. CASE RecoverAdminKey \/ RecoverInstanceId
  <2>1. UNCHANGED <<changes, lost, promised, now>>
    BY <1>3 DEF RecoverAdminKey, RecoverInstanceId, past
  <2>2. Outstanding' = Outstanding
    BY <2>1 DEF Outstanding
  <2> QED
    BY <1>3, <2>1, <2>2, StartEpochs DEF EpochInv
<1>4. CASE Replay \/ Serve
  <2>1. UNCHANGED <<changes, lost, promised, now, epoch>>
    BY <1>4 DEF Replay, Serve, PowerOff, store, past
  <2>2. disk' = disk \/ \E n \in 0 .. 2 : disk' = Compacted(DatedSnapshot, n)
    BY <1>4 DEF Replay, Serve, store
  <2>3. DiskEpoch' = DiskEpoch
    BY <1>0, <2>2, CompactionEpochs DEF DiskEpoch
  <2> QED
    BY <2>1, <2>3 DEF EpochInv, Outstanding
<1>5. CASE LoadFails
  <2>1. /\ UNCHANGED <<changes, promised, now, epoch, disk>>
        /\ lost' = lost \cup {epoch.instance}
    BY <1>5 DEF LoadFails, store
  <2>2. epoch.instance <= changes
    BY <1>5 DEF LoadFails, KeyInv, Aligned, Numbered
  <2> QED
    BY <2>1, <2>2 DEF EpochInv, Outstanding, DiskEpoch
<1> QED
  BY <1>1, <1>2, <1>3, <1>4, <1>5 DEF Start

LEMMA ServiceIsKept == Spec => []ServiceInv
<1>1. Init => EpochInv
  BY DEF Init, EpochInv, Outstanding
<1>2. KeyInv /\ PromiseInv /\ EpochInv /\ [Next]_vars => EpochInv'
  <2>1. EpochInv /\ UNCHANGED vars => EpochInv'
    BY DEF EpochInv, Outstanding, DiskEpoch, vars, store, memory, past
  <2> QED
    BY <2>1, NextEpochs
<1> QED
  BY <1>1, <1>2, FilesReachEveryKey, PromisesAreKept, RevocationsAreKept, StartsRecover, PTL
     DEF Spec, ServiceInv

-----------------------------------------------------------------------------
(* Steps that cannot be told from the outside, and those that close the store *)

Alive(s) == rows[s].state = "active" /\ rows[s].expires > now

\* A key authenticates if and only if its slot is in the table and its row alive.
LEMMA AcceptedKeys ==
    /\ Accepted = {KeyOf(s) : s \in {u \in Slots : IsOpen /\ InTable(u) /\ Alive(u)}}
    /\ ~IsOpen => ServedSlots = {} /\ Accepted = {} /\ Fleeting = {}
BY DEF Accepted, Accepts, Alive, IsOpen, ServedSlots, Fleeting

\* The same after a step.
LEMMA AcceptedNext ==
    /\ Accepted' = {KeyOf(s)' : s \in {u \in Slots : IsOpen' /\ InTable(u)' /\ Alive(u)'}}
    /\ ~IsOpen' => Service!Shut
BY DEF Accepted, Accepts, Alive, IsOpen, ServedSlots, Fleeting, Service!Shut

\* Which keys may lapse: those of an overtaken row that authenticate.
LEMMA FleetingKeys ==
    ASSUME overtaken \subseteq Slots
    PROVE  Fleeting = {u \in overtaken : IsOpen /\ InTable(u) /\ Alive(u)}
BY DEF Fleeting, Accepts, Alive, IsOpen

\* The same after a step: of a set of slots those whose key authenticates.
LEMMA FleetingNext ==
    ASSUME overtaken' \subseteq Slots, NEW O, O \subseteq Slots,
           \A u \in Slots : IsOpen' /\ InTable(u)' /\ Alive(u)' =>
             (u \in overtaken' <=> u \in O)
    PROVE  Fleeting' = Service!Standing(O)
<1>1. Fleeting' = {u \in overtaken' : IsOpen' /\ InTable(u)' /\ Alive(u)'}
  BY DEF Fleeting, Accepts, Alive, IsOpen
<1>2. \A u \in Slots : KeyOf(u)'.slot = u
  BY DEF KeyOf
<1>3. \A u \in Slots : (\E k \in Accepted' : k.slot = u) <=>
                        IsOpen' /\ InTable(u)' /\ Alive(u)'
  BY <1>2, AcceptedNext
<1> QED
  BY <1>1, <1>3 DEF Service!Standing

\* Rows that are dead, overdue or above the table do not matter.
LEMMA ViewKept ==
    ASSUME UNCHANGED <<phase, safe, capacity, overtaken, now>>, overtaken \subseteq Slots,
           \A s \in Slots : InTable(s) =>
             Alive(s)' = Alive(s) /\ (Alive(s) => KeyOf(s)' = KeyOf(s))
    PROVE  UNCHANGED <<IsOpen, ServedSlots, Accepted, Fleeting>>
<1>1. UNCHANGED IsOpen /\ \A s \in Slots : InTable(s)' = InTable(s)
  BY DEF IsOpen, InTable
<1>2. UNCHANGED ServedSlots
  BY <1>1 DEF ServedSlots
<1> DEFINE Up == {u \in Slots : IsOpen /\ InTable(u) /\ Alive(u)}
<1>3. Up' = Up /\ \A s \in Up : KeyOf(s)' = KeyOf(s)
  BY <1>1
<1>4. Accepted = {KeyOf(s) : s \in Up} /\ Accepted' = {KeyOf(s)' : s \in Up'}
  BY AcceptedKeys, AcceptedNext
<1> HIDE DEF Up
<1>5. Accepted' = Accepted
  BY <1>3, <1>4
<1>6. Fleeting' = Fleeting
  BY <1>1 DEF Fleeting, Accepts, Alive, IsOpen, KeyOf
<1> QED
  BY <1>1, <1>2, <1>5, <1>6

LEMMA Unseen ==
    ASSUME UNCHANGED <<IsOpen, ServedSlots, Accepted, Fleeting>>,
           UNCHANGED <<epoch, promised, granted, revoked, lost, closed, now>>
    PROVE  UNCHANGED Service!vars
BY DEF Service!vars, Outstanding

\* The store was closed and still is.
LEMMA UnseenClosed ==
    ASSUME ~IsOpen, ~IsOpen',
           UNCHANGED <<epoch, promised, granted, revoked, lost, closed, now>>
    PROVE  UNCHANGED Service!vars
<1>1. UNCHANGED <<IsOpen, ServedSlots, Accepted, Fleeting>>
  BY AcceptedKeys, AcceptedNext DEF IsOpen, Service!Shut
<1> QED
  BY <1>1, Unseen

LEMMA Closes ==
    ASSUME ~IsOpen', UNCHANGED <<epoch, promised, granted, revoked, lost, closed, now>>
    PROVE  Service!Next
<1>1. Service!Close(Outstanding)
  BY AcceptedNext DEF Service!Close, Outstanding
<1> QED
  BY <1>1 DEF Service!Next

\* The promises of a slot are those of its key.
LEMMA WithoutPromises ==
    ASSUME NEW s \in Slots, promised' = promised \ PromisesOf(s), UNCHANGED now,
           NEW k, k.slot = s, k.gen = rows[s].gen
    PROVE  Outstanding' = Service!Without(Outstanding, k)
BY DEF PromisesOf, Outstanding, Service!Without

\* An append in doubt.
LEMMA AppendCloses ==
    ASSUME TypeOK, phase = "up", NEW r, NEW doubted, AppendLost(r, doubted),
           doubted = {} \/ \E s \in Slots : doubted = PromisesOf(s)
    PROVE  Service!Next
<1>1. /\ ~IsOpen' /\ UNCHANGED <<epoch, granted, revoked, lost, closed, now>>
      /\ promised' = promised \ doubted
  BY DEF AppendLost, PowerOff, IsOpen
<1>2. CASE doubted = {}
  <2>1. promised' = promised
    BY <1>1, <1>2
  <2> QED
    BY <1>1, <2>1, Closes
<1>3. ASSUME NEW s \in Slots, doubted = PromisesOf(s)
      PROVE  Service!Next
  <2> DEFINE k == [slot |-> s, gen |-> rows[s].gen]
  <2>1. rows[s].gen \in 0 .. MaxGeneration
    BY DEF TypeOK, Row
  <2>2. k.slot = s /\ k.gen = rows[s].gen
    OBVIOUS
  <2>3. Outstanding' = Service!Without(Outstanding, k)
    BY <1>1, <1>3, <2>2, WithoutPromises
  <2>4. Service!Close(Service!Without(Outstanding, k))
    BY <1>1, <2>3, AcceptedNext DEF Service!Close
  <2> QED
    BY <2>1, <2>4 DEF Service!Next
<1> QED
  BY <1>2, <1>3

\* One row changes while the store is open.
LEMMA OneRow ==
    ASSUME NEW s \in Slots, IsOpen, UNCHANGED <<phase, safe, capacity, now>>,
           \A u \in Slots : u # s => rows'[u] = rows[u]
    PROVE  /\ UNCHANGED <<IsOpen, ServedSlots>> /\ (s \in ServedSlots <=> InTable(s))
           /\ Accepted' = {l \in Accepted : l.slot # s}
                            \cup IF InTable(s) /\ Alive(s)' THEN {KeyOf(s)'} ELSE {}
<1>1. UNCHANGED <<IsOpen, ServedSlots>> /\ (s \in ServedSlots <=> InTable(s))
  BY DEF IsOpen, ServedSlots, InTable
<1>2. IsOpen' /\ \A u \in Slots : InTable(u)' = InTable(u)
  BY <1>1 DEF InTable
<1>3. \A u \in Slots : /\ KeyOf(u).slot = u /\ KeyOf(u).gen = rows[u].gen /\ KeyOf(u)'.slot = u
                       /\ u # s => Alive(u)' = Alive(u) /\ KeyOf(u)' = KeyOf(u)
  BY DEF Alive, KeyOf
<1>4. Accepted = {KeyOf(u) : u \in {v \in Slots : InTable(v) /\ Alive(v)}}
  BY AcceptedKeys
<1>5. Accepted' = {KeyOf(u)' : u \in {v \in Slots : InTable(v)' /\ Alive(v)'}}
  BY <1>2, AcceptedNext
<1>6. ASSUME NEW x
      PROVE  x \in Accepted' <=> \/ x \in Accepted /\ x.slot # s
                                 \/ InTable(s) /\ Alive(s)' /\ x = KeyOf(s)'
  BY <1>2, <1>3, <1>4, <1>5
<1> QED
  BY <1>1, <1>6

\* A slot has one key.
LEMMA OneKey ==
    ASSUME NEW s \in Slots, NEW k, k.slot = s, k.gen = rows[s].gen
    PROVE  Service!Without(Accepted, k) = {l \in Accepted : l.slot # s}
<1>1. \A l \in Accepted : l.slot = s => l.gen = k.gen
  BY AcceptedKeys DEF KeyOf
<1> QED
  BY <1>1 DEF Service!Without

-----------------------------------------------------------------------------
(* Operations on keys *)

\* actor_issue: the slot is free and its generation beyond every key handed out or
\* revoked.
LEMMA IssueServes ==
    ASSUME ServiceInv, NEW s \in Slots, NEW ttl \in Ttls, Issue(s, ttl)
    PROVE  Service!Next
<1> DEFINE g == rows[s].gen + 1
           t == now + ttl
           k == [slot |-> s, gen |-> g, expires |-> t]
           r == NewRecord("issue", s, g, t)
<1>0. /\ KeyInv /\ PromiseInv /\ TypeOK /\ IsOpen /\ phase = "up" /\ now \in Nat /\ InTable(s)
      /\ rows[s].state = "free" /\ rows \in [Slots -> Row]
  BY DEF ServiceInv, KeyInv, TypeOK, Issue, MayAppend, IsOpen, Issuable
<1>1. g \in 0 .. MaxGeneration /\ t \in Nat /\ rows[s].gen \in Nat /\ g = rows[s].gen + 1
  BY <1>0, StoreAssumption DEF TypeOK, Row, Issue, Issuable, StoreAssumption
<1>2. k.slot = s /\ k.gen = g /\ k.expires = t
  OBVIOUS
<1>3. CASE AppendLost(r, {})
  BY <1>0, <1>3, AppendCloses
<1>4. CASE ~AppendLost(r, {})
  <2>1. /\ rows' = [rows EXCEPT ![s] = [gen |-> g, state |-> "active", expires |-> t,
                                        recent |-> FALSE]]
        /\ granted' = granted \cup {IdOf(s, g)} /\ promised' = promised \cup {k}
        /\ overtaken' = overtaken \ {s}
        /\ UNCHANGED <<phase, capacity, epoch, safe, now, revoked, lost, closed>>
    BY <1>4 DEF Issue
  <2>2. Service!Id(k) = IdOf(s, g)
    BY DEF Service!Id, IdOf
  <2> HIDE DEF k, g, t
  <2>3. Outstanding' = Outstanding \cup Service!Current({k}, now)
    BY <1>2, <2>1 DEF Outstanding, Service!Current
  <2>4. UNCHANGED <<IsOpen, ServedSlots>> /\ s \in ServedSlots
    BY <1>0, <2>1 DEF IsOpen, ServedSlots, InTable
  <2>5. \A l \in Accepted \cup Outstanding : l.slot # s
    <3>1. ~Alive(s)
      BY <1>0 DEF Alive
    <3>2. \A l \in Accepted : l.slot # s
      BY <3>1, AcceptedKeys DEF KeyOf
    <3>3. \A p \in Outstanding : Meets(rows[p.slot], p)
      BY <1>0 DEF Outstanding, PromiseInv, Kept, IsOpen
    <3> QED
      BY <1>0, <3>2, <3>3 DEF Meets
  <2>6. ASSUME epoch.instance \notin lost, IdOf(s, g) \in granted \cup revoked
        PROVE  FALSE
    <3> DEFINE id == IdOf(s, g)
    <3>1. id \in KeyId /\ Handed(id)
      BY <1>0, <2>6 DEF TypeOK, Handed, Named
    <3>2. id.instance = epoch.instance /\ id.slot = s /\ id.gen = g
      BY DEF IdOf
    <3> HIDE DEF id
    <3>3. g <= rows[s].gen
      BY <1>0, <2>6, <3>1, <3>2, Reached
    <3> QED
      BY <1>1, <3>3
  <2>7. Accepted' = Accepted \cup Service!Served({k})
    <3>1. /\ \A u \in Slots : u # s => rows'[u] = rows[u]
          /\ rows'[s].state = "active" /\ rows'[s].gen = g /\ rows'[s].expires = t
      BY <1>0, <2>1
    <3>2. Alive(s)' = (t > now) /\ KeyOf(s)' = k
      BY <2>1, <3>1 DEF Alive, KeyOf, k
    <3>3. Accepted' = {l \in Accepted : l.slot # s} \cup IF t > now THEN {k} ELSE {}
      BY <1>0, <2>1, <3>1, <3>2, OneRow
    <3>4. Service!Served({k}) = IF t > now THEN {k} ELSE {}
      BY <1>2, <2>4 DEF Service!Served, Service!Current
    <3> QED
      BY <2>5, <3>3, <3>4
  <2>8. Fleeting' = Service!Standing(Fleeting)
    <3>1. \A u \in Slots : u # s => Alive(u)' = Alive(u) /\ InTable(u)' = InTable(u)
      BY <1>0, <2>1 DEF Alive, InTable
    <3>2. ~Alive(s) /\ overtaken \subseteq Slots
      BY <1>0 DEF Alive, TypeOK
    <3> QED
      BY <1>0, <2>1, <3>1, <3>2, FleetingKeys, FleetingNext
  <2>9. Service!Issue(k)
    BY <1>0, <1>2, <2>1, <2>2, <2>3, <2>4, <2>5, <2>6, <2>7, <2>8
       DEF Service!Issue, Service!Trusted
  <2> QED
    BY <1>1, <2>9 DEF Service!Next, k, t
<1> QED
  BY <1>3, <1>4

\* actor_renew: the row is active, which that of a revoked key is not.
LEMMA RenewServes ==
    ASSUME ServiceInv, NEW s \in Slots, NEW ttl \in Ttls, Renew(s, ttl)
    PROVE  Service!Next
<1> DEFINE g == rows[s].gen
           t == now + ttl
           k == [slot |-> s, gen |-> g, expires |-> t]
           r == NewRecord("renew", s, g, t)
<1>0. /\ KeyInv /\ RevokedInv /\ TypeOK /\ IsOpen /\ phase = "up" /\ now \in Nat
      /\ rows[s].state = "active" /\ rows[s].expires > now /\ rows \in [Slots -> Row]
  BY DEF ServiceInv, KeyInv, TypeOK, Renew, MayAppend, IsOpen, Renewable
<1>1. g \in 0 .. MaxGeneration /\ t \in Nat /\ g = rows[s].gen
  BY <1>0, StoreAssumption DEF TypeOK, Row, StoreAssumption
<1>2. k.slot = s /\ k.gen = g /\ k.expires = t
  OBVIOUS
<1>3. CASE AppendLost(r, PromisesOf(s))
  BY <1>0, <1>3, AppendCloses
<1>4. CASE ~AppendLost(r, PromisesOf(s))
  <2>1. /\ rows' = [rows EXCEPT ![s].expires = t]
        /\ granted' = granted \cup {IdOf(s, g)}
        /\ promised' = (promised \ PromisesOf(s)) \cup {k}
        /\ UNCHANGED <<phase, capacity, epoch, safe, overtaken, now, revoked, lost, closed>>
    BY <1>4 DEF Renew
  <2>2. Service!Id(k) = IdOf(s, g)
    BY DEF Service!Id, IdOf
  <2> HIDE DEF k, g, t
  <2>3. Outstanding' = Service!Without(Outstanding, k) \cup Service!Current({k}, now)
    BY <1>1, <1>2, <2>1 DEF Outstanding, Service!Current, Service!Without, PromisesOf
  <2>4. /\ \A u \in Slots : u # s => rows'[u] = rows[u]
        /\ rows'[s].state = "active" /\ rows'[s].gen = g /\ rows'[s].expires = t
    BY <1>0, <1>1, <2>1 DEF Row
  <2>5. Alive(s) /\ Alive(s)' = (t > now) /\ KeyOf(s)' = k
    BY <1>0, <2>1, <2>4 DEF Alive, KeyOf, k
  <2>6. /\ UNCHANGED <<IsOpen, ServedSlots>> /\ (s \in ServedSlots <=> InTable(s))
        /\ Accepted' = Service!Without(Accepted, k)
                         \cup IF InTable(s) /\ t > now THEN {k} ELSE {}
    <3>1. /\ UNCHANGED <<IsOpen, ServedSlots>> /\ (s \in ServedSlots <=> InTable(s))
          /\ Accepted' = {l \in Accepted : l.slot # s}
                           \cup IF InTable(s) /\ t > now THEN {k} ELSE {}
      BY <1>0, <2>1, <2>4, <2>5, OneRow
    <3>2. {l \in Accepted : l.slot # s} = Service!Without(Accepted, k)
      BY <1>1, <1>2, OneKey
    <3> QED
      BY <3>1, <3>2
  <2>7. Accepted' = Service!Without(Accepted, k) \cup Service!Served({k})
    <3>1. Service!Served({k}) = IF InTable(s) /\ t > now THEN {k} ELSE {}
      BY <1>2, <2>6 DEF Service!Served, Service!Current
    <3> QED
      BY <2>6, <3>1
  <2>8. s \in ServedSlots => \E l \in Accepted : l.slot = s /\ l.gen = g
    <3>1. KeyOf(s).slot = s /\ KeyOf(s).gen = g
      BY <1>1 DEF KeyOf
    <3> QED
      BY <1>0, <2>5, <2>6, <3>1, AcceptedKeys
  <2>9. ASSUME epoch.instance \notin lost, IdOf(s, g) \in revoked
        PROVE  FALSE
    <3> DEFINE id == IdOf(s, g)
    <3>1. id.instance = epoch.instance /\ id.slot = s /\ id.gen = g
      BY DEF IdOf
    <3>2. id \in revoked
      BY <2>9
    <3> HIDE DEF id
    <3>3. Refused(id)
      BY <1>0, <2>9, <3>1, <3>2 DEF RevokedInv
    <3> QED
      BY <1>0, <1>1, <3>1, <3>3 DEF Refused, Live
  <2>b. Fleeting' = Service!Standing(Fleeting)
    <3>1. \A u \in Slots : u # s => Alive(u)' = Alive(u) /\ InTable(u)' = InTable(u)
      BY <1>0, <2>1, <2>4 DEF Alive, InTable
    <3>2. InTable(s)' = InTable(s) /\ overtaken \subseteq Slots
      BY <1>0, <2>1 DEF InTable, TypeOK
    <3> QED
      BY <1>0, <2>1, <2>5, <3>1, <3>2, FleetingKeys, FleetingNext
  <2>a. Service!Renew(k)
    BY <1>0, <1>2, <2>1, <2>2, <2>3, <2>6, <2>7, <2>8, <2>9, <2>b
       DEF Service!Renew, Service!Trusted
  <2> QED
    BY <1>1, <2>a DEF Service!Next, k, t
<1> QED
  BY <1>3, <1>4

\* actor_revoke
LEMMA RevokeServes ==
    ASSUME ServiceInv, NEW s \in Slots, Revoke(s)
    PROVE  Service!Next
<1> DEFINE g == rows[s].gen
           k == [slot |-> s, gen |-> g]
           r == NewRecord("revoke", s, g, 0)
<1>0. /\ TypeOK /\ IsOpen /\ phase = "up" /\ rows \in [Slots -> Row]
      /\ g \in 0 .. MaxGeneration /\ g = rows[s].gen /\ k.slot = s /\ k.gen = g
  BY DEF ServiceInv, KeyInv, TypeOK, Row, Revoke, MayAppend, IsOpen
<1>1. CASE AppendLost(r, PromisesOf(s))
  BY <1>0, <1>1, AppendCloses
<1>2. CASE ~AppendLost(r, PromisesOf(s))
  <2>1. /\ rows' = [rows EXCEPT ![s].state = "revoked", ![s].recent = TRUE]
        /\ revoked' = revoked \cup {IdOf(s, g)} /\ promised' = promised \ PromisesOf(s)
        /\ UNCHANGED <<phase, capacity, epoch, safe, overtaken, now, granted, lost, closed>>
    BY <1>2 DEF Revoke
  <2>2. Service!Id(k) = IdOf(s, g)
    BY DEF Service!Id, IdOf
  <2> HIDE DEF k, g
  <2>3. Outstanding' = Service!Without(Outstanding, k)
    BY <1>0, <2>1, WithoutPromises
  <2>4. rows'[s].state = "revoked" /\ \A u \in Slots : u # s => rows'[u] = rows[u]
    BY <1>0, <2>1 DEF Row
  <2>5. ~Alive(s)'
    BY <2>4 DEF Alive
  <2>6. UNCHANGED <<IsOpen, ServedSlots>> /\ Accepted' = Service!Without(Accepted, k)
    <3>1. /\ UNCHANGED <<IsOpen, ServedSlots>>
          /\ Accepted' = {l \in Accepted : l.slot # s}
      BY <1>0, <2>1, <2>4, <2>5, OneRow
    <3>2. {l \in Accepted : l.slot # s} = Service!Without(Accepted, k)
      BY <1>0, OneKey
    <3> QED
      BY <3>1, <3>2
  <2>7. Fleeting' = Service!Standing(Fleeting)
    <3>1. \A u \in Slots : u # s => Alive(u)' = Alive(u) /\ InTable(u)' = InTable(u)
      BY <1>0, <2>1, <2>4 DEF Alive, InTable
    <3>2. InTable(s)' = InTable(s) /\ overtaken \subseteq Slots
      BY <1>0, <2>1 DEF InTable, TypeOK
    <3> QED
      BY <1>0, <2>1, <2>5, <3>1, <3>2, FleetingKeys, FleetingNext
  <2>8. Service!Revoke(k)
    BY <1>0, <2>1, <2>2, <2>3, <2>6, <2>7 DEF Service!Revoke
  <2> QED
    BY <1>0, <2>8 DEF Service!Next, k
<1> QED
  BY <1>1, <1>2

\* actor_show, in safe mode too, and what leaves the keys alone.
LEMMA NoteServes ==
    ASSUME ServiceInv, Note \/ \E s \in Slots : Show(s)
    PROVE  Service!Next \/ UNCHANGED Service!vars
<1> DEFINE r == NewRecord("note", Missing, 0, 0)
<1>0. TypeOK /\ phase = "up"
  BY DEF ServiceInv, KeyInv, Note, Show, MayAppend
<1>1. CASE AppendLost(r, {})
  BY <1>0, <1>1, AppendCloses
<1>2. ASSUME UNCHANGED memory, UNCHANGED now
      PROVE  UNCHANGED <<IsOpen, ServedSlots, Accepted, Fleeting>>
  BY <1>0, <1>2, ViewKept DEF memory, Alive, KeyOf, TypeOK
<1>3. CASE Note /\ ~AppendLost(r, {})
  BY <1>2, <1>3, Unseen DEF Note, memory, past
<1>4. ASSUME NEW s \in Slots, Show(s), ~AppendLost(r, {})
      PROVE  Service!Next
  <2> DEFINE k == [slot |-> s, gen |-> rows[s].gen]
  <2>1. /\ UNCHANGED memory /\ granted' = granted \cup {IdOf(s, rows[s].gen)}
        /\ UNCHANGED <<now, revoked, promised, lost, closed>>
    BY <1>4 DEF Show
  <2>2. Service!Id(k) = IdOf(s, rows[s].gen) /\ rows[s].gen \in 0 .. MaxGeneration
    BY <1>0 DEF Service!Id, IdOf, TypeOK, Row
  <2>3. Service!Reveal(k)
    BY <1>2, <2>1, <2>2 DEF Service!Reveal, Outstanding, memory
  <2> QED
    BY <2>2, <2>3 DEF Service!Next
<1> QED
  BY <1>1, <1>3, <1>4 DEF Note, Show

\* actor_renew, late: the key is taken over the tick in which it would have ended.
LEMMA RenewLateServes ==
    ASSUME ServiceInv, NEW s \in Slots, NEW ttl \in Ttls, RenewLate(s, ttl)
    PROVE  Service!Next
<1> DEFINE g == rows[s].gen
           t == now + ttl
           k == [slot |-> s, gen |-> g, expires |-> t]
<1>0. /\ TypeOK /\ IsOpen /\ now \in Nat /\ InTable(s) /\ rows[s].state = "active"
      /\ rows[s].expires = now + 1 /\ now' = now + 1 /\ rows \in [Slots -> Row]
      /\ promised \subseteq Promise /\ \A p \in Promise : p.expires \in Nat
      /\ \A u \in Slots : rows[u].expires \in Nat
  <2>1. TypeOK
    BY DEF ServiceInv, KeyInv
  <2>2. /\ now \in Nat /\ rows \in [Slots -> Row] /\ promised \subseteq Promise
    BY <2>1 DEF TypeOK
  <2>3. /\ \A p \in Promise : p.expires \in Nat
        /\ \A u \in Slots : rows[u].expires \in Nat
    BY <2>2 DEF Promise, Row
  <2>4. /\ IsOpen /\ InTable(s) /\ rows[s].state = "active"
        /\ rows[s].expires = now + 1 /\ now' = now + 1
    BY DEF RenewLate, Renewable, MayAppend, IsOpen
  <2> QED
    BY <2>1, <2>2, <2>3, <2>4
<1>1. g \in 0 .. MaxGeneration /\ t \in Nat /\ g = rows[s].gen
  BY <1>0, StoreAssumption DEF TypeOK, Row, StoreAssumption
<1>2. k.slot = s /\ k.gen = g /\ k.expires = t
  OBVIOUS
<1>3. /\ rows' = [rows EXCEPT ![s].expires = t]
      /\ granted' = granted \cup {IdOf(s, g)} /\ overtaken' = overtaken \cup {s}
      /\ promised' = {p \in (promised \ PromisesOf(s)) \cup {k} : p.expires > now'}
      /\ UNCHANGED <<phase, capacity, epoch, safe, revoked, lost, closed>>
  BY DEF RenewLate
<1>4. Service!Id(k) = IdOf(s, g)
  BY DEF Service!Id, IdOf
<1> HIDE DEF k, g, t
<1>5. Outstanding' = Service!Current(Service!Without(Outstanding, k) \cup {k}, now')
  <2>1. \A p \in promised : p.expires > now' => p.expires > now
    BY <1>0
  <2> QED
    BY <1>1, <1>2, <1>3, <2>1 DEF Outstanding, Service!Current, Service!Without, PromisesOf
<1>6. /\ UNCHANGED <<IsOpen, ServedSlots>> /\ \A u \in Slots : InTable(u)' = InTable(u)
  BY <1>3 DEF IsOpen, ServedSlots, InTable
<1>7. /\ rows'[s].state = "active" /\ rows'[s].gen = g /\ rows'[s].expires = t
      /\ \A u \in Slots : u # s => rows'[u] = rows[u]
  BY <1>0, <1>1, <1>3 DEF Row
<1>8. /\ Alive(s) /\ Alive(s)' = (t > now') /\ KeyOf(s)' = k
      /\ KeyOf(s).slot = s /\ KeyOf(s).gen = g /\ KeyOf(s).expires = now + 1
  <2>1. Alive(s)
    BY <1>0 DEF Alive
  <2>2. Alive(s)' = (t > now')
    BY <1>7 DEF Alive
  <2>3. KeyOf(s)' = k
    BY <1>7 DEF KeyOf, k
  <2>4. KeyOf(s).slot = s /\ KeyOf(s).gen = g /\ KeyOf(s).expires = now + 1
    BY <1>0, <1>1 DEF KeyOf
  <2> QED
    BY <2>1, <2>2, <2>3, <2>4
<1>9. \A u \in Slots : u # s => /\ KeyOf(u)' = KeyOf(u) /\ KeyOf(u).slot = u
                               /\ KeyOf(u).expires = rows[u].expires
                               /\ Alive(u)' = (Alive(u) /\ rows[u].expires > now')
  BY <1>0, <1>7 DEF KeyOf, Alive
<1>10. KeyOf(s) \in Accepted
  BY <1>0, <1>8, AcceptedKeys
<1>11. Accepted' = Service!Current(Service!Without(Accepted, k) \cup {k}, now')
  <2>1. Service!Without(Accepted, k) = {l \in Accepted : l.slot # s}
    BY <1>1, <1>2, OneKey
  <2>2. Accepted = {KeyOf(u) : u \in {v \in Slots : InTable(v) /\ Alive(v)}}
    BY <1>0, AcceptedKeys
  <2>3. Accepted' = {KeyOf(u)' : u \in {v \in Slots : InTable(v) /\ Alive(v)'}}
    BY <1>0, <1>6, AcceptedNext
  <2>4. ASSUME NEW x
        PROVE  x \in Accepted' <=> \/ x \in Accepted /\ x.slot # s /\ x.expires > now'
                                   \/ x = k /\ x.expires > now'
    <3>1. x \in Accepted' <=>
            \/ \E u \in Slots : u # s /\ InTable(u) /\ Alive(u)' /\ x = KeyOf(u)'
            \/ Alive(s)' /\ x = KeyOf(s)'
      BY <1>0, <2>3
    <3>2. x \in Accepted /\ x.slot # s <=>
            \E u \in Slots : u # s /\ InTable(u) /\ Alive(u) /\ x = KeyOf(u)
      <4>1. x \in Accepted <=> \E u \in Slots : InTable(u) /\ Alive(u) /\ x = KeyOf(u)
        BY <2>2
      <4>2. \A u \in Slots : KeyOf(u).slot = u
        BY DEF KeyOf
      <4> QED
        BY <4>1, <4>2
    <3>3. \A u \in Slots : u # s => /\ KeyOf(u)' = KeyOf(u)
                                   /\ Alive(u)' <=> Alive(u) /\ KeyOf(u).expires > now'
      BY <1>9
    <3>4. (\E u \in Slots : u # s /\ InTable(u) /\ Alive(u)' /\ x = KeyOf(u)') <=>
            x \in Accepted /\ x.slot # s /\ x.expires > now'
      <4>1. ASSUME NEW u \in Slots, u # s, InTable(u), Alive(u)', x = KeyOf(u)'
            PROVE  x \in Accepted /\ x.slot # s /\ x.expires > now'
        <5>1. Alive(u) /\ x = KeyOf(u) /\ KeyOf(u).expires > now'
          <6>1. KeyOf(u)' = KeyOf(u)
            BY <1>9, <4>1
          <6>2. KeyOf(u).expires = rows[u].expires
            BY <1>9, <4>1
          <6>3. Alive(u) /\ rows[u].expires > now'
            BY <1>9, <4>1
          <6> QED
            BY <4>1, <6>1, <6>2, <6>3
        <5> QED
          BY <3>2, <4>1, <5>1
      <4>2. ASSUME NEW u \in Slots, u # s, InTable(u), Alive(u), x = KeyOf(u), x.expires > now'
            PROVE  Alive(u)' /\ x = KeyOf(u)'
        BY <3>3, <4>2
      <4> QED
        BY <3>2, <4>1, <4>2
    <3>5. Alive(s)' /\ x = KeyOf(s)' <=> x = k /\ x.expires > now'
      BY <1>2, <1>8
    <3> QED
      BY <3>1, <3>4, <3>5
  <2> QED
    BY <2>1, <2>4 DEF Service!Current
<1>12. Fleeting' = Service!Standing(Fleeting \cup {s})
  <2>1. overtaken \subseteq Slots
    BY <1>0 DEF TypeOK
  <2>2. Fleeting = {u \in overtaken : IsOpen /\ InTable(u) /\ Alive(u)}
    BY <2>1, FleetingKeys
  <2>3. overtaken' \subseteq Slots /\ Fleeting \cup {s} \subseteq Slots
    BY <1>3, <2>1, <2>2
  <2>4. ASSUME NEW u \in Slots, IsOpen' /\ InTable(u)' /\ Alive(u)'
        PROVE  u \in overtaken' <=> u \in Fleeting \cup {s}
    <3>1. u # s => IsOpen /\ InTable(u) /\ Alive(u)
      BY <1>0, <1>6, <1>9, <2>4
    <3> QED
      BY <1>3, <2>2, <3>1
  <2> QED
    BY <2>3, <2>4, FleetingNext
<1>13. Service!RenewLate(k)
  BY <1>0, <1>2, <1>3, <1>4, <1>5, <1>6, <1>8, <1>10, <1>11, <1>12 DEF Service!RenewLate
<1> QED
  BY <1>1, <1>13 DEF Service!Next, k, t

\* A row that authenticates no longer is taken by its timers unseen.
LEMMA DeadRowUnseen ==
    ASSUME ServiceInv, NEW s \in Slots, Retire(s) \/ Reap(s), ~Alive(s),
           UNCHANGED Outstanding
    PROVE  UNCHANGED Service!vars
<1>0. rows \in [Slots -> Row] /\ now \in Nat /\ overtaken \subseteq Slots
  BY DEF ServiceInv, KeyInv, TypeOK
<1>1. /\ UNCHANGED <<phase, safe, capacity, overtaken, now>>
      /\ UNCHANGED <<epoch, granted, revoked, lost, closed>>
  BY DEF Retire, Reap, past
<1>2. \A u \in Slots : u # s => rows'[u] = rows[u]
  BY <1>0 DEF Retire, Reap
<1>3. rows'[s].state # "active"
  <2>1. CASE Retire(s)
    BY <1>0, <2>1 DEF Retire, Row
  <2>2. CASE Reap(s)
    <3>1. rows' = [rows EXCEPT ![s] = FreeRow(rows[s].gen)]
      BY <2>2 DEF Reap, Freed
    <3> QED
      BY <1>0, <3>1 DEF FreeRow
  <2> QED
    BY <2>1, <2>2
<1>4. \A u \in Slots : Alive(u)' = Alive(u) /\ (Alive(u) => KeyOf(u)' = KeyOf(u))
  BY <1>1, <1>2, <1>3 DEF Alive, KeyOf
<1>5. UNCHANGED <<IsOpen, ServedSlots, Accepted, Fleeting>>
  BY <1>0, <1>1, <1>4, ViewKept
<1> QED
  BY <1>1, <1>5 DEF Service!vars

\* Timers take rows that authenticate no longer, but for the retire timer of a
\* lease that was replaced.
LEMMA TimerServes ==
    ASSUME ServiceInv, NEW s \in Slots, Retire(s) \/ Reap(s)
    PROVE  Service!Next \/ UNCHANGED Service!vars
<1> DEFINE k == [slot |-> s, gen |-> rows[s].gen]
<1>0. /\ rows \in [Slots -> Row] /\ now \in Nat /\ overtaken \subseteq Slots
      /\ k.slot = s /\ k.gen = rows[s].gen /\ k.gen \in 0 .. MaxGeneration
  BY DEF ServiceInv, KeyInv, TypeOK, Row
<1>1. /\ UNCHANGED <<phase, safe, capacity, overtaken, now>>
      /\ UNCHANGED <<epoch, granted, revoked, lost, closed>>
  BY DEF Retire, Reap, past
<1> HIDE DEF k
<1>2. CASE Reap(s)
  <2>1. ~Alive(s) /\ UNCHANGED Outstanding
    BY <1>2 DEF Reap, HasReaper, Dead, Alive, past, Outstanding
  <2> QED
    BY <1>2, <2>1, DeadRowUnseen
<1>3. CASE Retire(s) /\ ~IsOpen
  <2>1. Outstanding' = Service!Without(Outstanding, k)
    BY <1>0, <1>1, <1>3, WithoutPromises DEF Retire
  <2>2. ~IsOpen'
    BY <1>1, <1>3 DEF IsOpen
  <2>3. Service!Close(Service!Without(Outstanding, k))
    BY <1>1, <2>1, <2>2, AcceptedNext DEF Service!Close
  <2> QED
    BY <1>0, <2>3 DEF Service!Next, k
<1>4. CASE Retire(s) /\ IsOpen /\ ~Alive(s)
  <2>1. \A p \in Outstanding : Meets(rows[p.slot], p)
    BY <1>4 DEF Outstanding, ServiceInv, PromiseInv, Kept, IsOpen
  <2>2. \A p \in Outstanding : p \notin PromisesOf(s)
    BY <1>4, <2>1 DEF Meets, PromisesOf, Alive, Outstanding
  <2>3. Outstanding' = Outstanding
    BY <1>1, <1>4, <2>2 DEF Retire, Outstanding
  <2> QED
    BY <1>4, <2>3, DeadRowUnseen
<1>5. CASE Retire(s) /\ IsOpen /\ Alive(s)
  <2>1. /\ s \in overtaken /\ InTable(s) /\ rows'[s].state = "expired"
        /\ \A u \in Slots : u # s => rows'[u] = rows[u]
    BY <1>0, <1>5 DEF Retire, Alive, Row
  <2>2. Outstanding' = Service!Without(Outstanding, k)
    BY <1>0, <1>1, <1>5, WithoutPromises DEF Retire
  <2>3. s \in Fleeting
    BY <1>0, <1>5, <2>1, FleetingKeys
  <2>4. KeyOf(s) \in Accepted /\ KeyOf(s).slot = s /\ KeyOf(s).gen = k.gen
    BY <1>0, <1>5, <2>1, AcceptedKeys DEF KeyOf
  <2>5. Service!Without(Outstanding, KeyOf(s)) = Service!Without(Outstanding, k)
    BY <1>0, <2>4 DEF Service!Without
  <2>6. ~Alive(s)'
    BY <2>1 DEF Alive
  <2>7. UNCHANGED <<IsOpen, ServedSlots>> /\ Accepted' = {l \in Accepted : l.slot # s}
    BY <1>1, <1>5, <2>1, <2>6, OneRow
  <2>8. Fleeting' = Service!Standing(Fleeting)
    <3>1. \A u \in Slots : InTable(u)' = InTable(u) /\ (Alive(u)' => Alive(u))
      BY <1>1, <2>1, <2>6 DEF Alive, InTable
    <3> QED
      BY <1>0, <1>1, <1>5, <3>1, FleetingKeys, FleetingNext
  <2>9. Service!Lapse(s)
    BY <1>1, <2>2, <2>3, <2>4, <2>5, <2>7, <2>8 DEF Service!Lapse
  <2> QED
    BY <2>9 DEF Service!Next
<1> QED
  BY <1>2, <1>3, <1>4, <1>5

\* A tick ends what is due, and nothing else.
LEMMA TickServes ==
    ASSUME ServiceInv, Tick
    PROVE  Service!Next
<1>0. /\ rows \in [Slots -> Row] /\ now \in Nat /\ promised \subseteq Promise
      /\ \A p \in Promise : p.expires \in Nat
      /\ \A s \in Slots : rows[s].expires \in Nat
  BY DEF ServiceInv, KeyInv, TypeOK, Promise, Row
<1>1. /\ now' = now + 1 /\ promised' = {p \in promised : p.expires > now'}
      /\ UNCHANGED <<phase, safe, capacity, rows, overtaken>>
      /\ UNCHANGED <<epoch, granted, revoked, lost, closed>>
  BY DEF Tick, memory
<1>2. Outstanding' = Service!Current(Outstanding, now')
  BY <1>0, <1>1 DEF Outstanding, Service!Current
<1>3. UNCHANGED <<IsOpen, ServedSlots>> /\ \A s \in Slots : InTable(s)' = InTable(s)
  BY <1>1 DEF IsOpen, ServedSlots, InTable
<1>4. \A s \in Slots : /\ KeyOf(s)' = KeyOf(s) /\ KeyOf(s).expires = rows[s].expires
                       /\ Alive(s)' = (Alive(s) /\ rows[s].expires > now')
  BY <1>0, <1>1 DEF KeyOf, Alive
<1>5. ASSUME NEW x
      PROVE  x \in Accepted' <=> x \in Accepted /\ x.expires > now'
  BY <1>3, <1>4, AcceptedKeys, AcceptedNext
<1>6. Accepted' = Service!Current(Accepted, now')
  BY <1>5 DEF Service!Current
<1>7. Fleeting' = Service!Standing(Fleeting)
  <2>1. overtaken \subseteq Slots
    BY DEF ServiceInv, KeyInv, TypeOK
  <2> QED
    BY <1>1, <1>3, <1>4, <2>1, FleetingKeys, FleetingNext
<1> QED
  BY <1>1, <1>2, <1>3, <1>6, <1>7 DEF Service!Next, Service!Tick

LEMMA StopServes ==
    ASSUME Stop
    PROVE  Service!Next
BY Closes DEF Stop, PowerOff, IsOpen, past

-----------------------------------------------------------------------------
(* Compactions and epoch changes *)

\* A compaction of a table in which the same keys are alive.
LEMMA CompactionServes ==
    ASSUME phase = "up", overtaken \subseteq Slots, NEW table, CompactionOf(table),
           \A s \in Slots : /\ table[s].state = "active" /\ table[s].expires > now <=> Alive(s)
                            /\ Alive(s) => table[s] = rows[s]
    PROVE  Service!Next \/ UNCHANGED Service!vars
<1>1. UNCHANGED <<now, epoch, granted, revoked, promised, lost, closed>>
  BY DEF CompactionOf, PowerOff
<1>2. \/ ~IsOpen'
      \/ rows' = table /\ UNCHANGED <<phase, safe, capacity, overtaken>>
  BY DEF CompactionOf, PowerOff, IsOpen
<1>3. CASE rows' = table /\ UNCHANGED <<phase, safe, capacity, overtaken>>
  <2>1. \A s \in Slots : Alive(s)' = Alive(s) /\ (Alive(s) => KeyOf(s)' = KeyOf(s))
    BY <1>1, <1>3 DEF Alive, KeyOf
  <2> QED
    BY <1>1, <1>3, <2>1, ViewKept, Unseen
<1> QED
  BY <1>1, <1>2, <1>3, Closes

LEMMA CompactServes ==
    ASSUME ServiceInv, Compact \/ Gc
    PROVE  Service!Next \/ UNCHANGED Service!vars
<1>0. /\ rows \in [Slots -> Row] /\ now \in Nat /\ phase = "up"
      /\ overtaken \subseteq Slots
  BY DEF ServiceInv, KeyInv, TypeOK, Compact, Gc
<1>1. CASE Compact
  BY <1>0, <1>1, CompactionServes DEF Compact, Alive
<1>2. CASE Gc
  <2> DEFINE table == [s \in Slots |-> Collected(s)]
  <2>1. ASSUME NEW s \in Slots
        PROVE  /\ table[s].state = "active" /\ table[s].expires > now <=> Alive(s)
               /\ Alive(s) => table[s] = rows[s]
    <3>1. table[s] = rows[s] \/ (table[s] = Freed(rows[s]) /\ ~Alive(s))
      BY <1>0 DEF Collected, Collectable, HasReaper, Dead, Alive, Row
    <3> QED
      BY <3>1 DEF Alive, Freed, FreeRow
  <2>2. CompactionOf(table)
    BY <1>2 DEF Gc
  <2> HIDE DEF table
  <2> QED
    BY <1>0, <2>1, <2>2, CompactionServes
<1> QED
  BY <1>1, <1>2

\* All files are replaced, and no row of the table is alive.
LEMMA InstalledServes ==
    ASSUME ServiceInv, phase = "up", NEW e, Installed(e),
           UNCHANGED <<now, granted, revoked, lost>>, promised' = {},
           e # epoch,
           e.instance # epoch.instance => e.instance = changes + 1
    PROVE  Service!Next
<1>1. epoch' = e /\ rows' = [s \in Slots |-> Wiped(s)] /\ ~safe' /\ closed' = {}
      /\ UNCHANGED <<phase, capacity>> /\ overtaken' = {}
  BY DEF Installed
<1>2. IsOpen' /\ ServedSlots' \subseteq Slots
  BY <1>1 DEF IsOpen, ServedSlots
<1>3. ASSUME NEW s \in Slots, InTable(s)', Alive(s)'
      PROVE  FALSE
  <2>1. rows'[s] = Freed(rows[s])
    BY <1>1, <1>3 DEF Wiped, InTable
  <2> QED
    BY <1>3, <2>1 DEF Alive, Freed, FreeRow
<1>4. Accepted' = {} /\ Fleeting' = {}
  BY <1>1, <1>3, AcceptedNext DEF Fleeting
<1>5. Outstanding' = {}
  BY DEF Outstanding
<1>6. ASSUME e.instance # epoch.instance
      PROVE  /\ e.instance \notin lost
             /\ \A k \in granted \cup revoked : k.instance # e.instance
  <2>1. changes \in Nat /\ e.instance = changes + 1
    BY <1>6, StoreAssumption DEF ServiceInv, KeyInv, TypeOK, StoreAssumption
  <2>2. \A i \in lost : i <= changes
    BY DEF ServiceInv, EpochInv
  <2>3. \A k \in granted \cup revoked : k.instance <= changes
    BY DEF ServiceInv, KeyInv, Numbered, Named
  <2> QED
    BY <2>1, <2>2, <2>3
<1>7. Service!NewEpoch
  BY <1>1, <1>6 DEF Service!NewEpoch
<1>8. IsOpen' = TRUE
  BY <1>2 DEF IsOpen
<1> QED
  BY <1>1, <1>2, <1>4, <1>5, <1>7, <1>8 DEF Service!Next, Service!Rekey

\* Some are not: the process is closed, or has ended.
LEMMA NotInstalledServes ==
    ASSUME NEW n, NotInstalled(n), UNCHANGED <<now, granted, revoked, lost>>,
           promised' = {}
    PROVE  Service!Next
<1>1. ~IsOpen' /\ UNCHANGED <<epoch, closed>>
  BY DEF NotInstalled, PowerOff, IsOpen
<1>2. Outstanding' = {}
  BY DEF Outstanding
<1> QED
  BY <1>1, <1>2, AcceptedNext DEF Service!Next, Service!Rekey

LEMMA RekeyServes ==
    ASSUME ServiceInv, Reset \/ \E k \in Roots : Rotate(k)
    PROVE  Service!Next
<1>0. phase = "up" /\ promised' = {} /\ UNCHANGED <<now, granted, revoked, lost>>
  BY DEF Reset, Rotate
<1>1. CASE \E n \in 0 .. 4 : NotInstalled(n)
  BY <1>0, <1>1, NotInstalledServes
<1>2. epoch = DiskEpoch /\ changes \in Nat /\ epoch.instance <= changes
      /\ epoch = [root |-> disk.adminKey, instance |-> disk.instanceId]
  BY <1>0, StoreAssumption
     DEF ServiceInv, KeyInv, Aligned, Numbered, TypeOK, DiskEpoch, StoreAssumption
<1>3. epoch.instance \in 0 .. MaxChanges
  BY DEF ServiceInv, KeyInv, TypeOK, Epoch
<1>4. CASE Reset /\ ~\E n \in 0 .. 4 : NotInstalled(n)
  <2> DEFINE e == [epoch EXCEPT !.instance = changes + 1]
  <2>1. Installed(e)
    BY <1>4 DEF Reset
  <2>2. e.instance = changes + 1
    BY <1>2
  <2>3. e # epoch
    BY <1>2, <1>3, <2>2
  <2> QED
    BY <1>0, <2>1, <2>2, <2>3, InstalledServes
<1>5. ASSUME NEW k \in Roots, Rotate(k), ~\E n \in 0 .. 4 : NotInstalled(n)
      PROVE  Service!Next
  <2> DEFINE e == [epoch EXCEPT !.root = k]
  <2>1. Installed(e) /\ k # epoch.root
    BY <1>5 DEF Rotate
  <2>2. e.root = k /\ e.instance = epoch.instance
    BY <1>2
  <2>3. e # epoch
    BY <2>1, <2>2
  <2> QED
    BY <1>0, <2>1, <2>2, <2>3, InstalledServes
<1> QED
  BY <1>1, <1>4, <1>5 DEF Reset, Rotate

-----------------------------------------------------------------------------
(* Starts *)

\* Nothing is promised when a start promotes an epoch.
LEMMA RecoverServes ==
    ASSUME ServiceInv, RecoverAdminKey \/ RecoverInstanceId
    PROVE  Service!Next \/ UNCHANGED Service!vars
<1>1. /\ ~IsOpen /\ ~IsOpen'
      /\ UNCHANGED <<promised, granted, revoked, lost, closed, now>>
  BY DEF RecoverAdminKey, RecoverInstanceId, StartLoading, PowerOff, IsOpen, past
<1>2. CASE epoch' = epoch
  BY <1>1, <1>2, UnseenClosed
<1>3. CASE epoch' # epoch
  <2>1. Outstanding = {}
    BY <1>3, StartEpochs DEF ServiceInv
  <2>2. UNCHANGED <<IsOpen, ServedSlots, Accepted, Fleeting, Outstanding>>
    BY <1>1, AcceptedKeys, AcceptedNext DEF IsOpen, Service!Shut, Outstanding
  <2> QED
    BY <1>1, <1>3, <2>1, <2>2 DEF Service!Next, Service!Adopt
<1> QED
  BY <1>2, <1>3

LEMMA LoadFailsServes ==
    ASSUME ServiceInv, LoadFails
    PROVE  Service!Next
<1>1. /\ ~IsOpen /\ ~IsOpen' /\ lost' = lost \cup {epoch.instance}
      /\ closed' = closed \cup {epoch}
      /\ UNCHANGED <<epoch, promised, granted, revoked, now>>
  BY DEF LoadFails, IsOpen
<1>2. UNCHANGED <<IsOpen, ServedSlots, Accepted, Fleeting, Outstanding>>
  BY <1>1, AcceptedKeys, AcceptedNext DEF IsOpen, Service!Shut, Outstanding
<1> QED
  BY <1>1, <1>2 DEF Service!Next, Service!LoadFails

\* The table that is served was replayed from files that load, so every promise is
\* met in it and no revoked key is alive.
LEMMA ServeServes ==
    ASSUME ServiceInv, ServiceInv', Serve
    PROVE  Service!Next \/ UNCHANGED Service!vars
<1>0. /\ phase = "loading" /\ ~safe /\ ~IsOpen
      /\ UNCHANGED <<now, granted, revoked, promised, lost>>
  BY DEF Serve, ServiceInv, KeyInv, Aligned, IsOpen
<1>1. CASE phase' # "up"
  <2>1. UNCHANGED <<epoch, closed>> /\ ~IsOpen'
    BY <1>1 DEF Serve, PowerOff, IsOpen
  <2> QED
    BY <1>0, <2>1, UnseenClosed
<1>2. CASE phase' = "up"
  <2>1. UNCHANGED <<epoch, safe>> /\ closed' = closed \cap {epoch}
    BY <1>2 DEF Serve, PowerOff
  <2>2. IsOpen' = TRUE /\ ServedSlots' \subseteq Slots
    BY <1>0, <1>2, <2>1 DEF IsOpen, ServedSlots
  <2>3. epoch \notin closed /\ closed' = {}
    <3>1. epoch' \notin closed'
      BY <1>0, <1>2, <2>1 DEF ServiceInv, RecoveryInv, TableRecovers
    <3> QED
      BY <2>1, <3>1
  <2>4. /\ \A k \in Accepted' : k.slot \in ServedSlots' /\ k.expires > now
        /\ \A k, l \in Accepted' : k.slot = l.slot => k = l
    BY <1>0, <2>2, AcceptedNext DEF ServedSlots, KeyOf, Alive
  <2>5. {p \in Outstanding : p.slot \in ServedSlots'} \subseteq Accepted'
    <3>1. ASSUME NEW p \in Outstanding, p.slot \in ServedSlots'
          PROVE  p \in Accepted'
      <4>1. p \in promised' /\ p.expires > now' /\ p \in Promise
        BY <1>0, <3>1 DEF Outstanding, ServiceInv, KeyInv, TypeOK
      <4>2. Meets(rows'[p.slot], p)
        BY <1>0, <1>2, <2>1, <4>1 DEF ServiceInv, PromiseInv, Kept
      <4>3. p = KeyOf(p.slot)' /\ Alive(p.slot)'
        BY <1>0, <4>1, <4>2 DEF Meets, KeyOf, Alive, Promise
      <4>4. p.slot \in Slots /\ InTable(p.slot)'
        BY <2>2, <3>1 DEF ServedSlots
      <4> QED
        BY <2>2, <4>3, <4>4, AcceptedNext
    <3> QED
      BY <3>1
  <2>6. ASSUME epoch.instance \notin lost, NEW k \in Accepted', Service!Id(k) \in revoked
        PROVE  FALSE
    <3>1. PICK s \in Slots : k = KeyOf(s)' /\ Alive(s)'
      BY AcceptedNext
    <3>2. PICK id \in revoked' : /\ id.instance = epoch.instance /\ id.slot = s
                                 /\ id.gen = rows'[s].gen
      BY <1>0, <2>6, <3>1 DEF Service!Id, KeyOf
    <3>3. Refused(id)'
      BY <1>0, <2>6, <3>2 DEF ServiceInv, RevokedInv
    <3> QED
      BY <1>2, <2>1, <3>1, <3>2, <3>3 DEF Refused, Live, Alive
  <2>7. UNCHANGED Outstanding
    BY <1>0 DEF Outstanding
  <2>8. Fleeting' = Service!Standing(Fleeting)
    <3>1. Fleeting = {} /\ Fleeting' = {}
      BY <1>0, <1>2, AcceptedKeys DEF Serve, PowerOff, Fleeting
    <3> QED
      BY <3>1 DEF Service!Standing
  <2>9. Service!Open
    BY <1>0, <2>1, <2>2, <2>3, <2>4, <2>5, <2>6, <2>7, <2>8
       DEF Service!Open, Service!Trusted
  <2> QED
    BY <2>9 DEF Service!Next
<1> QED
  BY <1>1, <1>2

LEMMA StartServes ==
    ASSUME ServiceInv, ServiceInv', Start
    PROVE  Service!Next \/ UNCHANGED Service!vars
<1>1. CASE Replay
  BY <1>1, UnseenClosed DEF Replay, IsOpen, past
<1> QED
  BY <1>1, RecoverServes, LoadFailsServes, ServeServes DEF Start

LEMMA NextServes ==
    ASSUME ServiceInv, ServiceInv', Next
    PROVE  Service!Next \/ UNCHANGED Service!vars
<1>1. CASE KeyOperation
  BY <1>1, IssueServes, RenewServes, RenewLateServes, RevokeServes, NoteServes, TimerServes
  DEF KeyOperation
<1>2. CASE Start
  BY <1>2, StartServes
<1> QED
  BY <1>1, <1>2, TickServes, NoteServes, CompactServes, RekeyServes, StopServes DEF Next

\* The store, with its files, its interrupted writes and its starts, implements
\* the store without: every operation, failure and start is a step of KeyStore or
\* cannot be told from the outside.
THEOREM StoreImplements == Spec => ImplementsKeyStore
<1>1. Init => Service!Init
  <2>1. ASSUME Init
        PROVE  Service!Init
    <3>1. ~IsOpen /\ promised = {}
      BY <2>1 DEF Init, IsOpen
    <3>2. IsOpen = FALSE /\ ServedSlots = {} /\ Accepted = {} /\ Outstanding = {}
      BY <3>1, AcceptedKeys DEF IsOpen, Outstanding
    <3>3. Fleeting = {}
      BY <3>1, AcceptedKeys
    <3> QED
      BY <2>1, <3>2, <3>3 DEF Init, Service!Init
  <2> QED
    BY <2>1
<1>2. ServiceInv /\ ServiceInv' /\ [Next]_vars => [Service!Next]_Service!vars
  <2>1. ServiceInv /\ UNCHANGED vars => UNCHANGED Service!vars
    <3>1. ASSUME ServiceInv, UNCHANGED vars
          PROVE  UNCHANGED Service!vars
      <4>1. overtaken \subseteq Slots
        BY <3>1 DEF ServiceInv, KeyInv, TypeOK
      <4>2. /\ UNCHANGED <<phase, safe, capacity, rows, overtaken, now>>
            /\ UNCHANGED <<epoch, promised, granted, revoked, lost, closed>>
        BY <3>1 DEF vars, memory, past
      <4>3. \A s \in Slots : Alive(s)' = Alive(s) /\ KeyOf(s)' = KeyOf(s)
        BY <4>2 DEF Alive, KeyOf
      <4>4. UNCHANGED <<IsOpen, ServedSlots, Accepted, Fleeting>>
        BY <4>1, <4>2, <4>3, ViewKept
      <4> QED
        BY <4>2, <4>4, Unseen
    <3> QED
      BY <3>1
  <2> QED
    BY <2>1, NextServes
<1> QED
  BY <1>1, <1>2, ServiceIsKept, PTL DEF Spec, ImplementsKeyStore, Service!Spec
=============================================================================
