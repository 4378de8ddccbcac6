-------------------------- MODULE AuthStore_proofs --------------------------
(***************************************************************************)
(* Type correctness of the authentication store, and that no key id is     *)
(* handed out twice (KeyIdsAreNew): for any slots, capacities, roots and   *)
(* lifetimes and any number of resets, rotations and interruptions.        *)
(*                                                                         *)
(* TypeOK is inductive: one lemma an action, and one for what each         *)
(* replaces on disk.  KeyIdsAreNew speaks of the slot table of a running   *)
(* process, which is read back from the files, so its invariant speaks of  *)
(* the files: what a load that succeeds would make of every key handed     *)
(* out.  While a load is in progress, the table and the rest of the log    *)
(* share that burden.                                                      *)
(***************************************************************************)
EXTENDS AuthStore, TLAPS

-----------------------------------------------------------------------------
(* Lemmas about the helpers *)

\* Rows stay well-typed when they are freed, dated or restored.
LEMMA RowType ==
    ASSUME TypeOK, NEW s \in Slots
    PROVE  /\ Freed(rows[s]) \in Row
           /\ Wiped(s) \in Row /\ Collected(s) \in Row
           /\ Dated(s) \in Row /\ Restored(s) \in Row
BY DEF TypeOK, Row, Freed, FreeRow, Wiped, Collected, Dated, Restored

\* A table without rows.
LEMMA NoRowsType ==
    ASSUME StoreAssumption
    PROVE  NoRows \in [Slots -> Row]
BY DEF StoreAssumption, NoRows, FreeRow, Row

\* A record of the log, appended whole or in part (append_wal).
LEMMA LoggedType ==
    ASSUME TypeOK, NEW r \in Record
    PROVE  Logged(r) \in Disk
<1>1. disk \in Disk
  BY DEF TypeOK
<1>2. Append(disk.wal, r) \in Seq(Record)
  BY <1>1 DEF Disk
<1> QED
  BY <1>1, <1>2 DEF Disk, Logged

\* Every record an operation writes.
LEMMA NewRecordType ==
    ASSUME StoreAssumption, TypeOK, NEW kind \in {"issue", "renew", "revoke", "note", "torn"},
           NEW s \in Slots \cup {Missing}, NEW g \in 0 .. MaxGeneration, NEW t \in Nat
    PROVE  NewRecord(kind, s, g, t) \in Record
BY DEF TypeOK, Epoch, Record, NewRecord

\* The end of the process (PowerOff) keeps the memory well-typed.
LEMMA PowerOffType ==
    ASSUME StoreAssumption, TypeOK, PowerOff
    PROVE  /\ phase' \in {"down", "recovering", "loading", "up"}
           /\ capacity' \in Capacities \cup {0} /\ epoch' \in Epoch
           /\ rows' \in [Slots -> Row] /\ safe' \in BOOLEAN /\ position' \in Nat
           /\ overtaken' \subseteq Slots
BY NoRowsType DEF TypeOK, PowerOff

\* An append that is in doubt.
LEMMA AppendLostType ==
    ASSUME StoreAssumption, TypeOK, NEW r \in Record, NEW doubted, AppendLost(r, doubted)
    PROVE  TypeOK'
<1>0. 0 \in 0 .. MaxGeneration /\ 0 \in Nat
  BY DEF StoreAssumption
<1>1. Torn \in Record
  BY <1>0, NewRecordType DEF Torn
<1>2. disk' \in Disk
  BY <1>1, LoggedType DEF AppendLost, TypeOK
<1>3. /\ phase' \in {"down", "recovering", "loading", "up"}
      /\ capacity' \in Capacities \cup {0} /\ epoch' \in Epoch
      /\ rows' \in [Slots -> Row] /\ safe' \in BOOLEAN /\ position' \in Nat
      /\ overtaken' \subseteq Slots
  BY PowerOffType DEF AppendLost, TypeOK
<1> QED
  BY <1>2, <1>3 DEF AppendLost, TypeOK

\* An append that succeeded.
LEMMA AppendOkType ==
    ASSUME TypeOK, NEW r \in Record, AppendOk(r)
    PROVE  disk' \in Disk /\ changes' \in 0 .. MaxChanges
BY LoggedType DEF AppendOk, TypeOK

\* Key ids of the running epoch.
LEMMA IdOfType ==
    ASSUME TypeOK, NEW s \in Slots, NEW g \in 0 .. MaxGeneration
    PROVE  IdOf(s, g) \in KeyId
BY DEF TypeOK, Epoch, IdOf, KeyId

\* Snapshots are well-typed, and so are the disks of an interrupted compaction,
\* reset or rotation.
LEMMA SnapshotType ==
    ASSUME TypeOK
    PROVE  /\ \A table \in [Slots -> Row] : BuiltSnapshot(table) \in Snapshot
           /\ \A e \in Epoch : EmptySnapshot(e) \in Snapshot
           /\ DatedSnapshot \in Snapshot
<1>1. \A table \in [Slots -> Row] : BuiltSnapshot(table) \in Snapshot
  BY DEF TypeOK, BuiltSnapshot, Snapshot, Row, InTable
<1>2. \A e \in Epoch : EmptySnapshot(e) \in Snapshot
  BY RowType DEF EmptySnapshot, Snapshot
<1>3. DatedSnapshot \in Snapshot
  BY RowType DEF TypeOK, DatedSnapshot, Snapshot
<1> QED
  BY <1>1, <1>2, <1>3

\* Every state of a compaction, a reset or a rotation is one of the files.
LEMMA FilesType ==
    ASSUME TypeOK, NEW n
    PROVE  /\ \A x \in Snapshot : Compacted(x, n) \in Disk
           /\ \A e \in Epoch : ResetFiles(e, n) \in Disk /\ RotationFiles(e, n) \in Disk
           /\ \A d \in Disk : KeyUnstaged(d) \subseteq Disk /\ InstanceUnstaged(d) \subseteq Disk
<1>0. <<>> \in Seq(Record)
  OBVIOUS
<1>1. \A x \in Snapshot : Compacted(x, n) \in Disk
  BY <1>0 DEF TypeOK, Compacted, Disk
<1>2. ASSUME NEW e \in Epoch
      PROVE  ResetFiles(e, n) \in Disk /\ RotationFiles(e, n) \in Disk
  <2>1. EmptySnapshot(e) \in Snapshot
    BY SnapshotType
  <2>2. e.root \in Roots /\ e.instance \in 0 .. MaxChanges
    BY DEF Epoch
  <2> QED
    BY <1>0, <2>1, <2>2 DEF TypeOK, ResetFiles, RotationFiles, Disk
<1>3. \A d \in Disk : KeyUnstaged(d) \subseteq Disk /\ InstanceUnstaged(d) \subseteq Disk
  BY DEF KeyUnstaged, InstanceUnstaged, Disk
<1> QED
  BY <1>1, <1>2, <1>3

-----------------------------------------------------------------------------
(* One lemma an action *)

\* actor_issue
LEMMA IssueType ==
    ASSUME StoreAssumption, TypeOK, NEW s \in Slots, NEW ttl \in Ttls, Issue(s, ttl)
    PROVE  TypeOK'
<1> DEFINE g == rows[s].gen + 1
           t == now + ttl
           r == NewRecord("issue", s, g, t)
<1>1. g \in 0 .. MaxGeneration /\ t \in Nat
  BY DEF TypeOK, Row, Issue, Issuable, StoreAssumption
<1>2. r \in Record
  BY <1>1, NewRecordType
<1>3. CASE AppendLost(r, {})
  BY <1>2, <1>3, AppendLostType
<1>4. CASE ~AppendLost(r, {})
  <2>1. /\ AppendOk(r)
        /\ rows' = [rows EXCEPT ![s] = [gen |-> g, state |-> "active", expires |-> t,
                                        recent |-> FALSE]]
        /\ overtaken' = overtaken \ {s}
        /\ granted' = granted \cup {IdOf(s, g)}
        /\ promised' = promised \cup {[slot |-> s, gen |-> g, expires |-> t]}
        /\ UNCHANGED <<phase, capacity, epoch, safe, position, now, revoked, lost, closed,
                       unsettled>>
    BY <1>4 DEF Issue
  <2>2. disk' \in Disk /\ changes' \in 0 .. MaxChanges
    BY <1>2, <2>1, AppendOkType
  <2>3. rows' \in [Slots -> Row]
    BY <1>1, <2>1 DEF TypeOK, Row
  <2>4. granted' \subseteq KeyId
    BY <1>1, <2>1, IdOfType DEF TypeOK
  <2>5. promised' \subseteq Promise
    BY <1>1, <2>1 DEF TypeOK, Promise
  <2> QED
    BY <2>1, <2>2, <2>3, <2>4, <2>5 DEF TypeOK
<1> QED
  BY <1>3, <1>4

\* actor_renew
LEMMA RenewType ==
    ASSUME StoreAssumption, TypeOK, NEW s \in Slots, NEW ttl \in Ttls, Renew(s, ttl)
    PROVE  TypeOK'
<1> DEFINE t == now + ttl
           r == NewRecord("renew", s, rows[s].gen, t)
<1>1. rows[s].gen \in 0 .. MaxGeneration /\ t \in Nat
  BY DEF TypeOK, Row, StoreAssumption
<1>2. r \in Record
  BY <1>1, NewRecordType
<1>3. CASE AppendLost(r, PromisesOf(s))
  BY <1>2, <1>3, AppendLostType
<1>4. CASE ~AppendLost(r, PromisesOf(s))
  <2>1. /\ AppendOk(r)
        /\ rows' = [rows EXCEPT ![s].expires = t]
        /\ granted' = granted \cup {IdOf(s, rows[s].gen)}
        /\ promised' = (promised \ PromisesOf(s))
                          \cup {[slot |-> s, gen |-> rows[s].gen, expires |-> t]}
        /\ UNCHANGED <<phase, capacity, epoch, safe, position, overtaken, now, revoked,
                       lost, closed, unsettled>>
    BY <1>4 DEF Renew
  <2>2. disk' \in Disk /\ changes' \in 0 .. MaxChanges
    BY <1>2, <2>1, AppendOkType
  <2>3. rows' \in [Slots -> Row]
    BY <1>1, <2>1 DEF TypeOK, Row
  <2>4. granted' \subseteq KeyId
    BY <1>1, <2>1, IdOfType DEF TypeOK
  <2>5. promised' \subseteq Promise
    BY <1>1, <2>1 DEF TypeOK, Promise
  <2> QED
    BY <2>1, <2>2, <2>3, <2>4, <2>5 DEF TypeOK
<1> QED
  BY <1>3, <1>4

\* actor_renew, late
LEMMA RenewLateType ==
    ASSUME StoreAssumption, TypeOK, NEW s \in Slots, NEW ttl \in Ttls, RenewLate(s, ttl)
    PROVE  TypeOK'
<1> DEFINE t == now + ttl
           r == NewRecord("renew", s, rows[s].gen, t)
<1>1. rows[s].gen \in 0 .. MaxGeneration /\ t \in Nat /\ now' \in Nat
  BY DEF TypeOK, Row, StoreAssumption, RenewLate
<1>2. r \in Record
  BY <1>1, NewRecordType
<1>3. disk' \in Disk /\ changes' \in 0 .. MaxChanges
  BY <1>2, AppendOkType DEF RenewLate
<1>4. rows' \in [Slots -> Row]
  BY <1>1 DEF TypeOK, Row, RenewLate
<1>5. granted' \subseteq KeyId
  BY <1>1, IdOfType DEF TypeOK, RenewLate
<1>6. promised' \subseteq Promise
  BY <1>1 DEF TypeOK, Promise, RenewLate
<1> QED
  BY <1>1, <1>3, <1>4, <1>5, <1>6 DEF TypeOK, RenewLate

\* actor_revoke
LEMMA RevokeType ==
    ASSUME StoreAssumption, TypeOK, NEW s \in Slots, Revoke(s)
    PROVE  TypeOK'
<1> DEFINE r == NewRecord("revoke", s, rows[s].gen, 0)
<1>1. rows[s].gen \in 0 .. MaxGeneration
  BY DEF TypeOK, Row
<1>2. r \in Record
  BY <1>1, NewRecordType
<1>3. CASE AppendLost(r, PromisesOf(s))
  BY <1>2, <1>3, AppendLostType
<1>4. CASE ~AppendLost(r, PromisesOf(s))
  <2>1. /\ AppendOk(r)
        /\ rows' = [rows EXCEPT ![s].state = "revoked", ![s].recent = TRUE]
        /\ revoked' = revoked \cup {IdOf(s, rows[s].gen)}
        /\ promised' = promised \ PromisesOf(s)
        /\ UNCHANGED <<phase, capacity, epoch, safe, position, overtaken, now, granted,
                       lost, closed, unsettled>>
    BY <1>4 DEF Revoke
  <2>2. disk' \in Disk /\ changes' \in 0 .. MaxChanges
    BY <1>2, <2>1, AppendOkType
  <2>3. rows' \in [Slots -> Row]
    BY <2>1 DEF TypeOK, Row
  <2>4. revoked' \subseteq KeyId
    BY <1>1, <2>1, IdOfType DEF TypeOK
  <2> QED
    BY <2>1, <2>2, <2>3, <2>4 DEF TypeOK
<1> QED
  BY <1>3, <1>4

\* actor_show, append_audit, actor_claim_admin_mutation
LEMMA NoteType ==
    ASSUME StoreAssumption, TypeOK, Note \/ \E s \in Slots : Show(s)
    PROVE  TypeOK'
<1> DEFINE r == NewRecord("note", Missing, 0, 0)
<1>0. 0 \in 0 .. MaxGeneration /\ 0 \in Nat
  BY DEF StoreAssumption
<1>1. r \in Record
  BY <1>0, NewRecordType
<1>2. CASE AppendLost(r, {})
  BY <1>1, <1>2, AppendLostType
<1>3. CASE AppendOk(r) /\ UNCHANGED <<memory, now, past>>
  <2>1. disk' \in Disk /\ changes' \in 0 .. MaxChanges
    BY <1>1, <1>3, AppendOkType
  <2> QED
    BY <1>3, <2>1 DEF TypeOK, memory, past
<1>4. ASSUME NEW s \in Slots, AppendOk(r), granted' = granted \cup {IdOf(s, rows[s].gen)},
             UNCHANGED <<memory, now, revoked, promised, lost, closed, unsettled>>
      PROVE  TypeOK'
  <2>1. disk' \in Disk /\ changes' \in 0 .. MaxChanges
    BY <1>1, <1>4, AppendOkType
  <2>2. rows[s].gen \in 0 .. MaxGeneration
    BY DEF TypeOK, Row
  <2>3. granted' \subseteq KeyId
    BY <1>4, <2>2, IdOfType DEF TypeOK
  <2> QED
    BY <1>4, <2>1, <2>3 DEF TypeOK, memory
<1> QED
  BY <1>2, <1>3, <1>4 DEF Note, Show

\* The timers of a key, and the clock.
LEMMA TimerType ==
    ASSUME StoreAssumption, TypeOK, Tick \/ \E s \in Slots : Retire(s) \/ Reap(s)
    PROVE  TypeOK'
<1>1. CASE Tick
  <2>1. now' \in Nat /\ promised' \subseteq Promise
    BY <1>1 DEF Tick, TypeOK
  <2> QED
    BY <1>1, <2>1 DEF Tick, TypeOK, store, memory
<1>2. ASSUME NEW s \in Slots, Retire(s)
      PROVE  TypeOK'
  <2>1. rows' \in [Slots -> Row]
    BY <1>2 DEF Retire, TypeOK, Row
  <2> QED
    BY <1>2, <2>1 DEF Retire, TypeOK, store
<1>3. ASSUME NEW s \in Slots, Reap(s)
      PROVE  TypeOK'
  <2>1. rows' = [rows EXCEPT ![s] = Freed(rows[s])]
    BY <1>3 DEF Reap
  <2>2. rows' \in [Slots -> Row]
    BY <2>1, RowType DEF TypeOK
  <2> QED
    BY <1>3, <2>2 DEF Reap, TypeOK, store, past
<1> QED
  BY <1>1, <1>2, <1>3

\* The periodic compaction, and that of actor_gc.
LEMMA CompactionType ==
    ASSUME StoreAssumption, TypeOK, NEW table \in [Slots -> Row], CompactionOf(table)
    PROVE  TypeOK'
<1>1. PICK n \in 0 .. 2 :
       /\ disk' = Compacted(BuiltSnapshot(table), n)
       /\ unsettled' = (n = 1 \/ (n = 0 /\ unsettled))
       /\ \/ /\ n = 2
             /\ rows' = table
             /\ UNCHANGED <<phase, capacity, epoch, safe, position, overtaken>>
          \/ /\ rows' = table /\ safe' = TRUE
             /\ UNCHANGED <<phase, capacity, epoch, position, overtaken>>
          \/ PowerOff
  BY DEF CompactionOf
<1>2. disk' \in Disk
  BY <1>1, SnapshotType, FilesType
<1>3. /\ phase' \in {"down", "recovering", "loading", "up"}
      /\ capacity' \in Capacities \cup {0} /\ epoch' \in Epoch
      /\ rows' \in [Slots -> Row] /\ safe' \in BOOLEAN /\ position' \in Nat
      /\ overtaken' \subseteq Slots
  BY <1>1, PowerOffType DEF TypeOK
<1>4. unsettled' \in BOOLEAN
  BY <1>1 DEF TypeOK
<1> QED
  BY <1>2, <1>3, <1>4 DEF CompactionOf, TypeOK

\* The end of a reset or rotation, done or not.
LEMMA EndType ==
    ASSUME StoreAssumption, TypeOK, NEW e \in Epoch, NEW n, Installed(e) \/ NotInstalled(n)
    PROVE  /\ phase' \in {"down", "recovering", "loading", "up"}
           /\ capacity' \in Capacities \cup {0} /\ epoch' \in Epoch
           /\ rows' \in [Slots -> Row] /\ safe' \in BOOLEAN /\ position' \in Nat
           /\ overtaken' \subseteq Slots
           /\ closed' \subseteq Epoch /\ unsettled' \in BOOLEAN
<1>1. CASE Installed(e)
  <2>1. rows' \in [Slots -> Row]
    BY <1>1, RowType DEF Installed
  <2> QED
    BY <1>1, <2>1 DEF Installed, TypeOK
<1>2. CASE NotInstalled(n)
  BY <1>2, PowerOffType DEF NotInstalled, TypeOK
<1> QED
  BY <1>1, <1>2

\* actor_reset and actor_rotate_root
LEMMA EpochChangeType ==
    ASSUME StoreAssumption, TypeOK, Reset \/ \E k \in Roots : Rotate(k)
    PROVE  TypeOK'
<1>1. CASE Reset
  <2> DEFINE e == [epoch EXCEPT !.instance = changes + 1]
  <2>1. e \in Epoch /\ changes' \in 0 .. MaxChanges
    BY <1>1 DEF Reset, TypeOK, Epoch, StoreAssumption
  <2> HIDE DEF e
  <2>2. \A n : ResetFiles(e, n) \in Disk /\ InstanceUnstaged(ResetFiles(e, n)) \subseteq Disk
    BY <2>1, FilesType
  <2>3. \/ disk' \in InstanceUnstaged(ResetFiles(e, 4)) /\ Installed(e)
        \/ \E n \in 0..4 : disk' = ResetFiles(e, n) /\ NotInstalled(n)
    BY <1>1 DEF Reset, e
  <2>4. disk' \in Disk
    BY <2>2, <2>3
  <2>5. /\ phase' \in {"down", "recovering", "loading", "up"}
        /\ capacity' \in Capacities \cup {0} /\ epoch' \in Epoch
        /\ rows' \in [Slots -> Row] /\ safe' \in BOOLEAN /\ position' \in Nat
        /\ overtaken' \subseteq Slots
        /\ closed' \subseteq Epoch /\ unsettled' \in BOOLEAN
    BY <2>1, <2>3, EndType
  <2> QED
    BY <1>1, <2>1, <2>4, <2>5 DEF Reset, TypeOK
<1>2. ASSUME NEW k \in Roots, Rotate(k)
      PROVE  TypeOK'
  <2> DEFINE e == [epoch EXCEPT !.root = k]
  <2>1. e \in Epoch /\ changes' \in 0 .. MaxChanges
    BY <1>2 DEF Rotate, TypeOK, Epoch, StoreAssumption
  <2> HIDE DEF e
  <2>2. \A n : RotationFiles(e, n) \in Disk /\ KeyUnstaged(RotationFiles(e, n)) \subseteq Disk
    BY <2>1, FilesType
  <2>3. \/ disk' \in KeyUnstaged(RotationFiles(e, 4)) /\ Installed(e)
        \/ \E n \in 0..4 : disk' = RotationFiles(e, n) /\ NotInstalled(n)
    BY <1>2 DEF Rotate, e
  <2>4. disk' \in Disk
    BY <2>2, <2>3
  <2>5. /\ phase' \in {"down", "recovering", "loading", "up"}
        /\ capacity' \in Capacities \cup {0} /\ epoch' \in Epoch
        /\ rows' \in [Slots -> Row] /\ safe' \in BOOLEAN /\ position' \in Nat
        /\ overtaken' \subseteq Slots
        /\ closed' \subseteq Epoch /\ unsettled' \in BOOLEAN
    BY <2>1, <2>3, EndType
  <2> QED
    BY <1>2, <2>1, <2>4, <2>5 DEF Rotate, TypeOK
<1> QED
  BY <1>1, <1>2

\* recover_admin_key_after_rotation
LEMMA RecoverAdminKeyType ==
    ASSUME StoreAssumption, TypeOK, RecoverAdminKey
    PROVE  TypeOK'
<1>1. ASSUME NEW n, KeyIsStaged
      PROVE  PromotedKey(n) \in Disk
  <2>1. <<>> \in Seq(Record) /\ disk \in Disk /\ disk.adminKeyNext # Missing
    BY <1>1 DEF TypeOK, KeyIsStaged
  <2> QED
    BY <2>1 DEF PromotedKey, Disk
<1>2. disk' \in Disk
  BY <1>1, FilesType DEF RecoverAdminKey, TypeOK
<1> QED
  BY <1>2 DEF RecoverAdminKey, TypeOK, past

\* recover_instance_id_after_reset, and the reading of the snapshot.
LEMMA RecoverInstanceIdType ==
    ASSUME StoreAssumption, TypeOK, RecoverInstanceId
    PROVE  TypeOK'
<1>1. ASSUME NEW n, InstanceIsStaged
      PROVE  PromotedInstance(n) \in Disk
  <2>1. <<>> \in Seq(Record) /\ disk \in Disk /\ disk.instanceIdNext # Missing
    BY <1>1 DEF TypeOK, InstanceIsStaged
  <2> QED
    BY <2>1 DEF PromotedInstance, Disk
<1>2. disk' \in Disk
  BY <1>1, FilesType DEF RecoverInstanceId, TypeOK
<1>3. CASE StartLoading
  <2>1. rows' \in [Slots -> Row]
    BY <1>2, <1>3, NoRowsType DEF StartLoading, Disk, Snapshot
  <2>2. epoch' \in Epoch
    BY <1>2, <1>3 DEF StartLoading, Disk, Epoch
  <2> QED
    BY <1>2, <1>3, <2>1, <2>2 DEF RecoverInstanceId, StartLoading, TypeOK, past
<1>4. CASE PowerOff
  BY <1>2, <1>4, PowerOffType DEF RecoverInstanceId, TypeOK, past
<1> QED
  BY <1>3, <1>4 DEF RecoverInstanceId

\* apply_persisted_mutation
LEMMA ReplayType ==
    ASSUME StoreAssumption, TypeOK, Replay
    PROVE  TypeOK'
<1>1. NextRecord \in Record
  BY DEF Replay, TypeOK, Disk, NextRecord
<1>2. ASSUME NEW r \in Record, r.slot \notin Slots
      PROVE  Applied(r) = rows
  BY <1>2 DEF Applied, TypeOK
<1>3. ASSUME NEW r \in Record, r.slot \in Slots
      PROVE  Applied(r) \in [Slots -> Row]
  <2>1. r.gen \in 0 .. MaxGeneration /\ r.expires \in Nat
    BY DEF Record
  <2>2. rows[r.slot] \in Row /\ rows \in [Slots -> Row]
    BY <1>3 DEF TypeOK
  <2>3. \E row \in Row : Applied(r) = [rows EXCEPT ![r.slot] = row]
    <3>1. CASE r.kind = "issue"
      BY <2>1, <3>1 DEF Applied, Row
    <3>2. CASE r.kind = "renew"
      BY <1>3, <2>1, <2>2, <3>2 DEF Applied, Row
    <3>3. CASE r.kind = "revoke"
      BY <1>3, <2>2, <3>3 DEF Applied, Row
    <3>4. CASE r.kind \notin {"issue", "renew", "revoke"}
      <4>1. Applied(r) = [rows EXCEPT ![r.slot] = rows[r.slot]]
        BY <2>2, <3>4 DEF Applied
      <4> QED
        BY <2>2, <4>1
    <3> QED
      BY <3>1, <3>2, <3>3, <3>4
  <2> QED
    BY <2>2, <2>3
<1>4. \A r \in Record : Applied(r) \in [Slots -> Row]
  BY <1>2, <1>3 DEF TypeOK
<1> QED
  BY <1>1, <1>4 DEF Replay, TypeOK, store, past

\* load_persisted_state and the rest of start_locked.
LEMMA ServeType ==
    ASSUME StoreAssumption, TypeOK, LoadFails \/ Serve
    PROVE  TypeOK'
<1>1. CASE LoadFails
  <2>1. lost' \subseteq 0 .. MaxChanges /\ closed' \subseteq Epoch
    BY <1>1 DEF LoadFails, TypeOK, Epoch
  <2> QED
    BY <1>1, <2>1, NoRowsType DEF LoadFails, TypeOK, store
<1>2. CASE Serve
  <2>1. disk' \in Disk
    BY <1>2, SnapshotType, FilesType DEF Serve, TypeOK
  <2>2. \/ /\ rows' = [s \in Slots |-> Restored(s)]
           /\ phase' = "up" /\ capacity' \in Capacities /\ position' = 0
           /\ overtaken' = {} /\ closed' = closed \cap {epoch}
           /\ UNCHANGED <<epoch, safe>>
        \/ PowerOff /\ UNCHANGED closed
    BY <1>2 DEF Serve
  <2>3. /\ phase' \in {"down", "recovering", "loading", "up"}
        /\ capacity' \in Capacities \cup {0} /\ epoch' \in Epoch
        /\ rows' \in [Slots -> Row] /\ safe' \in BOOLEAN /\ position' \in Nat
        /\ overtaken' \subseteq Slots
        /\ closed' \subseteq Epoch
    BY <2>2, PowerOffType, RowType DEF TypeOK
  <2>4. unsettled' \in BOOLEAN
    BY <1>2 DEF Serve, TypeOK
  <2> QED
    BY <1>2, <2>1, <2>3, <2>4 DEF Serve, TypeOK
<1> QED
  BY <1>1, <1>2

\* Shutdown or crash.
LEMMA StopType ==
    ASSUME StoreAssumption, TypeOK, Stop
    PROVE  TypeOK'
BY PowerOffType DEF Stop, TypeOK, store, past

-----------------------------------------------------------------------------
(* The theorem *)

\* The store starts well-typed.
LEMMA InitType ==
    ASSUME StoreAssumption, Init
    PROVE  TypeOK
<1>1. <<>> \in Seq(Record)
  OBVIOUS
<1>2. PICK r \in Roots :
       /\ disk = [adminKey |-> r, adminKeyNext |-> Missing, instanceId |-> 0,
                  instanceIdNext |-> Missing, snapshot |-> Missing, wal |-> <<>>]
       /\ epoch = [root |-> r, instance |-> 0]
  BY DEF Init
<1>3. 0 \in 0 .. MaxChanges
  BY DEF StoreAssumption
<1>4. disk \in Disk
  BY <1>1, <1>2, <1>3 DEF Disk
<1>5. epoch \in Epoch
  BY <1>2, <1>3 DEF Epoch
<1> QED
  BY <1>3, <1>4, <1>5, NoRowsType DEF Init, TypeOK

\* Every step keeps the store well-typed.
LEMMA NextType ==
    ASSUME StoreAssumption, TypeOK, [Next]_vars
    PROVE  TypeOK'
<1>1. CASE KeyOperation
  BY <1>1, IssueType, RenewType, RenewLateType, RevokeType, NoteType, TimerType
  DEF KeyOperation
<1>2. CASE Compact \/ Gc
  <2>1. [s \in Slots |-> Collected(s)] \in [Slots -> Row]
    BY RowType
  <2>2. rows \in [Slots -> Row]
    BY DEF TypeOK
  <2> QED
    BY <1>2, <2>1, <2>2, CompactionType DEF Compact, Gc
<1>3. CASE Start
  BY <1>3, RecoverAdminKeyType, RecoverInstanceIdType, ReplayType, ServeType DEF Start
<1>4. CASE UNCHANGED vars
  BY <1>4 DEF TypeOK, vars, store, memory, past
<1> QED
  BY <1>1, <1>2, <1>3, <1>4, NoteType, TimerType, EpochChangeType, StopType DEF Next

\* Everything the authentication store keeps, in memory and on disk, is of its
\* type, whatever is issued, compacted, reset, rotated, cut short and recovered.
THEOREM StoreTypeCorrect == Spec => []TypeOK
<1>1. Init => TypeOK
  BY StoreAssumption, InitType
<1>2. TypeOK /\ [Next]_vars => TypeOK'
  BY StoreAssumption, NextType
<1> QED
  BY <1>1, <1>2, PTL DEF Spec

-----------------------------------------------------------------------------
(* The invariant *)

\* A record that issues generation `gen' or a later one of `slot'; an earlier one.
IssuesFrom(r, slot, gen) == r.kind = "issue" /\ r.slot = slot /\ r.gen >= gen
IssuesBelow(r, slot, gen) == r.kind = "issue" /\ r.slot = slot /\ r.gen < gen

\* Replaying the first n records over generation `base' of the slot ends with a
\* generation of at least gen.
Reaches(wal, base, slot, gen, n) ==
    /\ base >= gen \/ \E j \in 1 .. n : IssuesFrom(wal[j], slot, gen)
    /\ \A i \in 1 .. n : IssuesBelow(wal[i], slot, gen) =>
         \E j \in i + 1 .. n : IssuesFrom(wal[j], slot, gen)

StoredGeneration(s) == IF disk.snapshot = Missing THEN 0 ELSE disk.snapshot.rows[s].gen

\* The snapshot waits for its root to be promoted, which drops the log.
RootIsAhead == disk.snapshot # Missing /\ disk.snapshot.epoch.root # disk.adminKey

\* Keys that have been handed out or revoked, and the rows that may be shown.
Named == granted \cup revoked
RowIds == {IdOf(s, rows[s].gen) : s \in Slots}
Handed(k) == k \in Named \/ (phase = "up" /\ k \in RowIds)

\* A load that succeeds brings the key's slot to its generation.
Stored(k) ==
    disk.snapshot = Missing \/ disk.snapshot.epoch.instance = k.instance =>
      IF RootIsAhead
      THEN StoredGeneration(k.slot) >= k.gen
      ELSE Reaches(disk.wal, StoredGeneration(k.slot), k.slot, k.gen, Len(disk.wal))

\* Where the process and the files stand.
Aligned ==
    /\ phase \in {"loading", "up"} =>
         epoch = [root |-> disk.adminKey, instance |-> disk.instanceId]
    /\ phase # "up" => ~safe
    /\ phase = "up" /\ ~safe => SnapshotMatches
    /\ phase = "loading" => position <= Len(disk.wal)

\* Instance ids are numbered in the order in which they are drawn, and one that
\* is not installed has no keys.
Numbered ==
    /\ disk.instanceId <= changes
    /\ disk.instanceIdNext # Missing => disk.instanceIdNext <= changes
    /\ \A k \in Named :
         /\ k.instance <= changes
         /\ disk.snapshot = Missing => k.instance = disk.instanceId
         /\ disk.snapshot # Missing /\ disk.snapshot.epoch.instance # disk.instanceId =>
              k.instance # disk.snapshot.epoch.instance

StoredInv == \A k \in KeyId : Handed(k) /\ k.instance \notin lost => Stored(k)

\* A load in progress: the table holds what the records so far make of the
\* snapshot, and the rest of the log brings it to every key handed out.
LoadInv ==
    phase = "loading" /\ SnapshotMatches =>
      /\ \A s \in Slots : Reaches(disk.wal, StoredGeneration(s), s, rows[s].gen, position)
      /\ \A k \in Named : k.instance = epoch.instance /\ k.instance \notin lost =>
           \/ rows[k.slot].gen >= k.gen
           \/ \E j \in position + 1 .. Len(disk.wal) : IssuesFrom(disk.wal[j], k.slot, k.gen)

\* The table has reached every key handed out.
TableInv ==
    phase = "up" =>
      \A k \in Named : k.instance = epoch.instance /\ k.instance \notin lost =>
        rows[k.slot].gen >= k.gen

KeyInv == TypeOK /\ Aligned /\ Numbered /\ StoredInv /\ LoadInv /\ TableInv

-----------------------------------------------------------------------------
(* Lemmas about the log *)

\* A record that issues no earlier generation of the slot keeps what the log
\* reaches (append_wal).
LEMMA ReachesAppend ==
    ASSUME NEW w \in Seq(Record), NEW r \in Record, NEW base, NEW slot, NEW gen,
           Reaches(w, base, slot, gen, Len(w)), ~IssuesBelow(r, slot, gen)
    PROVE  Reaches(Append(w, r), base, slot, gen, Len(Append(w, r)))
<1> DEFINE v == Append(w, r)
<1>1. Len(v) = Len(w) + 1 /\ Len(w) \in Nat
  OBVIOUS
<1>2. \A i \in 1 .. Len(w) : v[i] = w[i]
  OBVIOUS
<1>3. v[Len(w) + 1] = r
  OBVIOUS
<1> HIDE DEF v
<1>4. base >= gen \/ \E j \in 1 .. Len(v) : IssuesFrom(v[j], slot, gen)
  BY <1>1, <1>2 DEF Reaches
<1>5. ASSUME NEW i \in 1 .. Len(v), IssuesBelow(v[i], slot, gen)
      PROVE  \E j \in i + 1 .. Len(v) : IssuesFrom(v[j], slot, gen)
  <2>1. i \in 1 .. Len(w) /\ IssuesBelow(w[i], slot, gen)
    BY <1>1, <1>2, <1>3, <1>5
  <2>2. PICK j \in i + 1 .. Len(w) : IssuesFrom(w[j], slot, gen)
    BY <2>1 DEF Reaches
  <2>3. j \in i + 1 .. Len(v) /\ v[j] = w[j]
    BY <1>1, <1>2, <2>1, <2>2
  <2> QED
    BY <2>2, <2>3
<1> QED
  BY <1>4, <1>5 DEF Reaches, v

\* A record that issues the generation or a later one makes the log reach it.
LEMMA ReachesIssue ==
    ASSUME NEW w \in Seq(Record), NEW n \in 0 .. Len(w) - 1, NEW base, NEW slot,
           NEW gen \in Nat, IssuesFrom(w[n + 1], slot, gen), w[n + 1].gen \in Nat
    PROVE  Reaches(w, base, slot, gen, n + 1)
<1>1. n + 1 \in 1 .. n + 1 /\ n \in Nat
  OBVIOUS
<1>2. ASSUME NEW i \in 1 .. n + 1, IssuesBelow(w[i], slot, gen)
      PROVE  \E j \in i + 1 .. n + 1 : IssuesFrom(w[j], slot, gen)
  <2>1. i # n + 1
    BY <1>2 DEF IssuesFrom, IssuesBelow
  <2>2. n + 1 \in i + 1 .. n + 1
    BY <1>1, <2>1
  <2> QED
    BY <2>2
<1> QED
  BY <1>1, <1>2 DEF Reaches

\* So does any other record of a replay, if it was reached before.
LEMMA ReachesStep ==
    ASSUME NEW w \in Seq(Record), NEW n \in 0 .. Len(w) - 1, NEW base, NEW slot,
           NEW gen, ~IssuesBelow(w[n + 1], slot, gen), Reaches(w, base, slot, gen, n)
    PROVE  Reaches(w, base, slot, gen, n + 1)
<1>1. n \in Nat /\ \A i \in 1 .. n : i \in 1 .. n + 1
  OBVIOUS
<1>2. base >= gen \/ \E j \in 1 .. n + 1 : IssuesFrom(w[j], slot, gen)
  BY <1>1 DEF Reaches
<1>3. ASSUME NEW i \in 1 .. n + 1, IssuesBelow(w[i], slot, gen)
      PROVE  \E j \in i + 1 .. n + 1 : IssuesFrom(w[j], slot, gen)
  <2>1. i \in 1 .. n
    BY <1>1, <1>3
  <2>2. PICK j \in i + 1 .. n : IssuesFrom(w[j], slot, gen)
    BY <1>3, <2>1 DEF Reaches
  <2>3. j \in i + 1 .. n + 1
    BY <1>1, <2>1, <2>2
  <2> QED
    BY <2>2, <2>3
<1> QED
  BY <1>2, <1>3 DEF Reaches

\* A truncated log reaches what the snapshot has; so does no record.
LEMMA ReachesNothing ==
    ASSUME NEW w, NEW base, NEW slot, NEW gen, base >= gen
    PROVE  Reaches(w, base, slot, gen, 0) /\ Reaches(<<>>, base, slot, gen, Len(<<>>))
BY DEF Reaches

\* A snapshot at or beyond the generation leaves the log its order only.
LEMMA ReachesFromSnapshot ==
    ASSUME NEW w, NEW base, NEW other, NEW slot, NEW gen, NEW n,
           Reaches(w, other, slot, gen, n), base >= gen
    PROVE  Reaches(w, base, slot, gen, n)
BY DEF Reaches

-----------------------------------------------------------------------------
(* Lemmas about the files *)

\* Freeing, collecting, wiping or restoring a row keeps its generation
\* (SlotHot::retire).
LEMMA GenerationKept ==
    ASSUME TypeOK, NEW s \in Slots
    PROVE  /\ Freed(rows[s]).gen = rows[s].gen
           /\ Wiped(s).gen = rows[s].gen /\ Collected(s).gen = rows[s].gen
           /\ Dated(s).gen = rows[s].gen /\ Restored(s).gen = rows[s].gen
BY DEF TypeOK, Row, Freed, FreeRow, Wiped, Collected, Dated, Restored

\* What a snapshot holds.
LEMMA SnapshotFields ==
    ASSUME TypeOK
    PROVE  /\ \A table \in [Slots -> Row] :
                /\ BuiltSnapshot(table).epoch = epoch
                /\ \A s \in Slots : BuiltSnapshot(table).rows[s].gen = table[s].gen
           /\ \A e : /\ EmptySnapshot(e).epoch = e
                     /\ \A s \in Slots : EmptySnapshot(e).rows[s].gen = rows[s].gen
           /\ DatedSnapshot.epoch = epoch
           /\ \A s \in Slots : DatedSnapshot.rows[s].gen = rows[s].gen
<1>1. \A table \in [Slots -> Row] :
        /\ BuiltSnapshot(table).epoch = epoch
        /\ \A s \in Slots : BuiltSnapshot(table).rows[s].gen = table[s].gen
  BY DEF BuiltSnapshot, Row
<1> QED
  BY <1>1, GenerationKept DEF EmptySnapshot, DatedSnapshot

\* A compaction that replaced n files.
LEMMA CompactedFields ==
    ASSUME TypeOK, NEW x, NEW n
    PROVE  LET d == Compacted(x, n)
           IN  /\ d.snapshot = IF n >= 1 THEN x ELSE disk.snapshot
               /\ d.wal = IF n >= 2 THEN <<>> ELSE disk.wal
               /\ d.adminKey = disk.adminKey /\ d.instanceId = disk.instanceId
               /\ d.instanceIdNext = disk.instanceIdNext
BY DEF TypeOK, Disk, Compacted

\* A reset that replaced n files, the staged file removed or not.
LEMMA ResetFields ==
    ASSUME TypeOK, NEW e, NEW n, NEW d \in InstanceUnstaged(ResetFiles(e, n))
    PROVE  /\ d.snapshot = IF n >= 2 THEN EmptySnapshot(e) ELSE disk.snapshot
           /\ d.wal = IF n >= 3 THEN <<>> ELSE disk.wal
           /\ d.adminKey = disk.adminKey
           /\ d.instanceId = IF n >= 4 THEN e.instance ELSE disk.instanceId
           /\ d.instanceIdNext \in {Missing, e.instance, disk.instanceIdNext}
BY DEF TypeOK, Disk, InstanceUnstaged, ResetFiles

\* The same of a rotation.
LEMMA RotationFields ==
    ASSUME TypeOK, NEW e, NEW n, NEW d \in KeyUnstaged(RotationFiles(e, n))
    PROVE  /\ d.snapshot = IF n >= 2 THEN EmptySnapshot(e) ELSE disk.snapshot
           /\ d.wal = IF n >= 3 THEN <<>> ELSE disk.wal
           /\ d.adminKey = IF n >= 4 THEN e.root ELSE disk.adminKey
           /\ d.instanceId = disk.instanceId /\ d.instanceIdNext = disk.instanceIdNext
BY DEF TypeOK, Disk, KeyUnstaged, RotationFiles

\* The recovery of a rotation that replaced n files.
LEMMA PromotedKeyFields ==
    ASSUME TypeOK, NEW n \in 1 .. 2, NEW d \in KeyUnstaged(PromotedKey(n))
    PROVE  /\ d.snapshot = disk.snapshot /\ d.wal = <<>>
           /\ d.adminKey = IF n >= 2 THEN disk.adminKeyNext ELSE disk.adminKey
           /\ d.instanceId = disk.instanceId /\ d.instanceIdNext = disk.instanceIdNext
<1>1. n >= 1
  OBVIOUS
<1> QED
  BY <1>1 DEF TypeOK, Disk, KeyUnstaged, PromotedKey

\* The same of a reset.
LEMMA PromotedInstanceFields ==
    ASSUME TypeOK, NEW n \in 1 .. 2, NEW d \in InstanceUnstaged(PromotedInstance(n))
    PROVE  /\ d.snapshot = disk.snapshot /\ d.wal = <<>> /\ d.adminKey = disk.adminKey
           /\ d.instanceId = IF n >= 2 THEN disk.instanceIdNext ELSE disk.instanceId
           /\ d.instanceIdNext \in {Missing, disk.instanceIdNext}
<1>1. n >= 1
  OBVIOUS
<1> QED
  BY <1>1 DEF TypeOK, Disk, InstanceUnstaged, PromotedInstance

\* An append.
LEMMA LoggedFields ==
    ASSUME TypeOK, NEW r
    PROVE  LET d == Logged(r)
           IN  /\ d.wal = Append(disk.wal, r) /\ d.snapshot = disk.snapshot
               /\ d.adminKey = disk.adminKey /\ d.instanceId = disk.instanceId
               /\ d.instanceIdNext = disk.instanceIdNext
BY DEF TypeOK, Disk, Logged

\* A running process that is not in safe mode agrees with its files.
LEMMA Current ==
    ASSUME KeyInv, phase = "up", ~safe, NEW k \in KeyId, Handed(k),
           disk.snapshot = Missing \/ disk.snapshot.epoch.instance = k.instance
    PROVE  k.instance = epoch.instance /\ ~RootIsAhead
<1>1. /\ epoch = [root |-> disk.adminKey, instance |-> disk.instanceId]
      /\ disk.snapshot # Missing => disk.snapshot.epoch = epoch
  BY DEF KeyInv, Aligned, SnapshotMatches
<1>2. k \in RowIds => k.instance = epoch.instance
  BY DEF RowIds, IdOf
<1>3. k \in Named /\ disk.snapshot = Missing => k.instance = disk.instanceId
  BY DEF KeyInv, Numbered
<1> QED
  BY <1>1, <1>2, <1>3 DEF Handed, RootIsAhead

\* The table of a running process has reached every key of its instance.
LEMMA Reached ==
    ASSUME KeyInv, phase = "up", NEW k \in KeyId, Handed(k), k.instance \notin lost,
           k.instance = epoch.instance
    PROVE  k.gen <= rows[k.slot].gen
<1>0. k.gen \in 0 .. MaxGeneration /\ k.slot \in Slots /\ rows[k.slot] \in Row
  BY DEF KeyInv, TypeOK, KeyId
<1>1. k.gen \in Nat /\ k.slot \in Slots /\ rows[k.slot].gen \in Nat
  BY <1>0, StoreAssumption DEF Row, StoreAssumption
<1>2. CASE k \in Named
  BY <1>1, <1>2 DEF KeyInv, TableInv
<1>3. CASE k \in RowIds
  BY <1>1, <1>3 DEF RowIds, IdOf
<1> QED
  BY <1>2, <1>3 DEF Handed

\* Keys have instance ids that were drawn.
LEMMA Drawn ==
    ASSUME KeyInv, phase = "up", NEW k \in KeyId, Handed(k)
    PROVE  k.instance <= changes
<1>1. CASE k \in Named
  BY <1>1 DEF KeyInv, Numbered
<1>2. CASE k \in RowIds
  BY <1>2 DEF KeyInv, Numbered, Aligned, RowIds, IdOf
<1> QED
  BY <1>1, <1>2 DEF Handed

\* The rows of a running process are keys that may be shown.
LEMMA RowIdType ==
    ASSUME TypeOK
    PROVE  RowIds \subseteq KeyId
<1>1. \A s \in Slots : rows[s].gen \in 0 .. MaxGeneration
  BY DEF TypeOK, Row
<1> QED
  BY <1>1, IdOfType DEF RowIds

-----------------------------------------------------------------------------
(* What a running process writes serves every key handed out so far *)

FilesServe ==
    /\ disk'.instanceId <= changes'
    /\ disk'.instanceIdNext # Missing => disk'.instanceIdNext <= changes'
    /\ \A k \in KeyId : Handed(k) =>
         /\ k.instance <= changes'
         /\ disk'.snapshot = Missing => k.instance = disk'.instanceId
         /\ disk'.snapshot # Missing /\ disk'.snapshot.epoch.instance # disk'.instanceId =>
              k.instance # disk'.snapshot.epoch.instance
         /\ k.instance \notin lost => Stored(k)'

\* Numbered, for the rows too.
LEMMA HandedNumbers ==
    ASSUME KeyInv, phase = "up", NEW k \in KeyId, Handed(k)
    PROVE  /\ k.instance <= changes
           /\ disk.snapshot = Missing => k.instance = disk.instanceId
           /\ disk.snapshot # Missing /\ disk.snapshot.epoch.instance # disk.instanceId =>
                k.instance # disk.snapshot.epoch.instance
<1>1. CASE k \in Named
  BY <1>1 DEF KeyInv, Numbered
<1>2. CASE k \in RowIds
  BY <1>2 DEF KeyInv, Numbered, Aligned, RowIds, IdOf
<1> QED
  BY <1>1, <1>2 DEF Handed

\* Nothing is written.
LEMMA ServeUnchanged ==
    ASSUME KeyInv, phase = "up", UNCHANGED changes,
           disk'.wal = disk.wal, disk'.snapshot = disk.snapshot, disk'.adminKey = disk.adminKey,
           disk'.instanceId = disk.instanceId, disk'.instanceIdNext = disk.instanceIdNext
    PROVE  FilesServe
<1>1. ASSUME NEW k \in KeyId, Handed(k), k.instance \notin lost
      PROVE  Stored(k)'
  <2>1. Stored(k)
    BY <1>1 DEF KeyInv, StoredInv
  <2> QED
    BY <2>1 DEF Stored, RootIsAhead, StoredGeneration
<1> QED
  BY <1>1, HandedNumbers DEF FilesServe, KeyInv, Numbered

\* A record is appended, whole or in part.
LEMMA ServeLogged ==
    ASSUME KeyInv, phase = "up", UNCHANGED changes,
           NEW r \in Record, disk' = Logged(r),
           r.kind = "issue" => ~safe /\ r.slot \in Slots /\ rows[r.slot].gen < r.gen
    PROVE  FilesServe
<1>0. TypeOK /\ disk.wal \in Seq(Record)
  BY DEF KeyInv, TypeOK, Disk
<1>1. /\ disk'.wal = Append(disk.wal, r) /\ disk'.snapshot = disk.snapshot
      /\ disk'.adminKey = disk.adminKey /\ disk'.instanceId = disk.instanceId
      /\ disk'.instanceIdNext = disk.instanceIdNext
  BY <1>0, LoggedFields
<1>2. ASSUME NEW k \in KeyId, Handed(k), k.instance \notin lost
      PROVE  Stored(k)'
  <2>1. Stored(k)
    BY <1>2 DEF KeyInv, StoredInv
  <2>2. CASE ~(disk.snapshot = Missing \/ disk.snapshot.epoch.instance = k.instance)
    BY <1>1, <2>2 DEF Stored
  <2>3. CASE RootIsAhead
    BY <1>1, <2>1, <2>3 DEF Stored, RootIsAhead, StoredGeneration
  <2>4. CASE /\ disk.snapshot = Missing \/ disk.snapshot.epoch.instance = k.instance
             /\ ~RootIsAhead
    <3>1. Reaches(disk.wal, StoredGeneration(k.slot), k.slot, k.gen, Len(disk.wal))
      BY <2>1, <2>4 DEF Stored
    <3>2. ~IssuesBelow(r, k.slot, k.gen)
      <4>1. CASE r.kind # "issue" \/ r.slot # k.slot
        BY <4>1 DEF IssuesBelow
      <4>2. CASE r.kind = "issue" /\ r.slot = k.slot
        <5>1. k.gen <= rows[k.slot].gen
          BY <1>2, <2>4, <4>2, Current, Reached
        <5>2. k.gen \in 0 .. MaxGeneration /\ rows[r.slot] \in Row /\ r.gen \in 0 .. MaxGeneration
          BY <1>0, <4>2 DEF TypeOK, KeyId, Record
        <5>3. k.gen <= r.gen
          BY <4>2, <5>1, <5>2, StoreAssumption DEF Row, StoreAssumption
        <5> QED
          BY <5>2, <5>3, StoreAssumption DEF IssuesBelow, StoreAssumption
      <4> QED
        BY <4>1, <4>2
    <3>3. Reaches(disk'.wal, StoredGeneration(k.slot), k.slot, k.gen, Len(disk'.wal))
      BY <1>0, <1>1, <3>1, <3>2, ReachesAppend
    <3> QED
      BY <1>1, <2>4, <3>3 DEF Stored, RootIsAhead, StoredGeneration
  <2> QED
    BY <2>2, <2>3, <2>4
<1> QED
  BY <1>1, <1>2, HandedNumbers DEF FilesServe, KeyInv, Numbered

\* A compaction, outside safe mode, of a table that has kept its generations.
LEMMA ServeCompacted ==
    ASSUME KeyInv, phase = "up", ~safe, UNCHANGED changes, NEW n \in 0 .. 2,
           NEW table \in [Slots -> Row], \A s \in Slots : table[s].gen = rows[s].gen,
           disk' = Compacted(BuiltSnapshot(table), n)
    PROVE  FilesServe
<1> DEFINE x == BuiltSnapshot(table)
<1>0. TypeOK
  BY DEF KeyInv
<1>1. /\ disk'.snapshot = IF n >= 1 THEN x ELSE disk.snapshot
      /\ disk'.wal = IF n >= 2 THEN <<>> ELSE disk.wal
      /\ disk'.adminKey = disk.adminKey /\ disk'.instanceId = disk.instanceId
      /\ disk'.instanceIdNext = disk.instanceIdNext
  BY <1>0, CompactedFields
<1>2. x # Missing /\ x.epoch = epoch /\ \A s \in Slots : x.rows[s].gen = rows[s].gen
  BY <1>0, SnapshotFields, SnapshotType, MissingAssumption
<1> HIDE DEF x
<1>3. epoch = [root |-> disk.adminKey, instance |-> disk.instanceId]
  BY DEF KeyInv, Aligned
<1>4. ASSUME n >= 1, NEW k \in KeyId, Handed(k), k.instance \notin lost
      PROVE  Stored(k)'
  <2>1. CASE k.instance # epoch.instance
    BY <1>1, <1>2, <1>4, <2>1 DEF Stored
  <2>2. CASE k.instance = epoch.instance
    <3>1. k.gen <= rows[k.slot].gen /\ k.slot \in Slots
      BY <1>4, <2>2, Reached DEF KeyId
    <3>2. x.rows[k.slot].gen >= k.gen
      BY <1>2, <3>1
    <3>3. Reaches(disk'.wal, x.rows[k.slot].gen, k.slot, k.gen, Len(disk'.wal))
      <4>1. CASE n >= 2
        BY <1>1, <3>2, <4>1, ReachesNothing
      <4>2. CASE ~(n >= 2)
        <5>1. disk.snapshot = Missing \/ disk.snapshot.epoch.instance = k.instance
          BY <2>2 DEF KeyInv, Aligned, SnapshotMatches
        <5>2. Stored(k) /\ ~RootIsAhead
          BY <1>4, <5>1, Current DEF KeyInv, StoredInv
        <5>3. Reaches(disk.wal, StoredGeneration(k.slot), k.slot, k.gen, Len(disk.wal))
          BY <5>1, <5>2 DEF Stored
        <5> QED
          BY <1>1, <3>2, <4>2, <5>3, ReachesFromSnapshot
      <4> QED
        BY <4>1, <4>2
    <3>4. disk'.snapshot = x
      BY <1>1, <1>4
    <3>5. x # Missing /\ x.epoch.root = disk'.adminKey
      BY <1>1, <1>2, <1>3
    <3> QED
      BY <3>3, <3>4, <3>5 DEF Stored, RootIsAhead, StoredGeneration
  <2> QED
    BY <2>1, <2>2
<1>5. CASE n = 0
  BY <1>1, <1>5, ServeUnchanged
<1>6. CASE n >= 1
  <2>1. disk'.snapshot # Missing /\ disk'.snapshot.epoch.instance = disk'.instanceId
    BY <1>1, <1>2, <1>3, <1>6
  <2> QED
    BY <1>1, <1>4, <1>6, <2>1, HandedNumbers DEF FilesServe, KeyInv, Numbered
<1> QED
  BY <1>5, <1>6

\* A reset that replaced n files.  Nothing was handed out under its instance id.
LEMMA ServeReset ==
    ASSUME KeyInv, phase = "up", changes' = changes + 1, NEW n \in 0 .. 4,
           NEW e \in Epoch, e.instance = changes + 1, e.root = epoch.root,
           disk' \in InstanceUnstaged(ResetFiles(e, n))
    PROVE  FilesServe
<1> DEFINE x == EmptySnapshot(e)
<1>0. TypeOK /\ changes \in Nat
  BY StoreAssumption DEF KeyInv, TypeOK, StoreAssumption
<1>1. /\ disk'.snapshot = IF n >= 2 THEN x ELSE disk.snapshot
      /\ disk'.wal = IF n >= 3 THEN <<>> ELSE disk.wal
      /\ disk'.adminKey = disk.adminKey
      /\ disk'.instanceId = IF n >= 4 THEN e.instance ELSE disk.instanceId
      /\ disk'.instanceIdNext \in {Missing, e.instance, disk.instanceIdNext}
  BY <1>0, ResetFields
<1>2. x # Missing /\ x.epoch = e
  BY <1>0, SnapshotFields, SnapshotType, MissingAssumption
<1> HIDE DEF x
<1>3. /\ disk.instanceId \in Nat
      /\ disk.instanceIdNext # Missing => disk.instanceIdNext \in Nat
  BY <1>0, StoreAssumption DEF TypeOK, Disk, StoreAssumption
<1>4. /\ disk'.instanceId <= changes'
      /\ disk'.instanceIdNext # Missing => disk'.instanceIdNext <= changes'
  BY <1>0, <1>1, <1>3 DEF KeyInv, Numbered
<1>5. ASSUME NEW k \in KeyId, Handed(k)
      PROVE  /\ k.instance <= changes'
             /\ disk'.snapshot = Missing => k.instance = disk'.instanceId
             /\ disk'.snapshot # Missing /\ disk'.snapshot.epoch.instance # disk'.instanceId =>
                  k.instance # disk'.snapshot.epoch.instance
             /\ k.instance \notin lost => Stored(k)'
  <2>0. k.instance \in Nat /\ k.instance <= changes
    BY <1>5, Drawn, StoreAssumption DEF KeyId, StoreAssumption
  <2>1. CASE n >= 2
    <3>1. k.instance # e.instance
      BY <1>0, <2>0
    <3> QED
      BY <1>0, <1>1, <1>2, <2>0, <2>1, <3>1 DEF Stored
  <2>2. CASE ~(n >= 2)
    <3>1. /\ disk'.snapshot = disk.snapshot /\ disk'.wal = disk.wal
          /\ disk'.adminKey = disk.adminKey /\ disk'.instanceId = disk.instanceId
      BY <1>1, <2>2
    <3>2. k.instance \notin lost => Stored(k)
      BY <1>5 DEF KeyInv, StoredInv
    <3>3. k.instance \notin lost => Stored(k)'
      BY <3>1, <3>2 DEF Stored, RootIsAhead, StoredGeneration
    <3> QED
      BY <1>0, <1>5, <2>0, <3>1, <3>3, HandedNumbers
  <2> QED
    BY <2>1, <2>2
<1> QED
  BY <1>4, <1>5 DEF FilesServe

\* A rotation that replaced n files.  Its snapshot has the generations of the
\* table, and no record is read under the new root.
LEMMA ServeRotation ==
    ASSUME KeyInv, phase = "up", changes' = changes + 1, NEW n \in 0 .. 4,
           NEW e \in Epoch, e.instance = epoch.instance, e.root # epoch.root,
           disk' \in KeyUnstaged(RotationFiles(e, n))
    PROVE  FilesServe
<1> DEFINE x == EmptySnapshot(e)
<1>0. TypeOK /\ changes \in Nat
  BY StoreAssumption DEF KeyInv, TypeOK, StoreAssumption
<1>1. /\ disk'.snapshot = IF n >= 2 THEN x ELSE disk.snapshot
      /\ disk'.wal = IF n >= 3 THEN <<>> ELSE disk.wal
      /\ disk'.adminKey = IF n >= 4 THEN e.root ELSE disk.adminKey
      /\ disk'.instanceId = disk.instanceId /\ disk'.instanceIdNext = disk.instanceIdNext
  BY <1>0, RotationFields
<1>2. x # Missing /\ x.epoch = e /\ \A s \in Slots : x.rows[s].gen = rows[s].gen
  BY <1>0, SnapshotFields, SnapshotType, MissingAssumption
<1> HIDE DEF x
<1>3. /\ disk.instanceId \in Nat
      /\ disk.instanceIdNext # Missing => disk.instanceIdNext \in Nat
  BY <1>0, StoreAssumption DEF TypeOK, Disk, StoreAssumption
<1>4. /\ disk'.instanceId <= changes'
      /\ disk'.instanceIdNext # Missing => disk'.instanceIdNext <= changes'
  BY <1>0, <1>1, <1>3 DEF KeyInv, Numbered
<1>5. epoch = [root |-> disk.adminKey, instance |-> disk.instanceId]
  BY DEF KeyInv, Aligned
<1>6. ASSUME NEW k \in KeyId, Handed(k)
      PROVE  /\ k.instance <= changes'
             /\ disk'.snapshot = Missing => k.instance = disk'.instanceId
             /\ disk'.snapshot # Missing /\ disk'.snapshot.epoch.instance # disk'.instanceId =>
                  k.instance # disk'.snapshot.epoch.instance
             /\ k.instance \notin lost => Stored(k)'
  <2>0. k.instance \in Nat /\ k.instance <= changes /\ k.slot \in Slots
    BY <1>6, Drawn, StoreAssumption DEF KeyId, StoreAssumption
  <2>1. CASE n >= 2
    <3>1. ASSUME k.instance \notin lost, k.instance = epoch.instance
          PROVE  Stored(k)'
      <4>1. x.rows[k.slot].gen >= k.gen
        <5>1. k.gen <= rows[k.slot].gen
          BY <1>6, <3>1, Reached
        <5> QED
          BY <1>2, <2>0, <5>1
      <4>2. CASE n = 4
        BY <1>1, <1>2, <4>1, <4>2, ReachesNothing DEF Stored, RootIsAhead, StoredGeneration
      <4>3. CASE n # 4
        BY <1>1, <1>2, <1>5, <2>1, <4>1, <4>3 DEF Stored, RootIsAhead, StoredGeneration
      <4> QED
        BY <4>2, <4>3
    <3>2. k.instance # epoch.instance => Stored(k)'
      BY <1>1, <1>2, <2>1 DEF Stored
    <3>3. disk'.snapshot # Missing /\ disk'.snapshot.epoch.instance = disk'.instanceId
      BY <1>1, <1>2, <1>5, <2>1
    <3> QED
      BY <1>0, <2>0, <3>1, <3>2, <3>3
  <2>2. CASE ~(n >= 2)
    <3>1. /\ disk'.snapshot = disk.snapshot /\ disk'.wal = disk.wal
          /\ disk'.adminKey = disk.adminKey /\ disk'.instanceId = disk.instanceId
      BY <1>1, <2>2
    <3>2. k.instance \notin lost => Stored(k)
      BY <1>6 DEF KeyInv, StoredInv
    <3>3. k.instance \notin lost => Stored(k)'
      BY <3>1, <3>2 DEF Stored, RootIsAhead, StoredGeneration
    <3> QED
      BY <1>0, <1>6, <2>0, <3>1, <3>3, HandedNumbers
  <2> QED
    BY <2>1, <2>2
<1> QED
  BY <1>4, <1>6 DEF FilesServe

-----------------------------------------------------------------------------
(* Steps of a running process *)

\* A step that hands out nothing new and leaves the table's generations, or ends
\* the process.
LEMMA MemoryKept ==
    ASSUME KeyInv, TypeOK', phase = "up", FilesServe, UNCHANGED lost,
           \A k \in Named' : Handed(k),
           \/ /\ UNCHANGED <<phase, epoch>>
              /\ \A s \in Slots : rows'[s].gen = rows[s].gen
              /\ disk'.adminKey = disk.adminKey /\ disk'.instanceId = disk.instanceId
              /\ ~safe' => SnapshotMatches'
           \/ phase' = "down" /\ ~safe'
    PROVE  KeyInv'
<1>0. Named' \subseteq KeyId
  BY DEF TypeOK, Named
<1>1. phase' = "up" => RowIds' = RowIds
  BY DEF RowIds, IdOf
<1>2. \A k \in KeyId : Handed(k)' => Handed(k)
  BY <1>1 DEF Handed
<1>3. Aligned'
  BY DEF KeyInv, Aligned
<1>4. Numbered'
  BY <1>0 DEF FilesServe, Numbered
<1>5. StoredInv'
  BY <1>2 DEF FilesServe, StoredInv
<1>6. LoadInv'
  BY DEF LoadInv
<1>7. TableInv'
  <2>1. ASSUME phase' = "up", NEW k \in Named', k.instance = epoch'.instance,
               k.instance \notin lost
        PROVE  rows'[k.slot].gen >= k.gen
    <3>1. k \in KeyId /\ k.slot \in Slots
      BY <1>0 DEF KeyId
    <3>2. k.gen <= rows[k.slot].gen
      BY <2>1, <3>1, Reached
    <3> QED
      BY <2>1, <3>1, <3>2
  <2> QED
    BY <2>1 DEF TableInv
<1> QED
  BY <1>3, <1>4, <1>5, <1>6, <1>7 DEF KeyInv

\* An append that is in doubt.
LEMMA AppendLostKeeps ==
    ASSUME KeyInv, TypeOK', phase = "up", NEW r \in Record, NEW doubted, AppendLost(r, doubted),
           r.kind = "issue" => ~safe /\ r.slot \in Slots /\ rows[r.slot].gen < r.gen
    PROVE  KeyInv'
<1>0. TypeOK /\ 0 \in 0 .. MaxGeneration /\ 0 \in Nat
  BY StoreAssumption DEF KeyInv, StoreAssumption
<1>1. Torn \in Record /\ Torn.kind = "torn"
  <2>1. Torn \in Record
    BY <1>0, StoreAssumption, NewRecordType DEF Torn
  <2> QED
    BY <2>1 DEF Torn, NewRecord
<1>2. PICK d \in {disk, Logged(r), Logged(Torn)} : disk' = d
  BY DEF AppendLost
<1>3. FilesServe
  <2>1. CASE d = disk
    BY <1>2, <2>1, ServeUnchanged DEF AppendLost
  <2>2. CASE d = Logged(r)
    BY <1>2, <2>2, ServeLogged DEF AppendLost
  <2>3. CASE d = Logged(Torn)
    BY <1>1, <1>2, <2>3, ServeLogged DEF AppendLost
  <2> QED
    BY <2>1, <2>2, <2>3
<1>4. disk'.adminKey = disk.adminKey /\ disk'.instanceId = disk.instanceId
  BY <1>0, <1>2, LoggedFields
<1>5. \/ UNCHANGED <<phase, epoch, rows>> /\ safe'
      \/ phase' = "down" /\ ~safe'
  BY DEF AppendLost, PowerOff
<1>6. UNCHANGED lost /\ \A k \in Named' : Handed(k)
  BY DEF AppendLost, Handed, Named
<1> QED
  BY <1>3, <1>4, <1>5, <1>6, MemoryKept

\* A record other than an issue is appended.
LEMMA AppendOkKeeps ==
    ASSUME KeyInv, TypeOK', phase = "up", NEW r \in Record, r.kind # "issue", AppendOk(r),
           UNCHANGED <<phase, epoch, safe, lost>>,
           \A s \in Slots : rows'[s].gen = rows[s].gen,
           \A k \in Named' : Handed(k)
    PROVE  KeyInv'
<1>0. TypeOK
  BY DEF KeyInv
<1>1. disk' = Logged(r) /\ UNCHANGED changes
  BY DEF AppendOk
<1>2. FilesServe
  BY <1>1, ServeLogged
<1>3. /\ disk'.adminKey = disk.adminKey /\ disk'.instanceId = disk.instanceId
      /\ disk'.snapshot = disk.snapshot
  BY <1>0, <1>1, LoggedFields
<1>4. ~safe' => SnapshotMatches'
  BY <1>3 DEF KeyInv, Aligned, SnapshotMatches
<1> QED
  BY <1>2, <1>3, <1>4, MemoryKept

\* actor_issue: the new key is beyond every key of its slot, in the table and in
\* the log.
LEMMA IssueKeeps ==
    ASSUME KeyInv, TypeOK', NEW s \in Slots, NEW ttl \in Ttls, Issue(s, ttl)
    PROVE  KeyInv'
<1> DEFINE g == rows[s].gen + 1
           t == now + ttl
           r == NewRecord("issue", s, g, t)
           new == IdOf(s, g)
<1>0. TypeOK /\ phase = "up" /\ ~safe
  BY DEF KeyInv, Issue, MayAppend
<1>1. g \in 0 .. MaxGeneration /\ t \in Nat /\ rows[s].gen \in Nat /\ g \in Nat
  BY <1>0, StoreAssumption DEF TypeOK, Row, Issue, Issuable, StoreAssumption
<1>2. r \in Record /\ r.kind = "issue" /\ r.slot = s /\ r.gen = g
  <2>1. r \in Record
    BY <1>0, <1>1, NewRecordType, StoreAssumption
  <2> QED
    BY <2>1 DEF NewRecord
<1>3. new \in KeyId /\ new.instance = epoch.instance /\ new.slot = s /\ new.gen = g
  <2>1. new \in KeyId
    BY <1>0, <1>1, IdOfType
  <2> QED
    BY <2>1 DEF IdOf
<1>4. rows[s].gen < g
  BY <1>1
<1>5. CASE AppendLost(r, {})
  BY <1>0, <1>2, <1>4, <1>5, AppendLostKeeps
<1>6. CASE ~AppendLost(r, {})
  <2>1. /\ disk' = Logged(r) /\ UNCHANGED changes
        /\ rows' = [rows EXCEPT ![s] = [gen |-> g, state |-> "active", expires |-> t,
                                        recent |-> FALSE]]
        /\ Named' = Named \cup {new}
        /\ UNCHANGED <<phase, epoch, safe, lost>>
    BY <1>6 DEF Issue, AppendOk, Named
  <2> HIDE DEF new, r, t
  <2>2. FilesServe
    BY <1>0, <1>2, <1>4, <2>1, ServeLogged
  <2>3. /\ disk'.wal = Append(disk.wal, r) /\ disk'.snapshot = disk.snapshot
        /\ disk'.adminKey = disk.adminKey /\ disk'.instanceId = disk.instanceId
    BY <1>0, <2>1, LoggedFields
  <2>4. /\ rows'[s].gen = g
        /\ \A u \in Slots \ {s} : rows'[u].gen = rows[u].gen
    BY <1>0, <2>1 DEF TypeOK
  <2>5. /\ epoch = [root |-> disk.adminKey, instance |-> disk.instanceId]
        /\ disk.snapshot # Missing => disk.snapshot.epoch = epoch
    BY <1>0 DEF KeyInv, Aligned, SnapshotMatches
  <2>6. Aligned'
    BY <1>0, <2>1, <2>3, <2>5 DEF Aligned, SnapshotMatches
  <2>7. Numbered'
    <3>1. Named \subseteq KeyId
      BY <1>0 DEF TypeOK, Named
    <3>2. \A k \in Named : Handed(k)
      BY DEF Handed
    <3>3. new.instance = disk'.instanceId /\ disk'.instanceId <= changes'
      BY <1>3, <2>2, <2>3, <2>5 DEF FilesServe
    <3>4. disk'.snapshot # Missing => disk'.snapshot.epoch.instance = disk'.instanceId
      BY <2>3, <2>5
    <3> QED
      BY <2>1, <2>2, <3>1, <3>2, <3>3, <3>4 DEF FilesServe, Numbered
  <2>8. ASSUME NEW k \in KeyId, k = new
        PROVE  Stored(k)'
    <3>1. disk.wal \in Seq(Record)
      BY <1>0 DEF TypeOK, Disk
    <3>2. /\ Len(disk'.wal) = Len(disk.wal) + 1 /\ Len(disk.wal) \in Nat
          /\ disk'.wal[Len(disk.wal) + 1] = r /\ disk'.wal \in Seq(Record)
      BY <1>2, <2>3, <3>1
    <3> DEFINE n == Len(disk.wal)
               w == disk'.wal
    <3>3. w \in Seq(Record) /\ n \in 0 .. Len(w) - 1 /\ Len(w) = n + 1 /\ w[n + 1] = r
      BY <3>2
    <3> HIDE DEF n, w, g
    <3>4. IssuesFrom(w[n + 1], s, g) /\ w[n + 1].gen \in Nat
      BY <1>1, <1>2, <3>3 DEF IssuesFrom
    <3>5. \A base : Reaches(w, base, s, g, n + 1)
      BY <1>1, <3>3, <3>4, ReachesIssue
    <3>6. \A base : Reaches(disk'.wal, base, k.slot, k.gen, Len(disk'.wal))
      BY <1>3, <2>8, <3>3, <3>5 DEF w
    <3>7. disk'.snapshot # Missing => disk'.snapshot.epoch.root = disk'.adminKey
      BY <2>3, <2>5
    <3> QED
      BY <3>6, <3>7 DEF Stored, RootIsAhead, StoredGeneration
  <2>9. StoredInv'
    <3>1. ASSUME NEW k \in KeyId, Handed(k)'
          PROVE  Handed(k) \/ k = new
      <4>1. CASE k \in RowIds'
        <5>1. PICK u \in Slots : k = [instance |-> epoch.instance, slot |-> u, gen |-> rows'[u].gen]
          BY <2>1, <4>1 DEF RowIds, IdOf
        <5>2. u = s => k = new
          BY <2>4, <5>1 DEF new, IdOf
        <5>3. u # s => k \in RowIds
          BY <2>4, <5>1 DEF RowIds, IdOf
        <5> QED
          BY <1>0, <5>2, <5>3 DEF Handed
      <4> QED
        BY <2>1, <3>1, <4>1 DEF Handed
    <3> QED
      BY <2>1, <2>2, <2>8, <3>1 DEF FilesServe, StoredInv
  <2>10. LoadInv'
    BY <1>0, <2>1 DEF LoadInv
  <2>11. TableInv'
    <3>1. ASSUME NEW k \in Named', k.instance = epoch.instance, k.instance \notin lost
          PROVE  rows'[k.slot].gen >= k.gen
      <4>1. CASE k = new
        BY <1>1, <1>3, <2>4, <4>1
      <4>2. CASE k \in Named
        <5>1. k \in KeyId /\ k.slot \in Slots /\ k.gen \in 0 .. MaxGeneration
          BY <1>0, <4>2 DEF TypeOK, KeyId, Named
        <5>2. k.gen <= rows[k.slot].gen
          BY <1>0, <3>1, <4>2, <5>1, Reached DEF Handed
        <5>3. k.slot = s => k.gen <= g
          BY <1>1, <5>1, <5>2, StoreAssumption DEF StoreAssumption
        <5> QED
          BY <2>4, <5>1, <5>2, <5>3
      <4> QED
        BY <2>1, <3>1, <4>1, <4>2
    <3> QED
      BY <2>1, <3>1 DEF TableInv
  <2> QED
    BY <2>6, <2>7, <2>9, <2>10, <2>11 DEF KeyInv
<1> QED
  BY <1>5, <1>6

\* actor_renew and actor_revoke log the row's own generation.
LEMMA RenewRevokeKeeps ==
    ASSUME KeyInv, TypeOK', NEW s \in Slots,
           Revoke(s) \/ \E ttl \in Ttls : Renew(s, ttl) \/ RenewLate(s, ttl)
    PROVE  KeyInv'
<1>0. TypeOK /\ phase = "up" /\ rows[s].gen \in 0 .. MaxGeneration /\ rows \in [Slots -> Row]
  BY DEF KeyInv, TypeOK, Row, Revoke, Renew, RenewLate, MayAppend
<1>1. Handed(IdOf(s, rows[s].gen)) /\ \A k \in Named : Handed(k)
  BY <1>0 DEF Handed, RowIds
<1>2. CASE Revoke(s)
  <2> DEFINE r == NewRecord("revoke", s, rows[s].gen, 0)
  <2>1. r \in Record
    BY <1>0, NewRecordType, StoreAssumption DEF StoreAssumption
  <2>2. r.kind = "revoke"
    BY DEF NewRecord
  <2>3. \/ AppendLost(r, PromisesOf(s))
        \/ /\ AppendOk(r)
           /\ rows' = [rows EXCEPT ![s].state = "revoked", ![s].recent = TRUE]
           /\ Named' = Named \cup {IdOf(s, rows[s].gen)}
           /\ UNCHANGED <<phase, epoch, safe, lost>>
    BY <1>2 DEF Revoke, Named
  <2>4. rows' = [rows EXCEPT ![s].state = "revoked", ![s].recent = TRUE] =>
          \A u \in Slots : rows'[u].gen = rows[u].gen
    BY <1>0 DEF Row
  <2> HIDE DEF r
  <2>5. Named' = Named \cup {IdOf(s, rows[s].gen)} => \A k \in Named' : Handed(k)
    BY <1>1
  <2> QED
    BY <1>0, <1>1, <2>1, <2>2, <2>3, <2>4, <2>5, AppendLostKeeps, AppendOkKeeps
<1>3. ASSUME NEW ttl \in Ttls, Renew(s, ttl) \/ RenewLate(s, ttl)
      PROVE  KeyInv'
  <2> DEFINE t == now + ttl
             r == NewRecord("renew", s, rows[s].gen, t)
  <2>0. t \in Nat
    BY <1>0, StoreAssumption DEF TypeOK, StoreAssumption
  <2>1. r \in Record
    BY <1>0, <2>0, NewRecordType, StoreAssumption
  <2>2. r.kind = "renew"
    BY DEF NewRecord
  <2>3. \/ AppendLost(r, PromisesOf(s))
        \/ /\ AppendOk(r)
           /\ rows' = [rows EXCEPT ![s].expires = t]
           /\ Named' = Named \cup {IdOf(s, rows[s].gen)}
           /\ UNCHANGED <<phase, epoch, safe, lost>>
    BY <1>3 DEF Renew, RenewLate, Named
  <2>4. rows' = [rows EXCEPT ![s].expires = t] =>
          \A u \in Slots : rows'[u].gen = rows[u].gen
    BY <1>0 DEF Row
  <2> HIDE DEF r, t
  <2>5. Named' = Named \cup {IdOf(s, rows[s].gen)} => \A k \in Named' : Handed(k)
    BY <1>1
  <2> QED
    BY <1>0, <2>1, <2>2, <2>3, <2>4, <2>5, AppendLostKeeps, AppendOkKeeps
<1> QED
  BY <1>2, <1>3

\* actor_show and the commands that only leave a record.
LEMMA NoteKeeps ==
    ASSUME KeyInv, TypeOK', Note \/ \E s \in Slots : Show(s)
    PROVE  KeyInv'
<1> DEFINE r == NewRecord("note", Missing, 0, 0)
<1>0. TypeOK /\ phase = "up" /\ 0 \in 0 .. MaxGeneration /\ 0 \in Nat
  BY StoreAssumption DEF KeyInv, Note, Show, MayAppend, StoreAssumption
<1>1. r \in Record
  BY <1>0, NewRecordType, StoreAssumption
<1>2. r.kind = "note"
  BY DEF NewRecord
<1>3. \A k \in Named : Handed(k)
  BY DEF Handed
<1>4. \A s \in Slots : Handed(IdOf(s, rows[s].gen))
  BY <1>0 DEF Handed, RowIds
<1>5. \/ AppendLost(r, {})
      \/ AppendOk(r) /\ UNCHANGED <<memory, now, past>>
      \/ \E s \in Slots : /\ AppendOk(r)
                          /\ Named' = Named \cup {IdOf(s, rows[s].gen)}
                          /\ UNCHANGED <<memory, lost>>
  BY DEF Note, Show, Named
<1> HIDE DEF r
<1>6. CASE AppendLost(r, {})
  BY <1>0, <1>1, <1>2, <1>6, AppendLostKeeps
<1>7. CASE AppendOk(r) /\ UNCHANGED <<memory, now, past>>
  BY <1>0, <1>1, <1>2, <1>3, <1>7, AppendOkKeeps DEF memory, past, Named
<1>8. ASSUME NEW s \in Slots, AppendOk(r), Named' = Named \cup {IdOf(s, rows[s].gen)},
             UNCHANGED <<memory, lost>>
      PROVE  KeyInv'
  <2>1. \A k \in Named' : Handed(k)
    BY <1>3, <1>4, <1>8
  <2> QED
    BY <1>0, <1>1, <1>2, <1>8, <2>1, AppendOkKeeps DEF memory
<1> QED
  BY <1>5, <1>6, <1>7, <1>8

\* The timers, the clock and a stop of a running process write nothing.
LEMMA TimerKeeps ==
    ASSUME KeyInv, TypeOK', phase = "up",
           Tick \/ Stop \/ \E s \in Slots : Retire(s) \/ Reap(s)
    PROVE  KeyInv'
<1>0. TypeOK /\ rows \in [Slots -> Row] /\ (~safe => SnapshotMatches)
  BY DEF KeyInv, TypeOK, Aligned
<1>1. UNCHANGED <<disk, changes, Named, lost>>
  BY DEF Tick, Stop, Retire, Reap, store, past, Named
<1>2. FilesServe
  BY <1>1, ServeUnchanged
<1>3. \A k \in Named' : Handed(k)
  BY <1>1 DEF Handed
<1>4. \/ /\ UNCHANGED <<phase, epoch, safe>>
         /\ \A s \in Slots : rows'[s].gen = rows[s].gen
      \/ phase' = "down" /\ ~safe'
  BY <1>0, GenerationKept DEF Tick, Stop, PowerOff, Retire, Reap, memory, Row
<1>5. UNCHANGED <<phase, epoch, safe>> => (~safe' => SnapshotMatches')
  BY <1>0, <1>1 DEF SnapshotMatches
<1> QED
  BY <1>1, <1>2, <1>3, <1>4, <1>5, MemoryKept

\* The periodic compaction and actor_gc.
LEMMA CompactionKeeps ==
    ASSUME KeyInv, TypeOK', phase = "up", ~safe, NEW table \in [Slots -> Row],
           \A s \in Slots : table[s].gen = rows[s].gen, CompactionOf(table)
    PROVE  KeyInv'
<1> DEFINE x == BuiltSnapshot(table)
<1>0. TypeOK
  BY DEF KeyInv
<1>1. PICK n \in 0 .. 2 :
        /\ disk' = Compacted(x, n)
        /\ \/ rows' = table /\ UNCHANGED <<phase, epoch>>
           \/ PowerOff
  BY DEF CompactionOf
<1>2. UNCHANGED <<changes, Named, lost>>
  BY DEF CompactionOf, Named
<1>3. FilesServe
  BY <1>1, <1>2, ServeCompacted
<1>4. x # Missing /\ x.epoch = epoch
  BY <1>0, SnapshotFields, SnapshotType, MissingAssumption
<1>5. disk.snapshot # Missing => disk.snapshot.epoch = epoch
  BY DEF KeyInv, Aligned, SnapshotMatches
<1> HIDE DEF x
<1>6. /\ disk'.adminKey = disk.adminKey /\ disk'.instanceId = disk.instanceId
      /\ disk'.snapshot = IF n >= 1 THEN x ELSE disk.snapshot
  BY <1>0, <1>1, CompactedFields
<1>7. UNCHANGED epoch => SnapshotMatches'
  BY <1>4, <1>5, <1>6 DEF SnapshotMatches
<1>8. \A k \in Named' : Handed(k)
  BY <1>2 DEF Handed
<1>9. PowerOff => phase' = "down" /\ ~safe'
  BY DEF PowerOff
<1> QED
  BY <1>1, <1>2, <1>3, <1>6, <1>7, <1>8, <1>9, MemoryKept

\* The end of a reset or rotation.  The table keeps its generations, and so does
\* the snapshot it installs.
LEMMA InstalledKeeps ==
    ASSUME KeyInv, TypeOK', phase = "up", FilesServe, NEW e \in Epoch, Installed(e),
           UNCHANGED <<Named, lost>>,
           disk'.snapshot = EmptySnapshot(e), disk'.wal = <<>>,
           disk'.adminKey = e.root, disk'.instanceId = e.instance,
           \A k \in KeyId : Handed(k) /\ k.instance = e.instance => k.instance = epoch.instance
    PROVE  KeyInv'
<1> DEFINE x == EmptySnapshot(e)
<1>0. TypeOK /\ Named \subseteq KeyId
  BY DEF KeyInv, TypeOK, Named
<1>1. epoch' = e /\ phase' = "up" /\ \A s \in Slots : rows'[s].gen = rows[s].gen
  BY <1>0, GenerationKept DEF Installed
<1>2. x # Missing /\ x.epoch = e /\ \A s \in Slots : x.rows[s].gen = rows[s].gen
  BY <1>0, SnapshotFields, SnapshotType, MissingAssumption
<1> HIDE DEF x
<1>3. disk'.snapshot = x
  BY DEF x
<1>4. Aligned'
  BY <1>1, <1>2, <1>3 DEF Aligned, SnapshotMatches, Epoch
<1>5. Numbered'
  BY <1>0 DEF FilesServe, Numbered, Handed
<1>6. ASSUME NEW k \in KeyId, Handed(k)', k.instance \notin lost'
      PROVE  Stored(k)'
  <2>1. CASE k \in Named
    BY <1>6, <2>1 DEF FilesServe, Handed
  <2>2. CASE k \notin Named
    <3>1. PICK s \in Slots : k = [instance |-> e.instance, slot |-> s, gen |-> rows[s].gen]
      BY <1>1, <1>6, <2>2 DEF Handed, RowIds, IdOf
    <3>2. rows[s].gen \in 0 .. MaxGeneration
      BY <1>0 DEF TypeOK, Row
    <3>3. x.rows[k.slot].gen >= k.gen
      BY <1>2, <3>1, <3>2, StoreAssumption DEF StoreAssumption
    <3>4. Reaches(disk'.wal, x.rows[k.slot].gen, k.slot, k.gen, Len(disk'.wal))
      BY <3>3, ReachesNothing
    <3> QED
      BY <1>2, <1>3, <3>4 DEF Stored, RootIsAhead, StoredGeneration
  <2> QED
    BY <2>1, <2>2
<1>7. TableInv'
  <2>1. ASSUME NEW k \in Named, k.instance = e.instance, k.instance \notin lost
        PROVE  rows'[k.slot].gen >= k.gen
    <3>1. k \in KeyId /\ k.slot \in Slots /\ Handed(k)
      BY <1>0 DEF KeyId, Handed
    <3>2. k.gen <= rows[k.slot].gen
      BY <2>1, <3>1, Reached
    <3> QED
      BY <1>1, <3>1, <3>2
  <2> QED
    BY <1>1, <2>1 DEF TableInv
<1> QED
  BY <1>1, <1>4, <1>5, <1>6, <1>7 DEF KeyInv, StoredInv, LoadInv

\* A reset or rotation that fails or is cut short.
LEMMA NotInstalledKeeps ==
    ASSUME KeyInv, TypeOK', phase = "up", FilesServe, UNCHANGED <<Named, lost>>,
           NEW n, NotInstalled(n),
           n < 4 => disk'.adminKey = disk.adminKey /\ disk'.instanceId = disk.instanceId
    PROVE  KeyInv'
<1>1. \A k \in Named' : Handed(k)
  BY DEF Handed
<1>2. \/ UNCHANGED <<phase, epoch, rows>> /\ safe' /\ n < 4
      \/ phase' = "down" /\ ~safe'
  BY DEF NotInstalled, PowerOff
<1> QED
  BY <1>1, <1>2, MemoryKept

\* actor_reset
LEMMA ResetKeeps ==
    ASSUME KeyInv, TypeOK', Reset
    PROVE  KeyInv'
<1> DEFINE e == [epoch EXCEPT !.instance = changes + 1]
<1>0. /\ TypeOK /\ phase = "up" /\ changes' = changes + 1 /\ UNCHANGED <<Named, lost>>
      /\ changes \in Nat /\ changes + 1 \in 0 .. MaxChanges
  BY StoreAssumption DEF KeyInv, TypeOK, Reset, StoreAssumption, Named
<1>1. e \in Epoch /\ e.instance = changes + 1 /\ e.root = epoch.root
  BY <1>0 DEF TypeOK, Epoch
<1>2. \/ disk' \in InstanceUnstaged(ResetFiles(e, 4)) /\ Installed(e)
      \/ \E n \in 0 .. 4 : disk' = ResetFiles(e, n) /\ NotInstalled(n)
  BY DEF Reset
<1>3. epoch.root = disk.adminKey
  BY <1>0 DEF KeyInv, Aligned
<1> HIDE DEF e
<1>4. CASE disk' \in InstanceUnstaged(ResetFiles(e, 4)) /\ Installed(e)
  <2>1. FilesServe
    BY <1>0, <1>1, <1>4, ServeReset
  <2>2. /\ disk'.snapshot = EmptySnapshot(e) /\ disk'.wal = <<>>
        /\ disk'.adminKey = e.root /\ disk'.instanceId = e.instance
    BY <1>0, <1>1, <1>3, <1>4, ResetFields
  <2>3. \A k \in KeyId : Handed(k) => k.instance # e.instance
    <3>1. ASSUME NEW k \in KeyId, Handed(k)
          PROVE  k.instance # e.instance
      <4>1. k.instance \in Nat /\ k.instance <= changes
        BY <1>0, <3>1, Drawn, StoreAssumption DEF KeyId, StoreAssumption
      <4> QED
        BY <1>0, <1>1, <4>1
    <3> QED
      BY <3>1
  <2> QED
    BY <1>0, <1>1, <1>4, <2>1, <2>2, <2>3, InstalledKeeps
<1>5. ASSUME NEW n \in 0 .. 4, disk' = ResetFiles(e, n), NotInstalled(n)
      PROVE  KeyInv'
  <2>1. disk' \in InstanceUnstaged(ResetFiles(e, n))
    BY <1>5 DEF InstanceUnstaged
  <2>2. FilesServe
    BY <1>0, <1>1, <2>1, ServeReset
  <2>3. n < 4 => disk'.adminKey = disk.adminKey /\ disk'.instanceId = disk.instanceId
    BY <1>0, <2>1, ResetFields
  <2> QED
    BY <1>0, <1>5, <2>2, <2>3, NotInstalledKeeps
<1> QED
  BY <1>2, <1>4, <1>5

\* actor_rotate_root
LEMMA RotateKeeps ==
    ASSUME KeyInv, TypeOK', NEW root \in Roots, Rotate(root)
    PROVE  KeyInv'
<1> DEFINE e == [epoch EXCEPT !.root = root]
<1>0. /\ TypeOK /\ phase = "up" /\ changes' = changes + 1 /\ UNCHANGED <<Named, lost>>
      /\ root # epoch.root
  BY DEF KeyInv, Rotate, Named
<1>1. e \in Epoch /\ e.instance = epoch.instance /\ e.root = root
  BY <1>0 DEF TypeOK, Epoch
<1>2. \/ disk' \in KeyUnstaged(RotationFiles(e, 4)) /\ Installed(e)
      \/ \E n \in 0 .. 4 : disk' = RotationFiles(e, n) /\ NotInstalled(n)
  BY DEF Rotate
<1>3. epoch.instance = disk.instanceId
  BY <1>0 DEF KeyInv, Aligned
<1> HIDE DEF e
<1>4. CASE disk' \in KeyUnstaged(RotationFiles(e, 4)) /\ Installed(e)
  <2>1. FilesServe
    BY <1>0, <1>1, <1>4, ServeRotation
  <2>2. /\ disk'.snapshot = EmptySnapshot(e) /\ disk'.wal = <<>>
        /\ disk'.adminKey = e.root /\ disk'.instanceId = e.instance
    BY <1>0, <1>1, <1>3, <1>4, RotationFields
  <2> QED
    BY <1>0, <1>1, <1>4, <2>1, <2>2, InstalledKeeps
<1>5. ASSUME NEW n \in 0 .. 4, disk' = RotationFiles(e, n), NotInstalled(n)
      PROVE  KeyInv'
  <2>1. disk' \in KeyUnstaged(RotationFiles(e, n))
    BY <1>5 DEF KeyUnstaged
  <2>2. FilesServe
    BY <1>0, <1>1, <2>1, ServeRotation
  <2>3. n < 4 => disk'.adminKey = disk.adminKey /\ disk'.instanceId = disk.instanceId
    BY <1>0, <2>1, RotationFields
  <2> QED
    BY <1>0, <1>5, <2>2, <2>3, NotInstalledKeeps
<1> QED
  BY <1>2, <1>4, <1>5

-----------------------------------------------------------------------------
(* Steps of a start *)

\* What the files say of a key depends on the snapshot, the log and the root.
LEMMA StoredKept ==
    ASSUME NEW k, Stored(k), disk'.wal = disk.wal, disk'.snapshot = disk.snapshot,
           disk'.adminKey = disk.adminKey
    PROVE  Stored(k)'
BY DEF Stored, RootIsAhead, StoredGeneration

\* The clock and a stop, of a process that does not serve yet.
LEMMA IdleKeeps ==
    ASSUME KeyInv, TypeOK', phase # "up", Tick \/ Stop
    PROVE  KeyInv'
<1>1. /\ UNCHANGED <<disk, changes, Named, lost>>
      /\ phase' = "down" /\ ~safe'
  BY DEF KeyInv, Aligned, Tick, Stop, PowerOff, store, memory, past, Named
<1>2. StoredInv'
  BY <1>1, StoredKept DEF KeyInv, StoredInv, Handed
<1> QED
  BY <1>1, <1>2 DEF KeyInv, Aligned, Numbered, LoadInv, TableInv

\* recover_admin_key_after_rotation: the log goes before the root that reads the
\* snapshot comes.
LEMMA RecoverAdminKeyKeeps ==
    ASSUME KeyInv, TypeOK', RecoverAdminKey
    PROVE  KeyInv'
<1>0. /\ TypeOK /\ phase = "down" /\ phase' \in {"down", "recovering"} /\ ~safe'
      /\ UNCHANGED <<changes, Named, lost>>
  BY DEF KeyInv, Aligned, RecoverAdminKey, past, Named
<1>1. \/ disk' = disk
      \/ KeyIsStaged /\ \E n \in 1 .. 2 : disk' \in KeyUnstaged(PromotedKey(n))
  BY DEF RecoverAdminKey, KeyUnstaged
<1>2. CASE disk' = disk
  <2>1. StoredInv'
    BY <1>0, <1>2, StoredKept DEF KeyInv, StoredInv, Handed
  <2> QED
    BY <1>0, <1>2, <2>1 DEF KeyInv, Aligned, Numbered, LoadInv, TableInv
<1>3. ASSUME NEW n \in 1 .. 2, KeyIsStaged, disk' \in KeyUnstaged(PromotedKey(n))
      PROVE  KeyInv'
  <2>1. /\ disk'.snapshot = disk.snapshot /\ disk'.wal = <<>>
        /\ disk'.adminKey = IF n >= 2 THEN disk.adminKeyNext ELSE disk.adminKey
        /\ disk'.instanceId = disk.instanceId /\ disk'.instanceIdNext = disk.instanceIdNext
    BY <1>0, <1>3, PromotedKeyFields
  <2>2. RootIsAhead
    BY <1>3 DEF KeyIsStaged, Opens, RootIsAhead
  <2>3. ASSUME NEW k \in KeyId, k \in Named, k.instance \notin lost
        PROVE  Stored(k)'
    <3>1. disk.snapshot.epoch.instance = k.instance => StoredGeneration(k.slot) >= k.gen
      BY <2>2, <2>3 DEF KeyInv, StoredInv, Handed, Stored
    <3>2. StoredGeneration(k.slot) >= k.gen =>
            Reaches(disk'.wal, StoredGeneration(k.slot), k.slot, k.gen, Len(disk'.wal))
      BY <2>1, ReachesNothing
    <3> QED
      BY <2>1, <2>2, <3>1, <3>2 DEF Stored, RootIsAhead, StoredGeneration
  <2>4. StoredInv'
    BY <1>0, <2>3 DEF StoredInv, Handed
  <2> QED
    BY <1>0, <2>1, <2>4 DEF KeyInv, Aligned, Numbered, LoadInv, TableInv
<1> QED
  BY <1>1, <1>2, <1>3

\* The snapshot is read; the whole log is still to come.
LEMMA StartLoadingKeeps ==
    ASSUME TypeOK', Numbered', StoredInv', StartLoading, ~safe,
           UNCHANGED <<Named, lost>>
    PROVE  KeyInv'
<1>0. /\ phase' = "loading" /\ position' = 0 /\ ~safe'
      /\ epoch' = [root |-> disk'.adminKey, instance |-> disk'.instanceId]
      /\ rows' = IF disk'.snapshot = Missing THEN NoRows ELSE disk'.snapshot.rows
  BY DEF StartLoading
<1>1. disk'.wal \in Seq(Record) /\ Len(disk'.wal) \in Nat /\ Named' \subseteq KeyId
      /\ rows' \in [Slots -> Row]
  BY DEF TypeOK, Disk, Named
<1>2. Aligned'
  BY <1>0, <1>1 DEF Aligned
<1>3. \A s \in Slots : /\ rows'[s].gen = StoredGeneration(s)'
                       /\ rows'[s].gen \in Nat
  <2>1. \A s \in Slots : rows'[s].gen \in Nat
    BY <1>1, StoreAssumption DEF Row, StoreAssumption
  <2> QED
    BY <1>0, <2>1 DEF StoredGeneration, NoRows, FreeRow
<1>4. ASSUME SnapshotMatches'
      PROVE  \A s \in Slots :
               Reaches(disk'.wal, StoredGeneration(s)', s, rows'[s].gen, position')
  BY <1>0, <1>3, ReachesNothing
<1>5. ASSUME SnapshotMatches', NEW k \in Named', k.instance = epoch'.instance,
             k.instance \notin lost'
      PROVE  \/ rows'[k.slot].gen >= k.gen
             \/ \E j \in position' + 1 .. Len(disk'.wal) : IssuesFrom(disk'.wal[j], k.slot, k.gen)
  <2>1. k \in KeyId /\ Stored(k)' /\ k.slot \in Slots
    BY <1>1, <1>5 DEF StoredInv, Handed, KeyId
  <2>2. ~RootIsAhead' /\ (disk'.snapshot # Missing => disk'.snapshot.epoch.instance = k.instance)
    BY <1>0, <1>5 DEF SnapshotMatches, RootIsAhead
  <2>3. Reaches(disk'.wal, StoredGeneration(k.slot)', k.slot, k.gen, Len(disk'.wal))
    BY <2>1, <2>2 DEF Stored, RootIsAhead, StoredGeneration
  <2>4. rows'[k.slot].gen = StoredGeneration(k.slot)'
    BY <1>3, <2>1 DEF StoredGeneration
  <2> QED
    BY <1>0, <2>3, <2>4 DEF Reaches
<1>6. LoadInv'
  BY <1>4, <1>5 DEF LoadInv, StoredGeneration
<1>7. TableInv'
  BY <1>0 DEF TableInv
<1> QED
  BY <1>2, <1>6, <1>7 DEF KeyInv

\* recover_instance_id_after_reset: no key was handed out under the id that is
\* promoted, so the log of the previous one may go.
LEMMA RecoverInstanceIdKeeps ==
    ASSUME KeyInv, TypeOK', RecoverInstanceId
    PROVE  KeyInv'
<1>0. /\ TypeOK /\ phase = "recovering" /\ ~safe /\ UNCHANGED <<changes, Named, lost>>
      /\ Named \subseteq KeyId
  BY DEF KeyInv, TypeOK, Aligned, RecoverInstanceId, past, Named
<1>1. StartLoading \/ PowerOff
  BY DEF RecoverInstanceId
<1>2. \/ disk' \in InstanceUnstaged(disk)
      \/ InstanceIsStaged /\ \E n \in 1 .. 2 : disk' \in InstanceUnstaged(PromotedInstance(n))
  BY DEF RecoverInstanceId, InstanceUnstaged
<1>3. Numbered' /\ StoredInv'
  <2>1. CASE disk' \in InstanceUnstaged(disk)
    <3>1. /\ disk'.snapshot = disk.snapshot /\ disk'.wal = disk.wal
          /\ disk'.adminKey = disk.adminKey /\ disk'.instanceId = disk.instanceId
          /\ disk'.instanceIdNext \in {Missing, disk.instanceIdNext}
      BY <1>0, <2>1 DEF TypeOK, Disk, InstanceUnstaged
    <3>2. Numbered'
      BY <1>0, <3>1 DEF KeyInv, Numbered
    <3>3. phase' # "up"
      BY <1>1 DEF StartLoading, PowerOff
    <3> QED
      BY <1>0, <3>1, <3>2, <3>3, StoredKept DEF KeyInv, StoredInv, Handed
  <2>2. ASSUME NEW n \in 1 .. 2, InstanceIsStaged,
               disk' \in InstanceUnstaged(PromotedInstance(n))
        PROVE  Numbered' /\ StoredInv'
    <3>1. /\ disk'.snapshot = disk.snapshot
          /\ disk'.instanceId = IF n >= 2 THEN disk.instanceIdNext ELSE disk.instanceId
          /\ disk'.instanceIdNext \in {Missing, disk.instanceIdNext}
      BY <1>0, <2>2, PromotedInstanceFields
    <3>2. /\ disk.snapshot # Missing /\ disk.instanceIdNext # Missing
          /\ disk.snapshot.epoch.instance = disk.instanceIdNext
          /\ disk.snapshot.epoch.instance # disk.instanceId
      BY <2>2 DEF InstanceIsStaged, Opens
    <3>3. \A k \in Named : k.instance # disk.snapshot.epoch.instance
      BY <3>2 DEF KeyInv, Numbered
    <3>4. Numbered'
      BY <1>0, <3>1, <3>2, <3>3 DEF KeyInv, Numbered
    <3>5. phase' # "up"
      BY <1>1 DEF StartLoading, PowerOff
    <3>6. StoredInv'
      BY <1>0, <3>1, <3>2, <3>3, <3>5 DEF StoredInv, Handed, Stored
    <3> QED
      BY <3>4, <3>6
  <2> QED
    BY <1>2, <2>1, <2>2
<1>4. CASE StartLoading
  BY <1>0, <1>3, <1>4, StartLoadingKeeps
<1>5. CASE PowerOff
  BY <1>3, <1>5 DEF PowerOff, KeyInv, Aligned, LoadInv, TableInv
<1> QED
  BY <1>1, <1>4, <1>5

\* One record is replayed.  One that issues an earlier generation is followed by
\* one that does not.
LEMMA ReplayKeeps ==
    ASSUME KeyInv, TypeOK', Replay
    PROVE  KeyInv'
<1> DEFINE r == NextRecord
           w == disk.wal
<1>0. /\ TypeOK /\ phase = "loading" /\ phase' = "loading" /\ SnapshotMatches
      /\ w \in Seq(Record) /\ position \in 0 .. Len(w) - 1 /\ position' = position + 1
      /\ UNCHANGED <<disk, epoch, safe, changes, Named, lost>>
      /\ Named \subseteq KeyId
  BY DEF KeyInv, TypeOK, Disk, Replay, past, store, Named
<1>1. r \in Record /\ r = w[position + 1]
  BY <1>0 DEF NextRecord
<1>2. \A s \in Slots : rows'[s].gen = IF r.kind = "issue" /\ r.slot = s
                                      THEN r.gen ELSE rows[s].gen
  <2>1. rows' = Applied(r) /\ rows \in [Slots -> Row]
    BY <1>0 DEF Replay, TypeOK
  <2>2. r.kind \in {"issue", "renew", "revoke", "note", "torn"}
    BY <1>1 DEF Record
  <2> HIDE DEF r
  <2> QED
    BY <2>1, <2>2 DEF Applied, Row
<1>3. r.gen \in Nat /\ \A s \in Slots : rows[s].gen \in Nat /\ rows'[s].gen \in Nat
  <2>1. r.gen \in Nat /\ rows \in [Slots -> Row]
    BY <1>0, <1>1, StoreAssumption DEF TypeOK, Record, StoreAssumption
  <2>2. \A s \in Slots : rows[s].gen \in Nat
    BY <2>1, StoreAssumption DEF Row, StoreAssumption
  <2> QED
    BY <1>2, <2>1, <2>2
<1> HIDE DEF r
<1>4. Aligned'
  BY <1>0 DEF KeyInv, Aligned
<1>5. Numbered'
  BY <1>0 DEF KeyInv, Numbered
<1>6. StoredInv'
  BY <1>0, StoredKept DEF KeyInv, StoredInv, Handed
<1>7. ASSUME NEW s \in Slots
      PROVE  Reaches(w, StoredGeneration(s), s, rows'[s].gen, position + 1)
  <2>1. Reaches(w, StoredGeneration(s), s, rows[s].gen, position)
    BY <1>0 DEF KeyInv, LoadInv
  <2> HIDE DEF w
  <2>2. CASE r.kind = "issue" /\ r.slot = s
    <3>1. rows'[s].gen = r.gen
      BY <1>2, <2>2
    <3>2. IssuesFrom(w[position + 1], s, r.gen) /\ w[position + 1].gen \in Nat
      BY <1>1, <1>3, <2>2 DEF IssuesFrom
    <3> QED
      BY <1>0, <1>3, <3>1, <3>2, ReachesIssue
  <2>3. CASE ~(r.kind = "issue" /\ r.slot = s)
    <3>1. rows'[s].gen = rows[s].gen
      BY <1>2, <2>3
    <3>2. ~IssuesBelow(w[position + 1], s, rows[s].gen)
      BY <1>1, <2>3 DEF IssuesBelow
    <3> QED
      BY <1>0, <2>1, <3>1, <3>2, ReachesStep
  <2> QED
    BY <2>2, <2>3
<1>8. ASSUME NEW k \in Named, k.instance = epoch.instance, k.instance \notin lost
      PROVE  \/ rows'[k.slot].gen >= k.gen
             \/ \E j \in position + 1 + 1 .. Len(w) : IssuesFrom(w[j], k.slot, k.gen)
  <2>0. k \in KeyId /\ k.slot \in Slots /\ k.gen \in 0 .. MaxGeneration
    BY <1>0 DEF KeyId
  <2>1. k.gen \in Nat
    BY <2>0, StoreAssumption DEF StoreAssumption
  <2>2. \/ rows[k.slot].gen >= k.gen
        \/ \E j \in position + 1 .. Len(w) : IssuesFrom(w[j], k.slot, k.gen)
    BY <1>0, <1>8 DEF KeyInv, LoadInv
  <2>3. Reaches(w, StoredGeneration(k.slot), k.slot, k.gen, Len(w))
    <3>1. Stored(k)
      BY <1>8, <2>0 DEF KeyInv, StoredInv, Handed
    <3>2. epoch = [root |-> disk.adminKey, instance |-> disk.instanceId]
      BY <1>0 DEF KeyInv, Aligned
    <3>3. ~RootIsAhead /\ (disk.snapshot # Missing => disk.snapshot.epoch.instance = k.instance)
      BY <1>0, <1>8, <3>2 DEF SnapshotMatches, RootIsAhead
    <3> QED
      BY <3>1, <3>3 DEF Stored
  <2>4. Len(w) \in Nat /\ position + 1 \in 1 .. Len(w)
    BY <1>0
  <2> HIDE DEF w
  <2>5. CASE r.kind = "issue" /\ r.slot = k.slot
    <3>1. rows'[k.slot].gen = r.gen
      BY <1>2, <2>0, <2>5
    <3>2. CASE r.gen < k.gen
      <4>1. IssuesBelow(w[position + 1], k.slot, k.gen)
        BY <1>1, <2>5, <3>2 DEF IssuesBelow
      <4> QED
        BY <2>3, <2>4, <4>1 DEF Reaches
    <3> QED
      BY <1>3, <2>1, <3>1, <3>2
  <2>6. CASE ~(r.kind = "issue" /\ r.slot = k.slot)
    <3>1. rows'[k.slot].gen = rows[k.slot].gen
      BY <1>2, <2>0, <2>6
    <3>2. ~IssuesFrom(w[position + 1], k.slot, k.gen)
      BY <1>1, <2>6 DEF IssuesFrom
    <3>3. \A j \in position + 1 .. Len(w) :
            j = position + 1 \/ j \in position + 1 + 1 .. Len(w)
      BY <1>0, <2>4
    <3> QED
      BY <2>2, <3>1, <3>2, <3>3
  <2> QED
    BY <2>5, <2>6
<1>9. LoadInv'
  BY <1>0, <1>7, <1>8 DEF LoadInv, StoredGeneration
<1> QED
  BY <1>0, <1>4, <1>5, <1>6, <1>9 DEF KeyInv, TableInv

\* A load that fails makes no promise under its instance id.
LEMMA LoadFailsKeeps ==
    ASSUME KeyInv, TypeOK', LoadFails
    PROVE  KeyInv'
<1>0. /\ phase = "loading" /\ phase' = "up" /\ safe' /\ lost' = lost \cup {epoch.instance}
      /\ UNCHANGED <<disk, epoch, changes, Named>>
  BY DEF LoadFails, store, Named
<1>1. Aligned' /\ Numbered'
  BY <1>0 DEF KeyInv, Aligned, Numbered
<1>2. ASSUME NEW k \in KeyId, Handed(k)', k.instance \notin lost'
      PROVE  Stored(k)'
  <2>1. k \notin RowIds'
    BY <1>0, <1>2 DEF RowIds, IdOf
  <2>2. Handed(k) /\ k.instance \notin lost
    BY <1>0, <1>2, <2>1 DEF Handed
  <2>3. Stored(k)
    BY <2>2 DEF KeyInv, StoredInv
  <2> QED
    BY <1>0, <2>3, StoredKept
<1>3. TableInv' /\ LoadInv'
  BY <1>0 DEF TableInv, LoadInv
<1> QED
  BY <1>1, <1>2, <1>3 DEF KeyInv, StoredInv

\* At the end of the log the table has reached every key, and the files would
\* bring a next load at least to the table.
LEMMA Loaded ==
    ASSUME KeyInv, phase = "loading", SnapshotMatches, position = Len(disk.wal)
    PROVE  /\ \A k \in Named : k.instance = epoch.instance /\ k.instance \notin lost =>
                rows[k.slot].gen >= k.gen
           /\ \A s \in Slots : Stored(IdOf(s, rows[s].gen))
           /\ ~RootIsAhead
<1>0. epoch = [root |-> disk.adminKey, instance |-> disk.instanceId] /\ TypeOK
  BY DEF KeyInv, Aligned
<1>1. Len(disk.wal) \in Nat
  BY <1>0 DEF TypeOK, Disk
<1>2. ~RootIsAhead
  BY <1>0 DEF SnapshotMatches, RootIsAhead
<1>3. ASSUME NEW k \in Named, k.instance = epoch.instance, k.instance \notin lost
      PROVE  rows[k.slot].gen >= k.gen
  <2>1. \/ rows[k.slot].gen >= k.gen
        \/ \E j \in position + 1 .. Len(disk.wal) : IssuesFrom(disk.wal[j], k.slot, k.gen)
    BY <1>3 DEF KeyInv, LoadInv
  <2>2. position + 1 .. Len(disk.wal) = {}
    BY <1>1
  <2> QED
    BY <2>1, <2>2
<1>4. ASSUME NEW s \in Slots
      PROVE  Stored(IdOf(s, rows[s].gen))
  <2>1. Reaches(disk.wal, StoredGeneration(s), s, rows[s].gen, Len(disk.wal))
    BY DEF KeyInv, LoadInv
  <2> QED
    BY <1>2, <2>1 DEF Stored, IdOf
<1> QED
  BY <1>2, <1>3, <1>4

\* The snapshot that records when keys were revoked, with or without the log it
\* was made of, serves every key.
LEMMA DatedServes ==
    ASSUME KeyInv, phase = "loading", SnapshotMatches, position = Len(disk.wal),
           NEW n \in 1 .. 2, disk' = Compacted(DatedSnapshot, n), UNCHANGED changes
    PROVE  /\ disk'.snapshot # Missing
           /\ disk'.snapshot.epoch = epoch
           /\ disk'.adminKey = disk.adminKey /\ disk'.instanceId = disk.instanceId
           /\ disk'.instanceIdNext = disk.instanceIdNext
           /\ \A k \in KeyId : k \in Named /\ k.instance \notin lost => Stored(k)'
           /\ n = 2 => \A s \in Slots, k \in KeyId : k = IdOf(s, rows[s].gen) => Stored(k)'
<1> DEFINE x == DatedSnapshot
<1>0. TypeOK
  BY DEF KeyInv
<1>1. /\ disk'.snapshot = x /\ disk'.adminKey = disk.adminKey
      /\ disk'.wal = IF n >= 2 THEN <<>> ELSE disk.wal
      /\ disk'.instanceId = disk.instanceId /\ disk'.instanceIdNext = disk.instanceIdNext
  BY <1>0, CompactedFields
<1>2. x # Missing /\ x.epoch = epoch /\ \A s \in Slots : x.rows[s].gen = rows[s].gen
  BY <1>0, SnapshotFields, SnapshotType, MissingAssumption
<1> HIDE DEF x
<1>3. epoch = [root |-> disk.adminKey, instance |-> disk.instanceId]
  BY DEF KeyInv, Aligned
<1>4. ASSUME NEW k \in KeyId, x.rows[k.slot].gen >= k.gen,
             n >= 2 \/ Reaches(disk.wal, StoredGeneration(k.slot), k.slot, k.gen, Len(disk.wal))
      PROVE  Stored(k)'
  <2>1. Reaches(disk'.wal, x.rows[k.slot].gen, k.slot, k.gen, Len(disk'.wal))
    BY <1>1, <1>4, ReachesNothing, ReachesFromSnapshot
  <2>2. disk'.snapshot = x /\ x # Missing /\ x.epoch.root = disk'.adminKey
    BY <1>1, <1>2, <1>3
  <2> QED
    BY <2>1, <2>2 DEF Stored, RootIsAhead, StoredGeneration
<1>5. ASSUME NEW k \in KeyId, k \in Named, k.instance \notin lost
      PROVE  Stored(k)'
  <2>1. CASE k.instance # epoch.instance
    BY <1>1, <1>2, <2>1 DEF Stored
  <2>2. CASE k.instance = epoch.instance
    <3>1. k.slot \in Slots /\ x.rows[k.slot].gen >= k.gen
      BY <1>2, <1>5, <2>2, Loaded DEF KeyId
    <3>2. Stored(k) /\ ~RootIsAhead
      BY <1>5, Loaded DEF KeyInv, StoredInv, Handed
    <3>3. disk.snapshot # Missing => disk.snapshot.epoch.instance = k.instance
      BY <2>2 DEF SnapshotMatches
    <3>4. Reaches(disk.wal, StoredGeneration(k.slot), k.slot, k.gen, Len(disk.wal))
      BY <3>2, <3>3 DEF Stored
    <3> QED
      BY <1>4, <3>1, <3>4
  <2> QED
    BY <2>1, <2>2
<1>6. ASSUME n = 2, NEW s \in Slots, NEW k \in KeyId, k = IdOf(s, rows[s].gen)
      PROVE  Stored(k)'
  <2>1. k.slot = s /\ k.gen = rows[s].gen /\ rows[s].gen \in 0 .. MaxGeneration
    BY <1>0, <1>6 DEF IdOf, TypeOK, Row
  <2>2. x.rows[k.slot].gen >= k.gen
    BY <1>2, <2>1, StoreAssumption DEF StoreAssumption
  <2> QED
    BY <1>4, <1>6, <2>2
<1> QED
  BY <1>1, <1>2, <1>5, <1>6

\* The end of start_locked.
LEMMA ServeKeeps ==
    ASSUME KeyInv, TypeOK', Serve
    PROVE  KeyInv'
<1>0. /\ TypeOK /\ phase = "loading" /\ SnapshotMatches /\ position = Len(disk.wal)
      /\ ~safe /\ UNCHANGED <<changes, Named, lost>> /\ Named \subseteq KeyId
      /\ epoch = [root |-> disk.adminKey, instance |-> disk.instanceId]
  BY DEF KeyInv, TypeOK, Aligned, Serve, Named
<1>1. \/ /\ disk' = disk \/ disk' = Compacted(DatedSnapshot, 2)
         /\ rows' = [s \in Slots |-> Restored(s)]
         /\ phase' = "up" /\ UNCHANGED <<epoch, safe>>
      \/ (\E n \in 1 .. 2 : disk' = Compacted(DatedSnapshot, n)) /\ PowerOff
  BY DEF Serve
<1>2. ASSUME NEW n \in 1 .. 2, disk' = Compacted(DatedSnapshot, n)
      PROVE  /\ Numbered' /\ (UNCHANGED epoch => SnapshotMatches')
             /\ disk'.adminKey = disk.adminKey /\ disk'.instanceId = disk.instanceId
             /\ \A k \in Named : k.instance \notin lost => Stored(k)'
             /\ n = 2 => \A s \in Slots, k \in KeyId : k = IdOf(s, rows[s].gen) => Stored(k)'
  <2>1. /\ disk'.snapshot # Missing /\ disk'.snapshot.epoch = epoch
        /\ disk'.adminKey = disk.adminKey /\ disk'.instanceId = disk.instanceId
        /\ disk'.instanceIdNext = disk.instanceIdNext
        /\ \A k \in KeyId : k \in Named /\ k.instance \notin lost => Stored(k)'
        /\ n = 2 => \A s \in Slots, k \in KeyId : k = IdOf(s, rows[s].gen) => Stored(k)'
    BY <1>0, <1>2, DatedServes
  <2>2. Numbered'
    BY <1>0, <2>1 DEF KeyInv, Numbered
  <2> QED
    BY <1>0, <2>1, <2>2 DEF SnapshotMatches
<1>3. CASE (\E n \in 1 .. 2 : disk' = Compacted(DatedSnapshot, n)) /\ PowerOff
  <2>1. Numbered' /\ \A k \in Named : k.instance \notin lost => Stored(k)'
    BY <1>2, <1>3
  <2>2. phase' = "down" /\ ~safe'
    BY <1>3 DEF PowerOff
  <2>3. StoredInv'
    BY <1>0, <2>1, <2>2 DEF StoredInv, Handed
  <2> QED
    BY <2>1, <2>2, <2>3 DEF KeyInv, Aligned, LoadInv, TableInv
<1>4. CASE /\ disk' = disk \/ disk' = Compacted(DatedSnapshot, 2)
           /\ rows' = [s \in Slots |-> Restored(s)]
           /\ phase' = "up" /\ UNCHANGED <<epoch, safe>>
  <2>1. \A s \in Slots : rows'[s].gen = rows[s].gen
    BY <1>0, <1>4, GenerationKept
  <2>2. RowIds' = RowIds
    BY <1>4, <2>1 DEF RowIds, IdOf
  <2>3. /\ Numbered' /\ SnapshotMatches'
        /\ disk'.adminKey = disk.adminKey /\ disk'.instanceId = disk.instanceId
        /\ \A k \in Named : k.instance \notin lost => Stored(k)'
        /\ \A s \in Slots, k \in KeyId : k = IdOf(s, rows[s].gen) => Stored(k)'
    <3>1. CASE disk' = disk
      <4>1. Numbered' /\ SnapshotMatches'
        BY <1>0, <1>4, <3>1 DEF KeyInv, Numbered, SnapshotMatches
      <4>2. \A k \in Named : k.instance \notin lost => Stored(k)
        BY <1>0 DEF KeyInv, StoredInv, Handed
      <4>3. \A s \in Slots, k \in KeyId : k = IdOf(s, rows[s].gen) => Stored(k)
        BY <1>0, Loaded
      <4>4. \A k : Stored(k) => Stored(k)'
        BY <3>1, StoredKept
      <4> QED
        BY <3>1, <4>1, <4>2, <4>3, <4>4
    <3>2. CASE disk' = Compacted(DatedSnapshot, 2)
      BY <1>2, <1>4, <3>2
    <3> QED
      BY <1>4, <3>1, <3>2
  <2>4. Aligned'
    BY <1>0, <1>4, <2>3 DEF Aligned
  <2>5. ASSUME NEW k \in KeyId, Handed(k)', k.instance \notin lost
        PROVE  Stored(k)'
    <3>1. CASE k \in Named
      BY <2>3, <2>5, <3>1
    <3>2. CASE k \notin Named
      <4>1. PICK s \in Slots : k = IdOf(s, rows[s].gen)
        BY <1>0, <2>2, <2>5, <3>2 DEF Handed, RowIds
      <4> QED
        BY <2>3, <4>1
    <3> QED
      BY <3>1, <3>2
  <2>6. StoredInv'
    BY <1>0, <2>5 DEF StoredInv
  <2>7. TableInv'
    BY <1>0, <1>4, <2>1, Loaded DEF TableInv, KeyId
  <2> QED
    BY <1>4, <2>3, <2>4, <2>6, <2>7 DEF KeyInv, LoadInv
<1> QED
  BY <1>1, <1>3, <1>4

-----------------------------------------------------------------------------
(* The theorems *)

\* A first start finds no key.
LEMMA InitKeyInv ==
    ASSUME Init
    PROVE  KeyInv
<1>1. TypeOK
  BY StoreAssumption, InitType
<1>2. /\ disk.snapshot = Missing /\ disk.instanceIdNext = Missing /\ disk.instanceId = 0
      /\ phase = "down" /\ ~safe /\ Named = {} /\ changes = 0
  BY DEF Init, Named
<1> QED
  BY <1>1, <1>2 DEF KeyInv, Aligned, Numbered, StoredInv, Handed, LoadInv, TableInv

\* Every operation and every step of a start keeps the invariant.
LEMMA NextKeyInv ==
    ASSUME KeyInv, TypeOK', Next
    PROVE  KeyInv'
<1>0. TypeOK
  BY DEF KeyInv
<1>1. CASE KeyOperation
  <2>1. ASSUME NEW s \in Slots, NEW ttl \in Ttls, Issue(s, ttl)
        PROVE  KeyInv'
    BY <2>1, IssueKeeps
  <2>2. ASSUME NEW s \in Slots, Retire(s) \/ Reap(s)
        PROVE  KeyInv'
    BY <2>2, TimerKeeps DEF Retire, Reap
  <2> QED
    BY <1>1, <2>1, <2>2, RenewRevokeKeeps, NoteKeeps DEF KeyOperation
<1>2. CASE Note
  BY <1>2, NoteKeeps
<1>3. CASE Compact
  <2>1. rows \in [Slots -> Row]
    BY <1>0 DEF TypeOK
  <2> QED
    BY <1>3, <2>1, CompactionKeeps DEF Compact, CompactionIsAllowed
<1>4. CASE Gc
  <2> DEFINE table == [s \in Slots |-> Collected(s)]
  <2>1. table \in [Slots -> Row] /\ \A s \in Slots : table[s].gen = rows[s].gen
    BY <1>0, RowType, GenerationKept
  <2>2. phase = "up" /\ ~safe /\ CompactionOf(table)
    BY <1>4 DEF Gc
  <2> HIDE DEF table
  <2> QED
    BY <2>1, <2>2, CompactionKeeps
<1>5. CASE Reset \/ \E k \in Roots : Rotate(k)
  BY <1>5, ResetKeeps, RotateKeeps
<1>6. CASE Start
  BY <1>6, RecoverAdminKeyKeeps, RecoverInstanceIdKeeps, ReplayKeeps, LoadFailsKeeps,
     ServeKeeps DEF Start
<1>7. CASE Tick \/ Stop
  BY <1>7, TimerKeeps, IdleKeeps
<1> QED
  BY <1>1, <1>2, <1>3, <1>4, <1>5, <1>6, <1>7 DEF Next

\* A step that changes nothing.
LEMMA StutterKeyInv ==
    ASSUME KeyInv, UNCHANGED vars
    PROVE  KeyInv'
<1>1. UNCHANGED <<disk, phase, epoch, rows, safe, position, changes, Named, lost>>
  BY DEF vars, store, memory, past, Named
<1>2. TypeOK'
  BY DEF KeyInv, TypeOK, vars, store, memory, past
<1>3. StoredInv'
  BY <1>1, StoredKept DEF KeyInv, StoredInv, Handed, RowIds, IdOf
<1>4. Aligned' /\ Numbered' /\ TableInv'
  BY <1>1 DEF KeyInv, Aligned, SnapshotMatches, Numbered, TableInv
<1>5. LoadInv'
  BY <1>1 DEF KeyInv, LoadInv, SnapshotMatches, StoredGeneration
<1> QED
  BY <1>2, <1>3, <1>4, <1>5 DEF KeyInv

\* Files, log, load in progress and table stay together: what a load that
\* succeeds makes of the files reaches every key that was handed out.
THEOREM FilesReachEveryKey == Spec => []KeyInv
<1>1. Init => KeyInv
  BY InitKeyInv
<1>2. KeyInv /\ [Next]_vars => KeyInv'
  <2>1. ASSUME KeyInv, Next
        PROVE  KeyInv'
    <3>1. TypeOK'
      BY <2>1, StoreAssumption, NextType DEF KeyInv
    <3> QED
      BY <2>1, <3>1, NextKeyInv
  <2> QED
    BY <2>1, StutterKeyInv
<1> QED
  BY <1>1, <1>2, PTL DEF Spec

\* No credential is handed out twice (SlotHot::retire keeps the generation, and
\* every snapshot does): while the process serves, no key handed out under the
\* running instance id has a generation that its slot has yet to reach, whatever
\* was reset, rotated, compacted, collected or interrupted before.
THEOREM KeyIdsStayNew == Spec => []KeyIdsAreNew
<1>1. KeyInv => KeyIdsAreNew
  <2>1. ASSUME KeyInv, phase = "up", NothingLost, NEW k \in granted, k.instance = epoch.instance
        PROVE  k.gen <= rows[k.slot].gen
    <3>1. k \in KeyId /\ Handed(k) /\ k.instance \notin lost
      BY <2>1 DEF KeyInv, TypeOK, Handed, NothingLost, Named
    <3> QED
      BY <2>1, <3>1, Reached
  <2> QED
    BY <2>1 DEF KeyIdsAreNew
<1> QED
  BY <1>1, FilesReachEveryKey, PTL
=============================================================================
