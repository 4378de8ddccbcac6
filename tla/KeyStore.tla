------------------------------ MODULE KeyStore ------------------------------
(***************************************************************************)
(* What the authentication store promises to those who use temporary keys, *)
(* as if it had no files: nothing here is read back, replayed or repaired. *)
(*                                                                         *)
(* The store is open or closed.  While it is open, the keys of its table   *)
(* authenticate from their issue or renewal until their deadline or        *)
(* revocation, and at no other time, with one exception: a key renewed     *)
(* while its last second passed is fleeting, and may lapse before its new  *)
(* deadline.  The store may close at any moment, and the one key whose     *)
(* change was not confirmed by then is in doubt.  When it opens again,     *)
(* every key that was confirmed is back, no revoked key is, and keys that  *)
(* were never confirmed may be.  It does not open after a load has failed, *)
(* until it is rekeyed, which ends every key.                              *)
(***************************************************************************)
EXTENDS Integers

CONSTANTS Slots, Generations, Ttls

VARIABLES
  epoch,     \* what credentials are derived from: root and instance id
  open,      \* credentials are accepted
  table,     \* slots that are served while open
  valid,     \* keys that authenticate, with their deadlines
  fleeting,  \* slots of keys that may lapse before their deadline
  promised,  \* keys confirmed and not ended, with their deadlines
  granted,   \* ids of the keys whose credential was handed out
  revoked,   \* ids of the keys whose revocation was confirmed
  lost,      \* instance ids of which a load failed
  failed,    \* epochs that may not open
  now

vars == <<epoch, open, table, valid, fleeting, promised, granted, revoked, lost, failed, now>>

Id(k) == [instance |-> epoch.instance, slot |-> k.slot, gen |-> k.gen]
Without(S, k) == {l \in S : ~(l.slot = k.slot /\ l.gen = k.gen)}
Current(S, t) == {k \in S : k.expires > t}
Served(S) == {k \in Current(S, now) : k.slot \in table}
\* Of the slots in S those whose key still authenticates after the step.
Standing(S) == {s \in S : \E k \in valid' : k.slot = s}

\* What was said of the keys of this instance id still counts.
Trusted == epoch.instance \notin lost

Init ==
  /\ open = FALSE /\ table = {} /\ valid = {} /\ fleeting = {} /\ promised = {}
  /\ granted = {} /\ revoked = {} /\ lost = {} /\ failed = {} /\ now = 0

\* The slot is free and the key new.
Issue(k) ==
  /\ open /\ k.slot \in table
  /\ \A l \in valid \cup promised : l.slot # k.slot
  /\ Trusted => Id(k) \notin granted \cup revoked
  /\ valid' = valid \cup Served({k})
  /\ promised' = promised \cup Current({k}, now)
  /\ granted' = granted \cup {Id(k)}
  /\ fleeting' = Standing(fleeting)
  /\ UNCHANGED <<epoch, open, table, revoked, lost, failed, now>>

\* A key that authenticates gets another deadline, as does one whose slot is
\* not served.
Renew(k) ==
  /\ open
  /\ k.slot \in table => \E l \in valid : l.slot = k.slot /\ l.gen = k.gen
  /\ Trusted => Id(k) \notin revoked
  /\ valid' = Without(valid, k) \cup Served({k})
  /\ promised' = Without(promised, k) \cup Current({k}, now)
  /\ granted' = granted \cup {Id(k)}
  /\ fleeting' = Standing(fleeting)
  /\ UNCHANGED <<epoch, open, table, revoked, lost, failed, now>>

Revoke(k) ==
  /\ open
  /\ valid' = Without(valid, k)
  /\ promised' = Without(promised, k)
  /\ revoked' = revoked \cup {Id(k)}
  /\ fleeting' = Standing(fleeting)
  /\ UNCHANGED <<epoch, open, table, granted, lost, failed, now>>

\* A key is renewed in the second in which it ends.
RenewLate(k) ==
  /\ open
  /\ \E l \in valid : l.slot = k.slot /\ l.gen = k.gen /\ l.expires = now + 1
  /\ now' = now + 1
  /\ valid' = Current(Without(valid, k) \cup {k}, now')
  /\ promised' = Current(Without(promised, k) \cup {k}, now')
  /\ fleeting' = Standing(fleeting \cup {k.slot})
  /\ granted' = granted \cup {Id(k)}
  /\ UNCHANGED <<epoch, open, table, revoked, lost, failed>>

\* A fleeting key ends before its deadline.
Lapse(s) ==
  /\ s \in fleeting
  /\ valid' = {k \in valid : k.slot # s}
  /\ \E k \in valid : k.slot = s /\ promised' = Without(promised, k)
  /\ fleeting' = Standing(fleeting)
  /\ UNCHANGED <<epoch, open, table, granted, revoked, lost, failed, now>>

\* The credential of a key is shown again, by a closed store too.
Reveal(k) ==
  /\ granted' = granted \cup {Id(k)}
  /\ UNCHANGED <<epoch, open, table, valid, fleeting, promised, revoked, lost, failed, now>>

\* A key ends at its deadline, and no later.
Tick ==
  /\ now' = now + 1
  /\ valid' = Current(valid, now')
  /\ promised' = Current(promised, now')
  /\ fleeting' = Standing(fleeting)
  /\ UNCHANGED <<epoch, open, table, granted, revoked, lost, failed>>

Shut == open' = FALSE /\ table' = {} /\ valid' = {} /\ fleeting' = {}

\* A failure or the end of the process.
Close(kept) ==
  /\ Shut
  /\ promised' = kept
  /\ UNCHANGED <<epoch, granted, revoked, lost, failed, now>>

\* Every key that is promised and served is back; what else comes back is alive,
\* and was not revoked.
Open ==
  /\ ~open /\ epoch \notin failed
  /\ open' = TRUE /\ failed' = {} /\ table' \subseteq Slots
  /\ {p \in promised : p.slot \in table'} \subseteq valid'
  /\ \A k \in valid' : k.slot \in table' /\ k.expires > now
  /\ \A k, l \in valid' : k.slot = l.slot => k = l
  /\ Trusted => \A k \in valid' : Id(k) \notin revoked
  /\ fleeting' = Standing(fleeting)
  /\ UNCHANGED <<epoch, promised, granted, revoked, lost, now>>

\* A reset draws an instance id of which nothing was said yet, a rotation keeps
\* it under another root.
NewEpoch ==
  /\ epoch' # epoch
  /\ epoch'.instance # epoch.instance =>
       /\ epoch'.instance \notin lost
       /\ \A k \in granted \cup revoked : k.instance # epoch'.instance

\* Every key ends, whether or not the new epoch is reached.
Rekey ==
  /\ promised' = {}
  /\ \/ NewEpoch /\ open' = TRUE /\ table' \subseteq Slots /\ valid' = {} /\ fleeting' = {}
        /\ failed' = {}
     \/ Shut /\ UNCHANGED <<epoch, failed>>
  /\ UNCHANGED <<granted, revoked, lost, now>>

\* A store that was closed while it was rekeyed comes up in either epoch.  No
\* key is alive then.
Adopt ==
  /\ ~open /\ promised = {}
  /\ epoch' # epoch
  /\ UNCHANGED <<open, table, valid, fleeting, promised, granted, revoked, lost, failed, now>>

\* What is on disk cannot be loaded.
LoadFails ==
  /\ ~open
  /\ lost' = lost \cup {epoch.instance}
  /\ failed' = failed \cup {epoch}
  /\ UNCHANGED <<epoch, open, table, valid, fleeting, promised, granted, revoked, now>>

Next ==
  \/ \E s \in Slots, g \in Generations, ttl \in Ttls :
       LET k == [slot |-> s, gen |-> g, expires |-> now + ttl]
       IN  Issue(k) \/ Renew(k) \/ RenewLate(k)
  \/ \E s \in Slots, g \in Generations :
       LET k == [slot |-> s, gen |-> g]
       IN  Revoke(k) \/ Reveal(k) \/ Close(Without(promised, k))
  \/ \E s \in Slots : Lapse(s)
  \/ Close(promised)
  \/ Tick \/ Open \/ Rekey \/ Adopt \/ LoadFails

Spec == Init /\ [][Next]_vars
=============================================================================
