# A TLA+ development of pb-mapper

pb-mapper exposes local TCP and UDP services through a relay. A *local server*
(`pb-mapper-client`, module `server`) registers a service name with the relay
and keeps a few *control connections* open. A *local client*
(`pb-mapper-client`, module `client`) listens locally and, for every connection
it accepts, *subscribes* to the service at the relay. The relay
(`pb-mapper-server`) asks one of the service's control connections for a
stream, the local server acknowledges and dials a new connection to the relay,
and the relay joins the two. Credentials, their leases and their durable state
belong to `pb-mapper-auth`; the encrypted framing and byte forwarding belong to
`pb-mapper-protocol`; `src/ui` embeds the local programs in an application.

## Inventory

| component | source (under `src/crates/`) | state | operations | hard because | modelled in |
|---|---|---|---|---|---|
| relay manager task | `pb-mapper-server/src/runtime.rs`, `manager.rs`, `lib.rs` | registry of services, connection senders, idle ids, pending subscribes, stream counts, rate limits | one arm per `ManagerTask` | ids are reused; handlers end while their tasks are queued; the manager awaits while it chooses a server | `RelayManager` |
| server connection handler | `pb-mapper-server/src/server.rs` | its id, generation, channel, guard | register, forward requests and acknowledgements, retire, deregister | cancellation at any await; the guard's drop must not block | `RelayManager`, `ControlLoop` |
| client connection handler | `pb-mapper-server/src/client.rs` | its id, attempt, exclusions, channel, guard | subscribe, retry, wait for acknowledgement and stream, forward | late, stale and reordered answers; timeouts race answers | `RelayManager`, `Tunnel` |
| listener and admission | `pb-mapper-server/src/connection.rs` | none of its own | accept, authenticate, dispatch, cancel when the credential ends | a connection may be rejected with no guard yet | `RelayManager`, `Admission` |
| status and admin | `pb-mapper-server/src/status.rs`, `admin.rs` | none | read the maps; claim and pass commands to the actor | a rotation comes between a request's steps | `Admission` |
| authentication actor | `pb-mapper-auth/src/actor/`, `runtime.rs`, `lib.rs` | slot table, leases, admin replay window, safe mode | issue, renew, revoke, collect, reset, rotate, authenticate | requests authenticated before a rotation run after it; readers do not go through the actor | `AuthStore`, `KeyTimers`, `Admission` |
| authentication store | `pb-mapper-auth/src/persistence/` | snapshot, log, key and instance-id files | append, compact, load, reset, rotate | crash or I/O error between two durable steps | `AuthStore`, `KeyStore` |
| leases and timing wheel | `pb-mapper-auth/src/leases.rs`, `timing_wheel.rs` | wheel levels, two timers a key | schedule, renew, fire, tick | boundaries of levels; renewal races expiry | `TimingWheel`, `KeyTimers` |
| secure session, replay guard | `pb-mapper-protocol/src/secure/` | two rotating filters, log | admit, rotate, compact, load | restart and window rotation | `ReplayGuard`, `Admission` |
| byte forwarding | `pb-mapper-protocol/src/forward.rs` | two directions, two idle timers | copy, half-close, time out | which timer applies when; half-read chunks | `Tunnel`, `BytePipe` |
| local server | `pb-mapper-client/src/server/` | registration, lease state, probe in flight | reconnect, heartbeat, probe, dial | probe results judged after the fact; reads interrupted by a select | `ControlLoop`, `Tunnel` |
| local client | `pb-mapper-client/src/client/` | listener, health of the remote key | probe, bind, serve, back off | transient misses; reports of streams | `LocalClient`, `Tunnel` |
| embedding library | `src/ui/native/pb_mapper_ffi/src/` | tunnels, claims, settings, status caches | register, connect, stop, configure, refresh a status | slow phases without the lock; probes that end late; writes that fail | `AppState` |
| core, command line, test kit, UI screens | `pb-mapper-core`, `pb-mapper-cli`, `pb-mapper-testkit`, `src/ui` | – | parsing, printing, glue | – | not modelled |

Handlers send `ManagerTask`s over one bounded queue to the manager, which serves
them in order and answers over a channel per handler. The relay and a local
server exchange messages over the control connection. Every relay handler runs
under the lease of its credential, and is dropped where it stands when the
authentication actor cancels the lease. The embedding library runs the two local
programs as tasks and talks to the relay only through them and through status
probes.

What makes each component correct: *manager* – what it files under an id
belongs to the handler that has the id; what a handler leaves behind is taken
back once; the limits count what is there. *Handlers* – a client is joined with
a stream of its own service and attempt, and no wait of it is without an end.
*Store* – a confirmed mutation survives a crash, a generation is never
forgotten. *Leases* – a key ends at its deadline and its row is freed; the code
keeps to it except after two kinds of renewal, each shown by a run. *Replay
guard* – a first flight is accepted once per window, restarts included; an
administrator's request takes effect once. *Control loop* – silence is noticed
in bounded time, a healthy registration is kept. *Forwarding* – bytes and the
end of the stream arrive in order and completely, or the tunnel visibly failed.
*Embedding library* – every running tunnel can be stopped and is bound to one
configuration, and what is shown as running runs.

The full list of hazards, each at its line and with the properties aimed at it,
is under `hazards` in `PROJECT.json`.

## The runs

| run | module, configuration | checks |
|---|---|---|
| `relay_safety` | `MCRelay`, `RelaySafety.cfg` | `SendersAreSelectable`, `StreamOfLastAttempt`, `SlotsAreOwned`, `StreamOfSubscribedService`, `SlotsAreCounted`, `NeverReselected` |
| `relay_liveness` | `MCRelay`, `RelayLiveness.cfg` | `TypeOK`, `SubcribeCompletes`, `NothingIsLeftBehind`, `UnreachableServerCloses` |
| `relay_stale_deregister` | `MCRelay`, `RelayStaleDeregister.cfg` | counterexample to `StaleDeregistrationIsHarmless` |
| `relay_namespace_leak` | `MCRelay`, `RelayNamespaceLeak.cfg` | counterexample to `CountsAreReleased` |
| `auth_store` | `MCAuth`, `AuthStore.cfg` | `TypeOK`, `RevokedIsRefused`, `ConfirmedIsAccepted`, `KeyIdsAreNew`, `FailedLoadStaysClosed`, `InterruptedEpochChangeLoads`, `ImplementsKeyStore` |
| `auth_compaction_crash` | `MCAuth`, `AuthCompactionCrash.cfg` | counterexample to `CompactionIsAtomic` |
| `auth_reset_high_slots` | `MCAuth`, `AuthResetHighSlots.cfg` | counterexample to `NoRowSurvivesWipe` |
| `timers` | `MCTimers`, `Timers.cfg` | keys: `EveryRowIsScheduled` (with the types), `DeadlinesAreExact`, `LiveLeaseIsOfALiveRow`, `RevokedTellsWhy`, `NothingEndsEarly`; control connection: `ControlTypeOK`, `SilenceIsBounded`, `HealthyIsKept`, `VerdictIsCurrent`; admission: `EffectsAreOnce`, `ClaimsAreDurable` (with the types), `FlightsAreNewForAWindow` |
| `timers_early_renewal` | `KeyTimers`, `TimersEarlyRenewal.cfg` | counterexample to `RenewedExpiryEndsLease` |
| `timers_late_renewal` | `KeyTimers`, `TimersLateRenewal.cfg` | counterexample to `StaleEntriesAreIgnored` |
| `client` | `MCClient`, `Client.cfg` | library: `EveryTunnelCanBeStopped` (with the types), `EndpointAndCredentialAgree`, `MarkedSlotIsProbed`, `ListenerOutlivesMisses`, `ListenerComesBack`; data path: `TypeOK`, `ImplementsPipe`, `PipeDelivers`, `ActivityDefersTimers`, `HopsEnd` |
| `phantom_relay` | `MCClient`, `PhantomRelay.cfg` | counterexample to `NoPhantomRelay` |

`MCTimers` and `MCClient` put modules that share no state side by side: a
behaviour is of one part, chosen at its start, and the others rest where they
began. So a run of theirs is the runs of its parts, one after the other; a
property of one part is true of the others because it is true where they rest,
and the fairness of a part (`Runs`) asks nothing while another one runs.

Deadlock is checked where the system never stops by itself (`auth_*`,
`timers*`; of the three parts of `timers` only the clock of the admission runs
out, and `AdmissionStops` is a step there). It is not in the relay runs and in
`client`: connections that ended are not replaced, and applications may stop.

Operators whose name carries a suffix after an underscore (`ReadEnd_NoShutdown`)
are broken forms of the definition that follows them. No behaviour uses them;
with one of them in the definition's place, the property it is listed with in
`PROJECT.json` fails.

## RelayManager: the core of the relay

`RelayManager.tla` models the manager together with every handler and the part
of the local servers the relay sees. Its variables follow the code's:

| TLA+ | code |
|---|---|
| `queue`, `deferred` | the manager channel; tasks spawned by a guard whose `try_send` found it full |
| `idle`, `active`, `nextId` | `TaskManager::idle_conn_id_list`, `active_conn_map`, `RemoteIdProvider::next_id` |
| `registry`, `nextGen` | `server_conn_map`, `next_server_generation` |
| `pending`, `nsCount` | `pending_streams`, `namespace_stream_counts` |
| `selecting` | the manager awaits inside `ManagerTask::Subcribe` |
| `phase`, `cid`, `inbox`, `gen`, `attempt`, `excluded`, `peer`, `sid` | local variables and channel of each handler |
| `toAck`, `toDial`, `dialled` | requests a local server holds; stream connections whose request the relay has not read |

Actions. One per arm of the manager's `match` (with `Subcribe` split where it
awaits or returns), one per receive, send or timeout of a handler, `Connect` and
`Reject` for the listener, `Cancel` for the drop of a handler whose credential
ended (its guard's `Drop`, with the deferred send when the queue is full), and
`Dial`/`ForwardStreamAck` for what a local server may do with a request. The
manager's tasks are served one at a time from the head of the queue;
`selecting` keeps a subscribe there while handlers go on, because the code
awaits between candidates.

Abstractions, all of data or time: a timeout may fire whenever its wait has
received nothing; a registration vector is a set, its order being the order of
generations; the rate limiter may refuse anything; the health of a registration
is constant in the code and left out with the activity tasks that would only
refresh a timestamp; answer channels are unbounded (their capacities are 32 and
128), so that the manager's wait for a handler that waits for the manager is not
covered; `MaxConnId` bounds the ids ever generated, and a state that needs one
more is a dead end. A server handler's channel is read by a task of its own
whose abort may take effect late, so a send to a closing server handler succeeds
or fails.

Instances. `relay_safety` has two starts. In one, two services of one namespace
are registered, one of them by a local server without generations, and each has
a client. In the other the first local server and its client have left, and a
second local server of the other service joins it, so that a retry has another
registration to go to. Three connection ids have to serve up to two servers, two
clients and their streams, one local server and both clients may be revoked at
any time, and the manager's queue holds two tasks. `relay_liveness` starts from
nothing with two local servers of one service, whose transports differ so that
the second is refused, one client and a queue of one. `RegisteredInit(Left)` is
the state `Init` leads to when two servers connect and register, the connections
in `Left` end and nothing goes wrong; starting there leaves the bound to what
happens afterwards. The hazards are races between one handler that ends and one
that takes its id, or between one attempt and the next, and these are the
smallest instances with both. Ids are scarcer than the connections of a run need
(a stream takes one too), so reuse happens; the queue is full often, so every
blocked or deferred send happens; limits are reached.

Fairness (`FairSpec`, used by `relay_liveness` only). The manager loop and each
handler are tokio tasks that are always polled again: weak fairness of the
manager, strong fairness of a handler's own steps, because a send that waits for
room in the queue is woken in its turn although the room comes and goes. The
recovery deadline is a clock and passes. Nothing is assumed of the peers: a local
server may never acknowledge or dial, and connections may never fail or finish.

`SubcribeCompletes` is about a service whose registrations cease. The recovery
deadline (2 seconds, `docs/user-guide.md:252`) is read in one place of the
subscribe's loop, where the manager has no candidate left (`client.rs:507`,
action `SubcribeRetry`). The turns that end with a late acknowledgement, a late
stream or a stale one start the next without reading it. While local servers go on
registering anew, under a new generation after every retirement, each turn finds
a candidate it has not excluded, and only they decide how long that lasts. Without
new registrations the exclusions run out the candidates, the deadline is read,
and every wait on the way has a bound of its own, which is what the run checks.
In an instance each server registers once, so registrations always cease there:
the run shows the conclusion and cannot show what happens without the premise.

Where code and documentation differ. `relay_stale_deregister`: `RetireServerConn`
returns the id of a control connection whose handler is still running. The id is
given to a replacement connection; when the retired handler deregisters, by key
and id alone, it takes the replacement's registration and sender away.
`relay_namespace_leak`: when the answer to a subscribe cannot be delivered
(`runtime.rs:887`), the client's id is recycled while its pending slot stays. A
client of another namespace that gets the id replaces the slot, and both
namespaces' counts are wrong from then on: `CountsAreReleased` is violated. So
`SlotsAreCounted` is checked and proved within one namespace, where it holds.

The first of the two has a consequence that is not a run. A stale deregistration
can free an id that a handler still holds and has not registered under; then two
holders of the id may register, and a request for the older registration goes to
the handler that is filed. Its stream is of the right service, but not of the
registration the client was given. So `StreamOfLastAttempt` is claimed while ids
name one registration each (`IdsNameOneRegistration`): with the three ids of
`relay_safety` they always do, and the theorem has it as its hypothesis.

## AuthStore and KeyStore: the durable state of temporary keys

A temporary key is a slot and a generation; its credential is derived from the
administrator key (`root`), the instance id and the key id. `AuthStore.tla`
models the actor's slot table together with the files it must agree with, and
lets the process stop, or a write fail, between any two durable steps.

| TLA+ | code |
|---|---|
| `rows` | the slot table (`SlotHot`) and, at or above `capacity`, `high_slot_entries` |
| `disk.snapshot`, `disk.wal` | `auth.snapshot`, `auth.wal`; a sealed record is a value that carries the root that opens it |
| `disk.adminKey`, `disk.adminKeyNext` | the administrator key file and the one a rotation stages |
| `disk.instanceId`, `disk.instanceIdNext` | the instance id file and the one a reset stages |
| `epoch` | root and instance id the running process derives credentials from |
| `safe` | `safe_mode` |
| `phase`, `position` | how far a start has come: recovery of the key, recovery of the instance id, records replayed |

`granted`, `revoked`, `promised`, `lost`, `closed` and `unsettled` are history:
what was answered to an administrator, which loads failed, and whether snapshot,
log and table were left in a state that no recovery of the code covers.

Actions. `Issue`, `Renew`, `Revoke`, `Show` and `Note` are the actor's commands;
each either appends its record and answers (`AppendOk`) or fails in the append
(`AppendLost`: the record is on disk, cut off or absent, and the process closes
the store or is gone). `Retire` and `Reap` are the two timers of a key.
`RenewLate` is a renewal that was checked in the key's last second and whose
lease a lookup cancelled before the record was written: the key goes on under a
lease of its own, but the timers of the one before are on the wheel still
(`overtaken`). A retirement looks at the key and the state of the row, not at
its expiry (`leases.rs:303`), so in an overtaken slot `Retire` may end a key at
any time before its deadline.
`Compact` and `Gc` write a snapshot and then truncate the log; `Reset` and
`Rotate` replace four files each; the number of files replaced before the end, a
failure or a stop is chosen. `RecoverAdminKey`, `RecoverInstanceId`, `Replay`
(one record a step), `LoadFails` and `Serve` are a start, which may be stopped
anywhere and is not atomic itself: a promotion truncates the log and then
renames, and `Serve` compacts when it had to date a revocation.

Abstractions: labels, audit records, replay claims and the protocol policy are
`Note` records; the interval of compaction and the retention of dead rows may end
at any time (their exact times are `KeyTimers`'); a write that fails without a
trace is no step; an instance id is numbered by the reset that drew it, so that
ids never repeat, as 128 random bits do not. The table is read by `Accepts` as
`authenticate_presented` reads it.

Instance: one slot, capacity 1 or 2 chosen at each start, two roots, one
lifetime of two ticks of the clock, two generations, a log of one record, one
reset or rotation (`auth_compaction_crash`: log of two, no reset). Slots do not
interact except for the order in which free ones are taken, so one is followed;
it is slot 1, which is in the table of a process started with capacity 2 and
above that of one started with capacity 1, so a restart moves it in and out. Two
generations are an issue and a reissue, and the limit of generations is met. No
liveness is claimed and no fairness assumed: nothing in the store has to happen.

`KeyStore.tla` is what this promises to those who use the keys, as if there were
no files. It is open or closed; while open, a key of its table authenticates
from its issue or renewal until its deadline or revocation, and a tick ends
exactly the keys that are due. The exception is a key that was renewed in its
last second (`RenewLate`): it may be `fleeting`, and then lapses when it will
(`Lapse`), its promise with it. The document promises its whole lifetime; that
the code does not keep this promise is the run `timers_late_renewal`, and a
specification without `Lapse` would not be implemented. It may close at any
moment, leaving at most one key in doubt. When it opens again every promised key
of the table is back with its deadline and no revoked one is; what else comes
back, a key whose issue was not confirmed, is alive. An issue takes an id that
was neither handed out nor revoked; a rekeying ends every key and reaches an
epoch of which nothing was said; after a failed load only a rekeying opens it.
`AuthStore` implements it (`ImplementsKeyStore`): `IsOpen` is a process that is
up and not in safe mode, `Accepted` the keys `authenticate_presented` takes,
`Outstanding` the promises that still run. Replaying, promoting staged files,
compacting, collecting and the timers are stutters, but for the timer of a lease
before, which is `Lapse`. Its mutant is a lookup that
leaves the deadline to the retirement timer, which no invariant of the run would
see. `ConfirmedIsAccepted` has the same exception: a promise ends when its key
lapses.

The premise `NothingLost` limits two properties to instance ids under which no
load failed. A failed load leaves an empty table in safe mode, and only a reset,
which draws a new id, or a rotation, which keeps it and restarts the generations
from that empty table under another root, opens the store again; so after a
failed load and a rotation generations do start over, under the new root.

Where code and documentation differ:

- `auth_compaction_crash`. The snapshot and the log are two files, and nothing
  ties a log to its snapshot. A stop between the replacement of the one and the
  truncation of the other leaves records the snapshot already contains; if the
  key of one was collected meanwhile, the record names an entry that does not
  exist, and every following start ends in safe mode.
- `auth_reset_high_slots`. Ending every key of a reset or rotation is left to
  their timers, and a key that was live at the start in a slot above the capacity
  has none. Its row survives, and a later renewal or revocation of it is logged
  for an entry the new snapshot does not have: again a load that fails.

`InterruptedEpochChangeLoads` names exactly these two causes, and records cut
off, as `unsettled` and `torn`, and shows that there is no third one in a reset
or a rotation.

## TimingWheel and KeyTimers: how a key ends

`TimingWheel.tla` is the hierarchical wheel as operators on a value: where a
timer enters (`Entry`, the code's `entry_leg`), the next leg of a route
(`NextLeg`), and one tick with its rotations and drains (`Ticked`). A link carries
the ticks that its route still takes once its bucket is drained; the code nests the
legs that make up those ticks in the link when it files it, with the same
`next_leg`. `Deliveries` reads off a wheel which timer it will run at which tick.
`KeyTimers.tla` runs the actor over it:

| TLA+ | code |
|---|---|
| `rows`, `leases` | the slot table; the leases that requests hold weakly and timers own |
| `wheel`, `now`, `target` | `TimingWheel`; `Leases::now`; the second a tick in progress is to reach |
| `handles` | `Leases::stages`, the timers a command can reach by key |
| `renewing` | a renewal between its check and its effect, while its record is written |
| `clock` | `unix_seconds` |

Actions: `Issue`, `RenewBegin` with `RenewLease` (the lease is alive) or
`RenewReplaces` (it was cancelled meanwhile and a new one is adopted), `Revoke`,
`Collect`, `Wipe` (reset and rotation), `FailClosed`, `Advance`/`StepBack` of the
clock, `Wake` and `WheelTick` (the actor's tick, one wheel tick at a time),
`Jump` (a clock too far ahead is followed at once), `FindExpired` (a lookup by
another task cancels an expired lease, between any two steps) and `Restart`.

Instance: three levels of two buckets, which are enough for a route with two
descents and for a deadline on the boundary of each level; lifetimes 3 and 4 and
a retention of 1; a clock of 6 seconds, one turn of the wheel but two ticks; clock and
wheel apart by at most 2, so that a revocation may be stamped ahead of the expiry
(`Lead`), and one step back or restart; two leases and two
generations of one slot (timers of different slots share nothing but the wheel's
buckets). `TimersAssumption` asks that lifetime and retention fit into the wheel's
span with the skew and the steps back to spare: the code builds the wheel for 365
days and a minute, and its span is the next power of the radix 64, 34 years.
Deadlock is checked: `StepBack` and `Restart` are bounded, what is
left at the end of time is `FindExpired` and the like or a restart.

Abstractions: a bucket is a set, so two routes of a timer that coincide are one;
routes whose timer nothing else could observe any more are pruned; a handle whose
timer has run is gone at once; a restart chooses whether the retirement of a dead
row had been compacted; high slots and the log are `AuthStore`'s. A command that
comes between a huge jump of the clock and the tick that notices it is outside
the bound.

Where code and documentation differ. Both follow from timers that stay on the
wheel when a key is renewed, and in both the documents say that such an entry is
void (`docs/authentication-v2.md:143-145`, `docs/user-guide.md:145-146` and
the comment `leases.rs:118-123`).

- `timers_early_renewal`. A timer fires with the last of its placements.
  `Leases::renew` adds one at the renewed expiry and leaves the earlier ones, so
  a key that is renewed to an *earlier* expiry keeps its lease, and the connections
  under it, until the old one. New requests are refused on time, because a
  lookup compares the expiry itself. `RenewedExpiryEndsLease` is violated, and
  `DeadlinesAreExact` speaks of rows whose expiry is the latest their lease was
  given (`row.expires = longest[s]`).
- `timers_late_renewal`. A renewal that finds its lease cancelled by a lookup
  replaces it, and leaves the timers of the old lease armed. They name the key and
  not the lease, so at the old deadline they end the row that was just renewed.
  `StaleEntriesAreIgnored` is violated; `NothingEndsEarly` and
  `LiveLeaseIsOfALiveRow` except rows with such a lease (`Replaced`). The test
  `renew_replaces_a_lease_canceled_during_persistence` covers the renewal itself.

## ReplayGuard and Admission: an administrator's request

`ReplayGuard.tla` has the two rotating filters and their log as operators.
`Admission.tla` follows the first flight of an administrator's mutation, which
whoever saw it may deliver again: the handler reads it and checks its timestamp
(`Read`), its body may take any time (an over-approximation of the configurable
I/O timeout), it is admitted, refused or told of a rotation (`Admit`, `Refuse`,
`TellRotated`), claimed in the actor's exact window and log (`SendClaim`,
`ClaimMutation`, `RefuseClaim`), and executed (`SendCommand`, then `Change`,
`Reset`, `RotateRoot` or `Refused`). `Prune`, `Compact` and `CompactFails` are
the actor's tick; `StartAgain` rebuilds filter and window from the files.

Instance: two flights sealed with the first root at times 1 and 3, two handlers
(exchangeable, hence the symmetry), a skew of 1 second and windows of 2, room
for one claim, so that the other flight finds the window full, a clock of 4, two
faults (failed writes or starts). Four seconds let a flight grow too old, a
window end and its successor end too. Which mutation a flight asks for is chosen
when it is executed, so the three kinds need no flights of their own.

What the run shows: a flight is let in at most once within a window, across
rotations of the filters and restarts; and though it may be let in again later,
the exact window and its repeated check of the timestamp keep it from taking
effect twice. `forgotten` is the one exception the code has: a start that cannot
load its store begins with an empty window, and one that finds the claims of an
interrupted compaction twice drops the oldest to fit the capacity; claims lost
in this way are recorded, and properties speak of the others.

Abstractions: a Bloom filter is the set of what was inserted, and a false
positive is a refusal, which any flight may meet anyway; a reset and a rotation
are one step here, their files being `AuthStore`'s; the clock does not step back.

## ControlLoop: keeping a registration

`ControlLoop.tla` is one worker of a local server (`run_server_side_cli`) with
the relay's handler of the same connection and the network between them. The
worker connects, registers, runs the select loop (heartbeat tick, read in two
parts, suspicion, a probe of the registration over a connection of its own, the
verdict, the writer task) and waits before it reconnects (`RetryBackoff`). The
relay reads under its lease timeout, answers pings, adds stream requests and
retires. Time is a clock; whatever is due happens before the next tick, as
timers of the runtime do, up to scheduling noise. A direction of the network
delivers within `Delay` ticks unless it is `slow`, which it may become and stop
being at any time; a write may time out while the direction is slow.

`HealthyIsKept` excepts three causes, each kept as history: a slow direction,
a retirement by the relay, and `misaligned`, a read that a tick of the select
interrupted after it had consumed a part of the frame (`server/mod.rs:705`).
The last is real: only whole frames survive an interruption.

Instance: heartbeat 1, tolerance 4, grace 1, probe timeout 1, leases 4 and 5 and
a delivery delay of 1 – the smallest numbers with the order the defaults have
(`MarginAssumption`); both protocol versions; one frame to the local server
besides the answers. The workers of a pool share only the credential, so one is
modelled. There is no fairness: `SilenceIsBounded` bounds time instead.

## Tunnel and BytePipe: the data path

`BytePipe.tla` is the promise to the two applications: in each direction chunks
are taken as they were written, the end of the stream comes after all of them,
unless the pipe failed. `Tunnel.tla` is the chain that implements it: up to three
hops (local client, relay, local server), each one the select loop of
`start_forward_with_config` in `forward.rs`.

| TLA+ | code |
|---|---|
| `hop`, `cut` | a hop being set up, forwarding or returned; why it ended |
| `held`, `len`, `done` | what a copy future has read and not written; chunks copied; the future returned `Ok` |
| `tun`, `half` | the sleeps of the open and of the half-closed tunnel |
| `data`, `fin`, `rst`, `dead` | a TCP connection between two hops: what is in flight, FIN, reset, reader closed |
| `sent`, `got`, `seen`, `gone` | the two applications |

Actions: the setup in the order the handshake gives it (`RelayForwards`,
`LocalClientForwards`, `LocalServerForwards`, `RefusedByService`), the copies
(`ReadChunk`, `WriteChunk`, `WriteVanishes`, `WriteFails`, `ReadEnd`, `FrameEnd`,
`DatagramEnd`, `ReadFails`), the timers (`TunnelIdle`, `HalfCloseIdle`, `Tick`),
`Cancelled` for a revoked credential at the relay, and the applications
(`AppWrite`, `AppFinish`, `AppRead`, `AppEnd`, `BreakOff`). The copies report
activity in the same poll in which the loop records it, because its branches are
polled in order (`biased`), so write and record are one action.

A link is a TCP connection as a program sees it: a bounded window; a close queues
a FIN behind what was written, or resets the peer if something unread is left; a
write to a closed reader vanishes and brings a reset back, or fails.

The refinement (`ImplementsPipe`): `closed` is the FIN of the writing application
or its break-off, `ended` what the reading one has seen, and `failed` that some
hop ended for another reason than `done` or an application broke off.

Instance: four deployments – three hops without timers, one hop with both timers,
two hops with an encrypted link between them (where the missing frame header at
the end of the stream is an error, so a half-close does not pass), and a
datagram chain – one or two chunks a direction, a window of one, one fault. One
chunk and its end are enough for every order of a chunk, the end and a
failure along three hops; two chunks with a window of one make writers wait.

Fairness: the runtime polls a hop's futures and timers again (weak fairness of
`HopStep` per hop), the clock goes on, and an application reads what has arrived;
nothing makes it write, finish or break off. `HopsEnd` says under what
circumstances no hop is left behind: both timeouts set, or both applications
finished. The timers stop counting at their limits.

## LocalClient and AppState: the embedding library

`LocalClient.tla` is the loop of a connecting client as operators from a record to
the next: probe, bind, listen, health ticks with their misses, reports of failed
streams, and the pause before it starts over. `AppState.tla` is
`PbMapperState` behind its lock, with that loop for every connected client.

Setting a tunnel up has a claim, a slow phase without the lock and a commit
(`Claim`, `Resolve`/`SetupFails`, `FinishConnect`/`FinishRegister`/
`FinishRegisterFails`); everything else the library does holds the lock and is
one action (`UpdateConfig`, `UpdateConfigFails`, `SetAppDirectoryPath`,
`UnregisterService`, `DisconnectService`, `StartServer`, `StopServer`, status
reads). Status probes are tasks (`ScheduleRefresh`, `ProbeEnds`; `AskRelay`,
`RelayAnswers`). The process may restart, and the world – the relay's view of
the key, and a program holding the local port – changes as it likes.

Abstractions: a configuration is a number for the address and the credential
saved together, 0 being the default without a credential; `Damaged` is a file
that cannot be read; `SetAppDirectoryPath` finds whatever an earlier run left;
all clients share one local port; status callbacks only log; the sizes of the
delays are left out. Tunnel tasks are numbered, one number more than there are
slots, so that a replaced task could be confused with its replacement.
`Scenarios` says what users and the world do in an instance: two callers exposing
a key while settings change, one caller with the embedded relay, a client while
the world changes, and two callers doing both.

Fairness: weak fairness of each client's loop, which the runtime polls. Users and
the world need not move.

The embedded relay has a life of its own. `server` is the handle the library
keeps, `serving` whether the listener behind it accepts connections: the first
accept that fails ends the listener's task (`ListenerEnds`;
`pb-mapper-server/src/connection.rs:25`), which is logged and changes nothing
else.

Where code and documentation differ. `phantom_relay`: the library publishes
readiness late in order not to show a phantom relay
(`state/runtime.rs:10`), and does so for the start. Once the relay runs nothing
watches its listener: its manager goes on answering status queries, and a relay
that accepts no connection is shown as running until somebody stops it.
`NoPhantomRelay` is violated.

Seen while modelling, and not runs: `update_config` clears the markers of
probes that are still in flight, so that a slot may be probed twice at a time
(`MarkedSlotIsProbed`, of tunnels and of the embedded relay, is the direction
that matters: a marker is never left);
and a service whose configuration cannot be saved ends the tunnel it was to
replace while the list still names it (`FinishRegisterFails`).

## Proofs

All theorems hold for every value of the constants that satisfies the named
assumptions of their module; finiteness is assumed of the callers and keys of
`AppState` only, whose tasks are numbered. Each strengthening was checked as an
invariant of the runs before it was proved.

`RelayManager_proofs.tla`, from `ConnAssumption` and `LimitAssumption` (disjoint
servers and clients, well-typed maps, positive limits):

- `TypeCorrect`: `Spec => []TypeOK`. `TypeOK` is not inductive: that a handler
  which sends its id has one, or that a timeout has an attempt to exclude,
  depends on its phase. `HandlerInv` states what each phase implies about id,
  attempt, stream and channel, and `TypeInv == TypeOK /\ HandlerInv` is proved
  inductive, one lemma per action (`TypeInvariant`).
- `SelectableSenders`: `Spec => []SendersAreSelectable`. Given types, the
  property is inductive by itself: every action that removes a registration
  drops the sender of its id in the same step, and a client's sender is filed
  only under an id without one. It holds although late deregistrations hit the
  wrong connection: they take the sender with the registration, which is why a
  victim notices (`UnreachableServerCloses`).
- `ServiceIsolation`: `Spec => []StreamOfSubscribedService`. The argument is that
  a generation names one service. `GenerationInv` says so of everything that
  carries a generation – registrations, pending slots, requests in messages and
  at local servers, attempts, answers – and that all of them are below
  `nextGen`; ids, which are reused, play no part. `IsolationInv` adds that the
  service of an attempt is its client's, from which the property follows for the
  stream the client takes.
- `NoSlotIsOrphaned`: `Spec => []SlotsAreOwned`. A slot is filed by a subscribe
  that has waited in the queue, possibly longer than its handler lived, so the
  invariant has to speak of the queue: `Owned(i, n)` says that a client handler
  holds id `i` or that its deregistration is deferred or lies at position `n` of
  the queue or behind it, and `OwnedInv` that a slot is owned from the first
  position on and the subscribe at position `n` from `n + 1` on. Handlers only
  append; serving a task moves every position by one, and what serving a
  deregistration takes from a slot's owners it takes from the slots.
  `AcceptInv`, that a connection is accepted once, is what keeps an id with its
  handler.
- `RetriesMoveOn`: `Spec => NeverReselected`. The manager filters by the
  exclusions a subscribe carries, the property speaks of those of the handler
  when the answer is taken. `SubcribeInv` joins the two: a client has one
  subscribe out, made with the exclusions it still has, or one answer in its
  channel, naming a registration it has not excluded, or has ended.
- `StreamsAreCounted`: `Spec => []SlotsAreCounted`, where all keys are of one
  namespace. `CountInv` adds that the slots are finitely many and that an id has
  one, so that a subscribe replaces the slot it finds and counts only a new one,
  and that a subscribe that is choosing a server was within the limit, which
  nothing uses up meanwhile.
- `StreamsOfLastAttempts`: `Spec /\ []IdsNameOneRegistration =>
  []StreamOfLastAttempt`. A generation is followed along its whole way: the
  manager grants it (`OnceInv`: a handler asks once and is granted one), files it
  (`FiledInv`), puts it into requests (`AskedInv`), the local server sends it back
  with the streams it dials (`DialledInv`), the manager compares it with the slot
  (`AnsweredInv`) and the client with its attempt (`JoinedInv`). What ties a
  handler to a generation across steps is `Registered(s, g)`: it has it, or its
  answer is in its channel, or it has ended.

`AuthStore_proofs.tla`, from `StoreAssumption` (slots, capacities and lifetimes
are numbers, `Missing` is no root and no number) and `MissingAssumption`
(`Missing` is no snapshot):

- `StoreTypeCorrect`: `Spec => []TypeOK`, which is inductive; one lemma per
  operation.
- `KeyIdsStayNew`: `Spec => []KeyIdsAreNew`. The property speaks of the table of
  a running process, but the table is rebuilt from the files at every start, so
  the invariant has to speak of the files. `Reaches` says what replaying a prefix
  of the log over a snapshot's generation ends with: some generation is at least
  `gen`, and no earlier one is issued last. `KeyInv` says that the files reach
  every key handed out (`StoredInv`, where a snapshot whose root is yet to be
  promoted counts without the log, which the promotion drops), that a load in
  progress reaches it with table and remaining log together (`LoadInv`), and
  that a running table has reached it (`TableInv`); `Aligned` and `Numbered` say
  which epoch files and process are in, and that no key was handed out under an
  instance id that is staged and not installed, so that its recovery may drop the
  log. The proof first shows for each way of writing that the files it leaves
  serve every key (`ServeLogged`, `ServeCompacted`, `ServeReset`,
  `ServeRotation`), after any number of files, then for each step that memory
  follows (`FilesReachEveryKey`).

`AuthRecovery_proofs.tla` extends it, from the same assumptions. Its properties
speak of the table of a running process or of what a start will do, so its
invariants speak of snapshot and log:

- `ConfirmedKeysStay`: `Spec => []ConfirmedIsAccepted`. `PromiseInv`: for each
  promise that still runs, the stored row meets it or a record gives it, and each
  record that touches the slot is followed, or is, one that gives it; the same of
  the table and the rest of the log during a load. A promise to a key that was
  renewed late runs until its `Retire`, whenever that comes.
- `RevokedKeysStayRefused`: `Spec => []RevokedIsRefused`. `RevokedInv`: where the
  files speak of the key's instance id, whatever would reopen the key – the stored
  row or a record – has a record behind it that ends the key. A snapshot whose root
  is yet to be promoted counts without the log.
- `FailedLoadsStayClosed` and `EpochChangesLoad`, both from `RecoveryInv`
  (`StartsRecover`): of files that do not agree on their epoch the next start makes
  files that do, unless the failure is one the recovery does not cover; of files
  that agree, the log loads unless a record in it was cut off, and still does not
  if it did not before. For that each renewal and revocation in the log must find
  its key: `Entry` says what the first records make of a row, `TableRecovers` that
  the next start finds each key of the running table.
- `StoreImplements`: `Spec => ImplementsKeyStore`, from the four invariants above
  and `EpochInv`. `Issue` is new because the row's generation has reached every
  key handed out (`Reached`); `Renew` takes no revoked key because an active row
  is none (`RevokedInv`); `Serve` maps to `Open` because the table meets the
  promises (`PromiseInv`), refuses what was revoked, and is not of an epoch that
  failed (`RecoveryInv`). That a start changes epochs only when nothing is
  promised is `EpochInv`: while something is, the running epoch is that of the
  files, so nothing staged is promoted. A timer, a collection or a compaction is a
  stutter because it touches no row that is alive (`ViewKept`), except the `Retire`
  of a key renewed late, which is `Lapse`: a slot in `overtaken` whose key is
  accepted is `fleeting`.

`Admission_proofs.tla`, from `AdmissionAssumption` (the replay window is twice
the skew, as in the code; the queue of claims has a capacity) and
`WindowAssumption`:

- `AdmissionTypeCorrect`: `AdmissionSpec => []AdmissionTypeOK`.
- `ReplaysAreRefused`: `AdmissionSpec => FlightsAreNewForAWindow`. `GuardInv`: a
  flight let in less than a window ago is in the filter, in its current window or
  the one before, unless the guard is blocked, and in the log that the next start
  reads, unless the log is torn. A rotation keeps it because the half it drops
  ended a window ago (`RotatedKnows`).
- `ClaimsStay`: `AdmissionSpec => []ClaimsAreDurable`. `ClaimInv`: the claim of a
  flight that could be claimed again – its root is in force and it is not too old –
  is in the queue, in the set and in the files. A prune keeps it because a claim is
  made while its flight is timely and a window is twice the skew (`DueIsKept`).
- `MutationsTakeEffectOnce`: `AdmissionSpec => []EffectsAreOnce`. `TaskInv` and
  `OnceInv`: the handler that holds a claim is alone with it and its flight has had
  no effect; a second handler is refused by `ClaimInv`.

The queue's `retain` is `Kept`, written without recursion: the kept positions in
order, each at its rank. `Ranks` shows that the ranks are the positions of the
result.

`AppState_proofs.tla`, from `ConfigsAssumption`, `FiniteAssumption`,
`MaxProbesAssumption`, `ScenariosAssumption` and `ThresholdAssumption`. One
invariant, `IInv`, serves all six theorems:

- `AppTypeCorrect` and `MarkersHaveProbes`, of the markers of tunnels and of the
  embedded relay.
- `OneConfiguration`: `AppSpec => []ConfigurationIsOne`, the configuration in memory is
  the one the process runs with and the file holds no third one. It is what
  `EndpointAndCredentialAgree` rests on, and is proved rather than run: a change that
  keeps half of a failed update shows in `EndpointAndCredentialAgree` too.
- `TunnelsCanBeStopped`: `AppSpec => []EveryTunnelCanBeStopped`. A runtime entry has
  to name a task *of its slot* (`Named`): otherwise an abort could end the tunnel
  of another key and leave this one's running with no handle. `SetupInv` says that
  the claimed keys are those in setup, each by one caller.
- `PinsAreOfOneConfiguration`: `AppSpec => []EndpointAndCredentialAgree`, of setups,
  tunnels and probes alike (`Together`).
- `ListenersOutliveMisses`: `AppSpec => ListenerOutlivesMisses`. A listening loop has
  counted every failed probe since the last that succeeded (`Counted`).

`KeyTimers_proofs.tla`, from `TimersAssumption` and `WheelAssumption` (a wheel has
a radix of at least two and a delay of at least one tick), for any radix, delays,
slots, lifetimes, retention, skew and number of restarts:

- The wheel. `PeriodDivides`: the period of a level divides that of every coarser one.
  `EntryIs`: some level takes any delay up to the span, whatever the tick, and the
  boundary it counts from, the bucket and the rest add up to the tick asked for;
  `NextLegIs` is the same for a descent. So a tick changes what a wheel will
  deliver by exactly what is due (`TickedDelivers`), a request adds itself and
  nothing else (`ScheduledDelivers`), and a removal takes off the timers that were
  named (`WithoutDelivers`): no deadline is lost, moved or doubled on its way down
  the levels.
- `RowsStayScheduled`: `Spec => []EveryRowIsScheduled`, and `RevokedKeysTell`:
  `Spec => []RevokedTellsWhy`. `Needed` names the timers of a row with its key and
  its lease, so a timer of an earlier lease does not count; `ScheduledInv` has them
  on the wheel and among the handles; `ToldInv` has a lease that answers for each
  row; `RenewInv` says that a renewal in progress is of a live row. All commands
  and ticks end in the same collection and delivery of timers (`Settle`), so the
  proof has one lemma about that (`SettleKeeps`), and each action shows only what
  it hands over (`CanSettle`). Of the wheel it uses what the wheel *holds*, and not
  when it delivers.
- `DeadlinesStayExact`: `Spec => []DeadlinesAreExact`, `LiveLeasesAreOfLiveRows`:
  `Spec => []LiveLeaseIsOfALiveRow`, and `NothingIsEndedEarly`: `Spec =>
  NothingEndsEarly`. They need a second invariant, `DInv`, inductive together with
  the first. `Timed`: the latest delivery of a live row's timers is at the latest
  expiry it was given, and `Retention` later; the reap of a dead row comes no
  earlier than its end allows. Of each the delivery that counts is the *latest*
  (`Trimmed`), since a renewal adds routes and takes none off. `Owned`: timers of a
  key are of leases that key has had, so a new tenant of a slot meets none of its
  own kind. `ClockInv`: a renewal that was granted, and every expiry that was
  given, stays within the span of the wheel and of one built by a restart, by a
  clock that may have stepped back; otherwise `schedule` would drop a timer.
  `Live`: a lease nobody cancelled has a live row. Again there is one lemma on
  `Settle` (`SettleTimes`) and one obligation per action (`CanTime`).

  Excepted are, as in the runs, a row renewed to an earlier expiry
  (`DeadlinesAreExact`) and one whose late renewal replaced its lease (`Replaced`,
  in the other two).

  The proof corrected the model. As first stated, `NothingEndsEarly` kept the row
  of a revoked key for `Retention` from its `tombstone`. A revocation is stamped by
  the clock, and a clock ahead of the wheel stamps a later end than the expiry that
  the reap was filed for: with a skew of two seconds the row goes a second early
  (TLC finds the steps). The property now has that
  second in it (`Lead`), and the instance has a skew of two.

`ControlLoop_proofs.tla`, from `TimingAssumption` and `MarginAssumption` (a
heartbeat and a round trip fit into tolerance and leases, a probe into the
tolerance, ages are kept beyond all of them):

- `TypeCorrect`, and `SilenceIsAlwaysBounded`: `ControlSpec => []SilenceIsBounded`. The
  bound is on the time since the relay was heard or vouched for, and what limits
  it is the schedule of ticks and probes: `SilenceInv` relates the age of the
  silence to the age of the probe that is out, or to the time of the next tick
  (`SilenceInvariant`).
- `VerdictsAreCurrent`: `ControlSpec => VerdictIsCurrent`, from the same invariant.
- `HealthyIsAlwaysKept`: `ControlSpec => HealthyIsKept`. `HealthInv` follows a ping and
  its answer around the network: while no direction was slow, the sum of what
  has passed since the last tick and the ages of what is in flight bounds the
  age of either side's last reception.

`Tunnel_proofs.tla`, from `BoundsAssumption` and `DeploymentsAssumption` (a chain
has at least one hop and at most `MaxHops`, and counts of ticks and chunks are
numbers), so for chains of any length and any mixture of roles, framed links,
transports, timeouts, windows and faults:

- `Invariance` and `TypeCorrect`: `Spec => []TypeOK`. That what lies in a link
  never goes past what was given out depends on the counts: `RunsInv` says that
  a link its reader has not closed holds exactly the numbers from what the
  reader has taken to what the writer has written, `ChunksInv` that a hop holds
  the next of them, `HopsInv` what each state of a hop implies.
- `Implements`: `Spec => ImplementsPipe`, the refinement the run `client` checks.
  Reading maps to `Take` because the first chunk of the last link is the next
  number (`RunsInv`), and the end to `End` because of two more facts: who has
  closed a link had seen its end, unless the tunnel has failed (`ClosedInv`), and
  a copy that is done has passed on everything the *first* writer wrote
  (`FinishedInv`). The second speaks of the beginning of the chain at every hop
  of it, so a step looks at two neighbouring hops only and no induction along the
  chain is needed. Every end of a hop other than two finished streams maps to
  `Fail` (`FailureInv`), and the rest are stutters.
- `TimersAreDeferred`: `Spec => ActivityDefersTimers`. The timer that applies, of
  the open tunnel or of the half-closed one, never runs ahead of the time since
  the last activity (`ClocksInv`); which one applies changes with the end of a
  direction, and that step sets the second timer back.

Only model-checked. Liveness under fairness is out of the prover's reach
(`SubcribeCompletes`, `NothingIsLeftBehind`, `UnreachableServerCloses`,
`PipeDelivers`, `HopsEnd`, `ListenerComesBack`). Every invariant and every
action property that a passing run checks has a theorem. That ids name one
registration is a hypothesis of `StreamsOfLastAttempts`, not a theorem: it is
not true of every relay.

## Plan

In this order:

1. Answer channels of a bounded capacity in `RelayManager`, so that the manager
   waits for a handler that waits for the manager (`runtime.rs:828`). With
   capacities of 32 and 128 the case needs more messages than any instance above
   has; a channel of one would need the flows of `relay_safety` with a third
   handler, beyond what a run finishes in time, so the queue side would have to
   be abstracted first.
2. The part of `IdsNameOneRegistration` that is true: which holders of an id can
   exist at a time, counting stale deregistrations that are still to be served.

## Not modelled

- Cryptography, key derivation and the frame format (`secure.rs`,
  `secure/frame.rs`): the models assume that a flight opens under the key it was sealed
  with and under no other, and that a frame arrives whole or ends the stream.
  Their correctness is a matter of values, not of state.
- Encodings of log records and snapshots, beyond what a torn or foreign record
  does to a load.
- Parsing of the command line, of addresses, environment and configuration
  files, and the text of status answers, listings and errors: read-only, without
  state of their own.
- The arithmetic of the rate limiter: `RelayManager` lets it refuse anything, so
  nothing here depends on the rates.
- Buffer sizes, byte counters and the delays of backoff: they change how fast,
  not what.
- The core utilities (`pb-mapper-core`), the command line, the test kit and the
  screens of the user interface: glue over the parts above. The id provider is
  the one exception, and is part of `RelayManager`.
