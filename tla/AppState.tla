----------------------------- MODULE AppState -----------------------------
(* The embedding library (ui/native/pb_mapper_ffi): one PbMapperState behind *)
(* a lock, called by the window and by terminals. Setting a tunnel up has    *)
(* three phases, and the slow one runs without the lock; everything else a   *)
(* command does to the state happens while it holds the lock, so it is one   *)
(* action here. Status probes and the tunnels' own loops run beside them.    *)
(*                                                                           *)
(* A configuration is a number that stands for the address and the           *)
(* credential saved together; 0 is the default one, which has no credential. *)
EXTENDS FiniteSets, SequencesExt, LocalClient
CONSTANTS Keys, Callers, Configs,   \* service keys, calling threads, configurations
          MaxProbes,                \* bound: refreshes of one status in flight
          Scenarios                 \* bound: what users and the world do in an instance
Slots == [kind : {"service", "client"}, key : Keys]
ASSUME ConfigsAssumption == Configs \subseteq Nat /\ 0 \in Configs
ASSUME FiniteAssumption == IsFiniteSet(Callers) /\ IsFiniteSet(Keys)
ASSUME MaxProbesAssumption == MaxProbes \in Nat \ {0}
ASSUME ScenariosAssumption ==
    Scenarios \subseteq [slots : SUBSET Slots, callers : SUBSET Callers, configs : SUBSET Configs,
                         remotes : SUBSET Remotes, embedded : BOOLEAN,
                         faults : BOOLEAN, probes : 1 .. MaxProbes]

VARIABLES
    config,      \* PbMapperState::config
    process,     \* the process credential (checksum.rs), 0 when there is none
    file,        \* config.json: a configuration, or Damaged
    caller,      \* where each caller stands in a setup, and what it captured
    claims,      \* registering and connecting
    tunnel,      \* the tunnel tasks, by the number of their JoinHandle
    runtime,     \* service_runtime and client_runtime: the JoinHandle, or 0
    listed,      \* registered_services and active_connections
    cache,       \* service_status_cache and client_status_cache
    refreshing,  \* service_status_refreshing and client_status_refreshing
    probes,      \* the pins of the status probes in flight
    server,      \* server_handle.is_some()
    serving,     \* the relay behind it accepts connections
    shown,       \* is_running of local_server_status_cache
    asking,      \* local_server_status_refreshing
    answers,     \* the relay status refreshes in flight
    remote,      \* what the relay says about the keys
    foreign,     \* another program holds the clients' local port
    scenario     \* the instance, chosen once
settings == <<config, process, file>>
setups == <<caller, claims>>
tunnels == <<tunnel, runtime, listed>>
status == <<cache, refreshing, probes>>
relay == <<server, serving, shown, asking, answers>>
world == <<remote, foreign, scenario>>
stateVars == <<settings, setups, tunnels, status, relay, world>>

Damaged == -1
Handles == 1 .. Cardinality(Slots) + 1
Pin(c, k) == [endpoint |-> c, credential |-> k]
Pins == [endpoint : Configs, credential : Configs]
Idle == [at |-> "idle"]
Statuses == {"none", "retrying", "running", "failed"}
IsClient(s) == s.kind = "client"

(* A tunnel task: the control pool of a service, which has no state here, or *)
(* the loop of a client.                                                     *)
NoTask == [loop |-> "none"]
Pool == At("pool")
Task(s, pin) == [slot |-> s, pin |-> pin, loop |-> IF IsClient(s) THEN Probing ELSE Pool]
Tasks == {NoTask} \cup [slot : Slots, pin : Pins, loop : Loops \cup {Pool}]
Running(h) == tunnel[h] # NoTask
Stands(h, step) == Running(h) /\ tunnel[h].loop.step = step
PortIsFree == ~foreign /\ \A h \in Handles : ~Stands(h, "listen")

AppInit ==
    /\ config = 0 /\ process = 0 /\ file = 0
    /\ caller = [c \in Callers |-> Idle] /\ claims = {}
    /\ tunnel = [h \in Handles |-> NoTask]
    /\ runtime = [s \in Slots |-> 0] /\ listed = {}
    /\ cache = [s \in Slots |-> "none"] /\ refreshing = {}
    /\ probes = [s \in Slots |-> <<>>]
    /\ server = FALSE /\ serving = FALSE /\ shown = FALSE /\ asking = FALSE /\ answers = 0
    /\ remote = "healthy" /\ foreign = FALSE
    /\ scenario \in Scenarios

-----------------------------------------------------------------------------
(* Configuration.                                                            *)

(* The candidate is written before anything else changes; a write that fails *)
(* may have emptied the file. The key was checked, so it is always applied.  *)
(* Markers of refreshes still in flight are cleared with the caches.         *)
ResetCaches ==
    /\ cache' = [s \in Slots |-> "none"] /\ refreshing' = {}
    /\ shown' = FALSE /\ asking' = FALSE
    /\ UNCHANGED <<probes, answers>>
UpdateConfig(v) ==
    /\ v \in scenario.configs
    /\ file' = v /\ config' = v /\ process' = v
    /\ ResetCaches
    /\ UNCHANGED <<setups, tunnels, server, serving, world>>
UpdateConfigFails_Kept ==
    /\ scenario.faults
    /\ file' = Damaged /\ config' \in scenario.configs
    /\ UNCHANGED <<process, setups, tunnels, status, relay, world>>
UpdateConfigFails ==
    /\ scenario.faults
    /\ file' = Damaged
    /\ UNCHANGED <<config, process, setups, tunnels, status, relay, world>>

(* load_config: a file that cannot be read changes nothing; the directory    *)
(* may hold whatever an earlier run of the library left in it.               *)
Loaded(old) == IF file' = Damaged THEN old ELSE file'
SetAppDirectoryPath(contents) ==
    /\ contents \in scenario.configs \cup (IF scenario.faults THEN {Damaged} ELSE {})
    /\ file' = contents
    /\ config' = Loaded(config) /\ process' = config'
    /\ UNCHANGED <<setups, tunnels, status, relay, world>>


(* The process ends and starts again: only the files are left.               *)
Restart ==
    /\ file' = file /\ config' = Loaded(0) /\ process' = config'
    /\ caller' = [c \in Callers |-> Idle] /\ claims' = {}
    /\ tunnel' = [h \in Handles |-> NoTask]
    /\ runtime' = [s \in Slots |-> 0] /\ listed' = {}
    /\ cache' = [s \in Slots |-> "none"] /\ refreshing' = {}
    /\ probes' = [s \in Slots |-> <<>>]
    /\ server' = FALSE /\ serving' = FALSE /\ shown' = FALSE /\ asking' = FALSE /\ answers' = 0
    /\ UNCHANGED world

-----------------------------------------------------------------------------
(* Setting a tunnel up: claim, resolve, commit.                              *)

(* The lock is held: the credential is captured with the relay's address.    *)
Capture == Pin(config, process)
Claim(c, s) ==
    /\ c \in scenario.callers /\ s \in scenario.slots
    /\ caller[c] = Idle /\ s \notin claims /\ process # 0
    /\ claims' = claims \cup {s}
    /\ caller' = [caller EXCEPT ![c] = [at |-> "resolving", slot |-> s, pin |-> Capture]]
    /\ UNCHANGED <<settings, tunnels, status, relay, world>>

(* However a setup ends, its claim is dropped.                               *)
Release(c) ==
    /\ caller' = [caller EXCEPT ![c] = Idle]
    /\ claims' = claims \ {caller[c].slot}

(* Addresses, the relay's connection or, for a client, a trial bind of the   *)
(* local port: the slow part, without the lock.                              *)
SetupFails(c) ==
    /\ caller[c].at = "resolving"
    /\ Release(c)
    /\ UNCHANGED <<settings, tunnels, status, relay, world>>
Resolve(c) ==
    /\ caller[c].at = "resolving"
    /\ IsClient(caller[c].slot) => PortIsFree
    /\ caller' = [caller EXCEPT ![c].at = "resolved"]
    /\ UNCHANGED <<settings, claims, tunnels, status, relay, world>>

(* abort_runtime: the task is dropped at its next await, with its listener.  *)
AbortRuntime_Forgets(s) == tunnel
AbortRuntime(s) == [tunnel EXCEPT ![runtime[s]] = NoTask]
Aborted(s) == IF runtime[s] = 0 THEN tunnel ELSE AbortRuntime(s)
Free(h) == ~Running(h) /\ \A s \in Slots : runtime[s] # h
IsNew(h) == Free(h) /\ \A g \in 1 .. h - 1 : ~Free(g)

(* One probe per slot while its marker stands, with the tunnel's own pin.    *)
ProbePin_CurrentAddress(s, pin) == Pin(config, pin.credential)
ProbePin(s, pin) == pin
ScheduleRefresh(s, pin) ==
    IF s \in refreshing THEN UNCHANGED <<refreshing, probes>>
    ELSE /\ Len(probes[s]) < scenario.probes
         /\ refreshing' = refreshing \cup {s}
         /\ probes' = [probes EXCEPT ![s] = Append(@, ProbePin(s, pin))]

Resolved(c) == caller[c].at = "resolved"
Commit(c, h) ==
    LET s == caller[c].slot  pin == caller[c].pin IN
    /\ IsNew(h)
    /\ tunnel' = [Aborted(s) EXCEPT ![h] = Task(s, pin)]
    /\ runtime' = [runtime EXCEPT ![s] = h]
    /\ listed' = listed \cup {s}
    /\ cache' = [cache EXCEPT ![s] = "retrying"]
    /\ ScheduleRefresh(s, pin)
    /\ Release(c)
    /\ UNCHANGED <<settings, relay, world>>
(* finish_connect: a client whose configuration cannot be saved is up.       *)
FinishConnect(c, h) == Resolved(c) /\ IsClient(caller[c].slot) /\ Commit(c, h)
FinishRegister(c, h) == Resolved(c) /\ ~IsClient(caller[c].slot) /\ Commit(c, h)
(* A service whose configuration cannot be saved is not started, and the     *)
(* tunnel it was to replace is gone, though not from the list.               *)
FinishRegisterFails(c) ==
    LET s == caller[c].slot IN
    /\ Resolved(c) /\ ~IsClient(s)
    /\ tunnel' = Aborted(s)
    /\ runtime' = [runtime EXCEPT ![s] = 0]
    /\ Release(c)
    /\ UNCHANGED <<settings, listed, status, relay, world>>

-----------------------------------------------------------------------------
(* Ending tunnels, and the embedded relay.                                   *)

(* Deleting a slot's configuration ends its tunnel in the same way.          *)
End(s) ==
    /\ runtime[s] # 0 \/ s \in listed
    /\ tunnel' = Aborted(s)
    /\ runtime' = [runtime EXCEPT ![s] = 0]
    /\ listed' = listed \ {s}
    /\ UNCHANGED <<settings, setups, status, relay, world>>
UnregisterService(s) == ~IsClient(s) /\ End(s)
DisconnectService(s) == IsClient(s) /\ End(s)

StartServer ==
    /\ scenario.embedded /\ ~server
    /\ server' = TRUE /\ serving' = TRUE /\ shown' = TRUE
    /\ UNCHANGED <<asking, answers, settings, setups, tunnels, status, world>>

(* One accept that fails ends the listener's task, which says so in the log; *)
(* the manager beside it, and the handle, stay until the relay is stopped.   *)
ListenerEnds ==
    /\ server /\ serving /\ scenario.faults
    /\ serving' = FALSE
    /\ UNCHANGED <<server, shown, asking, answers, settings, setups, tunnels, status, world>>

(* Stopping the relay ends every tunnel, the ones to other relays included.  *)
Drained == [h \in Handles |-> IF \E s \in Slots : runtime[s] = h THEN NoTask ELSE tunnel[h]]
StopServer ==
    /\ server
    /\ server' = FALSE /\ serving' = FALSE /\ shown' = FALSE
    /\ tunnel' = Drained
    /\ runtime' = [s \in Slots |-> 0] /\ listed' = {}
    /\ UNCHANGED <<asking, answers, settings, setups, status, world>>

(* get_local_server_status: a stopped relay is never looked up in the cache, *)
(* and the answer to a refresh, or its absence, has it running.              *)
LocalServerStatus == server /\ shown
AskRelay ==
    /\ server /\ ~asking /\ answers < scenario.probes
    /\ asking' = TRUE /\ answers' = answers + 1
    /\ UNCHANGED <<server, serving, shown, settings, setups, tunnels, status, world>>
ReadStopped ==
    /\ ~server /\ shown
    /\ shown' = FALSE
    /\ UNCHANGED <<server, serving, asking, answers, settings, setups, tunnels, status, world>>
RelayAnswers ==
    /\ answers > 0
    /\ answers' = answers - 1 /\ shown' = TRUE /\ asking' = FALSE
    /\ UNCHANGED <<server, serving, settings, setups, tunnels, status, world>>

-----------------------------------------------------------------------------
(* Status reads and probes.                                                  *)

GetCachedStatus(s) ==
    IF runtime[s] = 0 THEN "stopped"
    ELSE IF ~Running(runtime[s]) THEN "failed"
    ELSE IF cache[s] = "none" THEN "retrying" ELSE cache[s]
(* A read of a status that is missing or older than the cache's lifetime.    *)
ReadStaleStatus(s) ==
    /\ GetCachedStatus(s) \notin {"stopped", "failed"} /\ s \notin refreshing
    /\ ScheduleRefresh(s, tunnel[runtime[s]].pin)
    /\ UNCHANGED <<cache, settings, setups, tunnels, relay, world>>

(* check_service_with_get_status asks for the keys only: a key without a     *)
(* healthy connection counts as running.                                     *)
ProbeStatus == IF remote \in {"healthy", "unhealthy"} THEN "running"
               ELSE IF remote = "mute" THEN "retrying" ELSE "failed"
EndProbe_MarkerLeft(s) == refreshing
EndProbe(s) == refreshing \ {s}
ProbeEnds(s, i) ==
    /\ i <= Len(probes[s])
    /\ \E result \in {ProbeStatus, "failed"} : cache' = [cache EXCEPT ![s] = result]
    /\ probes' = [probes EXCEPT ![s] = RemoveAt(@, i)]
    /\ refreshing' = EndProbe(s)
    /\ UNCHANGED <<settings, setups, tunnels, relay, world>>

-----------------------------------------------------------------------------
(* The clients' loops.                                                       *)

Moves(h, loop) ==
    /\ tunnel' = [tunnel EXCEPT ![h].loop = loop]
    /\ UNCHANGED <<settings, setups, runtime, listed, status, relay, world>>
Probe(h) == Stands(h, "probe") /\ Moves(h, AfterProbe(remote))
Pause(h) == Stands(h, "pause") /\ Moves(h, At("probe"))
Bind(h) == Stands(h, "bind") /\ Moves(h, AfterBind(PortIsFree))
HealthTick(h) == Stands(h, "listen") /\ Moves(h, AfterHealthTick(tunnel[h].loop, remote))
StreamFails(h) ==
    /\ Stands(h, "listen") /\ tunnel[h].loop.reports < MaxReports
    /\ Moves(h, AfterStreamFailure(tunnel[h].loop))
TakeReport(h) ==
    /\ Stands(h, "listen") /\ tunnel[h].loop.reports > 0
    /\ Moves(h, AfterReport(tunnel[h].loop, remote))
AcceptFails(h) == Stands(h, "listen") /\ Moves(h, At("pause"))

RemoteChanges(r) ==
    /\ r \in scenario.remotes
    /\ remote # r /\ remote' = r
    /\ UNCHANGED <<foreign, scenario, settings, setups, tunnels, status, relay>>
PortChanges ==
    /\ scenario.faults
    /\ foreign \/ PortIsFree
    /\ foreign' = ~foreign
    /\ UNCHANGED <<remote, scenario, settings, setups, tunnels, status, relay>>

Loop(h) == Probe(h) \/ Pause(h) \/ Bind(h) \/ HealthTick(h) \/ TakeReport(h)
AppNext ==
    \/ \E v \in Configs : UpdateConfig(v)
    \/ UpdateConfigFails \/ Restart
    \/ \E v \in Configs \cup {Damaged} : SetAppDirectoryPath(v)
    \/ \E c \in Callers, s \in Slots : Claim(c, s)
    \/ \E c \in Callers : SetupFails(c) \/ Resolve(c) \/ FinishRegisterFails(c)
    \/ \E c \in Callers, h \in Handles : FinishConnect(c, h) \/ FinishRegister(c, h)
    \/ \E s \in Slots : UnregisterService(s) \/ DisconnectService(s)
    \/ StartServer \/ ListenerEnds \/ StopServer \/ AskRelay \/ ReadStopped \/ RelayAnswers
    \/ \E s \in Slots : ReadStaleStatus(s)
    \/ \E s \in Slots, i \in 1 .. MaxProbes : ProbeEnds(s, i)
    \/ \E h \in Handles : Loop(h) \/ StreamFails(h) \/ AcceptFails(h)
    \/ \E r \in Remotes : RemoteChanges(r)
    \/ PortChanges

(* The runtime polls every tunnel's task; users and the world need not move. *)
AppFairness == \A h \in Handles : WF_stateVars(Loop(h))
AppSpec == AppInit /\ [][AppNext]_stateVars /\ AppFairness

-----------------------------------------------------------------------------
(* Properties.                                                               *)

(* Every variable has its type.                                              *)
AppTypeOK ==
    /\ config \in Configs /\ process \in Configs /\ file \in Configs \cup {Damaged}
    /\ caller \in [Callers -> {Idle} \cup [at : {"resolving", "resolved"},
                                          slot : Slots, pin : Pins]]
    /\ claims \subseteq Slots
    /\ tunnel \in [Handles -> Tasks]
    /\ runtime \in [Slots -> {0} \cup Handles] /\ listed \subseteq Slots
    /\ cache \in [Slots -> Statuses] /\ refreshing \subseteq Slots
    /\ \A s \in Slots : probes[s] \in Seq(Pins) /\ Len(probes[s]) <= MaxProbes
    /\ server \in BOOLEAN /\ serving \in BOOLEAN /\ shown \in BOOLEAN /\ asking \in BOOLEAN
    /\ answers \in 0 .. MaxProbes
    /\ remote \in Remotes /\ foreign \in BOOLEAN /\ scenario \in Scenarios

(* No tunnel runs that nothing can abort (state.rs, KeyClaim): whatever two  *)
(* callers, a failing save, an unregistration or the end of the relay do to  *)
(* a key in the middle of a setup, each running task is the one its slot's   *)
(* runtime entry names, and each entry names a running task.  A key is being *)
(* set up once at a time, and a key nobody sets up can be.                   *)
EveryTunnelCanBeStopped ==
    /\ AppTypeOK
    /\ claims = {caller[c].slot : c \in {d \in Callers : caller[d] # Idle}}
    /\ \A c, d \in Callers :
          caller[c] # Idle /\ caller[d] # Idle /\ caller[c].slot = caller[d].slot => c = d
    /\ \A h \in Handles : Running(h) => runtime[tunnel[h].slot] = h
    /\ \A s \in Slots : runtime[s] # 0 => Running(runtime[s])

(* A key that a configuration change replaces is never paired with the       *)
(* socket address it did not belong to (state.rs, register_service): not in  *)
(* a setup, not in a tunnel and not in a probe of a tunnel's status.         *)
EndpointAndCredentialAgree ==
    LET together(pin) == pin.endpoint = pin.credential IN
    /\ \A c \in Callers : caller[c] # Idle => together(caller[c].pin)
    /\ \A h \in Handles : Running(h) => together(tunnel[h].pin)
    /\ \A s \in Slots : \A i \in DOMAIN probes[s] : together(probes[s][i])

(* A configuration is saved, held and applied to the process, or nothing of  *)
(* it is (update_config): no caller can see one without the others, and no   *)
(* file holds another one than the process runs with.                        *)
ConfigurationIsOne == process = config /\ file \in {config, Damaged}

(* A status is never frozen: a marker that keeps reads from probing a slot,  *)
(* or from asking the relay, belongs to a probe that is still to end, or a   *)
(* refresh that is still to be answered, whatever resets of the caches,      *)
(* other probes and earlier answers came in between (status.rs,              *)
(* schedule_*_refresh).                                                      *)
MarkedSlotIsProbed ==
    /\ \A s \in refreshing : probes[s] # <<>>
    /\ asking => answers > 0

(* "Readiness is published only after both listener binding and              *)
(* authentication initialization succeed, preventing the UI from displaying  *)
(* a phantom running relay" (state/runtime.rs:10-11): a relay shown as       *)
(* running accepts connections.  Violated: run phantom_relay.                *)
NoPhantomRelay == LocalServerStatus => serving

(* The listener outlives what passes (client/mod.rs): health checks drop it  *)
(* only after Threshold failed probes with none that succeeded between them, *)
(* the ones that follow a stream failure included.                           *)
ListenerOutlivesMisses ==
    [][\A h \in Handles : HealthTick(h) /\ tunnel'[h].loop.step # "listen"
                            => tunnel'[h].loop.failed = Threshold]_stateVars

(* The loop always comes back: while the key stays healthy and the port free *)
(* a client that is left alone listens again and again, whatever it was      *)
(* doing and however often accepting fails.                                  *)
LeftAlone(h) ==
    /\ remote = "healthy" /\ ~foreign /\ \A c \in Callers : caller[c] = Idle
    /\ Running(h) /\ IsClient(tunnel[h].slot)
    /\ \A g \in Handles \ {h} : ~Stands(g, "listen")
ListenerComesBack == \A h \in Handles : <>[]LeftAlone(h) => []<>Stands(h, "listen")
=============================================================================
