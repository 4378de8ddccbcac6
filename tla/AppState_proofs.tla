--------------------------- MODULE AppState_proofs ---------------------------
(* Theorems about the embedding library's state, for any finite sets of      *)
(* callers and keys, any set of configurations and any bounds: its types,    *)
(* that every tunnel can be stopped, that no pin mixes two configurations,   *)
(* that the configuration is one, that every marker has its probe, and that  *)
(* health checks drop a listener only after Threshold failures in a row.     *)
(*                                                                           *)
(* IInv is inductive. Beyond the properties it says that a runtime entry     *)
(* names a task OF ITS SLOT (without which an abort could end the tunnel of  *)
(* another key), and that a listening loop has counted every failed probe.   *)
EXTENDS AppState, FiniteSetTheorems, SequenceTheorems, TLAPS

-----------------------------------------------------------------------------
(* Lemmas about the helpers *)

\* A handle is a number, and none of them is 0, which stands for no handle.
LEMMA HandlesAreNumbers == Handles \subseteq Nat \ {0}
<1> DEFINE kinds == {"service", "client"}
           f == [x \in kinds \X Keys |-> [kind |-> x[1], key |-> x[2]]]
<1>1. IsFiniteSet(kinds \X Keys)
  <2>1. IsFiniteSet(kinds)
    <3>1. IsFiniteSet({} \cup {"service"})
      BY FS_EmptySet, FS_AddElement
    <3>2. IsFiniteSet(({} \cup {"service"}) \cup {"client"})
      BY <3>1, FS_AddElement
    <3>3. ({} \cup {"service"}) \cup {"client"} = kinds
      OBVIOUS
    <3> QED
      BY <3>2, <3>3
  <2> QED
    BY <2>1, FiniteAssumption, FS_Product DEF FiniteAssumption
<1>2. f \in Surjection(kinds \X Keys, Slots)
  <2>1. f \in [kinds \X Keys -> Slots]
    BY DEF Slots
  <2>2. ASSUME NEW s \in Slots PROVE \E x \in kinds \X Keys : f[x] = s
    <3>1. <<s.kind, s.key>> \in kinds \X Keys
      BY DEF Slots
    <3>2. f[<<s.kind, s.key>>] = s
      BY <3>1 DEF Slots
    <3> QED
      BY <3>1, <3>2
  <2> QED
    BY <2>1, <2>2 DEF Surjection
<1>3. Cardinality(Slots) \in Nat
  BY <1>1, <1>2, FS_Surjection, FS_CardinalityType
<1> QED
  BY <1>3 DEF Handles

\* The state a loop or a pool begins in.
LEMMA AtIs == \A step : At(step) = [step |-> step, misses |-> 0, reports |-> 0, failed |-> 0]
BY DEF At, Probing

\* While a client listens, the failures that health checks have counted are all the
\* probes that failed since one succeeded (client/mod.rs, consecutive_health_failures).
Counted(l) == l.step = "listen" => l.failed = l.misses

\* The steps of a client's loop lead from loop to loop and count every failure.
LEMMA LoopSteps ==
    ASSUME NEW l \in Loops, NEW r \in Remotes, NEW free \in BOOLEAN
    PROVE  /\ \A k \in {AfterProbe(r), AfterBind(free), At("probe"), At("pause")} : k \in Loops /\ Counted(k)
           /\ AfterHealthTick(l, r) \in Loops
           /\ Counted(l) => Counted(AfterHealthTick(l, r))
           /\ l.reports < MaxReports => /\ AfterStreamFailure(l) \in Loops
                                        /\ Counted(l) => Counted(AfterStreamFailure(l))
           /\ l.reports > 0 => AfterReport(l, r) \in Loops /\ Counted(AfterReport(l, r))
           /\ Counted(l) /\ l.step = "listen" /\ AfterHealthTick(l, r).step # "listen"
                => AfterHealthTick(l, r).failed = Threshold
<1> DEFINE Is(k, step, misses, reports, failed) ==
             k = [step |-> step, misses |-> misses, reports |-> reports, failed |-> failed]
<1>0. /\ Threshold \in Nat \ {0} /\ MaxReports \in Nat
      /\ l.misses \in 0 .. Threshold - 1 /\ l.failed \in 0 .. Threshold /\ l.reports \in 0 .. MaxReports
      /\ l.step \in {"probe", "pause", "bind", "listen"}
  BY ThresholdAssumption, MaxReportsAssumption DEF Loops, ThresholdAssumption, MaxReportsAssumption
<1>1. \A step \in {"probe", "pause", "bind", "listen"} : At(step) \in Loops /\ Counted(At(step))
  BY <1>0, AtIs DEF Loops, Counted
<1>2. Failed(l) \in 0 .. Threshold /\ (l.failed = l.misses => Failed(l) = l.misses + 1)
  BY <1>0 DEF Failed
<1>3. Is(l, l.step, l.misses, l.reports, l.failed)
  BY DEF Loops
<1>4. Is(Dropped(l), "pause", 0, 0, Failed(l))
  BY AtIs DEF Dropped
<1>5. Is(AfterSuccess(l), l.step, 0, l.reports, 0)
  <2>1. AfterSuccess(l) = [[l EXCEPT !.misses = 0] EXCEPT !.failed = 0]
    BY <1>3 DEF AfterSuccess
  <2>2. Is([l EXCEPT !.misses = 0], l.step, 0, l.reports, l.failed)
    BY <1>3
  <2> QED
    BY <2>1, <2>2
<1>6. Is([l EXCEPT !.misses = @ + 1, !.failed = Failed(l)], l.step, l.misses + 1, l.reports, Failed(l))
  <2>1. [l EXCEPT !.misses = @ + 1, !.failed = Failed(l)] = [[l EXCEPT !.misses = @ + 1] EXCEPT !.failed = Failed(l)]
    BY <1>3
  <2>2. Is([l EXCEPT !.misses = @ + 1], l.step, l.misses + 1, l.reports, l.failed)
    BY <1>3
  <2>3. \A m, a, b, c, d, x : Is(m, a, b, c, d) => Is([m EXCEPT !.failed = x], a, b, c, x)
    OBVIOUS
  <2> HIDE DEF Is
  <2> QED
    BY <2>1, <2>2, <2>3
<1>7. Is([l EXCEPT !.reports = @ + 1], l.step, l.misses, l.reports + 1, l.failed)
  BY <1>3
<1>8. Is([AfterSuccess(l) EXCEPT !.reports = @ - 1], l.step, 0, l.reports - 1, 0)
  BY <1>5
<1>9. /\ Dropped(l) \in Loops /\ Counted(Dropped(l)) /\ Dropped(l).failed = Failed(l)
      /\ AfterSuccess(l) \in Loops /\ Counted(AfterSuccess(l)) /\ AfterSuccess(l).step = l.step
  <2>1. /\ Dropped(l).step = "pause" /\ AfterSuccess(l).misses = AfterSuccess(l).failed
        /\ Dropped(l).failed = Failed(l) /\ AfterSuccess(l).step = l.step
    BY <1>4, <1>5
  <2>2. Dropped(l) \in Loops /\ AfterSuccess(l) \in Loops
    BY <1>0, <1>2, <1>4, <1>5 DEF Loops
  <2> QED
    BY <2>1, <2>2 DEF Counted
<1>10. /\ AfterProbe(r) \in {At("bind"), At("pause")} /\ AfterBind(free) \in {At("listen"), At("pause")}
  BY DEF AfterProbe, AfterBind
<1>11. AfterHealthTick(l, r) \in Loops /\ (Counted(l) => Counted(AfterHealthTick(l, r)))
       /\ (Counted(l) /\ l.step = "listen" /\ AfterHealthTick(l, r).step # "listen"
             => AfterHealthTick(l, r).failed = Threshold)
  <2> DEFINE missed == [l EXCEPT !.misses = @ + 1, !.failed = Failed(l)]
  <2>1. CASE AfterHealthTick(l, r) = AfterSuccess(l)
    BY <2>1, <1>9 DEF Counted
  <2>2. CASE l.misses + 1 < Threshold /\ AfterHealthTick(l, r) = missed
    <3>1. missed \in Loops
      BY <1>0, <1>2, <1>6, <2>2 DEF Loops
    <3>2. missed.step = l.step /\ missed.misses = l.misses + 1 /\ missed.failed = Failed(l)
      BY <1>6
    <3> QED
      BY <2>2, <3>1, <3>2, <1>2 DEF Counted
  <2>3. CASE ~(l.misses + 1 < Threshold) /\ AfterHealthTick(l, r) = Dropped(l)
    <3>1. Counted(l) /\ l.step = "listen" => Failed(l) = Threshold
      BY <1>0, <1>2, <2>3 DEF Counted
    <3> QED
      BY <2>3, <1>9, <3>1
  <2> QED
    BY <2>1, <2>2, <2>3 DEF AfterHealthTick
<1>12. l.reports < MaxReports => /\ AfterStreamFailure(l) \in Loops
                                 /\ Counted(l) => Counted(AfterStreamFailure(l))
  <2>1. AfterStreamFailure(l).step = l.step /\ AfterStreamFailure(l).misses = l.misses
        /\ AfterStreamFailure(l).failed = l.failed
    BY <1>7 DEF AfterStreamFailure
  <2>2. l.reports < MaxReports => AfterStreamFailure(l) \in Loops
    BY <1>0, <1>7 DEF Loops, AfterStreamFailure
  <2> QED
    BY <2>1, <2>2 DEF Counted
<1>13. l.reports > 0 => AfterReport(l, r) \in Loops /\ Counted(AfterReport(l, r))
  <2> DEFINE taken == [AfterSuccess(l) EXCEPT !.reports = @ - 1]
  <2>1. l.reports > 0 => taken \in Loops
    BY <1>0, <1>8 DEF Loops
  <2>2. taken.misses = taken.failed
    BY <1>8
  <2>3. AfterReport(l, r) \in {taken, Dropped(l)}
    BY DEF AfterReport
  <2> QED
    BY <2>1, <2>2, <2>3, <1>9 DEF Counted
<1> QED
  BY <1>1, <1>10, <1>11, <1>12, <1>13

\* A task is not the mark of a handle without one.
RunningTask == [slot : Slots, pin : Pins, loop : Loops \cup {Pool}]
LEMMA TaskRuns == \A t \in RunningTask : t # NoTask
<1> SUFFICES ASSUME NEW t \in RunningTask PROVE t # NoTask
  OBVIOUS
<1>1. "slot" \in DOMAIN t
  BY DEF RunningTask
<1>2. "slot" \notin DOMAIN NoTask
  BY DEF NoTask
<1> QED
  BY <1>1, <1>2

\* Removing a probe that ends (status.rs) leaves the others.
LEMMA ProbesLeft ==
    ASSUME NEW S, NEW q \in Seq(S), NEW i \in 1 .. Len(q)
    PROVE  /\ RemoveAt(q, i) \in Seq(S) /\ Len(RemoveAt(q, i)) = Len(q) - 1
           /\ \A j \in DOMAIN RemoveAt(q, i) : \E k \in DOMAIN q : RemoveAt(q, i)[j] = q[k]
<1> DEFINE left == SubSeq(q, 1, i - 1)
           right == SubSeq(q, i + 1, Len(q))
           T == {q[k] : k \in DOMAIN q}
<1>0. Len(q) \in Nat /\ DOMAIN q = 1 .. Len(q) /\ i \in Nat /\ \A k \in 1 .. Len(q) : q[k] \in S /\ q[k] \in T
  OBVIOUS
<1> HIDE DEF T
<1>1. left \in Seq(S) /\ left \in Seq(T) /\ Len(left) = i - 1
  <2>1. \A k \in 1 .. i - 1 : q[k] \in S /\ q[k] \in T
    BY <1>0
  <2> QED
    BY <1>0, <2>1, SubSeqProperties
<1>2. right \in Seq(S) /\ right \in Seq(T) /\ Len(right) = Len(q) - i
  <2>1. \A k \in i + 1 .. Len(q) : q[k] \in S /\ q[k] \in T
    BY <1>0
  <2>2. i + 1 \in Int /\ Len(q) \in Int
    BY <1>0
  <2>3. /\ right \in Seq(S) /\ right \in Seq(T)
        /\ Len(right) = IF i + 1 <= Len(q) THEN Len(q) - (i + 1) + 1 ELSE 0
    BY <2>1, <2>2, SubSeqProperties
  <2>4. i <= Len(q)
    OBVIOUS
  <2>5. (IF i + 1 <= Len(q) THEN Len(q) - (i + 1) + 1 ELSE 0) = Len(q) - i
    BY <2>2, <2>4
  <2> HIDE DEF right
  <2> QED
    BY <2>3, <2>5
<1>3. RemoveAt(q, i) = left \o right
  BY DEF RemoveAt
<1> HIDE DEF left, right
<1>4. left \o right \in Seq(S) /\ left \o right \in Seq(T) /\ Len(left \o right) = Len(q) - 1
  <2>1. left \o right \in Seq(S) /\ left \o right \in Seq(T)
    BY <1>1, <1>2, ConcatProperties
  <2>2. Len(left \o right) = Len(left) + Len(right)
    BY <1>1, <1>2, ConcatProperties
  <2> QED
    BY <1>0, <1>1, <1>2, <2>1, <2>2
<1>5. \A j \in DOMAIN (left \o right) : (left \o right)[j] \in T
  BY <1>4
<1>6. \A x \in T : \E k \in DOMAIN q : x = q[k]
  BY DEF T
<1> QED
  BY <1>3, <1>4, <1>5, <1>6

-----------------------------------------------------------------------------
(* The tunnels that a runtime entry names                                    *)

\* Each task is named by its slot's runtime entry, and each entry names a task of its slot.
Named(t, r) == /\ \A h \in Handles : t[h] # NoTask => r[t[h].slot] = h
               /\ \A s \in Slots : r[s] # 0 => t[r[s]] # NoTask /\ t[r[s]].slot = s
Cleared(t, r, s) == IF r[s] = 0 THEN t ELSE [t EXCEPT ![r[s]] = NoTask]

\* A task in the table is a task of a slot.
LEMMA TaskParts ==
    ASSUME NEW t \in [Handles -> Tasks], NEW h \in Handles, t[h] # NoTask
    PROVE  t[h] \in RunningTask /\ t[h].slot \in Slots /\ t[h].pin \in Pins /\ t[h].loop \in Loops \cup {Pool}
BY DEF Tasks, RunningTask

\* abort_runtime: the slot's task goes, and no other one.
LEMMA Ending ==
    ASSUME NEW t \in [Handles -> Tasks], NEW r \in [Slots -> {0} \cup Handles], NEW s \in Slots, Named(t, r)
    PROVE  /\ Cleared(t, r, s) \in [Handles -> Tasks] /\ [r EXCEPT ![s] = 0] \in [Slots -> {0} \cup Handles]
           /\ Named(Cleared(t, r, s), [r EXCEPT ![s] = 0])
           /\ \A h \in Handles : Cleared(t, r, s)[h] \in {t[h], NoTask}
<1> DEFINE u == Cleared(t, r, s)
           q == [r EXCEPT ![s] = 0]
<1>0. NoTask \in Tasks /\ 0 \notin Handles
  BY HandlesAreNumbers DEF Tasks
<1>1. u \in [Handles -> Tasks] /\ q \in [Slots -> {0} \cup Handles]
  BY <1>0 DEF Cleared
<1>2. \A h \in Handles : u[h] = IF h = r[s] THEN NoTask ELSE t[h]
  BY <1>0 DEF Cleared
<1>3. q[s] = 0 /\ \A x \in Slots \ {s} : q[x] = r[x]
  OBVIOUS
<1> HIDE DEF u, q
<1>4. ASSUME NEW h \in Handles, u[h] # NoTask PROVE q[u[h].slot] = h
  <2>1. u[h] = t[h] /\ t[h] # NoTask /\ h # r[s]
    BY <1>2, <1>4
  <2>2. t[h].slot \in Slots /\ r[t[h].slot] = h
    BY <2>1, TaskParts DEF Named
  <2>3. t[h].slot # s
    BY <2>1, <2>2
  <2> QED
    BY <2>1, <2>2, <2>3, <1>3
<1>5. ASSUME NEW x \in Slots, q[x] # 0 PROVE u[q[x]] # NoTask /\ u[q[x]].slot = x
  <2>1. x # s /\ q[x] = r[x] /\ r[x] \in Handles
    BY <1>3, <1>5
  <2>2. t[r[x]] # NoTask /\ t[r[x]].slot = x
    BY <2>1, <1>5 DEF Named
  <2>3. r[x] # r[s]
    <3>1. r[s] # 0 => t[r[s]].slot = s
      BY DEF Named
    <3> QED
      BY <2>1, <2>2, <3>1, <1>0
  <2> QED
    BY <2>1, <2>2, <2>3, <1>2
<1> QED
  BY <1>1, <1>2, <1>4, <1>5 DEF Named, u, q

\* A commit puts a task under a handle that nothing uses, and names it.
LEMMA Starting ==
    ASSUME NEW t \in [Handles -> Tasks], NEW r \in [Slots -> {0} \cup Handles], NEW s \in Slots, Named(t, r),
           NEW h \in Handles, t[h] = NoTask, NEW x \in RunningTask, x.slot = s, r[s] = 0
    PROVE  /\ [t EXCEPT ![h] = x] \in [Handles -> Tasks] /\ [r EXCEPT ![s] = h] \in [Slots -> {0} \cup Handles]
           /\ Named([t EXCEPT ![h] = x], [r EXCEPT ![s] = h])
<1> DEFINE u == [t EXCEPT ![h] = x]
           q == [r EXCEPT ![s] = h]
<1>1. u \in [Handles -> Tasks] /\ q \in [Slots -> {0} \cup Handles]
  BY DEF Tasks, RunningTask
<1>2. u[h] = x /\ \A g \in Handles \ {h} : u[g] = t[g]
  OBVIOUS
<1>3. q[s] = h /\ \A y \in Slots \ {s} : q[y] = r[y]
  OBVIOUS
<1>0. x # NoTask
  BY TaskRuns
<1> HIDE DEF u, q
<1>4. ASSUME NEW g \in Handles, u[g] # NoTask PROVE q[u[g].slot] = g
  <2>1. CASE g = h
    BY <2>1, <1>2, <1>3
  <2>2. CASE g # h
    <3>1. t[g] # NoTask /\ t[g].slot \in Slots /\ r[t[g].slot] = g /\ u[g] = t[g]
      BY <2>2, <1>2, <1>4, TaskParts DEF Named
    <3>2. t[g].slot # s
      BY <3>1, HandlesAreNumbers
    <3> QED
      BY <3>1, <3>2, <1>3
  <2> QED
    BY <2>1, <2>2
<1>5. ASSUME NEW y \in Slots, q[y] # 0 PROVE u[q[y]] # NoTask /\ u[q[y]].slot = y
  <2>1. CASE y = s
    BY <2>1, <1>0, <1>2, <1>3
  <2>2. CASE y # s
    <3>1. q[y] = r[y] /\ r[y] \in Handles /\ t[r[y]] # NoTask /\ t[r[y]].slot = y
      BY <2>2, <1>3, <1>5 DEF Named
    <3>2. r[y] # h
      BY <3>1
    <3> QED
      BY <3>1, <3>2, <1>2
  <2> QED
    BY <2>1, <2>2
<1> QED
  BY <1>1, <1>4, <1>5 DEF Named, u, q

-----------------------------------------------------------------------------
(* The types, part by part, and what the parts keep                          *)

SettingsType == config \in Configs /\ process \in Configs /\ file \in Configs \cup {Damaged}
SetupType == /\ caller \in [Callers -> {Idle} \cup [at : {"resolving", "resolved"}, slot : Slots, pin : Pins]]
             /\ claims \subseteq Slots
TunnelType == tunnel \in [Handles -> Tasks] /\ runtime \in [Slots -> {0} \cup Handles] /\ listed \subseteq Slots
StatusType == /\ cache \in [Slots -> Statuses] /\ refreshing \subseteq Slots
              /\ probes \in [Slots -> Seq(Pins)] /\ \A s \in Slots : Len(probes[s]) <= MaxProbes
RelayType ==
    /\ server \in BOOLEAN /\ serving \in BOOLEAN /\ shown \in BOOLEAN /\ asking \in BOOLEAN
    /\ answers \in 0 .. MaxProbes
WorldType == remote \in Remotes /\ foreign \in BOOLEAN /\ scenario \in Scenarios
Types == SettingsType /\ SetupType /\ TunnelType /\ StatusType /\ RelayType /\ WorldType

LEMMA TypesAreTypeOK == Types => AppTypeOK
BY DEF Types, SettingsType, SetupType, TunnelType, StatusType, RelayType, WorldType, AppTypeOK

\* An instance stays inside the constants.
LEMMA ScenarioParts ==
    ASSUME WorldType
    PROVE  /\ scenario.configs \subseteq Configs /\ scenario.slots \subseteq Slots
           /\ scenario.callers \subseteq Callers /\ scenario.remotes \subseteq Remotes
           /\ scenario.probes \in Nat /\ scenario.probes <= MaxProbes
<1>1. scenario \in [slots : SUBSET Slots, callers : SUBSET Callers, configs : SUBSET Configs,
                    remotes : SUBSET Remotes, embedded : BOOLEAN,
                    faults : BOOLEAN, probes : 1 .. MaxProbes]
  BY ScenariosAssumption DEF WorldType, ScenariosAssumption
<1>2. MaxProbes \in Nat
  BY MaxProbesAssumption DEF MaxProbesAssumption
<1>3. scenario.probes \in 1 .. MaxProbes
  BY <1>1
<1> QED
  BY <1>1, <1>2, <1>3

\* A pin is one configuration, not the address of one and the credential of another.
Together(pin) == pin.endpoint = pin.credential

\* The slots being set up are the claimed ones, each by one caller (state.rs, KeyClaim).
SetupInv ==
    /\ \A s \in Slots : s \in claims <=> \E c \in Callers : caller[c] # Idle /\ caller[c].slot = s
    /\ \A c, d \in Callers :
          caller[c] # Idle /\ caller[d] # Idle /\ caller[c].slot = caller[d].slot => c = d
    /\ \A c \in Callers : caller[c] # Idle => Together(caller[c].pin)
Sound(t) == \A h \in Handles : t[h] # NoTask => Together(t[h].pin) /\ Counted(t[h].loop)
TunnelInv == Named(tunnel, runtime) /\ Sound(tunnel)
ProbesAgree(p) == \A s \in Slots : \A i \in DOMAIN p[s] : Together(p[s][i])
MarkersInv == \A s \in refreshing : probes[s] # <<>>
StatusInv == ProbesAgree(probes) /\ MarkersInv
RelayInv == asking => answers > 0
IInv == Types /\ ConfigurationIsOne /\ SetupInv /\ TunnelInv /\ StatusInv /\ RelayInv

-----------------------------------------------------------------------------
(* The configuration                                                         *)

\* What the steps do to the configuration.
LEMMA SettingsSteps ==
    ASSUME AppNext
    PROVE  \/ UNCHANGED settings
           \/ \E v \in Configs : file' = v /\ config' = v /\ process' = v
           \/ file' = Damaged /\ UNCHANGED <<config, process>>
           \/ /\ file' \in {file, Damaged} \cup scenario.configs
              /\ config' \in {Loaded(0), Loaded(config)} /\ process' = config'
BY DEF AppNext, UpdateConfig, UpdateConfigFails, Restart, SetAppDirectoryPath, Claim, SetupFails, Resolve,
       FinishRegisterFails, FinishConnect, FinishRegister, Commit, UnregisterService, DisconnectService, End,
       StartServer, ListenerEnds, StopServer, AskRelay, ReadStopped, RelayAnswers, ReadStaleStatus, ProbeEnds,
       Loop, Probe, Pause, Bind, HealthTick, TakeReport, StreamFails, AcceptFails, Moves,
       RemoteChanges, PortChanges, settings

LEMMA SettingsStep ==
    ASSUME SettingsType, WorldType, ConfigurationIsOne, AppNext
    PROVE  SettingsType' /\ ConfigurationIsOne'
<1>1. scenario.configs \subseteq Configs /\ 0 \in Configs /\ Damaged \notin Configs
  BY ScenarioParts, ConfigsAssumption DEF ConfigsAssumption, Damaged
<1>2. CASE UNCHANGED settings
  BY <1>2 DEF settings, SettingsType, ConfigurationIsOne
<1>3. CASE \E v \in Configs : file' = v /\ config' = v /\ process' = v
  BY <1>3 DEF SettingsType, ConfigurationIsOne
<1>4. CASE file' = Damaged /\ UNCHANGED <<config, process>>
  BY <1>4 DEF SettingsType, ConfigurationIsOne
<1>5. CASE /\ file' \in {file, Damaged} \cup scenario.configs
           /\ config' \in {Loaded(0), Loaded(config)} /\ process' = config'
  <2>1. file' \in Configs \cup {Damaged}
    BY <1>1, <1>5 DEF SettingsType
  <2>2. (file' = Damaged /\ config' \in {0, config}) \/ (file' # Damaged /\ config' = file')
    BY <1>5 DEF Loaded
  <2> QED
    BY <1>1, <1>5, <2>1, <2>2 DEF SettingsType, ConfigurationIsOne
<1> QED
  BY <1>2, <1>3, <1>4, <1>5, SettingsSteps

-----------------------------------------------------------------------------
(* Setups                                                                    *)

\* What the steps do to the callers and their claims.
LEMMA SetupSteps ==
    ASSUME AppNext
    PROVE  \/ UNCHANGED setups
           \/ caller' = [c \in Callers |-> Idle] /\ claims' = {}
           \/ \E c \in Callers, s \in Slots : Claim(c, s)
           \/ \E c \in Callers : caller[c].at \in {"resolving", "resolved"} /\ Release(c)
           \/ \E c \in Callers : Resolve(c)
BY DEF AppNext, UpdateConfig, UpdateConfigFails, Restart, SetAppDirectoryPath, SetupFails,
       FinishRegisterFails, FinishConnect, FinishRegister, Resolved, Commit, UnregisterService, DisconnectService,
       End, StartServer, ListenerEnds, StopServer, AskRelay, ReadStopped, RelayAnswers, ReadStaleStatus, ProbeEnds,
       Loop, Probe, Pause, Bind, HealthTick, TakeReport, StreamFails, AcceptFails, Moves,
       RemoteChanges, PortChanges, setups

\* A caller that stands in a setup has a slot and a pin.
LEMMA CallerParts ==
    ASSUME SetupType, NEW c \in Callers, caller[c].at \in {"resolving", "resolved"}
    PROVE  /\ caller[c] # Idle /\ caller[c].slot \in Slots /\ caller[c].pin \in Pins
           /\ caller[c] \in [at : {"resolving", "resolved"}, slot : Slots, pin : Pins]
BY DEF SetupType, Idle

\* A setup in progress is not the mark of a caller without one.
LEMMA CallerIsBusy == \A x \in [at : {"resolving", "resolved"}, slot : Slots, pin : Pins] : x # Idle
BY DEF Idle

LEMMA ClaimStep ==
    ASSUME SettingsType, SetupType, SetupInv, ConfigurationIsOne, NEW c \in Callers, NEW s \in Slots, Claim(c, s)
    PROVE  SetupType' /\ SetupInv'
<1> DEFINE x == [at |-> "resolving", slot |-> s, pin |-> Capture]
<1>1. x \in [at : {"resolving", "resolved"}, slot : Slots, pin : Pins] /\ x.slot = s /\ Together(x.pin)
  BY DEF SettingsType, ConfigurationIsOne, Capture, Pin, Pins, Together
<1>2. caller[c] = Idle /\ s \notin claims /\ claims' = claims \cup {s} /\ caller' = [caller EXCEPT ![c] = x]
  BY DEF Claim
<1> HIDE DEF x
<1>3. x # Idle
  BY <1>1, CallerIsBusy
<1>4. SetupType'
  BY <1>1, <1>2 DEF SetupType
<1>5. caller'[c] = x /\ \A d \in Callers \ {c} : caller'[d] = caller[d]
  BY <1>2 DEF SetupType
<1>6. ASSUME NEW z \in Slots
      PROVE  z \in claims' <=> \E d \in Callers : caller'[d] # Idle /\ caller'[d].slot = z
  BY <1>1, <1>2, <1>3, <1>5 DEF SetupInv
<1>7. ASSUME NEW d \in Callers, NEW e \in Callers,
             caller'[d] # Idle, caller'[e] # Idle, caller'[d].slot = caller'[e].slot
      PROVE  d = e
  <2>1. ASSUME NEW y \in Callers \ {c}, caller'[y] # Idle PROVE caller'[y].slot # s
    <3>1. caller[y] # Idle /\ caller'[y].slot = caller[y].slot
      BY <1>5, <2>1
    <3> QED
      BY <1>2, <3>1 DEF SetupInv
  <2>2. d = c <=> e = c
    BY <1>1, <1>5, <1>7, <2>1
  <2> QED
    BY <1>5, <1>7, <2>2 DEF SetupInv
<1>8. ASSUME NEW d \in Callers, caller'[d] # Idle PROVE Together(caller'[d].pin)
  BY <1>1, <1>5, <1>8 DEF SetupInv
<1> QED
  BY <1>4, <1>6, <1>7, <1>8 DEF SetupInv

LEMMA ReleaseStep ==
    ASSUME SetupType, SetupInv, NEW c \in Callers, caller[c].at \in {"resolving", "resolved"}, Release(c)
    PROVE  SetupType' /\ SetupInv'
<1>1. caller[c] # Idle /\ caller[c].slot \in Slots
  BY CallerParts
<1>2. caller' = [caller EXCEPT ![c] = Idle] /\ claims' = claims \ {caller[c].slot}
  BY DEF Release
<1>3. SetupType'
  BY <1>2 DEF SetupType
<1>4. caller'[c] = Idle /\ \A d \in Callers \ {c} : caller'[d] = caller[d]
  BY <1>2 DEF SetupType
<1>5. ASSUME NEW z \in Slots
      PROVE  z \in claims' <=> \E d \in Callers : caller'[d] # Idle /\ caller'[d].slot = z
  <2>1. ASSUME z \in claims' PROVE \E d \in Callers : caller'[d] # Idle /\ caller'[d].slot = z
    <3>1. PICK d \in Callers : caller[d] # Idle /\ caller[d].slot = z
      BY <1>2, <2>1 DEF SetupInv
    <3>2. d # c
      BY <1>2, <2>1, <3>1
    <3> QED
      BY <1>4, <3>1, <3>2
  <2>2. ASSUME NEW d \in Callers, caller'[d] # Idle, caller'[d].slot = z PROVE z \in claims'
    <3>1. d # c /\ caller[d] # Idle /\ caller[d].slot = z
      BY <1>4, <2>2
    <3>2. z \in claims /\ z # caller[c].slot
      BY <1>1, <3>1 DEF SetupInv
    <3> QED
      BY <1>2, <3>2
  <2> QED
    BY <2>1, <2>2
<1>6. ASSUME NEW d \in Callers, NEW e \in Callers,
             caller'[d] # Idle, caller'[e] # Idle, caller'[d].slot = caller'[e].slot
      PROVE  d = e
  BY <1>4, <1>6 DEF SetupInv
<1>7. ASSUME NEW d \in Callers, caller'[d] # Idle PROVE Together(caller'[d].pin)
  BY <1>4, <1>7 DEF SetupInv
<1> QED
  BY <1>3, <1>5, <1>6, <1>7 DEF SetupInv

LEMMA ResolveStep ==
    ASSUME SetupType, SetupInv, NEW c \in Callers, Resolve(c)
    PROVE  SetupType' /\ SetupInv'
<1> DEFINE x == [caller[c] EXCEPT !.at = "resolved"]
<1>1. caller[c] # Idle /\ caller[c] \in [at : {"resolving", "resolved"}, slot : Slots, pin : Pins]
  BY CallerParts DEF Resolve
<1>2. x \in [at : {"resolving", "resolved"}, slot : Slots, pin : Pins]
      /\ x.slot = caller[c].slot /\ x.pin = caller[c].pin
  BY <1>1
<1>3. caller' = [caller EXCEPT ![c] = x] /\ claims' = claims
  BY DEF Resolve
<1> HIDE DEF x
<1>4. x # Idle
  BY <1>2, CallerIsBusy
<1>5. SetupType'
  BY <1>2, <1>3 DEF SetupType
<1>6. caller'[c] = x /\ \A d \in Callers \ {c} : caller'[d] = caller[d]
  BY <1>3 DEF SetupType
<1>7. \A d \in Callers : /\ caller'[d] # Idle <=> caller[d] # Idle
                         /\ caller'[d].slot = caller[d].slot /\ caller'[d].pin = caller[d].pin
  BY <1>1, <1>2, <1>4, <1>6
<1> QED
  BY <1>3, <1>5, <1>7 DEF SetupInv

LEMMA SetupStep ==
    ASSUME SettingsType, SetupType, SetupInv, ConfigurationIsOne, AppNext
    PROVE  SetupType' /\ SetupInv'
<1>1. CASE UNCHANGED setups
  BY <1>1 DEF setups, SetupType, SetupInv
<1>2. CASE caller' = [c \in Callers |-> Idle] /\ claims' = {}
  BY <1>2 DEF SetupType, SetupInv
<1> QED
  BY <1>1, <1>2, SetupSteps, ClaimStep, ReleaseStep, ResolveStep

-----------------------------------------------------------------------------
(* Tunnels                                                                   *)

\* What the steps do to the tunnels.
LEMMA TunnelSteps ==
    ASSUME AppNext
    PROVE  \/ UNCHANGED tunnels
           \/ tunnel' = [h \in Handles |-> NoTask] /\ runtime' = [s \in Slots |-> 0] /\ listed' = {}
           \/ tunnel' = Drained /\ runtime' = [s \in Slots |-> 0] /\ listed' = {}
           \/ \E c \in Callers, h \in Handles : Resolved(c) /\ Commit(c, h)
           \/ \E c \in Callers : FinishRegisterFails(c)
           \/ \E s \in Slots : End(s)
           \/ \E h \in Handles : Loop(h) \/ StreamFails(h) \/ AcceptFails(h)
BY DEF AppNext, UpdateConfig, UpdateConfigFails, Restart, SetAppDirectoryPath, Claim, SetupFails, Resolve,
       FinishConnect, FinishRegister, UnregisterService, DisconnectService,
       StartServer, ListenerEnds, StopServer, AskRelay, ReadStopped, RelayAnswers, ReadStaleStatus, ProbeEnds,
       RemoteChanges, PortChanges, tunnels

\* A loop's step leads its tunnel, which is a client's, to a loop.
LEMMA LoopMoves ==
    ASSUME TunnelType, WorldType, NEW h \in Handles, Loop(h) \/ StreamFails(h) \/ AcceptFails(h)
    PROVE  /\ Running(h) /\ tunnel[h] \in RunningTask /\ tunnel[h].loop \in Loops
           /\ \E l \in Loops : Moves(h, l) /\ (Counted(tunnel[h].loop) => Counted(l))
<1> DEFINE k == tunnel[h].loop
<1>1. \E step \in {"probe", "pause", "bind", "listen"} : Stands(h, step)
  BY DEF Loop, Probe, Pause, Bind, HealthTick, TakeReport, StreamFails, AcceptFails
<1>2. Running(h) /\ tunnel[h] \in RunningTask /\ k \in Loops \cup {Pool} /\ k # Pool
  <2>1. Running(h) /\ k.step # "pool"
    BY <1>1 DEF Stands
  <2>2. Pool.step = "pool"
    BY AtIs DEF Pool
  <2> QED
    BY <2>1, <2>2, TaskParts DEF TunnelType, Running
<1>3. k \in Loops /\ remote \in Remotes /\ PortIsFree \in BOOLEAN
  BY <1>2 DEF WorldType, PortIsFree
<1>4. \/ \E l \in {AfterProbe(remote), AfterBind(PortIsFree), At("probe"), At("pause")} : Moves(h, l)
      \/ Moves(h, AfterHealthTick(k, remote))
      \/ k.reports < MaxReports /\ Moves(h, AfterStreamFailure(k))
      \/ k.reports > 0 /\ Moves(h, AfterReport(k, remote))
  BY DEF Loop, Probe, Pause, Bind, HealthTick, TakeReport, StreamFails, AcceptFails
<1> HIDE DEF k
<1>5. \E l \in Loops : Moves(h, l) /\ (Counted(k) => Counted(l))
  <2>1. CASE \E l \in {AfterProbe(remote), AfterBind(PortIsFree), At("probe"), At("pause")} : Moves(h, l)
    BY <2>1, <1>3, LoopSteps
  <2>2. CASE Moves(h, AfterHealthTick(k, remote))
    BY <2>2, <1>3, LoopSteps
  <2>3. CASE k.reports < MaxReports /\ Moves(h, AfterStreamFailure(k))
    BY <2>3, <1>3, LoopSteps
  <2>4. CASE k.reports > 0 /\ Moves(h, AfterReport(k, remote))
    BY <2>4, <1>3, LoopSteps
  <2> QED
    BY <1>4, <2>1, <2>2, <2>3, <2>4
<1> QED
  BY <1>2, <1>3, <1>5 DEF k

LEMMA MoveStep ==
    ASSUME TunnelType, WorldType, TunnelInv, NEW h \in Handles, Loop(h) \/ StreamFails(h) \/ AcceptFails(h)
    PROVE  TunnelType' /\ TunnelInv'
<1>1. PICK l \in Loops : Moves(h, l) /\ (Counted(tunnel[h].loop) => Counted(l))
  BY LoopMoves
<1>2. tunnel[h] # NoTask /\ tunnel[h] \in RunningTask /\ UNCHANGED <<runtime, listed>>
  BY <1>1, LoopMoves DEF Running, Moves
<1> DEFINE x == [tunnel[h] EXCEPT !.loop = l]
<1>3. tunnel' = [tunnel EXCEPT ![h] = x]
  BY <1>1 DEF Moves
<1>4. x \in RunningTask /\ x.slot = tunnel[h].slot /\ x.pin = tunnel[h].pin /\ x.loop = l
  BY <1>2 DEF RunningTask
<1> HIDE DEF x
<1>5. x \in Tasks /\ x # NoTask
  BY <1>4, TaskRuns DEF RunningTask, Tasks
<1>6. TunnelType'
  BY <1>2, <1>3, <1>5 DEF TunnelType
<1>7. tunnel'[h] = x /\ \A g \in Handles \ {h} : tunnel'[g] = tunnel[g]
  BY <1>3 DEF TunnelType
<1>8. \A g \in Handles : /\ tunnel'[g] # NoTask <=> tunnel[g] # NoTask
                         /\ tunnel'[g].slot = tunnel[g].slot /\ tunnel'[g].pin = tunnel[g].pin
                         /\ Counted(tunnel[g].loop) => Counted(tunnel'[g].loop)
  BY <1>1, <1>2, <1>4, <1>5, <1>7
<1>9. Named(tunnel, runtime)'
  <2>1. \A s \in Slots : runtime[s] # 0 => runtime[s] \in Handles
    BY DEF TunnelType
  <2> QED
    BY <1>2, <1>8, <2>1 DEF Named, TunnelInv
<1>10. Sound(tunnel)'
  BY <1>8 DEF Sound, TunnelInv
<1> QED
  BY <1>6, <1>9, <1>10 DEF TunnelInv

\* Tunnels that only go keep what is said of each of them.
LEMMA SoundLeft ==
    ASSUME NEW t, NEW u, Sound(t), \A h \in Handles : u[h] \in {t[h], NoTask}
    PROVE  Sound(u)
BY DEF Sound

LEMMA EndStep ==
    ASSUME TunnelType, TunnelInv, NEW s \in Slots,
           tunnel' = Aborted(s), runtime' = [runtime EXCEPT ![s] = 0], listed' \subseteq Slots
    PROVE  TunnelType' /\ TunnelInv'
<1>1. Aborted(s) = Cleared(tunnel, runtime, s)
  BY DEF Aborted, AbortRuntime, Cleared
<1>2. tunnel \in [Handles -> Tasks] /\ runtime \in [Slots -> {0} \cup Handles] /\ Named(tunnel, runtime)
      /\ Sound(tunnel)
  BY DEF TunnelType, TunnelInv
<1>3. /\ tunnel' \in [Handles -> Tasks] /\ runtime' \in [Slots -> {0} \cup Handles]
      /\ Named(tunnel', runtime') /\ \A h \in Handles : tunnel'[h] \in {tunnel[h], NoTask}
  <2> DEFINE u == Cleared(tunnel, runtime, s)
             q == [runtime EXCEPT ![s] = 0]
  <2>1. /\ u \in [Handles -> Tasks] /\ q \in [Slots -> {0} \cup Handles]
        /\ Named(u, q) /\ \A h \in Handles : u[h] \in {tunnel[h], NoTask}
    BY <1>2, Ending
  <2>2. tunnel' = u /\ runtime' = q
    BY <1>1
  <2> HIDE DEF u, q
  <2> QED
    BY <2>1, <2>2
<1>4. Sound(tunnel')
  BY <1>2, <1>3, SoundLeft
<1> QED
  BY <1>3, <1>4 DEF TunnelType, TunnelInv

LEMMA CommitStep ==
    ASSUME SetupType, SetupInv, TunnelType, TunnelInv, NEW c \in Callers, NEW h \in Handles, Resolved(c), Commit(c, h)
    PROVE  TunnelType' /\ TunnelInv'
<1> DEFINE s == caller[c].slot
           pin == caller[c].pin
           t == Cleared(tunnel, runtime, s)
           r == [runtime EXCEPT ![s] = 0]
           x == Task(s, pin)
<1>1. s \in Slots /\ pin \in Pins /\ Together(pin)
  BY CallerParts DEF Resolved, SetupInv
<1>2. /\ tunnel' = [t EXCEPT ![h] = x] /\ runtime' = [runtime EXCEPT ![s] = h] /\ listed' = listed \cup {s}
      /\ tunnel[h] = NoTask
  BY DEF Commit, IsNew, Free, Running, Aborted, AbortRuntime, Cleared
<1>3. tunnel \in [Handles -> Tasks] /\ runtime \in [Slots -> {0} \cup Handles] /\ Named(tunnel, runtime)
      /\ Sound(tunnel) /\ listed \subseteq Slots
  BY DEF TunnelType, TunnelInv
<1>4. x \in RunningTask /\ x.slot = s /\ x.pin = pin /\ Counted(x.loop)
  <2>1. Probing \in Loops /\ Counted(Probing) /\ Counted(Pool)
    BY AtIs, ThresholdAssumption, MaxReportsAssumption
       DEF Probing, Loops, Counted, Pool, ThresholdAssumption, MaxReportsAssumption
  <2>2. x.loop \in {Probing, Pool} /\ x = [slot |-> s, pin |-> pin, loop |-> x.loop]
    BY DEF Task
  <2> HIDE DEF x
  <2> QED
    BY <1>1, <2>1, <2>2 DEF RunningTask
<1> HIDE DEF s, pin, x
<1>5. t \in [Handles -> Tasks] /\ r \in [Slots -> {0} \cup Handles] /\ Named(t, r)
      /\ \A g \in Handles : t[g] \in {tunnel[g], NoTask}
  BY <1>1, <1>3, Ending
<1>6. Sound(t) /\ t[h] = NoTask /\ r[s] = 0 /\ runtime' = [r EXCEPT ![s] = h]
  <2>1. Sound(t) /\ t[h] = NoTask
    BY <1>2, <1>3, <1>5, SoundLeft
  <2>2. r[s] = 0 /\ [r EXCEPT ![s] = h] = [runtime EXCEPT ![s] = h]
    BY <1>1, <1>3
  <2> QED
    BY <1>2, <2>1, <2>2
<1> HIDE DEF t, r
<1>7. /\ tunnel' \in [Handles -> Tasks] /\ runtime' \in [Slots -> {0} \cup Handles] /\ Named(tunnel', runtime')
  <2> DEFINE u == [t EXCEPT ![h] = x]
             q == [r EXCEPT ![s] = h]
  <2>1. u \in [Handles -> Tasks] /\ q \in [Slots -> {0} \cup Handles] /\ Named(u, q)
    BY <1>1, <1>4, <1>5, <1>6, Starting
  <2>2. tunnel' = u /\ runtime' = q
    BY <1>2, <1>6
  <2> HIDE DEF u, q
  <2> QED
    BY <2>1, <2>2
<1>8. Sound(tunnel')
  <2>1. \A g \in Handles : tunnel'[g] = IF g = h THEN x ELSE t[g]
    BY <1>2, <1>5
  <2> QED
    BY <1>1, <1>4, <1>6, <2>1 DEF Sound
<1>9. listed' \subseteq Slots
  BY <1>1, <1>2, <1>3
<1> QED
  BY <1>7, <1>8, <1>9 DEF TunnelType, TunnelInv

LEMMA TunnelStep ==
    ASSUME SetupType, SetupInv, TunnelType, TunnelInv, WorldType, AppNext
    PROVE  TunnelType' /\ TunnelInv'
<1>0. NoTask \in Tasks /\ 0 \in {0} \cup Handles
  BY DEF Tasks
<1>1. CASE UNCHANGED tunnels
  BY <1>1 DEF tunnels, TunnelType, TunnelInv
<1>2. ASSUME tunnel' = [h \in Handles |-> NoTask], runtime' = [s \in Slots |-> 0], listed' = {}
      PROVE  TunnelType' /\ TunnelInv'
  BY <1>0, <1>2 DEF TunnelType, TunnelInv, Named, Sound
<1>3. Drained = [h \in Handles |-> NoTask]
  <2>1. ASSUME NEW h \in Handles, ~ \E s \in Slots : runtime[s] = h PROVE tunnel[h] = NoTask
    <3>1. SUFFICES ASSUME tunnel[h] # NoTask PROVE FALSE
      OBVIOUS
    <3>2. tunnel[h].slot \in Slots
      BY <3>1, TaskParts DEF TunnelType
    <3> QED
      BY <2>1, <3>1, <3>2 DEF TunnelInv, Named
  <2> QED
    BY <2>1 DEF Drained
<1>4. ASSUME NEW c \in Callers, NEW h \in Handles, Resolved(c), Commit(c, h) PROVE TunnelType' /\ TunnelInv'
  BY <1>4, CommitStep
<1>5. ASSUME NEW c \in Callers, FinishRegisterFails(c) PROVE TunnelType' /\ TunnelInv'
  <2>1. caller[c].slot \in Slots
    BY <1>5, CallerParts DEF FinishRegisterFails, Resolved
  <2>2. /\ tunnel' = Aborted(caller[c].slot) /\ runtime' = [runtime EXCEPT ![caller[c].slot] = 0]
        /\ listed' \subseteq Slots
    BY <1>5 DEF FinishRegisterFails, TunnelType
  <2> QED
    BY <2>1, <2>2, EndStep
<1>6. ASSUME NEW s \in Slots, End(s) PROVE TunnelType' /\ TunnelInv'
  <2>1. /\ tunnel' = Aborted(s) /\ runtime' = [runtime EXCEPT ![s] = 0] /\ listed' \subseteq Slots
    BY <1>6 DEF End, TunnelType
  <2> QED
    BY <2>1, EndStep
<1> QED
  BY <1>1, <1>2, <1>3, <1>4, <1>5, <1>6, TunnelSteps, MoveStep

-----------------------------------------------------------------------------
(* Statuses and their probes                                                 *)

\* What the steps do to the statuses.
LEMMA StatusSteps ==
    ASSUME AppNext
    PROVE  \/ UNCHANGED status
           \/ cache' = [s \in Slots |-> "none"] /\ refreshing' = {} /\ probes' \in {probes, [s \in Slots |-> <<>>]}
           \/ \E c \in Callers, h \in Handles : Resolved(c) /\ Commit(c, h)
           \/ \E s \in Slots : ReadStaleStatus(s)
           \/ \E s \in Slots, i \in 1 .. MaxProbes : ProbeEnds(s, i)
BY DEF AppNext, UpdateConfig, ResetCaches, UpdateConfigFails, Restart, SetAppDirectoryPath, Claim, SetupFails, Resolve,
       FinishRegisterFails, FinishConnect, FinishRegister, UnregisterService, DisconnectService, End,
       StartServer, ListenerEnds, StopServer, AskRelay, ReadStopped, RelayAnswers,
       Loop, Probe, Pause, Bind, HealthTick, TakeReport, StreamFails, AcceptFails, Moves,
       RemoteChanges, PortChanges, status

\* No probe is in flight.
LEMMA NoProbes == <<>> \in Seq(Pins) /\ Len(<<>>) = 0 /\ DOMAIN <<>> = {}
OBVIOUS

\* A probe is appended and its marker set, or both are as they were (schedule_*_refresh).
LEMMA RefreshStep ==
    ASSUME StatusType, StatusInv, WorldType, NEW s \in Slots, NEW pin \in Pins, Together(pin),
           ScheduleRefresh(s, pin), cache' \in [Slots -> Statuses]
    PROVE  StatusType' /\ StatusInv'
<1>1. CASE UNCHANGED <<refreshing, probes>>
  BY <1>1 DEF StatusType, StatusInv, MarkersInv
<1>2. CASE /\ Len(probes[s]) < scenario.probes /\ refreshing' = refreshing \cup {s}
           /\ probes' = [probes EXCEPT ![s] = Append(@, pin)]
  <2> DEFINE q == Append(probes[s], pin)
  <2>1. probes[s] \in Seq(Pins) /\ Len(probes[s]) \in Nat /\ ProbesAgree(probes) /\ MarkersInv
    BY DEF StatusType, StatusInv
  <2>2. q \in Seq(Pins) /\ Len(q) = Len(probes[s]) + 1 /\ q # <<>> /\ DOMAIN q = 1 .. Len(probes[s]) + 1
        /\ q[Len(probes[s]) + 1] = pin /\ \A i \in 1 .. Len(probes[s]) : q[i] = probes[s][i]
    BY <2>1
  <2>3. probes' = [probes EXCEPT ![s] = q]
    BY <1>2
  <2> HIDE DEF q
  <2>4. Len(q) <= MaxProbes
    BY <1>2, <2>1, <2>2, ScenarioParts, MaxProbesAssumption DEF MaxProbesAssumption
  <2>5. probes' \in [Slots -> Seq(Pins)] /\ probes'[s] = q /\ \A z \in Slots \ {s} : probes'[z] = probes[z]
    BY <2>2, <2>3 DEF StatusType
  <2>6. \A i \in DOMAIN q : Together(q[i])
    <3>1. \A i \in 1 .. Len(probes[s]) : Together(probes[s][i])
      <4>1. DOMAIN probes[s] = 1 .. Len(probes[s])
        BY <2>1
      <4> QED
        BY <2>1, <4>1 DEF ProbesAgree
    <3>2. \A i \in DOMAIN q : i = Len(probes[s]) + 1 \/ i \in 1 .. Len(probes[s])
      BY <2>1, <2>2
    <3> QED
      BY <2>2, <3>1, <3>2
  <2>7. StatusType'
    BY <1>2, <2>4, <2>5 DEF StatusType
  <2>8. ProbesAgree(probes)'
    BY <2>1, <2>5, <2>6 DEF ProbesAgree
  <2>9. MarkersInv'
    BY <1>2, <2>1, <2>2, <2>5 DEF MarkersInv, StatusType
  <2> QED
    BY <2>7, <2>8, <2>9 DEF StatusInv
<1> QED
  BY <1>1, <1>2 DEF ScheduleRefresh, ProbePin

LEMMA ProbeEndsStep ==
    ASSUME StatusType, StatusInv, NEW s \in Slots, NEW i \in 1 .. MaxProbes, ProbeEnds(s, i)
    PROVE  StatusType' /\ StatusInv'
<1> DEFINE q == RemoveAt(probes[s], i)
<1>1. probes[s] \in Seq(Pins) /\ Len(probes[s]) \in Nat /\ ProbesAgree(probes) /\ MarkersInv
      /\ Len(probes[s]) <= MaxProbes /\ MaxProbes \in Nat
  BY MaxProbesAssumption DEF StatusType, StatusInv, MaxProbesAssumption
<1>2. i \in 1 .. Len(probes[s]) /\ probes' = [probes EXCEPT ![s] = q] /\ refreshing' = refreshing \ {s}
      /\ cache' \in [Slots -> Statuses]
  <2>1. i \in 1 .. Len(probes[s]) /\ probes' = [probes EXCEPT ![s] = q] /\ refreshing' = refreshing \ {s}
    BY <1>1 DEF ProbeEnds, EndProbe
  <2>2. ProbeStatus \in Statuses /\ "failed" \in Statuses
    BY DEF ProbeStatus, Statuses
  <2>3. PICK result \in {ProbeStatus, "failed"} : cache' = [cache EXCEPT ![s] = result]
    BY DEF ProbeEnds
  <2>4. cache' \in [Slots -> Statuses]
    BY <2>2, <2>3 DEF StatusType
  <2> QED
    BY <2>1, <2>4
<1>3. q \in Seq(Pins) /\ Len(q) = Len(probes[s]) - 1
      /\ \A j \in DOMAIN q : \E k \in DOMAIN probes[s] : q[j] = probes[s][k]
  BY <1>1, <1>2, ProbesLeft
<1> HIDE DEF q
<1>4. probes' \in [Slots -> Seq(Pins)] /\ probes'[s] = q /\ \A z \in Slots \ {s} : probes'[z] = probes[z]
  BY <1>2, <1>3 DEF StatusType
<1>5. StatusType'
  <2>1. Len(q) <= MaxProbes
    BY <1>1, <1>3
  <2> QED
    BY <1>2, <1>4, <2>1 DEF StatusType
<1>6. ProbesAgree(probes)'
  BY <1>1, <1>3, <1>4 DEF ProbesAgree
<1>7. MarkersInv'
  BY <1>1, <1>2, <1>4 DEF MarkersInv, StatusType
<1> QED
  BY <1>5, <1>6, <1>7 DEF StatusInv

LEMMA StatusStep ==
    ASSUME SetupType, SetupInv, TunnelType, TunnelInv, StatusType, StatusInv, WorldType, AppNext
    PROVE  StatusType' /\ StatusInv'
<1>1. CASE UNCHANGED status
  BY <1>1 DEF status, StatusType, StatusInv, MarkersInv
<1>2. ASSUME cache' = [s \in Slots |-> "none"], refreshing' = {}, probes' \in {probes, [s \in Slots |-> <<>>]}
      PROVE  StatusType' /\ StatusInv'
  <2>1. cache' \in [Slots -> Statuses] /\ MarkersInv'
    BY <1>2 DEF Statuses, MarkersInv
  <2>2. CASE probes' = probes
    BY <1>2, <2>1, <2>2 DEF StatusType, StatusInv
  <2>3. CASE probes' = [s \in Slots |-> <<>>]
    <3>1. probes' \in [Slots -> Seq(Pins)] /\ \A s \in Slots : probes'[s] = <<>>
      BY <2>3, NoProbes
    <3>2. \A s \in Slots : Len(probes'[s]) <= MaxProbes
      BY <3>1, NoProbes, MaxProbesAssumption DEF MaxProbesAssumption
    <3>3. ProbesAgree(probes')
      BY <3>1, NoProbes DEF ProbesAgree
    <3> QED
      BY <1>2, <2>1, <3>1, <3>2, <3>3 DEF StatusType, StatusInv
  <2> QED
    BY <1>2, <2>2, <2>3
<1>3. ASSUME NEW c \in Callers, NEW h \in Handles, Resolved(c), Commit(c, h) PROVE StatusType' /\ StatusInv'
  <2>1. caller[c].slot \in Slots /\ caller[c].pin \in Pins /\ Together(caller[c].pin)
    BY <1>3, CallerParts DEF Resolved, SetupInv
  <2>2. cache' \in [Slots -> Statuses] /\ ScheduleRefresh(caller[c].slot, caller[c].pin)
    BY <1>3, <2>1 DEF Commit, StatusType, Statuses
  <2> QED
    BY <2>1, <2>2, RefreshStep
<1>4. ASSUME NEW s \in Slots, ReadStaleStatus(s) PROVE StatusType' /\ StatusInv'
  <2> DEFINE h == runtime[s]
  <2>1. h # 0 /\ Running(h)
    BY <1>4 DEF ReadStaleStatus, GetCachedStatus
  <2>2. h \in Handles /\ tunnel[h] # NoTask
    BY <2>1 DEF TunnelType, Running
  <2>3. tunnel[h].pin \in Pins /\ Together(tunnel[h].pin)
    BY <2>2, TaskParts DEF TunnelType, TunnelInv, Sound
  <2>4. cache' \in [Slots -> Statuses] /\ ScheduleRefresh(s, tunnel[h].pin)
    BY <1>4 DEF ReadStaleStatus, StatusType
  <2> HIDE DEF h
  <2> QED
    BY <2>3, <2>4, RefreshStep
<1> QED
  BY <1>1, <1>2, <1>3, <1>4, StatusSteps, ProbeEndsStep

-----------------------------------------------------------------------------
(* The embedded relay and the world                                          *)

LEMMA RelayStep ==
    ASSUME RelayType, RelayInv, WorldType, AppNext
    PROVE  RelayType' /\ RelayInv'
<1>0. /\ scenario.probes \in Nat /\ scenario.probes <= MaxProbes /\ MaxProbes \in Nat
      /\ server \in BOOLEAN /\ serving \in BOOLEAN /\ shown \in BOOLEAN /\ asking \in BOOLEAN
      /\ answers \in 0 .. MaxProbes
  BY ScenarioParts, MaxProbesAssumption DEF RelayType, MaxProbesAssumption
<1>1. /\ server' \in {server, TRUE, FALSE} /\ shown' \in {shown, TRUE, FALSE}
      /\ serving' \in {serving, TRUE, FALSE}
      /\ \/ answers' = answers /\ asking' \in {asking, FALSE}
         \/ answers' = 0 /\ asking' = FALSE
         \/ answers < scenario.probes /\ answers' = answers + 1 /\ asking' = TRUE
         \/ answers > 0 /\ answers' = answers - 1 /\ asking' = FALSE
  BY DEF AppNext, UpdateConfig, ResetCaches, UpdateConfigFails, Restart, SetAppDirectoryPath, Claim, SetupFails, Resolve,
         FinishRegisterFails, FinishConnect, FinishRegister, Commit, UnregisterService, DisconnectService, End,
         StartServer, ListenerEnds, StopServer, AskRelay, ReadStopped, RelayAnswers, ReadStaleStatus, ProbeEnds,
         Loop, Probe, Pause, Bind, HealthTick, TakeReport, StreamFails, AcceptFails, Moves,
         RemoteChanges, PortChanges, relay
<1>2. answers' \in 0 .. MaxProbes
  <2>1. \/ answers' = answers \/ answers' = 0
        \/ answers < scenario.probes /\ answers' = answers + 1
        \/ answers > 0 /\ answers' = answers - 1
    BY <1>1, Zenon
  <2>2. scenario.probes \in Nat /\ scenario.probes <= MaxProbes /\ MaxProbes \in Nat /\ answers \in 0 .. MaxProbes
    BY <1>0
  <2> QED
    BY <2>1, <2>2
<1>3. asking' \in BOOLEAN
  BY <1>0, <1>1, Zenon
<1>4. RelayInv'
  <2>1. CASE answers' = answers /\ asking' \in {asking, FALSE}
    BY <2>1, Zenon DEF RelayInv
  <2>2. CASE asking' = FALSE
    BY <2>2 DEF RelayInv
  <2>3. CASE answers' = answers + 1
    <3>1. answers' > 0
      BY <1>0, <2>3
    <3> QED
      BY <3>1 DEF RelayInv
  <2> QED
    BY <1>1, <2>1, <2>2, <2>3, Zenon
<1> QED
  BY <1>0, <1>1, <1>2, <1>3, <1>4 DEF RelayType

LEMMA WorldStep ==
    ASSUME WorldType, AppNext
    PROVE  WorldType'
<1>1. remote' \in Remotes \cup {remote} /\ foreign' \in {foreign, ~foreign} /\ scenario' = scenario
  BY DEF AppNext, UpdateConfig, UpdateConfigFails, Restart, SetAppDirectoryPath, Claim, SetupFails, Resolve,
         FinishRegisterFails, FinishConnect, FinishRegister, Commit, UnregisterService, DisconnectService, End,
         StartServer, ListenerEnds, StopServer, AskRelay, ReadStopped, RelayAnswers, ReadStaleStatus, ProbeEnds,
         Loop, Probe, Pause, Bind, HealthTick, TakeReport, StreamFails, AcceptFails, Moves,
         RemoteChanges, PortChanges, world
<1> QED
  BY <1>1 DEF WorldType

-----------------------------------------------------------------------------
(* The invariant and the theorems                                            *)

LEMMA Initially == AppInit => IInv
<1> SUFFICES ASSUME AppInit PROVE IInv
  OBVIOUS
<1>1. 0 \in Configs /\ MaxProbes \in Nat /\ "none" \in Statuses /\ NoTask \in Tasks
  BY ConfigsAssumption, MaxProbesAssumption DEF ConfigsAssumption, MaxProbesAssumption, Statuses, Tasks
<1>2. SettingsType /\ SetupType /\ TunnelType /\ RelayType
  <2>1. SettingsType
    BY <1>1 DEF AppInit, SettingsType
  <2>2. SetupType
    BY DEF AppInit, SetupType
  <2>3. TunnelType
    BY <1>1 DEF AppInit, TunnelType
  <2>4. RelayType
    <3>1. answers = 0 /\ 0 \in 0 .. MaxProbes
      BY <1>1 DEF AppInit
    <3>2. server \in BOOLEAN /\ serving \in BOOLEAN /\ shown \in BOOLEAN /\ asking \in BOOLEAN
      BY DEF AppInit
    <3> QED
      BY <3>1, <3>2 DEF RelayType
  <2> QED
    BY <2>1, <2>2, <2>3, <2>4
<1>3. WorldType
  BY DEF AppInit, WorldType, Remotes
<1>4. StatusType /\ StatusInv
  <2>1. probes \in [Slots -> Seq(Pins)] /\ \A s \in Slots : probes[s] = <<>>
    BY NoProbes DEF AppInit
  <2>2. \A s \in Slots : Len(probes[s]) <= MaxProbes
    BY <1>1, <2>1, NoProbes
  <2>3. ProbesAgree(probes)
    BY <2>1, NoProbes DEF ProbesAgree
  <2>4. MarkersInv /\ refreshing \subseteq Slots /\ cache \in [Slots -> Statuses]
    BY <1>1 DEF AppInit, MarkersInv
  <2> QED
    BY <2>1, <2>2, <2>3, <2>4 DEF StatusType, StatusInv
<1>5. ConfigurationIsOne /\ SetupInv /\ TunnelInv
  BY DEF AppInit, ConfigurationIsOne, SetupInv, TunnelInv, Named, Sound
<1>6. RelayInv
  BY DEF AppInit, RelayInv
<1> QED
  BY <1>2, <1>3, <1>4, <1>5, <1>6 DEF IInv, Types

LEMMA Inductive == IInv /\ [AppNext]_stateVars => IInv'
<1> SUFFICES ASSUME IInv, [AppNext]_stateVars PROVE IInv'
  OBVIOUS
<1>1. CASE UNCHANGED stateVars
  BY <1>1 DEF stateVars, settings, setups, tunnels, status, relay, world, IInv, Types, SettingsType, SetupType, TunnelType,
              StatusType, RelayType, WorldType, ConfigurationIsOne, SetupInv, TunnelInv, StatusInv, MarkersInv,
              RelayInv
<1>2. CASE AppNext
  <2>1. /\ SettingsType /\ SetupType /\ TunnelType /\ StatusType /\ RelayType /\ WorldType
        /\ ConfigurationIsOne /\ SetupInv /\ TunnelInv /\ StatusInv /\ RelayInv
    BY DEF IInv, Types
  <2>2. SettingsType' /\ ConfigurationIsOne'
    BY <1>2, <2>1, SettingsStep
  <2>3. SetupType' /\ SetupInv'
    BY <1>2, <2>1, SetupStep
  <2>4. TunnelType' /\ TunnelInv'
    BY <1>2, <2>1, TunnelStep
  <2>5. StatusType' /\ StatusInv'
    BY <1>2, <2>1, StatusStep
  <2>6. RelayType' /\ RelayInv' /\ WorldType'
    BY <1>2, <2>1, RelayStep, WorldStep
  <2> QED
    BY <2>2, <2>3, <2>4, <2>5, <2>6 DEF IInv, Types
<1> QED
  BY <1>1, <1>2

LEMMA InvariantHolds == AppSpec => []IInv
BY Initially, Inductive, PTL DEF AppSpec

\* Every variable of the library's state keeps its type.
THEOREM AppTypeCorrect == AppSpec => []AppTypeOK
<1>1. IInv => AppTypeOK
  BY TypesAreTypeOK DEF IInv
<1> QED
  BY <1>1, InvariantHolds, PTL

\* Whatever any number of callers, keys and failing saves do, no tunnel runs that
\* nothing can abort, and no key stays claimed by nobody (state.rs, KeyClaim).
THEOREM TunnelsCanBeStopped == AppSpec => []EveryTunnelCanBeStopped
<1>1. IInv => EveryTunnelCanBeStopped
  <2> SUFFICES ASSUME IInv PROVE EveryTunnelCanBeStopped
    OBVIOUS
  <2>1. AppTypeOK /\ SetupType /\ SetupInv /\ TunnelType /\ TunnelInv
    BY TypesAreTypeOK DEF IInv, Types
  <2>2. claims = {caller[c].slot : c \in {d \in Callers : caller[d] # Idle}}
    <3>1. \A c \in Callers : caller[c] # Idle => caller[c].slot \in Slots
      BY <2>1 DEF SetupType
    <3>2. \A s \in Slots : s \in claims <=> \E c \in Callers : caller[c] # Idle /\ caller[c].slot = s
      BY <2>1 DEF SetupInv
    <3>3. claims \subseteq Slots
      BY <2>1 DEF SetupType
    <3> QED
      BY <3>1, <3>2, <3>3
  <2>3. \A c, d \in Callers :
           caller[c] # Idle /\ caller[d] # Idle /\ caller[c].slot = caller[d].slot => c = d
    BY <2>1 DEF SetupInv
  <2>4. \A h \in Handles : Running(h) => runtime[tunnel[h].slot] = h
    BY <2>1 DEF TunnelInv, Named, Running
  <2>5. \A s \in Slots : runtime[s] # 0 => Running(runtime[s])
    BY <2>1 DEF TunnelInv, Named, Running
  <2> QED
    BY <2>1, <2>2, <2>3, <2>4, <2>5 DEF EveryTunnelCanBeStopped
<1> QED
  BY <1>1, InvariantHolds, PTL

\* No setup, tunnel or probe pairs the address of one configuration with the
\* credential of another (state.rs, register_service).
THEOREM PinsAreOfOneConfiguration == AppSpec => []EndpointAndCredentialAgree
<1>1. IInv => EndpointAndCredentialAgree
  <2> SUFFICES ASSUME IInv PROVE EndpointAndCredentialAgree
    OBVIOUS
  <2>1. \A c \in Callers : caller[c] # Idle => Together(caller[c].pin)
    BY DEF IInv, SetupInv
  <2>2. \A h \in Handles : Running(h) => Together(tunnel[h].pin)
    BY DEF IInv, TunnelInv, Sound, Running
  <2>3. \A s \in Slots : \A i \in DOMAIN probes[s] : Together(probes[s][i])
    BY DEF IInv, StatusInv, ProbesAgree
  <2> QED
    BY <2>1, <2>2, <2>3 DEF Together, EndpointAndCredentialAgree
<1> QED
  BY <1>1, InvariantHolds, PTL

\* The configuration in memory is the one the process runs with, and the file
\* holds no third one (update_config, load_config).
THEOREM OneConfiguration == AppSpec => []ConfigurationIsOne
<1>1. IInv => ConfigurationIsOne
  BY DEF IInv
<1> QED
  BY <1>1, InvariantHolds, PTL

\* A marker that keeps reads from probing a slot, or from asking the relay, has a probe
\* that is still to end, or a refresh that is still to be answered (status.rs,
\* schedule_*_refresh), whatever was reset in between.
THEOREM MarkersHaveProbes == AppSpec => []MarkedSlotIsProbed
<1>1. IInv => MarkedSlotIsProbed
  BY DEF IInv, StatusInv, MarkersInv, RelayInv, MarkedSlotIsProbed
<1> QED
  BY <1>1, InvariantHolds, PTL

\* Health checks drop a client's listener only after Threshold probes in a row
\* that failed (client/mod.rs), for every threshold.
THEOREM ListenersOutliveMisses == AppSpec => ListenerOutlivesMisses
<1>1. ASSUME IInv, NEW h \in Handles, HealthTick(h), tunnel'[h].loop.step # "listen"
      PROVE  tunnel'[h].loop.failed = Threshold
  <2> DEFINE k == tunnel[h].loop
             l == AfterHealthTick(k, remote)
  <2>1. TunnelType /\ WorldType /\ TunnelInv
    BY <1>1 DEF IInv, Types
  <2>2. /\ tunnel[h] # NoTask /\ tunnel[h] \in RunningTask /\ k \in Loops /\ k.step = "listen"
        /\ tunnel' = [tunnel EXCEPT ![h].loop = l]
    BY <1>1, <2>1, LoopMoves DEF Loop, HealthTick, Stands, Running, Moves
  <2>3. Counted(k) /\ remote \in Remotes
    BY <2>1, <2>2 DEF TunnelInv, Sound, WorldType
  <2>4. l.step # "listen" => l.failed = Threshold
    BY <2>2, <2>3, LoopSteps
  <2> HIDE DEF k, l
  <2>5. tunnel'[h] = [tunnel[h] EXCEPT !.loop = l]
    BY <2>1, <2>2 DEF TunnelType
  <2>6. tunnel'[h].loop = l
    BY <2>2, <2>5 DEF RunningTask
  <2> QED
    BY <1>1, <2>4, <2>6
<1>2. IInv /\ [AppNext]_stateVars => \A h \in Handles : HealthTick(h) /\ tunnel'[h].loop.step # "listen"
                                                  => tunnel'[h].loop.failed = Threshold
  BY <1>1
<1> QED
  BY <1>2, InvariantHolds, PTL DEF AppSpec, ListenerOutlivesMisses
=============================================================================
