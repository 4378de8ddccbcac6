----------------------------- MODULE ControlLoop -----------------------------
(***************************************************************************)
(* The control connection of a local server, from the side that registers: *)
(* the worker that connects, registers and reconnects with a growing       *)
(* delay, the loop of a registered connection (heartbeat, suspicion, probe *)
(* of the registration, writer task), and what the relay's handler of the  *)
(* same connection does with it (lease, pong, retirement).                 *)
(*                                                                         *)
(* Time is a clock that ticks; a task that is due runs before the next     *)
(* tick.  The network delivers a frame within Delay ticks, except in a     *)
(* direction that is slow, where it takes any time.  TCP loses nothing, so *)
(* a cut connection is a slow one.  The workers of a pool share nothing    *)
(* but the credential, so one is modelled.                                 *)
(***************************************************************************)
EXTENDS Integers, FiniteSets

CONSTANTS
    Heartbeat,      \* interval of the pings
    Tolerance,      \* silence after which a registration is suspect
    Grace,          \* further silence for which failing probes are forgiven
    ProbeTimeout,   \* bound on one probe
    CurrentLease,   \* silence after which the relay ends a version-2 handler
    LegacyLease,    \* the same for version 1
    IoTimeout,      \* bound on the answer to a registration
    MinBackoff, MaxBackoff,  \* first and largest delay of a reconnect
    Delay,          \* delivery time of a direction that is not slow
    Versions,       \* protocol versions the relay may answer with
    MaxFailures,    \* bound: reconnects counted
    MaxAge,         \* bound: ages stop growing here
    MaxFrames       \* bound: frames to the local server when a request is added

ASSUME TimingAssumption ==
    /\ {Heartbeat, Tolerance, ProbeTimeout, CurrentLease, LegacyLease, IoTimeout,
        MinBackoff, MaxBackoff, MaxAge} \subseteq Nat \ {0}
    /\ {Grace, Delay, MaxFailures, MaxFrames} \subseteq Nat
    /\ Versions \subseteq {1, 2}

\* What the defaults (2 s, 6 s, 2 s, 1 s, 15 s, 660 s) satisfy for a network
\* with round trips below four seconds.
ASSUME MarginAssumption ==
    /\ ProbeTimeout < Tolerance
    /\ Heartbeat + 2 * Delay < Tolerance
    /\ Heartbeat + 2 * Delay < CurrentLease
    /\ Heartbeat + 2 * Delay < LegacyLease
    /\ MaxAge > Tolerance + Grace + Heartbeat + ProbeTimeout
    /\ MaxAge > CurrentLease /\ MaxAge > LegacyLease /\ MaxAge > IoTimeout

VARIABLES
    phase,       \* of the worker
    told,        \* last word of the status callback
    failures,    \* RetryBackoff::failures
    waited,      \* time spent registering, or waiting for the next attempt
    version,     \* of the registration
    sinceRx,     \* age of last_rx_at
    sinceTick,   \* time since the last heartbeat tick
    probe,       \* "idle", on its way, or its result; and its age
    sinceTrust,  \* history: time since the relay was last heard or vouched for
    half,        \* the loop has consumed a part of the next frame
    misaligned,  \* consumed bytes were dropped with an interrupted read
    relay,       \* the relay's handler of this connection
    relayAge,    \* time since that handler last received a message
    retired,     \* history: the handler ended for a reason of the relay's own
    toRelay, toLocal,   \* frames on their way: a kind and an age
    slow,        \* directions without a bound on delivery
    disturbed    \* history: some direction was slow during this connection

workerVars == <<phase, told, failures, waited>>
loopVars   == <<version, sinceRx, sinceTick, probe, sinceTrust>>
readVars   == <<half, misaligned>>
relayVars  == <<relay, relayAge, retired>>
netVars    == <<toRelay, toLocal>>
linkVars   == <<slow, disturbed>>
controlVars == <<workerVars, loopVars, readVars, relayVars, netVars, linkVars>>

Directions == {"toRelay", "toLocal"}
Ages       == 0 .. MaxAge
NoProbe    == [at |-> "idle", age |-> 0]
FromLocal  == {"ping", "ack"}
FromRelay  == {"registered", "refused", "pong", "request", "eof"}

ControlTypeOK ==
    /\ phase \in {"connecting", "registering", "running", "waiting"}
    /\ told \in {"none", "connected", "ReadMsg", "SendPing", "ConnectRemote", "retrying"}
    /\ failures \in Nat /\ waited \in Ages /\ version \in {1, 2}
    /\ sinceRx \in Ages /\ sinceTick \in Ages /\ sinceTrust \in Ages
    /\ probe \in [at : {"idle", "asking", "present", "missing", "failed"}, age : Ages]
    /\ half \in BOOLEAN /\ misaligned \in BOOLEAN
    /\ relay \in {"idle", "serving", "gone"} /\ relayAge \in Ages /\ retired \in BOOLEAN
    /\ toRelay \subseteq [kind : FromLocal, age : 0 .. Delay]
    /\ toLocal \subseteq [kind : FromRelay, age : 0 .. Delay]
    /\ slow \subseteq Directions /\ disturbed \in BOOLEAN

Frame(kind) == [kind |-> kind, age |-> 0]
Oldest(frames) == {f \in frames : \A g \in frames : g.age <= f.age}
AtEof == toLocal # {} /\ \A f \in toLocal : f.kind = "eof"

ControlInit ==
    /\ phase = "connecting" /\ told = "none" /\ failures = 0 /\ waited = 0
    /\ version \in Versions /\ sinceRx = 0 /\ sinceTick = 0 /\ sinceTrust = 0
    /\ probe = NoProbe /\ half = FALSE /\ misaligned = FALSE
    /\ relay = "idle" /\ relayAge = 0 /\ retired = FALSE
    /\ toRelay = {} /\ toLocal = {} /\ slow = {} /\ disturbed = FALSE

-----------------------------------------------------------------------------
(* The worker. *)

\* RetryBackoff::next_delay for the given number of failures before it.
NextDelay(n) ==
    LET delay == MinBackoff * 2 ^ (IF n < 10 THEN n ELSE 10)
    IN  IF delay < MaxBackoff THEN delay ELSE MaxBackoff

\* The connection is dropped and the worker waits for its next attempt.
Leave(status) ==
    /\ phase' = "waiting" /\ told' = status /\ waited' = 0
    /\ failures' = IF failures < MaxFailures THEN failures + 1 ELSE failures
    /\ sinceRx' = 0 /\ sinceTick' = 0 /\ sinceTrust' = 0
    /\ probe' = NoProbe /\ half' = FALSE /\ misaligned' = FALSE
    /\ relay' = "idle" /\ relayAge' = 0 /\ retired' = FALSE
    /\ toRelay' = {} /\ toLocal' = {}
    /\ UNCHANGED <<version, linkVars>>

\* The connection stands and the registration is written; the credential is
\* the one resolved before the first attempt.
Connect ==
    /\ phase = "connecting"
    /\ phase' = "registering" /\ waited' = 0 /\ disturbed' = (slow # {})
    /\ UNCHANGED <<told, failures, loopVars, readVars, relayVars, netVars, slow>>

ConnectFails == phase = "connecting" /\ Leave("ConnectRemote")

\* Any failure before the registration is answered ends the attempt without
\* an error, which the worker takes for a failed read; the delay is not reset.
RegisterFails ==
    /\ phase = "registering"
    /\ \/ waited >= IoTimeout
       \/ \E f \in toLocal : f.kind = "refused"
       \/ AtEof
       \/ slow # {}
    /\ Leave("ReadMsg")

Registered ==
    /\ phase = "registering"
    /\ \E f \in Oldest(toLocal) :
         f.kind = "registered" /\ toLocal' = toLocal \ {f}
    /\ phase' = "running" /\ told' = "connected" /\ failures' = 0
    /\ sinceRx' = 0 /\ sinceTick' = 0 /\ sinceTrust' = 0
    /\ UNCHANGED <<waited, version, probe, readVars, relayVars, toRelay, linkVars>>

Reconnect ==
    /\ phase = "waiting" /\ waited >= NextDelay(failures - 1)
    /\ phase' = "connecting" /\ told' = "retrying" /\ waited' = 0
    /\ UNCHANGED <<failures, loopVars, readVars, relayVars, netVars, linkVars>>

-----------------------------------------------------------------------------
(* The loop of a registered connection: one turn of its select. *)

\* A branch other than the read wins the turn: a read in progress is dropped
\* with the bytes it has consumed.
Interrupt ==
    /\ misaligned' = (misaligned \/ half)
    /\ half' = FALSE

ReadPart ==
    /\ phase = "running" /\ toLocal # {} /\ ~half /\ ~misaligned
    /\ half' = TRUE
    /\ UNCHANGED <<workerVars, loopVars, misaligned, relayVars, netVars, linkVars>>

\* A stream request is acknowledged, and dialled by a task of its own.
Handled(f) ==
    IF f.kind = "request" THEN toRelay \cup {Frame("ack")} ELSE toRelay

\* A whole frame is recorded before it is handled.
ReadFrame ==
    /\ phase = "running" /\ ~misaligned
    /\ \E f \in Oldest(toLocal) :
         /\ f.kind # "eof"
         /\ toLocal' = toLocal \ {f}
         /\ toRelay' = Handled(f)
    /\ sinceRx' = 0 /\ sinceTrust' = 0 /\ half' = FALSE
    /\ UNCHANGED <<workerVars, version, sinceTick, probe, misaligned, relayVars, linkVars>>

\* The end of the stream, or a frame whose beginning was dropped: its counter
\* is not the expected one.
ReadFails ==
    /\ phase = "running"
    /\ \/ toLocal # {} /\ misaligned
       \/ AtEof
       \/ slow # {}
    /\ Leave("ReadMsg")

\* Only the tick at which a registration becomes suspect starts a probe.
ProbeDue_OnlyOnce == version = 2 /\ sinceRx = Tolerance /\ probe.at = "idle"

ProbeDue == version = 2 /\ sinceRx >= Tolerance /\ probe.at = "idle"

HeartbeatTick ==
    /\ phase = "running" /\ sinceTick >= Heartbeat
    /\ sinceTick' = 0
    /\ toRelay' = toRelay \cup {Frame("ping")}
    /\ probe' = IF ProbeDue THEN [at |-> "asking", age |-> 0] ELSE probe
    /\ Interrupt
    /\ UNCHANGED <<workerVars, version, sinceRx, sinceTrust, relayVars, toLocal, linkVars>>

\* The status connection is answered from the relay's registry.  An answer
\* may be on its way for a while, or the probe fails or runs into its timeout.
ProbeAnswered ==
    /\ probe.at = "asking"
    /\ probe' = [probe EXCEPT !.at = IF relay = "serving" THEN "present" ELSE "missing"]
    /\ UNCHANGED <<workerVars, version, sinceRx, sinceTick, sinceTrust,
                   readVars, relayVars, netVars, linkVars>>

ProbeFails ==
    /\ probe.at \in {"asking", "present", "missing"}
    /\ probe' = [probe EXCEPT !.at = "failed"]
    /\ UNCHANGED <<workerVars, version, sinceRx, sinceTick, sinceTrust,
                   readVars, relayVars, netVars, linkVars>>

\* A missing registration ends the loop whatever was received meanwhile.
ProbeIgnored_NotMissing ==
    \/ probe.at = "present"
    \/ probe.at = "failed" /\ sinceRx < Tolerance + Grace

\* A result that leaves the registration in place.
ProbeIgnored ==
    \/ probe.at = "present"
    \/ probe.at = "missing" /\ sinceRx < Tolerance
    \/ probe.at = "failed" /\ sinceRx < Tolerance + Grace

ProbePasses ==
    /\ phase = "running" /\ ProbeIgnored
    /\ probe' = NoProbe
    /\ sinceTrust' = IF probe.at = "present" THEN 0 ELSE sinceTrust
    /\ Interrupt
    /\ UNCHANGED <<workerVars, version, sinceRx, sinceTick, relayVars, netVars, linkVars>>

ProbeEnds ==
    /\ phase = "running" /\ probe.at \in {"present", "missing", "failed"} /\ ~ProbeIgnored
    /\ Leave("ReadMsg")

\* The writer task gives up a write that failed, or that was stuck for the
\* timeout: either may happen while nothing gets through to the relay.
WriterFails ==
    /\ phase = "running" /\ "toRelay" \in slow
    /\ Leave("SendPing")

-----------------------------------------------------------------------------
(* The relay's handler of the connection. *)

LeaseTimeout == IF version = 2 THEN CurrentLease ELSE LegacyLease

RelayRegisters ==
    /\ phase = "registering" /\ relay = "idle"
    /\ relay' = "serving" /\ relayAge' = 0 /\ toLocal' = {Frame("registered")}
    /\ UNCHANGED <<workerVars, loopVars, readVars, retired, toRelay, linkVars>>

RelayRefuses ==
    /\ phase = "registering" /\ relay = "idle"
    /\ relay' = "gone" /\ toLocal' = {Frame("refused")}
    /\ UNCHANGED <<workerVars, loopVars, readVars, relayAge, retired, toRelay, linkVars>>

\* The relay sends back what it received.
Answered_Echo(f) == toLocal \cup {Frame(f.kind)}

\* A ping is answered; an acknowledgement goes to the manager.
Answered(f) ==
    IF f.kind = "ping" THEN toLocal \cup {Frame("pong")} ELSE toLocal

\* The relay's idle timeout is taken once and not for every read.
RelayReads_OneTimeout ==
    /\ relay = "serving"
    /\ \E f \in Oldest(toRelay) :
         /\ toRelay' = toRelay \ {f}
         /\ toLocal' = Answered(f)
    /\ UNCHANGED <<workerVars, loopVars, readVars, relayVars, linkVars>>

RelayReads ==
    /\ relay = "serving"
    /\ \E f \in Oldest(toRelay) :
         /\ toRelay' = toRelay \ {f}
         /\ toLocal' = Answered(f)
    /\ relayAge' = 0
    /\ UNCHANGED <<workerVars, loopVars, readVars, relay, retired, linkVars>>

RelayRequests ==
    /\ relay = "serving" /\ Cardinality(toLocal) < MaxFrames
    /\ toLocal' = toLocal \cup {Frame("request")}
    /\ UNCHANGED <<workerVars, loopVars, readVars, relayVars, toRelay, linkVars>>

RelayEnds(own) ==
    /\ relay = "serving" /\ relay' = "gone" /\ retired' = own
    /\ toLocal' = toLocal \cup {Frame("eof")}
    /\ UNCHANGED <<workerVars, loopVars, readVars, relayAge, toRelay, linkVars>>

LeaseExpires == relayAge >= LeaseTimeout /\ RelayEnds(FALSE)

\* The manager retires the connection, its credential ends, or the relay stops.
RelayRetires == RelayEnds(TRUE)

-----------------------------------------------------------------------------
(* The network and the clock. *)

Disturb ==
    /\ \E d \in Directions \ slow : slow' = slow \cup {d}
    /\ disturbed' = TRUE
    /\ UNCHANGED <<workerVars, loopVars, readVars, relayVars, netVars>>

Heal ==
    /\ slow # {} /\ slow' = {}
    /\ UNCHANGED <<workerVars, loopVars, readVars, relayVars, netVars, disturbed>>

Older(n) == IF n < MaxAge THEN n + 1 ELSE n
\* A frame that is late is as old as Delay.
Aged(frames) == {[f EXCEPT !.age = IF @ < Delay THEN @ + 1 ELSE @] : f \in frames}

\* Nothing is due: what has to happen at this instant has happened.
NothingDue ==
    /\ phase = "registering" => waited < IoTimeout
    /\ phase = "waiting" => waited < NextDelay(failures - 1)
    /\ phase = "running" =>
         /\ sinceTick < Heartbeat
         /\ probe.at = "idle" \/ probe.age < ProbeTimeout
    /\ relay = "serving" => relayAge < LeaseTimeout
    /\ "toRelay" \in slow \/ relay # "serving" \/ \A f \in toRelay : f.age < Delay
    /\ "toLocal" \in slow \/ \A f \in toLocal : f.age < Delay

Tick ==
    /\ NothingDue
    /\ waited' = IF phase \in {"registering", "waiting"} THEN Older(waited) ELSE waited
    /\ IF phase = "running"
       THEN /\ sinceRx' = Older(sinceRx) /\ sinceTick' = Older(sinceTick)
            /\ sinceTrust' = Older(sinceTrust)
       ELSE UNCHANGED <<sinceRx, sinceTick, sinceTrust>>
    /\ probe' = IF probe.at = "idle" THEN probe ELSE [probe EXCEPT !.age = Older(probe.age)]
    /\ relayAge' = IF relay = "serving" THEN Older(relayAge) ELSE relayAge
    /\ toRelay' = Aged(toRelay) /\ toLocal' = Aged(toLocal)
    /\ UNCHANGED <<phase, told, failures, version, readVars, relay, retired, linkVars>>

ControlNext ==
    \/ Connect \/ ConnectFails \/ RegisterFails \/ Registered \/ Reconnect
    \/ ReadPart \/ ReadFrame \/ ReadFails \/ HeartbeatTick
    \/ ProbeAnswered \/ ProbeFails \/ ProbePasses \/ ProbeEnds \/ WriterFails
    \/ RelayRegisters \/ RelayRefuses \/ RelayReads \/ RelayRequests
    \/ LeaseExpires \/ RelayRetires
    \/ Disturb \/ Heal \/ Tick

ControlSpec == ControlInit /\ [][ControlNext]_controlVars

-----------------------------------------------------------------------------
(* Properties. *)

\* A registration that is neither heard nor vouched for by a probe is given up
\* within a known time, however probes fail and whatever is lost: the wait
\* inside the grace never starts over (inner loop of run_server_side_cli).
SilenceIsBounded ==
    phase = "running" /\ version = 2
        => sinceTrust <= Tolerance + Grace + Heartbeat + ProbeTimeout

\* A registration on a network that delivers in time ends only when the relay
\* ends it or a read was interrupted within a frame: neither the relay's lease
\* nor the suspicion of the loop ever ends one that is alive.
HealthyIsKept ==
    [][phase = "running" /\ phase' # "running" => disturbed \/ misaligned \/ retired]_controlVars

\* The result of a probe ends the loop only if nothing at all was received
\* since that probe was started: traffic that resumed meanwhile wins.
VerdictIsCurrent ==
    [][ProbeEnds => sinceRx >= probe.age]_controlVars

=============================================================================
