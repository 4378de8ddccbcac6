-------------------------- MODULE ControlLoop_proofs --------------------------
(***************************************************************************)
(* Proofs about ControlLoop, for every value of the timing constants that  *)
(* satisfies TimingAssumption and MarginAssumption: types, the bound on    *)
(* silence, and that a registration on a healthy network is kept.          *)
(***************************************************************************)
EXTENDS ControlLoop, TLAPS

-----------------------------------------------------------------------------
(* Types. *)

\* What ageing does to a clock and to frames.
LEMMA OlderType ==
    ASSUME NEW n \in Ages
    PROVE  Older(n) \in Ages /\ Older(n) <= n + 1 /\ n <= Older(n)
BY TimingAssumption DEF Older, Ages

LEMMA AgedType ==
    ASSUME NEW K, NEW frames \in SUBSET [kind : K, age : 0 .. Delay]
    PROVE  Aged(frames) \in SUBSET [kind : K, age : 0 .. Delay]
BY TimingAssumption DEF Aged

LEMMA FrameType ==
    ASSUME NEW K, NEW k \in K
    PROVE  Frame(k) \in [kind : K, age : 0 .. Delay]
BY TimingAssumption DEF Frame

LEMMA IdleType ==
    /\ NoProbe \in [at : {"idle", "asking", "present", "missing", "failed"}, age : Ages]
    /\ 0 \in Ages
BY TimingAssumption DEF NoProbe, Ages

LEMMA TypeInit == ControlInit => ControlTypeOK
<1> SUFFICES ASSUME ControlInit PROVE ControlTypeOK
    OBVIOUS
<1>1. version \in {1, 2}
    BY TimingAssumption DEF ControlInit
<1>2. /\ half \in BOOLEAN /\ misaligned \in BOOLEAN /\ retired \in BOOLEAN /\ disturbed \in BOOLEAN
      /\ toRelay = {} /\ toLocal = {} /\ slow = {}
    BY DEF ControlInit
<1>3. /\ waited \in Ages /\ sinceRx \in Ages /\ sinceTick \in Ages /\ sinceTrust \in Ages
      /\ relayAge \in Ages /\ failures \in Nat
      /\ probe \in [at : {"idle", "asking", "present", "missing", "failed"}, age : Ages]
    BY IdleType DEF ControlInit
<1>4. phase = "connecting" /\ told = "none" /\ relay = "idle"
    BY DEF ControlInit
<1>5. QED
    BY <1>1, <1>2, <1>3, <1>4 DEF ControlTypeOK

LEMMA TypeLeave ==
    ASSUME ControlTypeOK, NEW s \in {"ReadMsg", "SendPing", "ConnectRemote"}, Leave(s)
    PROVE  ControlTypeOK'
<1>1. /\ half' \in BOOLEAN /\ misaligned' \in BOOLEAN /\ retired' \in BOOLEAN
      /\ disturbed' \in BOOLEAN /\ toRelay' = {} /\ toLocal' = {} /\ slow' \subseteq Directions
    BY DEF Leave, ControlTypeOK, linkVars
<1>2. /\ waited' \in Ages /\ sinceRx' \in Ages /\ sinceTick' \in Ages /\ sinceTrust' \in Ages
      /\ relayAge' \in Ages /\ version' \in {1, 2}
      /\ probe' \in [at : {"idle", "asking", "present", "missing", "failed"}, age : Ages]
    BY IdleType DEF Leave, ControlTypeOK
<1>3. failures' \in Nat
    BY DEF Leave, ControlTypeOK
<1>4. phase' = "waiting" /\ told' = s /\ relay' = "idle"
    BY DEF Leave
<1>5. QED
    BY <1>1, <1>2, <1>3, <1>4 DEF ControlTypeOK

LEMMA TypeStep == ControlTypeOK /\ [ControlNext]_controlVars => ControlTypeOK'
<1> SUFFICES ASSUME ControlTypeOK, [ControlNext]_controlVars PROVE ControlTypeOK'
    OBVIOUS
<1> USE TimingAssumption
<1>1. CASE Connect
    BY <1>1 DEF ControlTypeOK, Connect, loopVars, readVars, relayVars, netVars, Ages
<1>2. CASE ConnectFails \/ RegisterFails \/ ReadFails \/ ProbeEnds \/ WriterFails
    BY <1>2, TypeLeave DEF ConnectFails, RegisterFails, ReadFails, ProbeEnds, WriterFails
<1>3. CASE Registered
    BY <1>3 DEF ControlTypeOK, Registered, readVars, relayVars, linkVars, Ages
<1>4. CASE Reconnect
    BY <1>4 DEF ControlTypeOK, Reconnect, loopVars, readVars, relayVars, netVars, linkVars, Ages
<1>5. CASE ReadPart
    BY <1>5 DEF ControlTypeOK, ReadPart, workerVars, loopVars, relayVars, netVars, linkVars
<1>6. CASE ReadFrame
    <2>1. Frame("ack") \in [kind : FromLocal, age : 0 .. Delay]
        BY FrameType DEF FromLocal
    <2>2. toRelay' \subseteq [kind : FromLocal, age : 0 .. Delay]
        BY <1>6, <2>1 DEF ReadFrame, Handled, ControlTypeOK
    <2>3. /\ toLocal' \subseteq [kind : FromRelay, age : 0 .. Delay]
          /\ sinceRx' \in Ages /\ sinceTrust' \in Ages
        BY <1>6, IdleType DEF ControlTypeOK, ReadFrame
    <2>4. QED
        BY <1>6, <2>2, <2>3 DEF ControlTypeOK, ReadFrame, workerVars, relayVars, linkVars
<1>7. CASE HeartbeatTick
    <2>1. Frame("ping") \in [kind : FromLocal, age : 0 .. Delay]
        BY FrameType DEF FromLocal
    <2>2. toRelay' \subseteq [kind : FromLocal, age : 0 .. Delay]
        BY <1>7, <2>1 DEF HeartbeatTick, ControlTypeOK
    <2>3. probe' \in [at : {"idle", "asking", "present", "missing", "failed"}, age : Ages]
        BY <1>7 DEF HeartbeatTick, ControlTypeOK, Ages
    <2>4. sinceTick' \in Ages /\ half' \in BOOLEAN /\ misaligned' \in BOOLEAN
        BY <1>7, IdleType DEF ControlTypeOK, HeartbeatTick, Interrupt
    <2>5. QED
        BY <1>7, <2>2, <2>3, <2>4 DEF ControlTypeOK, HeartbeatTick, workerVars, relayVars, linkVars
<1>8. CASE ProbeAnswered
    BY <1>8 DEF ControlTypeOK, ProbeAnswered, workerVars, readVars, relayVars, netVars, linkVars
<1>9. CASE ProbeFails
    BY <1>9 DEF ControlTypeOK, ProbeFails, workerVars, readVars, relayVars, netVars, linkVars
<1>10. CASE ProbePasses
    <2>1. sinceTrust' \in Ages /\ half' \in BOOLEAN /\ misaligned' \in BOOLEAN
          /\ probe' \in [at : {"idle", "asking", "present", "missing", "failed"}, age : Ages]
        BY <1>10, IdleType DEF ControlTypeOK, ProbePasses, Interrupt
    <2>2. QED
        BY <1>10, <2>1 DEF ControlTypeOK, ProbePasses, workerVars, relayVars, netVars, linkVars
<1>11. CASE RelayRegisters \/ RelayRefuses
    <2>1. /\ Frame("registered") \in [kind : FromRelay, age : 0 .. Delay]
          /\ Frame("refused") \in [kind : FromRelay, age : 0 .. Delay]
        BY FrameType DEF FromRelay
    <2>2. QED
        BY <1>11, <2>1 DEF ControlTypeOK, RelayRegisters, RelayRefuses, workerVars, loopVars, readVars,
                           linkVars, Ages
<1>12. CASE RelayReads
    <2>1. Frame("pong") \in [kind : FromRelay, age : 0 .. Delay]
        BY FrameType DEF FromRelay
    <2>2. toLocal' \subseteq [kind : FromRelay, age : 0 .. Delay]
        BY <1>12, <2>1 DEF RelayReads, Answered, ControlTypeOK
    <2>3. QED
        BY <1>12, <2>2 DEF ControlTypeOK, RelayReads, workerVars, loopVars, readVars, linkVars, Ages
<1>13. CASE RelayRequests
    <2>1. Frame("request") \in [kind : FromRelay, age : 0 .. Delay]
        BY FrameType DEF FromRelay
    <2>2. QED
        BY <1>13, <2>1 DEF ControlTypeOK, RelayRequests, workerVars, loopVars, readVars, relayVars, linkVars
<1>14. CASE LeaseExpires \/ RelayRetires
    <2>1. Frame("eof") \in [kind : FromRelay, age : 0 .. Delay]
        BY FrameType DEF FromRelay
    <2>2. QED
        BY <1>14, <2>1 DEF ControlTypeOK, LeaseExpires, RelayRetires, RelayEnds, workerVars, loopVars,
                           readVars, linkVars
<1>15. CASE Disturb \/ Heal
    <2>1. slow' \subseteq Directions /\ disturbed' \in BOOLEAN
        BY <1>15 DEF ControlTypeOK, Disturb, Heal
    <2>2. UNCHANGED <<phase, told, failures, waited, version, sinceRx, sinceTick, probe, sinceTrust,
                      half, misaligned, relay, relayAge, retired, toRelay, toLocal>>
        BY <1>15 DEF Disturb, Heal, workerVars, loopVars, readVars, relayVars, netVars
    <2>3. QED
        BY <2>1, <2>2 DEF ControlTypeOK
<1>16. CASE Tick
    <2>1. waited' \in Ages /\ sinceRx' \in Ages /\ sinceTick' \in Ages /\ sinceTrust' \in Ages
          /\ relayAge' \in Ages
        BY <1>16, OlderType DEF Tick, ControlTypeOK
    <2>2. probe' \in [at : {"idle", "asking", "present", "missing", "failed"}, age : Ages]
        BY <1>16, OlderType DEF Tick, ControlTypeOK
    <2>3. /\ toRelay' \subseteq [kind : FromLocal, age : 0 .. Delay]
          /\ toLocal' \subseteq [kind : FromRelay, age : 0 .. Delay]
        BY <1>16, AgedType DEF Tick, ControlTypeOK
    <2>4. QED
        BY <1>16, <2>1, <2>2, <2>3 DEF Tick, ControlTypeOK, readVars, linkVars
<1>17. CASE UNCHANGED controlVars
    BY <1>17 DEF ControlTypeOK, controlVars, workerVars, loopVars, readVars, relayVars, netVars, linkVars
<1>18. QED
    BY <1>1, <1>2, <1>3, <1>4, <1>5, <1>6, <1>7, <1>8, <1>9, <1>10, <1>11, <1>12, <1>13, <1>14,
       <1>15, <1>16, <1>17 DEF ControlNext

\* Every reachable state of worker, relay handler and network is of its type.
THEOREM TypeCorrect == ControlSpec => []ControlTypeOK
BY TypeInit, TypeStep, PTL DEF ControlSpec

-----------------------------------------------------------------------------
(* The bound on silence. *)

\* Outside the loop nothing of it is left.
OutsideInv ==
    /\ phase # "running" =>
         /\ probe = NoProbe /\ sinceRx = 0 /\ sinceTick = 0 /\ sinceTrust = 0
         /\ toRelay = {} /\ ~misaligned
    /\ phase \in {"connecting", "waiting"} => relay = "idle" /\ toLocal = {} /\ ~retired

\* A tick is never late and a probe never outlives its timeout.
DueInv == sinceTick <= Heartbeat /\ probe.age <= ProbeTimeout

\* How long the relay has been neither heard nor vouched for, by how far the
\* next probe has come.
TrustInv ==
    phase = "running" /\ version = 2 =>
        /\ sinceTrust <= sinceRx
        /\ probe.at = "idle" => sinceTrust <= Tolerance + Grace + sinceTick
        /\ probe.at # "idle" => sinceTrust <= Tolerance + Grace + Heartbeat + probe.age

SilenceInv == ControlTypeOK /\ OutsideInv /\ DueInv /\ TrustInv

LEMMA SilenceInit == ControlInit => SilenceInv
<1> SUFFICES ASSUME ControlInit PROVE SilenceInv
    OBVIOUS
<1>1. OutsideInv /\ TrustInv
    BY DEF ControlInit, OutsideInv, TrustInv
<1>2. DueInv
    BY TimingAssumption DEF ControlInit, DueInv, NoProbe
<1>3. QED
    BY <1>1, <1>2, TypeInit DEF SilenceInv

LEMMA SilenceLeave ==
    ASSUME SilenceInv, NEW s \in {"ReadMsg", "SendPing", "ConnectRemote"}, Leave(s)
    PROVE  OutsideInv' /\ DueInv' /\ TrustInv'
<1>1. OutsideInv' /\ TrustInv'
    BY DEF Leave, OutsideInv, TrustInv
<1>2. DueInv'
    BY TimingAssumption DEF Leave, DueInv, NoProbe
<1>3. QED
    BY <1>1, <1>2

\* A step that leaves the loop's clocks and the phase alone.
LEMMA SilenceAside ==
    ASSUME SilenceInv, UNCHANGED <<phase, version, sinceRx, sinceTick, probe, sinceTrust>>
    PROVE  DueInv' /\ TrustInv'
BY DEF SilenceInv, DueInv, TrustInv

LEMMA SilenceRead == SilenceInv /\ ReadFrame => OutsideInv' /\ DueInv' /\ TrustInv'
<1> SUFFICES ASSUME SilenceInv, ReadFrame PROVE OutsideInv' /\ DueInv' /\ TrustInv'
    OBVIOUS
<1>1. OutsideInv'
    BY DEF SilenceInv, ReadFrame, OutsideInv, workerVars
<1>2. DueInv'
    BY DEF SilenceInv, ReadFrame, DueInv
<1>3. TrustInv'
    BY TimingAssumption DEF SilenceInv, ControlTypeOK, Ages, ReadFrame, TrustInv, workerVars
<1>4. QED
    BY <1>1, <1>2, <1>3

LEMMA SilenceBeat == SilenceInv /\ HeartbeatTick => OutsideInv' /\ DueInv' /\ TrustInv'
<1> SUFFICES ASSUME SilenceInv, HeartbeatTick PROVE OutsideInv' /\ DueInv' /\ TrustInv'
    OBVIOUS
<1>1. OutsideInv'
    BY DEF SilenceInv, HeartbeatTick, OutsideInv, workerVars
<1>2. DueInv'
    BY TimingAssumption DEF SilenceInv, ControlTypeOK, HeartbeatTick, DueInv
<1>3. TrustInv'
    <2>1. CASE ProbeDue
        BY <2>1, TimingAssumption DEF SilenceInv, ControlTypeOK, Ages, HeartbeatTick, ProbeDue, DueInv, TrustInv,
                                      workerVars
    <2>2. CASE ~ProbeDue
        BY <2>2, TimingAssumption DEF SilenceInv, ControlTypeOK, Ages, HeartbeatTick, ProbeDue, DueInv, TrustInv,
                                      workerVars
    <2>3. QED
        BY <2>1, <2>2
<1>4. QED
    BY <1>1, <1>2, <1>3

LEMMA SilenceProbe ==
    SilenceInv /\ (ProbeAnswered \/ ProbeFails) => OutsideInv' /\ DueInv' /\ TrustInv'
<1> SUFFICES ASSUME SilenceInv, ProbeAnswered \/ ProbeFails PROVE OutsideInv' /\ DueInv' /\ TrustInv'
    OBVIOUS
<1>1. probe.at # "idle" /\ probe'.at # "idle" /\ probe'.age = probe.age /\ phase = "running"
    BY DEF SilenceInv, ControlTypeOK, ProbeAnswered, ProbeFails, OutsideInv, NoProbe
<1>2. UNCHANGED <<phase, version, sinceRx, sinceTick, sinceTrust>>
    BY DEF ProbeAnswered, ProbeFails, workerVars
<1>3. QED
    BY <1>1, <1>2 DEF SilenceInv, OutsideInv, DueInv, TrustInv

LEMMA SilencePasses == SilenceInv /\ ProbePasses => OutsideInv' /\ DueInv' /\ TrustInv'
<1> SUFFICES ASSUME SilenceInv, ProbePasses PROVE OutsideInv' /\ DueInv' /\ TrustInv'
    OBVIOUS
<1>1. OutsideInv'
    BY DEF SilenceInv, ProbePasses, OutsideInv, workerVars
<1>2. DueInv'
    BY TimingAssumption DEF SilenceInv, ProbePasses, DueInv, NoProbe
<1>3. TrustInv'
    BY TimingAssumption DEF SilenceInv, ControlTypeOK, Ages, ProbePasses, ProbeIgnored, TrustInv, NoProbe, workerVars
<1>4. QED
    BY <1>1, <1>2, <1>3

LEMMA SilenceTick == SilenceInv /\ Tick => OutsideInv' /\ DueInv' /\ TrustInv'
<1> SUFFICES ASSUME SilenceInv, Tick PROVE OutsideInv' /\ DueInv' /\ TrustInv'
    OBVIOUS
<1>1. CASE phase # "running"
    <2>1. UNCHANGED <<phase, version, sinceRx, sinceTick, sinceTrust, probe, relay, misaligned, retired>>
        BY <1>1 DEF SilenceInv, OutsideInv, Tick, NoProbe, readVars
    <2>2. toRelay' = {} /\ (toLocal = {} => toLocal' = {})
        BY <1>1 DEF SilenceInv, OutsideInv, Tick, Aged
    <2>3. QED
        BY <1>1, <2>1, <2>2, SilenceAside DEF SilenceInv, OutsideInv
<1>2. CASE phase = "running"
    <2>1. /\ phase' = "running" /\ version' = version
          /\ sinceRx' = Older(sinceRx) /\ sinceTrust' = Older(sinceTrust)
        BY <1>2 DEF Tick
    <2>2. sinceTick' = sinceTick + 1 /\ sinceTick' <= Heartbeat
        BY <1>2, TimingAssumption, MarginAssumption
        DEF SilenceInv, ControlTypeOK, Ages, Tick, NothingDue, Older
    <2>3. IF probe.at = "idle" THEN probe' = probe
          ELSE /\ probe'.at = probe.at /\ probe'.age = probe.age + 1
               /\ probe'.age <= ProbeTimeout
        BY <1>2, TimingAssumption, MarginAssumption
        DEF SilenceInv, ControlTypeOK, Ages, Tick, NothingDue, Older
    <2>4. DueInv'
        BY <2>2, <2>3 DEF SilenceInv, DueInv
    <2>5. TrustInv'
        <3>1. /\ sinceRx \in Nat /\ sinceTrust \in Nat /\ sinceTick \in Nat /\ probe.age \in Nat
              /\ sinceTrust' \in Nat /\ sinceTrust' <= sinceTrust + 1
              /\ sinceTrust <= sinceRx => sinceTrust' <= sinceRx'
            BY <2>1, TimingAssumption DEF SilenceInv, ControlTypeOK, Ages, Older
        <3>2. probe'.at = probe.at /\ (probe.at # "idle" => probe'.age = probe.age + 1)
            BY <2>3
        <3>3. Tolerance \in Nat /\ Grace \in Nat /\ Heartbeat \in Nat
            BY TimingAssumption
        <3>4. SUFFICES ASSUME version = 2
                       PROVE  /\ sinceTrust' <= sinceRx'
                              /\ probe.at = "idle" => sinceTrust' <= Tolerance + Grace + sinceTick'
                              /\ probe.at # "idle" => sinceTrust' <= Tolerance + Grace + Heartbeat + probe'.age
            BY <2>1, <3>2 DEF TrustInv
        <3>5. QED
            BY <1>2, <2>2, <3>1, <3>2, <3>3, <3>4 DEF SilenceInv, TrustInv
    <2>6. QED
        BY <2>1, <2>4, <2>5 DEF OutsideInv
<1>3. QED
    BY <1>1, <1>2

LEMMA SilenceStep == SilenceInv /\ [ControlNext]_controlVars => SilenceInv'
<1> SUFFICES ASSUME SilenceInv, [ControlNext]_controlVars PROVE OutsideInv' /\ DueInv' /\ TrustInv'
    BY TypeStep DEF SilenceInv
<1>1. CASE Connect
    <2>1. /\ phase = "connecting" /\ phase' = "registering"
          /\ UNCHANGED <<version, sinceRx, sinceTick, probe, sinceTrust, toRelay, misaligned>>
        BY <1>1 DEF Connect, loopVars, netVars, readVars
    <2>2. QED
        BY <2>1 DEF SilenceInv, OutsideInv, DueInv, TrustInv
<1>2. CASE ConnectFails \/ RegisterFails \/ ReadFails \/ ProbeEnds \/ WriterFails
    BY <1>2, SilenceLeave DEF ConnectFails, RegisterFails, ReadFails, ProbeEnds, WriterFails
<1>3. CASE Registered
    <2>1. /\ phase = "registering" /\ phase' = "running" /\ probe' = probe
          /\ sinceRx' = 0 /\ sinceTick' = 0 /\ sinceTrust' = 0
        BY <1>3 DEF Registered
    <2>2. probe = NoProbe
        BY <2>1 DEF SilenceInv, OutsideInv
    <2>3. QED
        BY <2>1, <2>2, TimingAssumption DEF SilenceInv, OutsideInv, DueInv, TrustInv, NoProbe
<1>4. CASE Reconnect
    <2>1. /\ phase = "waiting" /\ phase' = "connecting"
          /\ UNCHANGED <<version, sinceRx, sinceTick, probe, sinceTrust, toRelay, toLocal,
                          misaligned, relay, retired>>
        BY <1>4 DEF Reconnect, loopVars, netVars, readVars, relayVars
    <2>2. QED
        BY <2>1 DEF SilenceInv, OutsideInv, DueInv, TrustInv
<1>5. CASE ReadPart
    BY <1>5, SilenceAside DEF SilenceInv, ReadPart, OutsideInv, workerVars, loopVars, relayVars, netVars
<1>6. CASE ReadFrame \/ HeartbeatTick
    BY <1>6, SilenceRead, SilenceBeat
<1>7. CASE ProbeAnswered \/ ProbeFails \/ ProbePasses
    BY <1>7, SilenceProbe, SilencePasses
<1>8. CASE RelayRegisters \/ RelayRefuses
    BY <1>8, SilenceAside DEF SilenceInv, RelayRegisters, RelayRefuses, OutsideInv, workerVars, loopVars,
                              readVars
<1>9. CASE RelayReads \/ RelayRequests \/ LeaseExpires \/ RelayRetires
    <2>1. relay = "serving" /\ UNCHANGED <<phase, version, sinceRx, sinceTick, probe, sinceTrust, misaligned>>
        BY <1>9 DEF RelayReads, RelayRequests, LeaseExpires, RelayRetires, RelayEnds, workerVars, loopVars,
                    readVars
    <2>2. toRelay = {} => toRelay' = {}
        BY <1>9 DEF RelayReads, RelayRequests, LeaseExpires, RelayRetires, RelayEnds, Oldest
    <2>3. QED
        BY <2>1, <2>2, SilenceAside DEF SilenceInv, OutsideInv
<1>10. CASE Disturb \/ Heal
    BY <1>10, SilenceAside DEF SilenceInv, Disturb, Heal, OutsideInv, workerVars, loopVars, readVars,
                               relayVars, netVars
<1>11. CASE Tick
    BY <1>11, SilenceTick
<1>12. CASE UNCHANGED controlVars
    BY <1>12, SilenceAside DEF SilenceInv, OutsideInv, controlVars, workerVars, loopVars, readVars, relayVars,
                               netVars
<1>13. QED
    BY <1>1, <1>2, <1>3, <1>4, <1>5, <1>6, <1>7, <1>8, <1>9, <1>10, <1>11, <1>12 DEF ControlNext

\* Types, due times and the age of trust, by induction.
THEOREM SilenceInvariant == ControlSpec => []SilenceInv
BY SilenceInit, SilenceStep, PTL DEF ControlSpec

\* A registration that is neither heard nor vouched for is given up within
\* Tolerance + Grace + Heartbeat + ProbeTimeout, for every choice of the four.
THEOREM SilenceIsAlwaysBounded == ControlSpec => []SilenceIsBounded
<1>1. SilenceInv => SilenceIsBounded
    BY TimingAssumption DEF SilenceInv, ControlTypeOK, Ages, DueInv, TrustInv, SilenceIsBounded
<1>2. QED
    BY <1>1, SilenceInvariant, PTL

\* A probe ends the loop only if nothing was received since it was started.
THEOREM VerdictsAreCurrent == ControlSpec => VerdictIsCurrent
<1>1. SilenceInv => [ProbeEnds => sinceRx >= probe.age]_controlVars
    BY TimingAssumption, MarginAssumption
    DEF SilenceInv, ControlTypeOK, Ages, DueInv, ProbeEnds, ProbeIgnored
<1>2. QED
    BY <1>1, SilenceInvariant, PTL DEF VerdictIsCurrent

-----------------------------------------------------------------------------
(* A healthy registration is kept. *)

Quiet == ~disturbed /\ ~retired /\ ~misaligned

LinkInv == (slow # {} => disturbed) /\ (retired => relay = "gone")

\* Until the answer to the registration is read, the handler that sent it has
\* waited no longer than the answer has been on its way.
QuietRegistering ==
    phase = "registering" /\ Quiet =>
        \/ relay = "idle" /\ toLocal = {}
        \/ relay = "gone" /\ \A f \in toLocal : f.kind # "registered"
        \/ /\ relay = "serving"
           /\ \E f \in toLocal : f.kind = "registered" /\ relayAge <= f.age
           /\ \A f \in toLocal : f.kind # "eof"

\* The relay has been silent for no longer than the next ping needs to reach it.
RelayHears ==
    IF toRelay = {} THEN relayAge <= sinceTick + Delay
    ELSE \E f \in toRelay : relayAge <= f.age + Heartbeat + Delay

\* The local server has been silent for no longer than a frame that is on its
\* way to it, or the ping that will be answered by one, or the next ping needs.
LocalHears ==
    IF toLocal # {} THEN \E f \in toLocal : sinceRx <= f.age + Delay + Heartbeat
    ELSE \/ sinceRx <= sinceTick
         \/ \E f \in toRelay : f.kind = "ping" /\ sinceRx <= f.age + Heartbeat

QuietRunning ==
    phase = "running" /\ Quiet =>
        /\ relay = "serving" /\ probe = NoProbe
        /\ \A f \in toLocal : f.kind # "eof"
        /\ RelayHears /\ LocalHears

HealthInv == SilenceInv /\ LinkInv /\ QuietRegistering /\ QuietRunning

\* A frame that is not late comes a tick closer, and no frame changes its kind.
LEMMA AgedFrame ==
    ASSUME NEW K, NEW frames \in SUBSET [kind : K, age : 0 .. Delay],
           NEW f \in frames, f.age < Delay
    PROVE  \E g \in Aged(frames) : g.kind = f.kind /\ g.age = f.age + 1
<1> DEFINE g == [f EXCEPT !.age = IF @ < Delay THEN @ + 1 ELSE @]
<1>1. g \in Aged(frames)
    BY DEF Aged
<1>2. f \in [kind : K, age : 0 .. Delay]
    OBVIOUS
<1>3. g.kind = f.kind /\ g.age = f.age + 1
    BY <1>2, TimingAssumption
<1>4. QED
    BY <1>1, <1>3

LEMMA AgedKinds ==
    ASSUME NEW K, NEW frames \in SUBSET [kind : K, age : 0 .. Delay], NEW g \in Aged(frames)
    PROVE  \E f \in frames : g.kind = f.kind
BY DEF Aged

\* What a healthy connection has: nothing is late, nothing expires, nothing is
\* suspected.
LEMMA HealthyFacts ==
    ASSUME HealthInv, phase = "running", Quiet
    PROVE  /\ slow = {} /\ relay = "serving" /\ probe = NoProbe /\ ~AtEof
           /\ relayAge < LeaseTimeout /\ ~ProbeDue
           /\ sinceTick \in Nat /\ sinceTick <= Heartbeat /\ sinceRx \in Nat /\ relayAge \in Nat
<1>1. slow = {} /\ relay = "serving" /\ probe = NoProbe
    BY DEF HealthInv, Quiet, LinkInv, QuietRunning
<1>2. ~AtEof
    BY DEF HealthInv, QuietRunning, AtEof
<1>3. /\ sinceTick \in Nat /\ sinceTick <= Heartbeat /\ sinceRx \in Nat /\ relayAge \in Nat
      /\ Delay \in Nat /\ Heartbeat \in Nat
    BY TimingAssumption DEF HealthInv, SilenceInv, ControlTypeOK, DueInv, Ages
<1>4. /\ \A f \in toRelay : f.age \in Nat /\ f.age <= Delay
      /\ \A f \in toLocal : f.age \in Nat /\ f.age <= Delay
    BY TimingAssumption DEF HealthInv, SilenceInv, ControlTypeOK
<1>5. relayAge <= Heartbeat + 2 * Delay
    <2>1. RelayHears
        BY DEF HealthInv, QuietRunning
    <2>2. QED
        BY <2>1, <1>3, <1>4 DEF RelayHears
<1>6. sinceRx <= Heartbeat + 2 * Delay
    <2>1. LocalHears
        BY DEF HealthInv, QuietRunning
    <2>2. QED
        BY <2>1, <1>3, <1>4 DEF LocalHears
<1>7. relayAge < LeaseTimeout
    BY <1>3, <1>5, TimingAssumption, MarginAssumption DEF LeaseTimeout
<1>8. ~ProbeDue
    BY <1>3, <1>6, TimingAssumption, MarginAssumption DEF ProbeDue
<1>9. QED
    BY <1>1, <1>2, <1>3, <1>7, <1>8

LEMMA HealthInit == ControlInit => HealthInv
BY SilenceInit DEF ControlInit, HealthInv, LinkInv, QuietRegistering, QuietRunning

\* A slow direction is always noted.
LEMMA LinkStep == HealthInv /\ [ControlNext]_controlVars => LinkInv'
<1> SUFFICES ASSUME HealthInv, [ControlNext]_controlVars PROVE LinkInv'
    OBVIOUS
<1> DEFINE others == \/ ConnectFails \/ RegisterFails \/ Registered \/ Reconnect \/ ReadPart \/ ReadFrame
                     \/ ReadFails \/ HeartbeatTick \/ ProbeAnswered \/ ProbeFails \/ ProbePasses
                     \/ ProbeEnds \/ WriterFails \/ RelayRegisters \/ RelayRefuses \/ RelayReads
                     \/ RelayRequests \/ LeaseExpires \/ RelayRetires \/ Tick \/ UNCHANGED controlVars
<1>1. LinkInv
    BY DEF HealthInv
<1>2. CASE Connect \/ Disturb \/ Heal
    <2>1. UNCHANGED <<relay, retired>>
        BY <1>2 DEF Connect, Disturb, Heal, relayVars
    <2>2. slow' # {} => disturbed'
        BY <1>1, <1>2 DEF LinkInv, Connect, Disturb, Heal
    <2>3. QED
        BY <1>1, <2>1, <2>2 DEF LinkInv
<1>3. CASE others
    <2>1. UNCHANGED <<slow, disturbed>>
        BY <1>3 DEF controlVars, linkVars, ConnectFails, RegisterFails, Registered, Reconnect, ReadPart,
            ReadFrame, ReadFails, HeartbeatTick, ProbeAnswered, ProbeFails, ProbePasses, ProbeEnds,
            WriterFails, RelayRegisters, RelayRefuses, RelayReads, RelayRequests, LeaseExpires,
            RelayRetires, RelayEnds, Tick, Leave
    <2>2. retired' => relay' = "gone"
        BY <1>1, <1>3 DEF LinkInv, controlVars, relayVars, ConnectFails, RegisterFails, Registered, Reconnect,
            ReadPart, ReadFrame, ReadFails, HeartbeatTick, ProbeAnswered, ProbeFails, ProbePasses, ProbeEnds,
            WriterFails, RelayRegisters, RelayRefuses, RelayReads, RelayRequests, LeaseExpires,
            RelayRetires, RelayEnds, Tick, Leave
    <2>3. QED
        BY <1>1, <2>1, <2>2 DEF LinkInv
<1>4. QED
    BY <1>2, <1>3 DEF ControlNext

\* No step ends a healthy connection, and its lease does not expire.
LEMMA HealthyStays ==
    ASSUME HealthInv, phase = "running", Quiet, ControlNext
    PROVE  phase' = "running" /\ ~LeaseExpires
<1>1. ~LeaseExpires
    <2>1. LeaseTimeout \in Nat
        BY TimingAssumption DEF LeaseTimeout
    <2>2. relayAge < LeaseTimeout /\ relayAge \in Nat
        BY HealthyFacts
    <2>3. ~(relayAge >= LeaseTimeout)
        BY <2>1, <2>2
    <2>4. QED
        BY <2>3 DEF LeaseExpires
<1>2. ~ReadFails /\ ~ProbeEnds /\ ~WriterFails
    BY HealthyFacts DEF ReadFails, ProbeEnds, WriterFails, Quiet, NoProbe
<1>3. phase' = "running"
    BY <1>2 DEF ControlNext, workerVars, Connect, ConnectFails, RegisterFails, Registered, Reconnect, ReadPart,
        ReadFrame, HeartbeatTick, ProbeAnswered, ProbeFails, ProbePasses, RelayRegisters,
        RelayRefuses, RelayReads, RelayRequests, LeaseExpires, RelayRetires, RelayEnds, Disturb, Heal, Tick
<1>4. QED
    BY <1>1, <1>3

\* Registering: the step of each actor.
LEMMA RegisteringStep ==
    ASSUME HealthInv, ControlTypeOK', ControlNext, phase' = "registering", Quiet'
    PROVE  QuietRegistering'
<1>1. CASE Connect
    <2>1. relay' = "idle" /\ toLocal' = {}
        BY <1>1 DEF HealthInv, SilenceInv, OutsideInv, Connect, relayVars, netVars
    <2>2. QED
        BY <2>1 DEF QuietRegistering
<1>2. CASE RelayRegisters
    <2>1. Frame("registered") \in toLocal' /\ toLocal' = {Frame("registered")}
          /\ Frame("registered").kind = "registered" /\ Frame("registered").age = 0
          /\ relay' = "serving" /\ relayAge' = 0
        BY <1>2 DEF RelayRegisters, Frame
    <2>2. QED
        BY <2>1 DEF QuietRegistering
<1>3. CASE RelayRefuses
    BY <1>3 DEF RelayRefuses, Frame, QuietRegistering
<1>4. CASE ~(Connect \/ RelayRegisters \/ RelayRefuses)
    <2>1. phase = "registering"
        BY <1>4 DEF ControlNext, Leave, ConnectFails, RegisterFails, Registered, Reconnect, ReadPart, ReadFrame,
            ReadFails, HeartbeatTick, ProbeAnswered, ProbeFails, ProbePasses, ProbeEnds, WriterFails,
            RelayReads, RelayRequests, LeaseExpires, RelayRetires, RelayEnds, Disturb, Heal, Tick, workerVars
    <2>2. toRelay = {} /\ probe = NoProbe
        BY <2>1 DEF HealthInv, SilenceInv, OutsideInv
    <2>3. CASE RelayRequests
        <3>1. Quiet /\ relay = "serving" /\ UNCHANGED <<relay, relayAge>>
              /\ toLocal' = toLocal \cup {Frame("request")}
            BY <2>3 DEF RelayRequests, Quiet, linkVars, relayVars, readVars
        <3>2. /\ \E f \in toLocal : f.kind = "registered" /\ relayAge <= f.age
              /\ \A f \in toLocal : f.kind # "eof"
            BY <2>1, <3>1 DEF HealthInv, QuietRegistering
        <3>3. QED
            BY <3>1, <3>2 DEF QuietRegistering, Frame
    <2>4. CASE Tick
        <3>1. Quiet /\ UNCHANGED relay /\ toLocal' = Aged(toLocal)
              /\ relayAge' = IF relay = "serving" THEN Older(relayAge) ELSE relayAge
            BY <2>4 DEF Tick, Quiet, linkVars, relayVars, readVars
        <3>2. slow = {}
            BY <3>1 DEF HealthInv, LinkInv, Quiet
        <3>3. \A f \in toLocal : f.age < Delay
            BY <2>4, <3>2 DEF Tick, NothingDue
        <3>4. toLocal \in SUBSET [kind : FromRelay, age : 0 .. Delay]
            BY DEF HealthInv, SilenceInv, ControlTypeOK
        <3>5. \A g \in toLocal' : \E f \in toLocal : g.kind = f.kind
            BY <3>1, <3>4, AgedKinds
        <3>6. CASE relay = "idle"
            BY <2>1, <3>1, <3>5, <3>6 DEF HealthInv, QuietRegistering
        <3>7. CASE relay = "gone"
            BY <2>1, <3>1, <3>5, <3>7 DEF HealthInv, QuietRegistering
        <3>8. CASE relay = "serving"
            <4>1. PICK f \in toLocal : f.kind = "registered" /\ relayAge <= f.age
                BY <2>1, <3>1, <3>8 DEF HealthInv, QuietRegistering
            <4>2. \A g \in toLocal : g.kind # "eof"
                BY <2>1, <3>1, <3>8 DEF HealthInv, QuietRegistering
            <4>3. PICK g \in toLocal' : g.kind = "registered" /\ g.age = f.age + 1
                BY <3>1, <3>3, <3>4, <4>1, AgedFrame
            <4>4. relayAge' <= relayAge + 1 /\ relayAge \in Nat /\ f.age \in Nat /\ relayAge' \in Nat
                BY <3>1, <3>4, <3>8, <4>1, OlderType, TimingAssumption
                DEF HealthInv, SilenceInv, ControlTypeOK, Ages
            <4>5. relayAge' <= g.age
                BY <4>1, <4>3, <4>4
            <4>6. QED
                BY <3>1, <3>5, <3>8, <4>2, <4>3, <4>5 DEF QuietRegistering
        <3>9. QED
            BY <3>6, <3>7, <3>8 DEF HealthInv, SilenceInv, ControlTypeOK
    <2>5. CASE LeaseExpires
        <3>1. Quiet
            BY <2>5 DEF LeaseExpires, RelayEnds, Quiet, linkVars, readVars, HealthInv, LinkInv
        <3>2. PICK f \in toLocal : relayAge <= f.age
            BY <2>1, <2>5, <3>1 DEF HealthInv, QuietRegistering, LeaseExpires, RelayEnds
        <3>3. f.age \in Nat /\ f.age <= Delay /\ relayAge \in Nat
            <4>1. f \in [kind : FromRelay, age : 0 .. Delay] /\ relayAge \in 0 .. MaxAge
                BY DEF HealthInv, SilenceInv, ControlTypeOK, Ages
            <4>2. f.age \in 0 .. Delay
                BY <4>1
            <4>3. QED
                BY <4>1, <4>2, TimingAssumption
        <3>4. relayAge < LeaseTimeout /\ LeaseTimeout \in Nat
            <4>1. Delay \in Nat /\ Heartbeat \in Nat /\ CurrentLease \in Nat /\ LegacyLease \in Nat
                BY TimingAssumption
            <4>2. Delay < LeaseTimeout /\ LeaseTimeout \in Nat
                BY <4>1, MarginAssumption DEF LeaseTimeout
            <4>3. QED
                BY <3>2, <3>3, <4>1, <4>2
        <3>5. ~(relayAge >= LeaseTimeout)
            BY <3>3, <3>4
        <3>6. QED
            BY <2>5, <3>5 DEF LeaseExpires
    <2>6. CASE RelayRetires
        BY <2>6 DEF RelayRetires, RelayEnds, Quiet
    <2>7. CASE Disturb \/ Heal
        BY <2>1, <2>7 DEF Disturb, Heal, Quiet, HealthInv, QuietRegistering, readVars, relayVars, netVars
    <2>8. QED
        BY <1>4, <2>1, <2>2, <2>3, <2>4, <2>5, <2>6, <2>7
        DEF ControlNext, Leave, ConnectFails, RegisterFails, Registered, Reconnect, ReadPart, ReadFrame,
            ReadFails, HeartbeatTick, ProbeAnswered, ProbeFails, ProbePasses, ProbeEnds, WriterFails,
            RelayReads, Oldest, NoProbe
<1>5. QED
    BY <1>1, <1>2, <1>3, <1>4

\* Running: what is on its way after each step.
LEMMA RunningTick ==
    ASSUME HealthInv, phase = "running", Quiet, Tick
    PROVE  RelayHears' /\ LocalHears' /\ \A f \in toLocal' : f.kind # "eof"
<1>1. /\ slow = {} /\ relay = "serving" /\ sinceTick \in Nat /\ sinceRx \in Nat /\ relayAge \in Nat
      /\ Delay \in Nat /\ Heartbeat \in Nat
    BY HealthyFacts, TimingAssumption
<1>2. /\ toRelay' = Aged(toRelay) /\ toLocal' = Aged(toLocal)
      /\ relayAge' \in Nat /\ relayAge' <= relayAge + 1
      /\ sinceRx' \in Nat /\ sinceRx' <= sinceRx + 1
    BY <1>1, OlderType, TimingAssumption DEF HealthInv, SilenceInv, ControlTypeOK, Tick, Ages
<1>3. sinceTick' = sinceTick + 1
    <2>1. sinceTick < Heartbeat /\ Heartbeat < MaxAge /\ MaxAge \in Nat
        BY <1>1, TimingAssumption, MarginAssumption DEF Tick, NothingDue
    <2>2. sinceTick' = Older(sinceTick)
        BY DEF Tick
    <2>3. QED
        BY <1>1, <2>1, <2>2 DEF Older
<1>4. /\ toRelay \in SUBSET [kind : FromLocal, age : 0 .. Delay]
      /\ toLocal \in SUBSET [kind : FromRelay, age : 0 .. Delay]
    BY DEF HealthInv, SilenceInv, ControlTypeOK
<1>5. (\A f \in toRelay : f.age < Delay) /\ (\A f \in toLocal : f.age < Delay)
    BY <1>1 DEF Tick, NothingDue
<1>6. /\ \A f \in toRelay : f.age \in Nat /\ \E g \in toRelay' : g.kind = f.kind /\ g.age = f.age + 1
      /\ \A f \in toLocal : f.age \in Nat /\ \E g \in toLocal' : g.kind = f.kind /\ g.age = f.age + 1
    <2>1. ASSUME NEW f \in toRelay
          PROVE  f.age \in Nat /\ \E g \in Aged(toRelay) : g.kind = f.kind /\ g.age = f.age + 1
        <3>1. f \in [kind : FromLocal, age : 0 .. Delay] /\ f.age < Delay
            BY <1>4, <1>5
        <3>2. f.age \in Nat
            BY <1>1, <3>1
        <3>3. \E g \in Aged(toRelay) : g.kind = f.kind /\ g.age = f.age + 1
            BY <1>4, <3>1, AgedFrame
        <3>4. QED
            BY <3>2, <3>3
    <2>2. ASSUME NEW f \in toLocal
          PROVE  f.age \in Nat /\ \E g \in Aged(toLocal) : g.kind = f.kind /\ g.age = f.age + 1
        <3>1. f \in [kind : FromRelay, age : 0 .. Delay] /\ f.age < Delay
            BY <1>4, <1>5
        <3>2. f.age \in Nat
            BY <1>1, <3>1
        <3>3. \E g \in Aged(toLocal) : g.kind = f.kind /\ g.age = f.age + 1
            BY <1>4, <3>1, AgedFrame
        <3>4. QED
            BY <3>2, <3>3
    <2>3. QED
        BY <1>2, <2>1, <2>2
<1>7. /\ \A g \in toRelay' : \E f \in toRelay : g.kind = f.kind
      /\ \A g \in toLocal' : \E f \in toLocal : g.kind = f.kind
    BY <1>2, <1>4, AgedKinds
<1>8. RelayHears /\ LocalHears /\ \A f \in toLocal : f.kind # "eof"
    BY DEF HealthInv, QuietRunning
<1>9. RelayHears'
    <2>1. CASE toRelay = {}
        BY <1>1, <1>2, <1>3, <1>7, <1>8, <2>1 DEF RelayHears
    <2>2. CASE toRelay # {}
        <3>1. PICK f \in toRelay : relayAge <= f.age + Heartbeat + Delay
            BY <1>8, <2>2 DEF RelayHears
        <3>2. PICK g \in toRelay' : g.age = f.age + 1
            BY <1>6
        <3>3. relayAge' <= g.age + Heartbeat + Delay
            BY <1>1, <1>2, <1>6, <3>1, <3>2
        <3>4. QED
            BY <3>2, <3>3 DEF RelayHears
    <2>3. QED
        BY <2>1, <2>2
<1>10. LocalHears'
    <2>1. CASE toLocal # {}
        <3>1. PICK f \in toLocal : sinceRx <= f.age + Delay + Heartbeat
            BY <1>8, <2>1 DEF LocalHears
        <3>2. PICK g \in toLocal' : g.age = f.age + 1
            BY <1>6
        <3>3. sinceRx' <= g.age + Delay + Heartbeat
            BY <1>1, <1>2, <1>6, <3>1, <3>2
        <3>4. QED
            BY <3>2, <3>3 DEF LocalHears
    <2>2. CASE toLocal = {} /\ sinceRx <= sinceTick
        BY <1>1, <1>2, <1>3, <1>7, <2>2 DEF LocalHears
    <2>3. CASE toLocal = {} /\ \E f \in toRelay : f.kind = "ping" /\ sinceRx <= f.age + Heartbeat
        <3>1. PICK f \in toRelay : f.kind = "ping" /\ sinceRx <= f.age + Heartbeat
            BY <2>3
        <3>2. PICK g \in toRelay' : g.kind = "ping" /\ g.age = f.age + 1
            BY <1>6, <3>1
        <3>3. sinceRx' <= g.age + Heartbeat
            BY <1>1, <1>2, <1>6, <3>1, <3>2
        <3>4. toLocal' = {}
            BY <1>7, <2>3
        <3>5. QED
            BY <3>2, <3>3, <3>4 DEF LocalHears
    <2>4. QED
        BY <1>8, <2>1, <2>2, <2>3 DEF LocalHears
<1>11. \A f \in toLocal' : f.kind # "eof"
    BY <1>7, <1>8
<1>12. QED
    BY <1>9, <1>10, <1>11

LEMMA RunningFrames ==
    ASSUME HealthInv, phase = "running", Quiet, ReadFrame \/ HeartbeatTick
    PROVE  RelayHears' /\ LocalHears' /\ \A f \in toLocal' : f.kind # "eof"
<1>1. /\ relay = "serving" /\ sinceTick \in Nat /\ sinceRx \in Nat /\ relayAge \in Nat
      /\ sinceTick <= Heartbeat /\ Delay \in Nat /\ Heartbeat \in Nat
    BY HealthyFacts, TimingAssumption
<1>2. /\ \A f \in toRelay : f.age \in Nat
      /\ \A f \in toLocal : f.age \in Nat
    BY TimingAssumption DEF HealthInv, SilenceInv, ControlTypeOK
<1>3. RelayHears /\ LocalHears /\ \A f \in toLocal : f.kind # "eof"
    BY DEF HealthInv, QuietRunning
<1>4. relayAge' = relayAge
    BY DEF ReadFrame, HeartbeatTick, relayVars
<1>5. \A k : Frame(k).kind = k /\ Frame(k).age = 0
    BY DEF Frame
<1>6. CASE ReadFrame
    <2>1. sinceRx' = 0 /\ sinceTick' = sinceTick /\ toLocal' \subseteq toLocal
          /\ toRelay' \in {toRelay, toRelay \cup {Frame("ack")}}
        BY <1>6 DEF ReadFrame, Handled
    <2>2. LocalHears'
        BY <1>1, <1>2, <2>1 DEF LocalHears
    <2>3. RelayHears'
        <3>1. CASE toRelay' = toRelay
            BY <1>3, <1>4, <2>1, <3>1 DEF RelayHears
        <3>2. CASE toRelay' = toRelay \cup {Frame("ack")} /\ toRelay = {}
            <4>1. relayAge <= Frame("ack").age + Heartbeat + Delay
                BY <1>1, <1>3, <1>5, <3>2 DEF RelayHears
            <4>2. QED
                BY <1>4, <3>2, <4>1 DEF RelayHears
        <3>3. CASE toRelay' = toRelay \cup {Frame("ack")} /\ toRelay # {}
            BY <1>3, <1>4, <3>3 DEF RelayHears
        <3>4. QED
            BY <2>1, <3>1, <3>2, <3>3
    <2>4. QED
        BY <1>3, <2>1, <2>2, <2>3
<1>7. CASE HeartbeatTick
    <2>1. /\ sinceTick' = 0 /\ sinceRx' = sinceRx /\ toLocal' = toLocal
          /\ toRelay' = toRelay \cup {Frame("ping")}
        BY <1>7 DEF HeartbeatTick
    <2>2. RelayHears'
        <3>1. CASE toRelay = {}
            <4>1. relayAge <= Frame("ping").age + Heartbeat + Delay
                BY <1>1, <1>3, <1>5, <3>1 DEF RelayHears
            <4>2. QED
                BY <1>4, <2>1, <4>1 DEF RelayHears
        <3>2. CASE toRelay # {}
            BY <1>3, <1>4, <2>1, <3>2 DEF RelayHears
        <3>3. QED
            BY <3>1, <3>2
    <2>3. LocalHears'
        <3>1. CASE toLocal # {}
            BY <1>3, <2>1, <3>1 DEF LocalHears
        <3>2. CASE toLocal = {} /\ sinceRx <= sinceTick
            <4>1. sinceRx <= Frame("ping").age + Heartbeat
                BY <1>1, <1>5, <3>2
            <4>2. QED
                BY <1>5, <2>1, <3>2, <4>1 DEF LocalHears
        <3>3. CASE toLocal = {} /\ \E f \in toRelay : f.kind = "ping" /\ sinceRx <= f.age + Heartbeat
            BY <2>1, <3>3 DEF LocalHears
        <3>4. QED
            BY <1>3, <3>1, <3>2, <3>3 DEF LocalHears
    <2>4. QED
        BY <1>3, <2>1, <2>2, <2>3
<1>8. QED
    BY <1>6, <1>7

LEMMA RunningRelay ==
    ASSUME HealthInv, phase = "running", Quiet, RelayReads \/ RelayRequests
    PROVE  RelayHears' /\ LocalHears' /\ \A f \in toLocal' : f.kind # "eof"
<1>1. /\ sinceTick \in Nat /\ sinceRx \in Nat /\ relayAge \in Nat
      /\ sinceTick <= Heartbeat /\ Delay \in Nat /\ Heartbeat \in Nat
    BY HealthyFacts, TimingAssumption
<1>2. /\ \A f \in toRelay : f.age \in Nat /\ f.age <= Delay
      /\ \A f \in toLocal : f.age \in Nat /\ f.age <= Delay
    BY TimingAssumption DEF HealthInv, SilenceInv, ControlTypeOK
<1>3. RelayHears /\ LocalHears /\ \A f \in toLocal : f.kind # "eof"
    BY DEF HealthInv, QuietRunning
<1>4. UNCHANGED <<sinceRx, sinceTick>>
    BY DEF RelayReads, RelayRequests, loopVars
<1>5. \A k : Frame(k).kind = k /\ Frame(k).age = 0
    BY DEF Frame
<1>6. toLocal = {} => sinceRx <= Delay + Heartbeat
    BY <1>1, <1>2, <1>3 DEF LocalHears
<1>7. CASE RelayReads
    <2>1. PICK f \in toRelay : toRelay' = toRelay \ {f} /\ toLocal' = Answered(f)
        BY <1>7 DEF RelayReads, Oldest
    <2>2. relayAge' = 0
        BY <1>7 DEF RelayReads
    <2>3. RelayHears'
        BY <1>1, <1>2, <1>4, <2>1, <2>2 DEF RelayHears
    <2>4. CASE f.kind = "ping"
        <3>1. toLocal' = toLocal \cup {Frame("pong")}
            BY <2>1, <2>4 DEF Answered
        <3>2. toLocal = {} => sinceRx <= Frame("pong").age + Delay + Heartbeat
            BY <1>1, <1>5, <1>6
        <3>3. LocalHears'
            BY <1>3, <1>4, <3>1, <3>2 DEF LocalHears
        <3>4. QED
            BY <1>3, <1>5, <2>3, <3>1, <3>3
    <2>5. CASE f.kind # "ping"
        <3>1. toLocal' = toLocal
            BY <2>1, <2>5 DEF Answered
        <3>2. LocalHears'
            BY <1>3, <1>4, <2>1, <2>5, <3>1 DEF LocalHears
        <3>3. QED
            BY <1>3, <2>3, <3>1, <3>2
    <2>6. QED
        BY <2>4, <2>5
<1>8. CASE RelayRequests
    <2>1. toLocal' = toLocal \cup {Frame("request")} /\ UNCHANGED <<toRelay, relayAge>>
        BY <1>8 DEF RelayRequests, relayVars
    <2>2. RelayHears'
        BY <1>3, <1>4, <2>1 DEF RelayHears
    <2>3. toLocal = {} => sinceRx <= Frame("request").age + Delay + Heartbeat
        BY <1>1, <1>5, <1>6
    <2>4. LocalHears'
        BY <1>3, <1>4, <2>1, <2>3 DEF LocalHears
    <2>5. QED
        BY <1>3, <1>5, <2>1, <2>2, <2>4
<1>9. QED
    BY <1>7, <1>8

LEMMA RunningStep ==
    ASSUME HealthInv, ControlNext, phase' = "running", Quiet'
    PROVE  QuietRunning'
<1>1. CASE Registered
    <2>1. /\ phase = "registering" /\ Quiet /\ toRelay = {} /\ probe = NoProbe
          /\ UNCHANGED <<probe, relay, relayAge, toRelay>>
        BY <1>1 DEF Registered, Quiet, readVars, relayVars, linkVars, HealthInv, SilenceInv, OutsideInv
    <2>2. PICK f \in toLocal : f.kind = "registered" /\ toLocal' = toLocal \ {f}
        BY <1>1 DEF Registered, Oldest
    <2>3. /\ relay = "serving" /\ \E g \in toLocal : relayAge <= g.age
          /\ \A g \in toLocal : g.kind # "eof"
        BY <2>1, <2>2 DEF HealthInv, QuietRegistering
    <2>4. relayAge \in Nat /\ Delay \in Nat /\ Heartbeat \in Nat
          /\ \A g \in toLocal : g.age \in Nat /\ g.age <= Delay
        BY TimingAssumption DEF HealthInv, SilenceInv, ControlTypeOK, Ages
    <2>5. sinceTick' = 0 /\ sinceRx' = 0
        BY <1>1 DEF Registered
    <2>6. RelayHears'
        BY <2>1, <2>3, <2>4, <2>5 DEF RelayHears
    <2>7. LocalHears'
        BY <2>2, <2>4, <2>5 DEF LocalHears
    <2>8. QED
        BY <2>1, <2>2, <2>3, <2>6, <2>7 DEF QuietRunning
<1>2. CASE ~Registered
    <2>1. phase = "running"
        BY <1>2 DEF ControlNext, Leave, Connect, ConnectFails, RegisterFails, Reconnect, ReadPart, ReadFrame,
            ReadFails, HeartbeatTick, ProbeAnswered, ProbeFails, ProbePasses, ProbeEnds, WriterFails,
            RelayRegisters, RelayRefuses, RelayReads, RelayRequests, LeaseExpires, RelayRetires, RelayEnds,
            Disturb, Heal, Tick, workerVars
    <2>2. SUFFICES ASSUME ~RelayRetires, ~Disturb, Quiet PROVE QuietRunning'
        <3>1. ~RelayRetires /\ ~Disturb
            BY DEF Quiet, RelayRetires, RelayEnds, Disturb
        <3>2. LeaseExpires => ~retired
            BY DEF LeaseExpires, RelayEnds, HealthInv, LinkInv
        <3>3. ~retired
            BY <2>1, <3>1, <3>2 DEF ControlNext, Leave, Connect, ConnectFails, RegisterFails, Registered, Reconnect,
                ReadPart, ReadFrame, ReadFails, HeartbeatTick, ProbeAnswered, ProbeFails, ProbePasses,
                ProbeEnds, WriterFails, RelayRegisters, RelayRefuses, RelayReads, RelayRequests,
                Heal, Tick, relayVars, Quiet
        <3>4. ~disturbed
            BY <2>1, <3>1 DEF ControlNext, Leave, Connect, ConnectFails, RegisterFails, Registered, Reconnect,
                ReadPart, ReadFrame, ReadFails, HeartbeatTick, ProbeAnswered, ProbeFails, ProbePasses,
                ProbeEnds, WriterFails, RelayRegisters, RelayRefuses, RelayReads, RelayRequests,
                LeaseExpires, RelayEnds, Heal, Tick, linkVars, Quiet
        <3>5. CASE HeartbeatTick \/ ProbePasses
            <4>1. ~misaligned
                BY <3>5 DEF HeartbeatTick, ProbePasses, Interrupt, Quiet
            <4>2. QED
                BY <3>1, <3>3, <3>4, <4>1 DEF Quiet
        <3>6. CASE ~(HeartbeatTick \/ ProbePasses)
            <4>1. ~misaligned
                BY <2>1, <3>1, <3>6 DEF ControlNext, Leave, Connect, ConnectFails, RegisterFails, Registered, Reconnect,
                    ReadPart, ReadFrame, ReadFails, ProbeAnswered, ProbeFails, ProbeEnds, WriterFails,
                    RelayRegisters, RelayRefuses, RelayReads, RelayRequests, LeaseExpires, RelayEnds, Heal,
                    Tick, readVars, Quiet
            <4>2. QED
                BY <3>1, <3>3, <3>4, <4>1 DEF Quiet
        <3>7. QED
            BY <3>5, <3>6
    <2>3. /\ relay = "serving" /\ probe = NoProbe /\ ~ProbeDue /\ ~LeaseExpires
          /\ ~(ReadFails \/ ProbeEnds \/ WriterFails)
        <3>1. ~LeaseExpires
            BY <2>1, <2>2, HealthyStays
        <3>2. relay = "serving" /\ probe = NoProbe /\ ~ProbeDue
            BY <2>1, <2>2, HealthyFacts
        <3>3. ~(ReadFails \/ ProbeEnds \/ WriterFails)
            BY DEF ReadFails, ProbeEnds, WriterFails, Leave
        <3>4. QED
            BY <3>1, <3>2, <3>3
    <2>4. CASE Tick
        <3>1. UNCHANGED <<relay, probe>>
            BY <2>3, <2>4 DEF Tick, NoProbe
        <3>2. QED
            BY <2>1, <2>2, <2>3, <2>4, <3>1, RunningTick DEF QuietRunning
    <2>5. CASE ReadFrame \/ HeartbeatTick
        <3>1. UNCHANGED <<relay, probe>>
            BY <2>3, <2>5 DEF ReadFrame, HeartbeatTick, relayVars
        <3>2. QED
            BY <2>1, <2>2, <2>3, <2>5, <3>1, RunningFrames DEF QuietRunning
    <2>6. CASE RelayReads \/ RelayRequests
        <3>1. UNCHANGED <<relay, probe>>
            BY <2>6 DEF RelayReads, RelayRequests, relayVars, loopVars
        <3>2. QED
            BY <2>1, <2>2, <2>3, <2>6, <3>1, RunningRelay DEF QuietRunning
    <2>7. CASE ReadPart \/ Heal
        <3>1. UNCHANGED <<relay, relayAge, probe, sinceRx, sinceTick, toRelay, toLocal>>
            BY <2>7 DEF ReadPart, Heal, relayVars, loopVars, netVars
        <3>2. QED
            BY <2>1, <2>2, <3>1 DEF HealthInv, QuietRunning, RelayHears, LocalHears
    <2>8. ~(ProbeAnswered \/ ProbeFails \/ ProbePasses)
        BY <2>3 DEF ProbeAnswered, ProbeFails, ProbePasses, ProbeIgnored, NoProbe
    <2>9. QED
        BY <1>2, <2>1, <2>2, <2>3, <2>4, <2>5, <2>6, <2>7, <2>8
        DEF ControlNext, Connect, ConnectFails, RegisterFails, Reconnect, RelayRegisters, RelayRefuses
<1>3. QED
    BY <1>1, <1>2

LEMMA HealthStep == HealthInv /\ [ControlNext]_controlVars => HealthInv'
<1> SUFFICES ASSUME HealthInv, [ControlNext]_controlVars PROVE HealthInv'
    OBVIOUS
<1>1. SilenceInv' /\ LinkInv'
    BY SilenceStep, LinkStep DEF HealthInv
<1>2. CASE ControlNext
    <2>1. QuietRegistering'
        BY <1>1, <1>2, RegisteringStep DEF SilenceInv, QuietRegistering
    <2>2. QuietRunning'
        BY <1>1, <1>2, RunningStep DEF QuietRunning
    <2>3. QED
        BY <1>1, <2>1, <2>2 DEF HealthInv
<1>3. CASE UNCHANGED controlVars
    <2>1. UNCHANGED <<phase, relay, relayAge, retired, probe, sinceRx, sinceTick, toRelay, toLocal,
                      misaligned, disturbed>>
        BY <1>3 DEF controlVars, workerVars, loopVars, readVars, relayVars, netVars, linkVars
    <2>2. QED
        BY <1>1, <2>1 DEF HealthInv, QuietRegistering, QuietRunning, Quiet, RelayHears, LocalHears
<1>4. QED
    BY <1>2, <1>3

\* A registration on a network that delivers in time is ended by the relay, or
\* by an interrupted read, or not at all: for every heartbeat, tolerance and
\* lease that leave a round trip of margin.
THEOREM HealthyIsAlwaysKept == ControlSpec => HealthyIsKept
<1>1. ControlSpec => []HealthInv
    BY HealthInit, HealthStep, PTL DEF ControlSpec
<1>2. HealthInv /\ [ControlNext]_controlVars =>
        [phase = "running" /\ phase' # "running" => disturbed \/ misaligned \/ retired]_controlVars
    BY HealthyStays DEF Quiet
<1>3. QED
    BY <1>1, <1>2, PTL DEF ControlSpec, HealthyIsKept
=============================================================================
