---------------------------- MODULE LocalClient ----------------------------
(* The loop of a connecting client (client/mod.rs): it probes the relay for  *)
(* its key, binds the local listener, serves it, and goes back to probing    *)
(* when the listener or the key is lost. The loop is a record and its steps  *)
(* are operators from a record to the next one: AppState runs one loop for   *)
(* every connected client.                                                   *)
(*                                                                           *)
(*   step     where the loop stands                                          *)
(*   misses   consecutive_health_failures                                    *)
(*   reports  failures of local streams not yet taken from the channel       *)
(*   failed   auxiliary: the probes that failed since the last that did not  *)
EXTENDS Integers
CONSTANTS Threshold,    \* client_health_failure_threshold
          MaxReports    \* bound: stream failures waiting in the channel
ASSUME ThresholdAssumption == Threshold \in Nat \ {0}
ASSUME MaxReportsAssumption == MaxReports \in Nat

(* What the relay says about the key: a healthy control connection, only     *)
(* unhealthy ones, no registration (or no relay), or nothing at all. A relay *)
(* that refuses the service query and lists the key counts as healthy.       *)
Remotes == {"healthy", "unhealthy", "absent", "mute"}
ProbeFinds(remote) == remote = "healthy"

Loops == [step : {"probe", "pause", "bind", "listen"}, misses : 0 .. Threshold - 1,
          reports : 0 .. MaxReports, failed : 0 .. Threshold]
Probing == [step |-> "probe", misses |-> 0, reports |-> 0, failed |-> 0]
At(step) == [Probing EXCEPT !.step = step]
Failed(l) == IF l.failed < Threshold THEN l.failed + 1 ELSE Threshold
(* Every way out of the listener's select drops the listener and sleeps.     *)
Dropped(l) == [At("pause") EXCEPT !.failed = Failed(l)]

AfterProbe(remote) == IF ProbeFinds(remote) THEN At("bind") ELSE At("pause")
AfterBind_Ends(free) == IF free THEN At("listen") ELSE At("ended")
AfterBind(free) == IF free THEN At("listen") ELSE At("pause")
AfterStreamFailure(l) == [l EXCEPT !.reports = @ + 1]
AfterSuccess(l) == [l EXCEPT !.misses = 0, !.failed = 0]

(* The health tick: the listener is kept until Threshold probes in a row     *)
(* have failed.                                                              *)
AfterHealthTick_KeepsMisses(l, remote) ==
    IF ProbeFinds(remote) THEN [l EXCEPT !.failed = 0]
    ELSE IF l.misses + 1 < Threshold THEN [l EXCEPT !.misses = @ + 1, !.failed = Failed(l)]
    ELSE Dropped(l)
AfterHealthTick(l, remote) ==
    IF ProbeFinds(remote) THEN AfterSuccess(l)
    ELSE IF l.misses + 1 < Threshold THEN [l EXCEPT !.misses = @ + 1, !.failed = Failed(l)]
    ELSE Dropped(l)

(* A reported stream failure is followed by a probe, and one failure of that *)
(* probe is enough to drop the listener.                                     *)
AfterReport(l, remote) ==
    IF ProbeFinds(remote) THEN [AfterSuccess(l) EXCEPT !.reports = @ - 1] ELSE Dropped(l)
=============================================================================
