------------------------------ MODULE MCTimers ------------------------------
(* Small instances of the three parts of the system that are about time: the *)
(* keys' timers, the control connection and the admission of changes.  They  *)
(* share no state: a behaviour is one of them, chosen at its start, and the  *)
(* other parts rest where they began.                                        *)
EXTENDS KeyTimers, ControlLoop, Admission, TLC

MCFlights == {[stamp |-> 1, root |-> 0], [stamp |-> 3, root |-> 0]}
\* The handlers are interchangeable.
MCSymmetry == Permutations(Handlers)

VARIABLE part
timersVars == <<part, vars, controlVars, admissionVars>>

MCInit ==
  /\ Init /\ ControlInit /\ AdmissionInit
  /\ part \in {"keys", "control", "admission"}
  /\ part # "control" => version = 2

\* The bounded clock of the admission stops, with all that it waits for.
AdmissionStops == time = MaxSecond /\ UNCHANGED admissionVars

MCNext ==
  \/ part = "keys" /\ Next /\ UNCHANGED <<part, controlVars, admissionVars>>
  \/ part = "control" /\ ControlNext /\ UNCHANGED <<part, vars, admissionVars>>
  \/ part = "admission" /\ (AdmissionNext \/ AdmissionStops) /\ UNCHANGED <<part, vars, controlVars>>

MCSpec == MCInit /\ [][MCNext]_timersVars
=============================================================================
