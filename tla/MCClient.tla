------------------------------ MODULE MCClient ------------------------------
(* Small instances of AppState, whose tunnels are wholes, and of Tunnel, the *)
(* data path inside one.  They share no state: a behaviour is one or the     *)
(* other, chosen at its start, and the other part rests where it began.      *)
EXTENDS AppState, Tunnel

(* Two callers exposing a key while the settings change; one, with the relay *)
(* embedded; one caller connecting to the key while the world changes; and   *)
(* two callers doing both.                                                   *)
Service == [kind |-> "service", key |-> "k"]
Client == [kind |-> "client", key |-> "k"]
MCScenarios ==
    {[slots |-> {Service}, callers |-> {"ui", "cli"}, configs |-> {0, 1},
      remotes |-> {"healthy"}, embedded |-> FALSE, faults |-> TRUE, probes |-> 2],
     [slots |-> {Service}, callers |-> {"ui"}, configs |-> {0, 1},
      remotes |-> {"healthy"}, embedded |-> TRUE, faults |-> TRUE, probes |-> 2],
     [slots |-> {Client}, callers |-> {"ui"}, configs |-> {1},
      remotes |-> Remotes, embedded |-> FALSE, faults |-> TRUE, probes |-> 1],
     [slots |-> {Service, Client}, callers |-> {"ui", "cli"}, configs |-> {1},
      remotes |-> {"healthy"}, embedded |-> FALSE, faults |-> FALSE, probes |-> 1]}

(* The whole chain without timers, one hop with both timers, two hops with   *)
(* an encrypted link between them, and a datagram chain.                     *)
Deployment(roles, framed, datagram, tunnelIdle, halfIdle, chunks) ==
    [roles |-> roles, framed |-> framed, datagram |-> datagram,
     tunnelIdle |-> tunnelIdle, halfIdle |-> halfIdle, chunks |-> chunks]
WholeChain == Deployment(<<"client", "relay", "server">>, {}, FALSE, 0, 0, 1)
MCDeployments == {
    WholeChain,
    Deployment(<<"relay">>, {}, FALSE, 3, 2, 2),
    Deployment(<<"client", "relay">>, {1}, FALSE, 0, 0, 2),
    Deployment(<<"relay", "server">>, {0, 1, 2}, TRUE, 0, 0, 2)}

VARIABLE part
clientVars == <<part, stateVars, vars>>

MCInit ==
    /\ AppInit /\ Init
    /\ \/ part = "app" /\ conf = WholeChain
       \/ part = "tunnel" /\ scenario = CHOOSE x \in Scenarios : TRUE
MCNext ==
    \/ part = "app" /\ AppNext /\ UNCHANGED <<part, vars>>
    \/ part = "tunnel" /\ Next /\ UNCHANGED <<part, stateVars>>

(* Nothing of the embedding library is enabled where it rests.               *)
Runs(A) == part = "tunnel" /\ A
TunnelFairness ==
    /\ WF_vars(Runs(Tick))
    /\ \A h \in Hops : WF_vars(Runs(HopStep(h)))
    /\ \A d \in Dirs : WF_vars(Runs(Reading(d)))
MCSpec == MCInit /\ [][MCNext]_clientVars /\ AppFairness /\ TunnelFairness
=============================================================================
