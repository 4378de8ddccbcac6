------------------------------ MODULE MCRelay ------------------------------
(* Small instances of RelayManager. *)
EXTENDS RelayManager
CONSTANTS s1, s2, c1, c2
OneKey == [c \in Conns |-> "k"]
TwoKeys == [c \in Conns |-> IF c \in {s1, c1} THEN "k" ELSE "q"]
TwoNamespaces == [k \in Keys |-> IF k = "k" THEN 1 ELSE 2]
OneNamespace == [k \in Keys |-> 1]

(* A relay with nothing under way, after s1 and s2 connected and registered,  *)
(* in that order, and the connections in Left, s1 among them or not, ended:   *)
(* a state Init leads to when nothing goes wrong.                             *)
RegisteredId(s) == IF s = s1 THEN 0 ELSE 1
RegisteredInit(Left) ==
    LET Registered == {s1, s2} \ Left IN
    /\ queue = <<>> /\ deferred = {} /\ selecting = FALSE
    /\ idle = IF s1 \in Left THEN <<0>> ELSE <<>>
    /\ active = [i \in Ids |-> IF \E s \in Registered : i = RegisteredId(s)
                               THEN CHOOSE s \in Registered : i = RegisteredId(s) ELSE None]
    /\ nextId = 2 /\ nextGen = 3
    /\ registry = {[key |-> KeyOf[s], id |-> RegisteredId(s), gen |-> RegisteredId(s) + 1,
                    datagram |-> s \in Datagram] : s \in Registered}
    /\ pending = {} /\ nsCount = [n \in Namespaces |-> 0]
    /\ phase = [c \in Conns |-> IF c \in Registered THEN "live"
                                ELSE IF c \in Left THEN "closed" ELSE "new"]
    /\ cid = [c \in Conns |-> IF c \in Registered THEN RegisteredId(c) ELSE None]
    /\ inbox = [c \in Conns |-> <<>>]
    /\ gen = [s \in Servers |-> IF s \in {s1, s2} THEN RegisteredId(s) + 1 ELSE 0]
    /\ attempt = [c \in Clients |-> None]
    /\ excluded = [c \in Clients |-> {}]
    /\ peer = [c \in Clients |-> None] /\ sid = [c \in Clients |-> None]
    /\ toAck = {} /\ toDial = {} /\ dialled = {}
RegisteredSpec == RegisteredInit({}) /\ [][Next]_vars

(* Two services with a client each, or one with two servers and a client.     *)
SafetySpec == (RegisteredInit(Servers \ {s1, s2}) \/ RegisteredInit({s1, c1})) /\ [][Next]_vars
=============================================================================
