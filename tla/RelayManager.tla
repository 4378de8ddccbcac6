---------------------------- MODULE RelayManager ----------------------------
(***************************************************************************)
(* The relay server of pb-mapper (crates/pb-mapper-server): one manager    *)
(* task owns the registry of services, the table of connection senders,    *)
(* the pending subscribes and the per-namespace stream counts; every       *)
(* accepted TCP connection is a handler task that talks to the manager     *)
(* through one bounded FIFO queue and is answered through a channel of     *)
(* its own.                                                                *)
(*                                                                         *)
(* A server handler is the control connection of a local server that       *)
(* registers a service.  A client handler subscribes to a service: the     *)
(* manager asks a registered control connection for a stream, the local    *)
(* server acknowledges over its control connection and dials a new         *)
(* connection to the relay, and the manager gives that connection to the   *)
(* client handler, which then forwards bytes between the two.              *)
(*                                                                         *)
(* Simplifications, all of data or of time, none of control:               *)
(*  - a duration is a nondeterministic choice: a timeout may fire whenever *)
(*    its wait has received nothing;                                       *)
(*  - the registration vector of a service is a set: push order is         *)
(*    generation order, because each push takes a larger generation;       *)
(*  - the rate limiter may refuse any subscribe it is asked about;         *)
(*  - a registration's health is always Healthy, the only value the code   *)
(*    ever assigns, so activity tasks, which only refresh a timestamp, are *)
(*    left out, and so are the read-only status and admin tasks;           *)
(*  - the answer channels (capacity 32 and 128) never fill.                *)
(***************************************************************************)
EXTENDS Integers, Sequences, FiniteSets, Functions

CONSTANTS
    Servers,      \* control connections that local servers will open
    Clients,      \* data connections that will subscribe
    Keys,         \* namespace-scoped service keys
    Namespaces,
    KeyOf,        \* the key each connection registers or subscribes to
    NamespaceOf,  \* the namespace encoded in each scoped key
    Datagram,     \* the servers that register the UDP transport
    Legacy,       \* the servers whose local server predates generations
    Faulty,       \* the connections whose peer or credential may fail
    MaxRegister,  \* PB_MAPPER_MAX_REGISTER_CONNECTIONS_PER_SERVICE
    MaxServices,  \* PB_MAPPER_MAX_SERVICES_PER_NAMESPACE
    MaxStreams,   \* PB_MAPPER_MAX_STREAMS_PER_NAMESPACE
    QueueCap,     \* DEFAULT_CHAN_CAP, the capacity of the manager queue
    MaxConnId,    \* bound on the connection ids ever generated
    None          \* no connection

Conns == Servers \cup Clients
Ids   == 0 .. MaxConnId - 1

ASSUME ConnAssumption ==
    /\ Servers \cap Clients = {}
    /\ None \notin Conns \cup Nat \cup [server : Ids, gen : Nat]
    /\ KeyOf \in [Conns -> Keys]
    /\ NamespaceOf \in [Keys -> Namespaces]
    /\ Datagram \subseteq Servers
    /\ Legacy \subseteq Servers
    /\ Faulty \subseteq Conns
ASSUME LimitAssumption ==
    {MaxRegister, MaxServices, MaxStreams, QueueCap, MaxConnId} \subseteq Nat \ {0}

VARIABLES
    \* the manager task
    queue,      \* tasks sent to the manager, oldest first
    deferred,   \* deregistrations a guard could not send on drop, spawned as tasks
    idle,       \* idle_conn_id_list, a stack
    active,     \* active_conn_map: the handler whose sender is filed under an id
    nextId,     \* RemoteIdProvider::next_id
    nextGen,    \* next_server_generation
    registry,   \* server_conn_map
    pending,    \* pending_streams
    nsCount,    \* namespace_stream_counts
    selecting,  \* the Subcribe at the head of the queue is choosing a server
    \* the handlers
    phase,      \* where each handler stands
    cid,        \* the id each handler was accepted under
    inbox,      \* the messages waiting in each handler's channel
    gen,        \* the generation each server handler was registered with
    attempt,    \* the registration a client handler is waiting for
    excluded,   \* excluded_server_conns of each client handler
    peer, sid,  \* the server that dialled a client's stream, and that stream's id
    \* the local servers (crates/pb-mapper-client)
    toAck,      \* stream requests received and not acknowledged yet
    toDial,     \* stream requests received and not dialled yet
    dialled     \* stream connections accepted by the relay, request not read yet

managerVars == <<idle, active, nextId, nextGen, registry, pending, nsCount>>
handlerVars == <<cid, gen, attempt, excluded, peer, sid>>
localVars == <<toAck, toDial, dialled>>
vars == <<queue, deferred, selecting, managerVars, phase, inbox, handlerVars, localVars>>

-----------------------------------------------------------------------------
(* Messages *)

Request      == [srv : Servers, client : Ids, gen : Nat]
StreamConn   == [srv : Servers, client : Ids, gen : Nat, sid : Ids]
Registration == [key : Keys, id : Ids, gen : Nat, datagram : BOOLEAN]
Pending      == [client : Ids, server : Ids, gen : Nat, key : Keys]
Target       == [server : Ids, gen : Nat]

Deregistration ==
         [type : {"DeRegisterServerConn"}, key : Keys, id : Ids]
    \cup [type : {"DeRegisterClientConn"}, server : Ids \cup {None}, id : Ids]

Task == Deregistration
    \cup [type : {"Accept"}, conn : Conns]
    \cup [type : {"AcceptStream"}, req : Request]
    \cup [type : {"Register"}, conn : Servers, id : Ids]
    \cup [type : {"RetireServerConn"}, key : Keys, id : Ids]
    \cup [type : {"Subcribe"}, conn : Clients, id : Ids, excluded : SUBSET Target]
    \cup [type : {"StreamAck"}, server : Ids, client : Ids, gen : Nat]
    \cup [type : {"Stream"}, srv : Servers, sid : Ids, client : Ids, gen : Nat]

ConnTask ==
         [type : {"RegisterResp"}, gen : Nat]
    \cup [type : {"RegisterFailed", "SubcribeRetry", "Retire"}]
    \cup [type : {"StreamReq"}, client : Ids, gen : Nat]
    \cup [type : {"SubcribeResp"}, server : Ids, gen : Nat]
    \cup [type : {"SubcribeFailed"}, code : {"limit", "rate", "missing"}]
    \cup [type : {"StreamAck"}, server : Ids, gen : Nat]
    \cup [type : {"StreamResp"}, srv : Servers, sid : Ids, gen : Nat]

ServerPhases == {"new", "accepting", "accepted", "registering", "live", "closing", "closed"}
ClientPhases == {"new", "accepting", "accepted", "subscribe", "await_sub", "await_ack",
                 "await_ready", "forwarding", "closing", "closed"}

TypeOK ==
    /\ queue \in Seq(Task)
    /\ deferred \subseteq Deregistration
    /\ idle \in Seq(Ids)
    /\ active \in [Ids -> Conns \cup {None}]
    /\ nextId \in 0 .. MaxConnId
    /\ nextGen \in Nat \ {0}
    /\ registry \subseteq Registration
    /\ pending \subseteq Pending
    /\ nsCount \in [Namespaces -> Nat]
    /\ selecting \in BOOLEAN
    /\ phase \in [Conns -> ServerPhases \cup ClientPhases]
    /\ cid \in [Conns -> Ids \cup {None}]
    /\ inbox \in [Conns -> Seq(ConnTask)]
    /\ gen \in [Servers -> Nat]
    /\ attempt \in [Clients -> Target \cup {None}]
    /\ excluded \in [Clients -> SUBSET Target]
    /\ peer \in [Clients -> Servers \cup {None}]
    /\ sid \in [Clients -> Ids \cup {None}]
    /\ toAck \subseteq Request
    /\ toDial \subseteq Request
    /\ dialled \subseteq StreamConn

Init ==
    /\ queue = <<>> /\ deferred = {} /\ selecting = FALSE
    /\ idle = <<>> /\ active = [i \in Ids |-> None]
    /\ nextId = 0 /\ nextGen = 1
    /\ registry = {} /\ pending = {} /\ nsCount = [n \in Namespaces |-> 0]
    /\ phase = [c \in Conns |-> "new"]
    /\ cid = [c \in Conns |-> None]
    /\ inbox = [c \in Conns |-> <<>>]
    /\ gen = [s \in Servers |-> 0]
    /\ attempt = [c \in Clients |-> None]
    /\ excluded = [c \in Clients |-> {}]
    /\ peer = [c \in Clients |-> None] /\ sid = [c \in Clients |-> None]
    /\ toAck = {} /\ toDial = {} /\ dialled = {}

-----------------------------------------------------------------------------
(* The manager queue and the answer channels *)

\* The task being served has left the channel, so a subscribe that is being
\* served does not count against the capacity.
Room == Len(queue) < QueueCap + (IF selecting THEN 1 ELSE 0)

\* A send awaits until the queue has room.
Send(t) == Room /\ queue' = Append(queue, t)

\* A handler holds the receiving end of its channel in these phases.
Receiving(c) ==
    IF c \in Servers THEN phase[c] \in {"registering", "live"}
    ELSE phase[c] \in {"accepted", "subscribe", "await_sub", "await_ack", "await_ready"}

\* A server handler's channel is read by a task it spawns; the abort of that
\* task may take effect after the handler has gone on, so a send to a handler
\* that is closing succeeds or fails.
SendSucceeds(c) == Receiving(c) \/ c \in Servers
SendFails(c) == ~Receiving(c)

\* The channels after m was sent to c; a message nobody will read is dropped.
Post(box, c, m) == IF Receiving(c) THEN [box EXCEPT ![c] = Append(@, m)] ELSE box

HeadIs(type) == ~selecting /\ queue # <<>> /\ Head(queue).type = type
Served == queue' = Tail(queue) /\ selecting' = FALSE

-----------------------------------------------------------------------------
(* The connection table of TaskManager *)

Usable(i) == i < nextId /\ active[i] = None /\ \A r \in registry : r.id # i

\* get_conn_id: pop idle ids until one is unused, else generate one.
GetConnId(i) ==
    \/ \E n \in 1 .. Len(idle) :
          /\ Usable(idle[n]) /\ \A m \in n + 1 .. Len(idle) : ~Usable(idle[m])
          /\ i = idle[n]
          /\ idle' = SubSeq(idle, 1, n - 1)
          /\ UNCHANGED nextId
    \/ /\ \A n \in 1 .. Len(idle) : ~Usable(idle[n])
       /\ nextId < MaxConnId
       /\ i = nextId
       /\ idle' = <<>>
       /\ nextId' = nextId + 1

\* sign_up_conn_sender
SignUp(act, i, c) == IF i < nextId THEN [act EXCEPT ![i] = c] ELSE act

\* deregister_conn: its effect on the active map and on the idle stack.
DropSender(act, i) == [act EXCEPT ![i] = None]
Recycle(act, stack, i) ==
    IF act[i] # None /\ i \notin Range(stack) THEN Append(stack, i) ELSE stack

\* remove_server_conn takes away the oldest registration filed under the id.
RemoveServerConn(k, i) ==
    {r \in registry : \/ r.key # k \/ r.id # i
                      \/ \E q \in registry : q.key = k /\ q.id = i /\ q.gen < r.gen}

\* Mutant: the registration goes, its sender stays.
Unregister_KeepsSender(k, i) ==
    registry' = RemoveServerConn(k, i) /\ UNCHANGED <<idle, active, nextId, nextGen, pending, nsCount>>

\* Every path that takes a registration away deregisters its connection id too.
Unregister(k, i) ==
    /\ registry' = RemoveServerConn(k, i)
    /\ active' = DropSender(active, i)
    /\ idle' = Recycle(active, idle, i)
    /\ UNCHANGED <<nextId, nextGen, pending, nsCount>>

-----------------------------------------------------------------------------
(* Tasks of the manager, in the order they were sent *)

\* ManagerTask::Accept of a connection that will register or subscribe.
Accept ==
    /\ HeadIs("Accept")
    /\ \E i \in Ids :
          /\ GetConnId(i)
          /\ cid' = [cid EXCEPT ![Head(queue).conn] = i]
    /\ phase' = [phase EXCEPT ![Head(queue).conn] = "accepted"]
    /\ Served
    /\ UNCHANGED <<deferred, active, nextGen, registry, pending, nsCount, inbox, gen,
                   attempt, excluded, peer, sid, localVars>>

\* ManagerTask::Accept of a connection a local server dialled for a stream.
AcceptStream ==
    /\ HeadIs("AcceptStream")
    /\ \E i \in Ids :
          /\ GetConnId(i)
          /\ LET q == Head(queue).req IN
             dialled' = dialled \cup
                {[srv |-> q.srv, client |-> q.client, gen |-> q.gen, sid |-> i]}
    /\ Served
    /\ UNCHANGED <<deferred, active, nextGen, registry, pending, nsCount, phase, inbox,
                   handlerVars, toAck, toDial>>

ServicesOf(n) == {r.key : r \in {x \in registry : NamespaceOf[x.key] = n}}
EntriesOf(k)  == {r \in registry : r.key = k}

\* The first registration of a service fixes the transport of the others.
TransportMismatch(k, datagram) ==
    \E r \in EntriesOf(k) :
        /\ \A q \in EntriesOf(k) : r.gen <= q.gen
        /\ r.datagram # datagram

RegisterRefused(k, datagram) ==
    \/ TransportMismatch(k, datagram)
    \/ EntriesOf(k) # {} /\ Cardinality(EntriesOf(k)) >= MaxRegister
    \/ EntriesOf(k) = {} /\ Cardinality(ServicesOf(NamespaceOf[k])) >= MaxServices

\* ManagerTask::Register, refused.
RegisterFail ==
    /\ HeadIs("Register")
    /\ LET s == Head(queue).conn IN
       /\ RegisterRefused(KeyOf[s], s \in Datagram)
       /\ inbox' = Post(inbox, s, [type |-> "RegisterFailed"])
    /\ Served
    /\ UNCHANGED <<deferred, managerVars, phase, handlerVars, localVars>>

\* ManagerTask::Register, accepted: the sender and the registration are filed
\* before the answer is sent, and stay when nobody is left to read it.
Register ==
    /\ HeadIs("Register")
    /\ LET s == Head(queue).conn
           i == Head(queue).id
       IN /\ ~RegisterRefused(KeyOf[s], s \in Datagram)
          /\ active' = SignUp(active, i, s)
          /\ registry' = registry \cup {[key |-> KeyOf[s], id |-> i, gen |-> nextGen,
                                         datagram |-> s \in Datagram]}
          /\ inbox' = Post(inbox, s, [type |-> "RegisterResp", gen |-> nextGen])
          /\ nextGen' = nextGen + 1
    /\ Served
    /\ UNCHANGED <<deferred, idle, nextId, pending, nsCount, phase, handlerVars, localVars>>

\* ManagerTask::DeRegisterServerConn
DeRegisterServerConn ==
    /\ HeadIs("DeRegisterServerConn")
    /\ Unregister(Head(queue).key, Head(queue).id)
    /\ Served
    /\ UNCHANGED <<deferred, phase, inbox, handlerVars, localVars>>

\* ManagerTask::RetireServerConn: whoever's sender is filed under the id is
\* told to close.
RetireServerConn ==
    /\ HeadIs("RetireServerConn")
    /\ LET t == Head(queue) IN
       /\ Unregister(t.key, t.id)
       /\ inbox' = IF active[t.id] = None THEN inbox
                   ELSE Post(inbox, active[t.id], [type |-> "Retire"])
    /\ Served
    /\ UNCHANGED <<deferred, phase, handlerVars, localVars>>

PendingOf(i)  == {p \in pending : p.client = i}
SlotsOf(n)    == {p \in pending : NamespaceOf[p.key] = n}
CountDown(n)  == [nsCount EXCEPT ![n] = IF @ > 0 THEN @ - 1 ELSE 0]

\* ManagerTask::DeRegisterClientConn: the pending slot goes, then the id of the
\* stream connection, then the client's.
DeRegisterClientConn ==
    /\ HeadIs("DeRegisterClientConn")
    /\ LET t    == Head(queue)
           act  == IF t.server = None THEN active ELSE DropSender(active, t.server)
           free == IF t.server = None THEN idle ELSE Recycle(active, idle, t.server)
       IN /\ pending' = pending \ PendingOf(t.id)
          /\ \/ \E p \in PendingOf(t.id) : nsCount' = CountDown(NamespaceOf[p.key])
             \/ PendingOf(t.id) = {} /\ UNCHANGED nsCount
          /\ active' = DropSender(act, t.id)
          /\ idle' = Recycle(act, free, t.id)
    /\ Served
    /\ UNCHANGED <<deferred, nextId, nextGen, registry, phase, inbox, handlerVars, localVars>>

\* ManagerTask::StreamAck and ManagerTask::Stream reach the handler whose
\* sender is filed under the client's id, if the pending subscribe matches.
ToClient(i, m) ==
    inbox' = IF active[i] = None THEN inbox ELSE Post(inbox, active[i], m)

StreamAck ==
    /\ HeadIs("StreamAck")
    /\ LET t == Head(queue) IN
       IF \E p \in PendingOf(t.client) : p.server = t.server /\ p.gen = t.gen
       THEN ToClient(t.client, [type |-> "StreamAck", server |-> t.server, gen |-> t.gen])
       ELSE UNCHANGED inbox
    /\ Served
    /\ UNCHANGED <<deferred, managerVars, phase, handlerVars, localVars>>

\* Mutants: a stream is matched by its service alone, or by its generation alone.
StreamMatches_AnyGeneration(p, t) == p.key = KeyOf[t.srv]
StreamMatches_AnyService(p, t) == t.gen = 0 \/ p.gen = t.gen

\* Generation 0 is a local server that does not know its generation.
StreamMatches(p, t) == p.key = KeyOf[t.srv] /\ (t.gen = 0 \/ p.gen = t.gen)

Stream ==
    /\ HeadIs("Stream")
    /\ LET t == Head(queue) IN
       \/ \E p \in PendingOf(t.client) :
             /\ StreamMatches(p, t)
             /\ ToClient(t.client, [type |-> "StreamResp", srv |-> t.srv, sid |-> t.sid,
                                    gen |-> p.gen])
       \/ /\ \A p \in PendingOf(t.client) : ~StreamMatches(p, t)
          /\ UNCHANGED inbox
    /\ Served
    /\ UNCHANGED <<deferred, managerVars, phase, handlerVars, localVars>>

-----------------------------------------------------------------------------
(* ManagerTask::Subcribe.  The manager awaits between two candidates, so the *)
(* choice takes several steps, during which the task stays at the head.      *)

LimitReached(k) == nsCount[NamespaceOf[k]] >= MaxStreams

\* No server can be asked: a first attempt fails, a later one may be retried.
Unavailable(excl) ==
    IF excl = {} THEN [type |-> "SubcribeFailed", code |-> "missing"]
    ELSE [type |-> "SubcribeRetry"]

Answer(m) ==
    /\ inbox' = Post(inbox, Head(queue).conn, m)
    /\ Served
    /\ UNCHANGED <<deferred, managerVars, phase, handlerVars, localVars>>

SubcribeOverLimit ==
    /\ HeadIs("Subcribe") /\ LimitReached(KeyOf[Head(queue).conn])
    /\ Answer([type |-> "SubcribeFailed", code |-> "limit"])

SubcribeMissing ==
    /\ HeadIs("Subcribe") /\ ~LimitReached(KeyOf[Head(queue).conn])
    /\ EntriesOf(KeyOf[Head(queue).conn]) = {}
    /\ Answer(Unavailable(Head(queue).excluded))

SubcribeAdmissible ==
    /\ HeadIs("Subcribe") /\ ~LimitReached(KeyOf[Head(queue).conn])
    /\ EntriesOf(KeyOf[Head(queue).conn]) # {}

SubcribeOverRate ==
    /\ SubcribeAdmissible
    /\ Answer([type |-> "SubcribeFailed", code |-> "rate"])

SubcribeAdmit ==
    /\ SubcribeAdmissible
    /\ selecting' = TRUE
    /\ UNCHANGED <<queue, deferred, managerVars, phase, inbox, handlerVars, localVars>>

\* Mutant: the excluded registrations are not filtered out.
Candidates_All(t) == EntriesOf(KeyOf[t.conn])

\* Candidates are tried newest first; one that fails leaves the registry.
Candidates(t) ==
    {r \in EntriesOf(KeyOf[t.conn]) : [server |-> r.id, gen |-> r.gen] \notin t.excluded}
Newest(r, t) == r \in Candidates(t) /\ \A q \in Candidates(t) : q.gen <= r.gen

\* The candidate has no sender, or its handler no longer receives.
SelectFailed ==
    /\ selecting
    /\ \E r \in registry :
          /\ Newest(r, Head(queue))
          /\ active[r.id] # None => SendFails(active[r.id])
          /\ Unregister(r.key, r.id)
    /\ UNCHANGED <<queue, deferred, selecting, phase, inbox, handlerVars, localVars>>

\* A new pending slot is counted; a retry takes over the slot it holds.
\* Mutant: every selection counts.
CountUp_Always(i, n) == [nsCount EXCEPT ![n] = @ + 1]
CountUp(i, n) == IF PendingOf(i) = {} THEN [nsCount EXCEPT ![n] = @ + 1] ELSE nsCount

\* The candidate is asked for a stream, the client is filed, and answered; if
\* the client is gone its sender is dropped and the pending slot is left.
SelectOk ==
    /\ selecting
    /\ \E r \in registry :
          LET c   == Head(queue).conn
              i   == Head(queue).id
              act == IF active[i] = None THEN SignUp(active, i, c) ELSE active
              req == [type |-> "StreamReq", client |-> i, gen |-> r.gen]
              rsp == [type |-> "SubcribeResp", server |-> r.id, gen |-> r.gen]
          IN /\ Newest(r, Head(queue))
             /\ active[r.id] # None /\ SendSucceeds(active[r.id])
             /\ inbox' = Post(Post(inbox, active[r.id], req), c, rsp)
             /\ active' = IF Receiving(c) THEN act ELSE DropSender(act, i)
             /\ idle' = IF Receiving(c) THEN idle ELSE Recycle(act, idle, i)
             /\ pending' = (pending \ PendingOf(i)) \cup
                    {[client |-> i, server |-> r.id, gen |-> r.gen, key |-> r.key]}
             /\ nsCount' = CountUp(i, NamespaceOf[r.key])
    /\ Served
    /\ UNCHANGED <<deferred, nextId, nextGen, registry, phase, handlerVars, localVars>>

SelectNone ==
    /\ selecting
    /\ Candidates(Head(queue)) = {}
    /\ Answer(Unavailable(Head(queue).excluded))

Manager ==
    \/ Accept \/ AcceptStream \/ RegisterFail \/ Register
    \/ DeRegisterServerConn \/ RetireServerConn \/ DeRegisterClientConn
    \/ StreamAck \/ Stream
    \/ SubcribeOverLimit \/ SubcribeMissing \/ SubcribeOverRate \/ SubcribeAdmit
    \/ SelectFailed \/ SelectOk \/ SelectNone

-----------------------------------------------------------------------------
(* Handlers: what both kinds share *)

Goto(c, p) == phase' = [phase EXCEPT ![c] = p]

\* The listener sends every connection it accepts to the manager.
Connect(c) ==
    /\ phase[c] = "new"
    /\ Send([type |-> "Accept", conn |-> c])
    /\ Goto(c, "accepting")
    /\ UNCHANGED <<deferred, selecting, managerVars, inbox, handlerVars, localVars>>

\* The handler task is over.
Exit(c) ==
    /\ cid' = [cid EXCEPT ![c] = None]
    /\ sid' = [x \in Clients |-> IF x = c THEN None ELSE sid[x]]

\* The request is not read, not authenticated or not admissible, or a server
\* handler is cancelled while its registration waits for room in the queue:
\* the connection closes before any guard exists.
Reject(c) ==
    /\ c \in Faulty /\ phase[c] = "accepted"
    /\ Goto(c, "closed")
    /\ Exit(c)
    /\ UNCHANGED <<queue, deferred, selecting, managerVars, inbox, gen, attempt, excluded, peer,
                   localVars>>

Guarded(c) ==
    \/ c \in Servers /\ phase[c] \in {"registering", "live", "closing"}
    \/ c \in Clients /\ phase[c] \in {"accepted", "subscribe", "await_sub", "await_ack",
                                      "await_ready", "forwarding", "closing"}

DeregisterTask(c) ==
    IF c \in Servers THEN [type |-> "DeRegisterServerConn", key |-> KeyOf[c], id |-> cid[c]]
    ELSE [type |-> "DeRegisterClientConn", server |-> sid[c], id |-> cid[c]]

\* What a handler was waiting for dies when it stops; a request that reached
\* the local server may still be dialled, but not acknowledged.
Forget(c) ==
    /\ inbox' = [inbox EXCEPT ![c] = <<>>]
    /\ attempt' = [x \in Clients |-> IF x = c THEN None ELSE attempt[x]]
    /\ excluded' = [x \in Clients |-> IF x = c THEN {} ELSE excluded[x]]
    /\ peer' = [x \in Clients |-> IF x = c THEN None ELSE peer[x]]
    /\ toAck' = {a \in toAck : a.srv # c}
    /\ UNCHANGED <<gen, toDial, dialled>>

\* The handler ended, with or without an error: its guard deregisters it.
Close(c) == Goto(c, "closing") /\ Forget(c) /\ UNCHANGED <<cid, sid>>

Deregister(c) ==
    /\ phase[c] = "closing"
    /\ Send(DeregisterTask(c))
    /\ Goto(c, "closed")
    /\ Exit(c)
    /\ UNCHANGED <<deferred, selecting, managerVars, inbox, gen, attempt, excluded, peer,
                   localVars>>

\* Mutants: a full queue loses the deregistration; a server handler that has
\* not been answered has no guard yet.
Cancel_Lossy(c) ==
    /\ c \in Faulty /\ Guarded(c)
    /\ IF Room THEN queue' = Append(queue, DeregisterTask(c)) ELSE UNCHANGED queue
    /\ Goto(c, "closed")
    /\ Forget(c) /\ Exit(c)
    /\ UNCHANGED <<deferred, selecting, managerVars>>
Cancel_LateGuard(c) ==
    /\ c \in Faulty /\ Guarded(c)
    /\ \/ Room /\ phase[c] # "registering" /\ queue' = Append(queue, DeregisterTask(c))
       \/ phase[c] = "registering" /\ UNCHANGED queue
    /\ Goto(c, "closed")
    /\ Forget(c) /\ Exit(c)
    /\ UNCHANGED <<deferred, selecting, managerVars>>

\* run_while_credential_active drops the handler when the credential is revoked
\* or expires: the guard's Drop tries to send, and spawns a task for the
\* deregistration when the queue is full.
Cancel(c) ==
    /\ c \in Faulty /\ Guarded(c)
    /\ \/ Room /\ queue' = Append(queue, DeregisterTask(c)) /\ UNCHANGED deferred
       \/ ~Room /\ deferred' = deferred \cup {DeregisterTask(c)} /\ UNCHANGED queue
    /\ Goto(c, "closed")
    /\ Forget(c) /\ Exit(c)
    /\ UNCHANGED <<selecting, managerVars>>

SendDeferred ==
    /\ \E t \in deferred : Send(t) /\ deferred' = deferred \ {t}
    /\ UNCHANGED <<selecting, managerVars, phase, inbox, handlerVars, localVars>>

\* Take the first message off a channel.
Received(c, type) == inbox[c] # <<>> /\ Head(inbox[c]).type = type
Take(c) == inbox' = [inbox EXCEPT ![c] = Tail(@)]

-----------------------------------------------------------------------------
(* The server handler *)

SendRegister(s) ==
    /\ phase[s] = "accepted"
    /\ Send([type |-> "Register", conn |-> s, id |-> cid[s]])
    /\ Goto(s, "registering")
    /\ UNCHANGED <<deferred, selecting, managerVars, inbox, handlerVars, localVars>>

RecvRegistered(s) ==
    /\ phase[s] = "registering" /\ Received(s, "RegisterResp")
    /\ gen' = [gen EXCEPT ![s] = Head(inbox[s]).gen]
    /\ Take(s)
    /\ Goto(s, "live")
    /\ UNCHANGED <<queue, deferred, selecting, managerVars, cid, attempt, excluded, peer,
                   sid, localVars>>

RecvRegisterFailed(s) ==
    /\ phase[s] = "registering" /\ inbox[s] # <<>> /\ ~Received(s, "RegisterResp")
    /\ Close(s)
    /\ UNCHANGED <<queue, deferred, selecting, managerVars>>

\* Every sender of the channel is gone: the handler's receive fails.
Unreachable(s) ==
    /\ inbox[s] = <<>>
    /\ \A i \in Ids : active[i] # s
    /\ \A n \in 1 .. Len(queue) : queue[n].type = "Register" => queue[n].conn # s

LoseSender(s) ==
    /\ phase[s] \in {"registering", "live"} /\ Unreachable(s)
    /\ Close(s)
    /\ UNCHANGED <<queue, deferred, selecting, managerVars>>

\* Mutant: a request is only written while the handler's sender is filed.
ForwardStreamReq_Filed(s) ==
    /\ phase[s] = "live" /\ Received(s, "StreamReq") /\ active[cid[s]] = s
    /\ LET m == Head(inbox[s])
           q == [srv |-> s, client |-> m.client, gen |-> IF s \in Legacy THEN 0 ELSE m.gen]
       IN toAck' = toAck \cup {q} /\ toDial' = toDial \cup {q}
    /\ Take(s)
    /\ UNCHANGED <<queue, deferred, selecting, managerVars, phase, handlerVars, dialled>>

\* handle_stream_req: the request is written to the local server, which will
\* acknowledge it and dial a stream connection, in any order or never.
ForwardStreamReq(s) ==
    /\ phase[s] = "live" /\ Received(s, "StreamReq")
    /\ LET m == Head(inbox[s])
           q == [srv |-> s, client |-> m.client, gen |-> IF s \in Legacy THEN 0 ELSE m.gen]
       IN toAck' = toAck \cup {q} /\ toDial' = toDial \cup {q}
    /\ Take(s)
    /\ UNCHANGED <<queue, deferred, selecting, managerVars, phase, handlerVars, dialled>>

\* A message for the client that had this id before is logged and dropped.
IgnoreUnexpected(s) ==
    /\ phase[s] = "live" /\ inbox[s] # <<>>
    /\ ~Received(s, "StreamReq") /\ ~Received(s, "Retire")
    /\ Take(s)
    /\ UNCHANGED <<queue, deferred, selecting, managerVars, phase, handlerVars, localVars>>

RecvRetire(s) ==
    /\ phase[s] = "live" /\ Received(s, "Retire")
    /\ Close(s)
    /\ UNCHANGED <<queue, deferred, selecting, managerVars>>

\* The control connection fails, is closed by its peer, or its lease runs out.
LoseControl(s) ==
    /\ s \in Faulty /\ phase[s] = "live"
    /\ Close(s)
    /\ UNCHANGED <<queue, deferred, selecting, managerVars>>

\* handle_control_message: an acknowledgement arrives on the control connection.
ForwardStreamAck(s) ==
    /\ phase[s] = "live"
    /\ \E q \in toAck :
          /\ q.srv = s
          /\ Send([type |-> "StreamAck", server |-> cid[s], client |-> q.client, gen |-> q.gen])
          /\ toAck' = toAck \ {q}
    /\ UNCHANGED <<deferred, selecting, managerVars, phase, inbox, handlerVars, toDial, dialled>>

-----------------------------------------------------------------------------
(* Stream connections: the local server dials, and the relay reads the request *)

Dial ==
    /\ \E q \in toDial : Send([type |-> "AcceptStream", req |-> q]) /\ toDial' = toDial \ {q}
    /\ UNCHANGED <<deferred, selecting, managerVars, phase, inbox, handlerVars, toAck, dialled>>

SendStream ==
    /\ \E d \in dialled :
          /\ Send([type |-> "Stream", srv |-> d.srv, sid |-> d.sid, client |-> d.client,
                   gen |-> d.gen])
          /\ dialled' = dialled \ {d}
    /\ UNCHANGED <<deferred, selecting, managerVars, phase, inbox, handlerVars, toAck, toDial>>

-----------------------------------------------------------------------------
(* The client handler: handle_client_conn and get_server_stream *)

SendSubcribe(c) ==
    /\ phase[c] \in {"accepted", "subscribe"}
    /\ Send([type |-> "Subcribe", conn |-> c, id |-> cid[c], excluded |-> excluded[c]])
    /\ Goto(c, "await_sub")
    /\ UNCHANGED <<deferred, selecting, managerVars, inbox, handlerVars, localVars>>

RecvSubcribeResp(c) ==
    /\ phase[c] = "await_sub" /\ Received(c, "SubcribeResp")
    /\ LET m == Head(inbox[c]) IN
       attempt' = [attempt EXCEPT ![c] = [server |-> m.server, gen |-> m.gen]]
    /\ Take(c)
    /\ Goto(c, "await_ack")
    /\ UNCHANGED <<queue, deferred, selecting, managerVars, cid, gen, excluded, peer, sid,
                   localVars>>

\* Before the recovery deadline a retry sleeps 50 ms and subscribes again.
RecvSubcribeRetry(c) ==
    /\ phase[c] = "await_sub" /\ Received(c, "SubcribeRetry")
    /\ Take(c)
    /\ Goto(c, "subscribe")
    /\ UNCHANGED <<queue, deferred, selecting, managerVars, handlerVars, localVars>>

RecoveryExpired(c) ==
    /\ phase[c] = "await_sub" /\ Received(c, "SubcribeRetry")
    /\ Close(c)
    /\ UNCHANGED <<queue, deferred, selecting, managerVars>>

\* A refusal, or any message that is not an answer to a subscribe.
RecvOther(c) ==
    /\ phase[c] = "await_sub" /\ inbox[c] # <<>>
    /\ ~Received(c, "SubcribeResp") /\ ~Received(c, "SubcribeRetry")
    /\ Close(c)
    /\ UNCHANGED <<queue, deferred, selecting, managerVars>>

\* CLIENT_CONN_CONTROL_TIMEOUT
SubcribeTimeout(c) ==
    /\ phase[c] = "await_sub" /\ inbox[c] = <<>>
    /\ Close(c)
    /\ UNCHANGED <<queue, deferred, selecting, managerVars>>

\* The registration this attempt was given is not to be selected again.
\* Mutant: the attempt is cleared first.
Exclude_Swapped(c) ==
    /\ attempt' = [attempt EXCEPT ![c] = None]
    /\ excluded' = [excluded EXCEPT ![c] = @ \cup {attempt'[c]}]
    /\ Goto(c, "subscribe")
Exclude(c) ==
    /\ excluded' = [excluded EXCEPT ![c] = @ \cup {attempt[c]}]
    /\ attempt' = [attempt EXCEPT ![c] = None]
    /\ Goto(c, "subscribe")

\* Mutant: nothing bounds the wait for a stream that was acknowledged.
StreamTimeout_AckOnly(c) ==
    /\ phase[c] = "await_ack" /\ inbox[c] = <<>>
    /\ Send([type |-> "RetireServerConn", key |-> KeyOf[c], id |-> attempt[c].server])
    /\ Exclude(c)
    /\ UNCHANGED <<deferred, selecting, managerVars, inbox, cid, gen, peer, sid, localVars>>

\* PB_MAPPER_STREAM_ACK_TIMEOUT and PB_MAPPER_STREAM_READY_TIMEOUT
StreamTimeout(c) ==
    /\ phase[c] \in {"await_ack", "await_ready"} /\ inbox[c] = <<>>
    /\ Send([type |-> "RetireServerConn", key |-> KeyOf[c], id |-> attempt[c].server])
    /\ Exclude(c)
    /\ UNCHANGED <<deferred, selecting, managerVars, inbox, cid, gen, peer, sid, localVars>>

IsStream(c) == Received(c, "StreamResp") /\ Head(inbox[c]).gen = attempt[c].gen
IsAck(c) ==
    /\ Received(c, "StreamAck")
    /\ Head(inbox[c]).server = attempt[c].server
    /\ Head(inbox[c]).gen = attempt[c].gen

\* The stream is here, with or without an acknowledgement before it.
RecvStream(c) ==
    /\ phase[c] \in {"await_ack", "await_ready"} /\ IsStream(c)
    /\ peer' = [peer EXCEPT ![c] = Head(inbox[c]).srv]
    /\ sid' = [sid EXCEPT ![c] = Head(inbox[c]).sid]
    /\ inbox' = [inbox EXCEPT ![c] = <<>>]
    /\ excluded' = [excluded EXCEPT ![c] = {}]
    /\ Goto(c, "forwarding")
    /\ UNCHANGED <<queue, deferred, selecting, managerVars, cid, gen, attempt, localVars>>

\* write_subscribe_response fails: the stream is dropped.
LoseClient(c) ==
    /\ c \in Faulty /\ phase[c] \in {"await_ack", "await_ready"} /\ IsStream(c)
    /\ Close(c)
    /\ UNCHANGED <<queue, deferred, selecting, managerVars>>

RecvStreamAck(c) ==
    /\ phase[c] = "await_ack" /\ IsAck(c)
    /\ Take(c)
    /\ Goto(c, "await_ready")
    /\ UNCHANGED <<queue, deferred, selecting, managerVars, handlerVars, localVars>>

\* A stale answer gives the attempt up without retiring the server.
RecvStale(c) ==
    /\ \/ phase[c] = "await_ack" /\ inbox[c] # <<>> /\ ~IsAck(c)
       \/ phase[c] = "await_ready" /\ Received(c, "StreamResp")
    /\ ~IsStream(c)
    /\ Take(c)
    /\ Exclude(c)
    /\ UNCHANGED <<queue, deferred, selecting, managerVars, cid, gen, peer, sid, localVars>>

RecvNotStream(c) ==
    /\ phase[c] = "await_ready" /\ inbox[c] # <<>> /\ ~Received(c, "StreamResp")
    /\ Close(c)
    /\ UNCHANGED <<queue, deferred, selecting, managerVars>>

\* Either side ends, the handshake fails, or the server's credential expires.
FinishForwarding(c) ==
    /\ phase[c] = "forwarding"
    /\ Close(c)
    /\ UNCHANGED <<queue, deferred, selecting, managerVars>>

-----------------------------------------------------------------------------
ServerStep(s) ==
    \/ SendRegister(s) \/ RecvRegistered(s) \/ RecvRegisterFailed(s) \/ LoseSender(s)
    \/ ForwardStreamReq(s) \/ IgnoreUnexpected(s) \/ RecvRetire(s) \/ LoseControl(s)
    \/ ForwardStreamAck(s)

ClientStep(c) ==
    \/ SendSubcribe(c) \/ RecvSubcribeResp(c) \/ RecvSubcribeRetry(c) \/ RecoveryExpired(c)
    \/ RecvOther(c) \/ SubcribeTimeout(c) \/ StreamTimeout(c) \/ RecvStream(c)
    \/ LoseClient(c) \/ RecvStreamAck(c) \/ RecvStale(c) \/ RecvNotStream(c)
    \/ FinishForwarding(c)

Next ==
    \/ Manager
    \/ \E c \in Conns : Connect(c) \/ Reject(c) \/ Deregister(c) \/ Cancel(c)
    \/ \E s \in Servers : ServerStep(s)
    \/ \E c \in Clients : ClientStep(c)
    \/ SendDeferred \/ Dial \/ SendStream

Spec == Init /\ [][Next]_vars

(* The manager and every handler task keep running.  A task blocked on a full   *)
(* queue is woken in its turn, so its sends are strongly fair; the recovery     *)
(* deadline passes.  Nothing is assumed of the peers: a local server may never  *)
(* acknowledge or dial, a connection may never fail or finish.                  *)
ServerProgress(s) ==
    \/ SendRegister(s) \/ RecvRegistered(s) \/ RecvRegisterFailed(s) \/ LoseSender(s)
    \/ ForwardStreamReq(s) \/ IgnoreUnexpected(s) \/ RecvRetire(s) \/ Deregister(s)

ClientProgress(c) ==
    \/ SendSubcribe(c) \/ RecvSubcribeResp(c) \/ RecvSubcribeRetry(c) \/ RecvOther(c)
    \/ StreamTimeout(c) \/ RecvStream(c) \/ RecvStreamAck(c) \/ RecvStale(c)
    \/ RecvNotStream(c) \/ Deregister(c)

Fairness ==
    /\ WF_vars(Manager)
    /\ \A s \in Servers : SF_vars(ServerProgress(s))
    /\ \A c \in Clients : SF_vars(ClientProgress(c)) /\ SF_vars(RecoveryExpired(c))
    /\ SF_vars(SendDeferred)

FairSpec == Spec /\ Fairness

-----------------------------------------------------------------------------
(* Safety *)

\* A control connection the manager can still reach is one a subscribe can
\* select: a sender filed for a server handler always has its registration.
\* (Register and the five paths that take a registration away.)
SendersAreSelectable ==
    \A i \in Ids : active[i] \in Servers =>
        \E r \in registry : r.id = i /\ r.key = KeyOf[active[i]]

\* A client never forwards to a stream of a service, hence of a namespace, it did
\* not subscribe to, however ids are reused and answers delayed (the key check of
\* ManagerTask::Stream and the generation check of get_server_stream).
StreamOfSubscribedService ==
    \A c \in Clients : phase[c] = "forwarding" => KeyOf[peer[c]] = KeyOf[c]

\* It forwards to the very registration its last attempt was given, unless the
\* local server does not send its generation: a retry is not joined with a
\* stream an earlier attempt asked for.  It takes registrations that do not share
\* an id: a request goes to whoever is filed under the id.
StreamOfLastAttempt ==
    \A c \in Clients : phase[c] = "forwarding" =>
        peer[c] \in Legacy \/ gen[peer[c]] = attempt[c].gen

\* The stream count of a namespace is the number of its pending slots, so the
\* stream limit neither leaks nor is exceeded.  It takes a relay that serves one
\* namespace: see CountsAreReleased.
SlotsAreCounted ==
    \A n \in Namespaces : nsCount[n] = Cardinality(SlotsOf(n)) /\ nsCount[n] <= MaxStreams

\* A pending slot is never orphaned: a client handler with that id will
\* deregister it, or its deregistration is on the way to the manager.
WillRelease(i) ==
    \/ \E c \in Clients : cid[c] = i /\ Guarded(c)
    \/ \E t \in deferred \cup Range(queue) : t.type = "DeRegisterClientConn" /\ t.id = i
SlotsAreOwned == \A p \in pending : WillRelease(p.client)

\* A retry never gets a registration this client has already given up.
NeverReselected ==
    [][\A c \in Clients : attempt'[c] # attempt[c] => attempt'[c] \notin excluded[c]]_vars

-----------------------------------------------------------------------------
(* Liveness *)

\* A subscribe never hangs: every wait of every turn of its loop ends, with a
\* stream, an error or a retry, so that it completes once no registration comes
\* for its service.  While they keep coming it may go on: the recovery deadline
\* is read where no candidate is left (client.rs:507), not where a timeout or a
\* stale stream starts the next turn, and nothing else has to end the turns.
Registering(key) == Register /\ KeyOf[Head(queue).conn] = key
SubcribeCompletes ==
    \A c \in Clients :
        <>[][~Registering(KeyOf[c])]_vars =>
            (phase[c] \in {"subscribe", "await_sub", "await_ack", "await_ready"}
                ~> phase[c] \in {"forwarding", "closing", "closed"})

\* What a handler was given outlives it only for a while, though it may end at
\* any point and its deregistration be deferred: when every client handler has
\* ended no slot is left to count against a limit, and when every server handler
\* has, no registration is left to be selected.
NothingIsLeftBehind ==
    /\ (\A c \in Clients : phase[c] = "closed") ~> pending = {}
    /\ (\A s \in Servers : phase[s] = "closed")
          ~> registry = {} /\ \A i \in Ids : active[i] \notin Servers

\* A control connection that was retired, or whose id was given to another, does
\* not linger: its local server is told to register again.
UnreachableServerCloses ==
    \A s \in Servers :
        phase[s] = "live" /\ (\A i \in Ids : active[i] # s) ~> phase[s] \in {"closing", "closed"}

-----------------------------------------------------------------------------
(* What the documents say and the code does not do *)

\* What CHANGELOG.md says of deregistration: one that comes late or twice does
\* not take away the sender of a handler that is still running.
StaleDeregistrationIsHarmless ==
    [][\A i \in Ids :
          /\ HeadIs("DeRegisterServerConn")
          /\ active[i] # None /\ active'[i] = None
          => phase[active[i]] \in {"closing", "closed"}]_vars

\* What docs/user-guide.md says of the stream limit, that it is one on the active
\* streams of a namespace: when no client is connected, and nothing of one is on
\* the way, nothing counts.  A slot that outlived its client and was inherited
\* with its id by a client of another namespace stays counted for ever.
CountsAreReleased ==
    /\ \A c \in Clients : phase[c] \in {"new", "closed"}
    /\ queue = <<>> /\ deferred = {}
    => \A n \in Namespaces : nsCount[n] = 0
=============================================================================
